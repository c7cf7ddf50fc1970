# Bomberman on an FPGA: the TLA+ development

The repository is a two-player Bomberman for a MAX10 board: SystemVerilog for the game and the
video, and a C program on a NIOS II soft core that drives a USB keyboard, on top of the vendor's
board support package. There is no simulation and no test bench in it. This directory models the
game as it is wired in `src/bomberman.sv`, the picture it puts on the screen, the USB host from
the main loop down to single packets and bytes on the SPI bus, and the part of the board support
package that this system links; TLC checks the models on small instances, and TLAPS proves their
safety for instances of every size.

## 1. Inventory

### Clocks and processes

| clock or process | drives | source |
|---|---|---|
| 50 MHz oscillator | pixel divider, `user1`'s `port_count` | `VGA_controller.sv:53`, `user1.sv:137` |
| pixel clock, 25 MHz | raster counters, `color_mapper` (`die_addr`, brick writes, colours), all map RAMs, `user2`'s `port_count` | `VGA_controller.sv`, `Color_Mapper.sv` |
| rising edge of `VGA_VS`, 60 Hz | game state machine, both players, both bombs, both fuses | `bomberman.sv:196-326` |
| NIOS program, asynchronous | the keycode register (PIO) | `software/usb_kb/main.c` |
| interrupts of timer and JTAG UART | alarms; the rings of the terminal | `altera_avalon_timer_sc.c`, `altera_avalon_jtag_uart_init.c` |
| the USB chip, the SPI core | packets; bytes | external; `nios_soc_spi0.v` |
| `KEY[0]`, asynchronous | resets everything but the video timing and the NIOS | `bomberman.sv:124` |

### Components

| component | state | operations | talks to |
|---|---|---|---|
| video timing, `VGA_controller.sv` | divider, line and pixel counter, two sync registers | one pixel | its `vs` clocks the game |
| game state machine, `state_machine.sv` | state, count | one frame, reset | keycode, both `die_flag`s in; state out to players and `color_mapper` |
| bomb registers, `bomb1.sv` (twice) | `bomb_check`, `make_bomb`, position | remove, place, keep | player's `bomb_drop` and position, fuse state |
| fuse, `bombstate_machine.sv` (twice) | state, count | one frame | `bomb_check` in; state out to `bomb1` and `color_mapper` |
| players, `user1.sv`, `user2.sv` | position, motion, four wall flags, hit, teleport and die flags, lives, four copies of the map | frame of play, frozen frame, brick write, reset | keycode, game state, `die_addr`, the other's position |
| blasts and picture, `Color_Mapper.sv` | ten `die_addr` registers, a map RAM, a set of colour registers per sprite | set, clear and break, load and show colours while the beam passes | bombs' states and positions; players read `die_addr`, the map copies follow its writes |
| main loop, `software/usb_kb/main.c` | running flag, device class | look the device up, poll it, start over after it has run | calls the USB host; stores the keycode the game reads |
| USB host, `MAX3421E.c`, `transfer.c`, `HID.c` | task state, device table, settle time | probe the bus, serve an interrupt, one step of the enumeration | the chip; one transfer after the other |
| transfers, `transfer.c` | retry and NAK counts, deadline, toggles | setup, data and status stage, packet by packet | the chip's registers, over a line that loses packets |
| SPI access, `altera_avalon_spi.c`, `MAX3421E.c` | bytes written, answers to drop, credits; the core's four registers | read or write a register or a FIFO of the chip | SPI core, which shifts meanwhile |
| terminal, `altera_avalon_jtag_uart_*.c` | two rings, interrupt enables, activity counter | write, read, close, ioctl, interrupt, timeout callback | the device's FIFOs and the host behind them |
| clock and alarms, `alt_tick.c`, `alt_alarm_start.c` | tick counter, a linked list | start, stop, tick with callbacks | the timer's interrupt |
| descriptors, `alt_open.c` and others | the table, its high-water mark, device list | open, close, read, write, lock, fcntl, ioctl, redirect | the drivers |

Behaviours that are hard here: everything in the game is clocked by the same edge and reads what
the others were *before* it, so every exchange between two modules is a frame late; the two
priority chains in a player work on flags of different frames, and the two in the picture on
different clocks; blast registers are written while the beam passes and must be cleared in a
state that lasts a single frame; counters are 3, 4 and 8 bits wide and are compared for equality;
a pause stops some of the state and not the rest; `KEY[0]` can come at any time and resets most
of it. On the NIOS, devices are plugged and pulled while the program is between two reads of the
same chip; an interrupt is acknowledged after the bus was sampled; the enumeration is a state
machine that an interrupt handler writes to as well (`usb_task_state++`); packets, and the
handshakes of packets that arrived, get lost, and an answer may come after the program has given
up; deadlines are taken from a clock that wraps. In the board support package a ring is filled by
the program and emptied by a handler without a lock, interrupts are enabled by both, the host
may be silent or gone, callbacks change the list that is being walked, and the SPI core shifts on
while the program is away in a handler.

### What makes each component correct

* video timing: frame edges only in blanking, exactly one between two scans, the coins of the
  safeports read in phase;
* game state machine: the blinking stays in step with its free-running count, a win screen
  lasts, a held restart key works;
* bomb and fuse: together one bomb with one clock, planted only when the last one is gone,
  deadly in three bursts, and never there for ever;
* players: never deep in a wall by their own walking, bumps and teleports end, the die flag
  means what it says;
* blasts and picture: whoever stands in one is hit in that frame, nobody is hit otherwise, none
  is left over but where the one clearing scan is skipped; a blast is drawn in its own colours;
* the whole: a player without lives loses;
* USB host and main loop: what is polled is what is plugged in, with the driver that fits; no
  unset pointer is followed; a device that goes leaves nothing behind; a keyboard that is
  plugged in gets to run;
* transfers: every call returns; a descriptor is whole; reports arrive in order, and once unless an
  answer has come late;
* SPI access: a command is one frame, and its answers belong to its own bytes;
* terminal: characters arrive in order, none lost, none twice, and no call waits for ever;
* alarms: each on the tick it was asked for; descriptors: none leaks, a locked device stays
  closed to others.

## 2. Modules

| module | models | composed of |
|---|---|---|
| `BombLife` | abstract: one bomb, its age, its spot, whether it is deadly | |
| `BombFuse` | `bomb1` + `bombstate_machine` | implements `BombLife` |
| `GameKeys`, `GameState` | `state_machine`: its numbers, its behaviour | |
| `VgaTiming`, `VgaController` | `vga_controller`: its geometry, its behaviour | |
| `Console` | raster, state machine, both port counters on the clocks the top level gives them | `VgaController`, `GameState` |
| `PlayerRules` | `user1` / `user2`: what one frame does to a player, as operators | |
| `Player` | one player with arbitrary inputs | `PlayerRules` |
| `Match` | the game as wired in `bomberman.sv` with `color_mapper`'s registers | `GameState`, `BombFuse` twice, `PlayerRules` |
| `Picture` | `color_mapper`'s two colour chains | `Match` |
| `UsbHost` | `main.c`, `MAX3421E.c`, `transfer.c`, `HID.c`: the main loop and what it calls, the chip and the bus; a transfer is one step | |
| `ReportLink` | abstract: what an interrupt endpoint promises | |
| `UsbTransfer` | `transfer.c`: transfers packet by packet, the chip, the line and the device | implements `ReportLink` |
| `TextStream` | abstract: what a terminal line promises | |
| `JtagUart` | the terminal's driver and device | |
| `Alarms` | ticks and the alarm list, pointer by pointer | |
| `FileTable` | the descriptors | |
| `SpiMaster` | `alt_avalon_spi_command`, its callers in `MAX3421E.c`, the SPI core | |
| `Hal` | start-up, the program, both interrupts, the SPI core | the four above; implements `TextStream` |
| `BombFuseProofs`, `ConsoleProofs`, `PlayerRulesProofs`, `PlayerProofs`, `MatchProofs`, `UsbHostProofs`, `UsbTransferProofs`, `HalProofs` | theorems, see section 5 | |
| `MC*` | boards, key sets and limits for TLC | |

**State.** Registers keep the names they have in the source; states of the machines are strings
with the source's names. A player is one record, its four `wall_` flags a set. Tile numbers
(`row * 20 + column`, 10 bits) are shown as pairs. A `die_addr` register that holds 300, "off
screen", is an empty set: tile 300 is below the board, and the board edge is tested before the
registers are. Locals of a C function that survive a step are variables, named as in the code.

**Steps of the game.** In `BombFuse`, `GameState` and `Player` one step is one rising edge of
`VGA_VS`, an asynchronous reset, or (`SetKeycode`, `Break`) one write from another clock domain
between two edges. In `Match` one step is a whole frame: the raster scan, in which `color_mapper`
passes each tile once and sets or clears `die_addr` and breaks bricks, then the edge, at which
all other registers move together. That scan and edge take turns and never overlap is what
`Console` shows, whose steps are the edges of the oscillator. What `Scanned` and `Struck` say of
a scan does not depend on the order of tiles within it: fuse states and positions do not change
during a scan. For the same reason `Picture` needs no variables: `Loaded` and `Shows` say for a
tile which colour registers are loaded, and which are shown, when the beam passes it.

**Steps of the program.** In `UsbHost` a pass of the main loop is three to five steps, `pc` says
which is next: `MAX3421E_Task` ("irq", and "ack" for the acknowledgement of the interrupt, which
is a register access of its own), `USB_Task` ("task", one action per `case`), the rest of the
loop ("main"), and `MAX3421E_init` with `USB_init` ("init", "clear") when the loop starts over.
The bus changes between any two of them. The program is single-threaded and sees the bus only
through the chip's registers: this is as fine as the code can tell, apart from a change in the
middle of a transfer, which is a transfer that fails. `UsbTransfer` takes a transfer apart: a
step of the program is what it does between two looks at HIRQ ("wait" is `XferDispatchPkt`'s
loop, "result" what its caller does with the result), and the chip, the device, the clock and the
line move in between. In `Hal` a step of the program is what it does between two accesses to
something a handler or a device changes as well, and a handler may come between any two; handlers
are not interrupted. `Hal` is not just this program's board support package: the program calls
whatever the interface allows, in one behaviour mostly of one kind (`use`), since the parts share
only the interrupts.

**One definition per idea.** `Sense` is the first priority chain of a player's block (the first
test that holds), `Flagged` what that chain assigns, `Moved` the second chain, which reads the
flags of the frame before and overrides the first. `Sense`, and the chains of `Picture`, are
alternatives in the source's order because that order is what the findings below turn on.

**Initial states** are those after a first `KEY[0]`; power-up values of registers without an
initialiser are not modelled. The raster has no reset and starts from zeros. `UsbTransfer` starts
with a device that has just been reset; `Hal` starts in `alt_main`.

### Abstractions

* Colours are the names of the registers that hold them; sprites may be transparent anywhere;
  ROM contents, text and the sprites' frames are left out.
* The map RAM's source, `map.v`, is not in the repository. From its uses (an address and a clock
  per port, `map.qip` naming an Altera RAM) it is modelled as a RAM whose output is one clock
  behind its address: in the first pixel of a tile `color_mapper` sees the left neighbour
  (`LooksOpen`, `Struck`).
* `port_count[0]`, the coin of a safeport, is free in `Player` and constant in `Match`. That it
  is constant, and 1, is `CoinsNeverTurn`.
* In `UsbHost` a USB transfer is delivered or fails as a whole. It can fail without reason only a
  bounded number of times (`Upset`); it fails for certain if the device is not there, at another
  address, of another speed, or the bus is in reset. In `UsbTransfer` each packet and each
  handshake can be lost, and enumeration is reduced to one read of a descriptor and one
  `SET_CONFIGURATION`; a byte is its position in the descriptor, a report its number.
* Of the chip: only `CONDETIRQ` is enabled and pulls the interrupt pin; a change of the bus
  raises it, and so may the start of a bus reset (the comment in `MAX3421E.c` says it does); the
  end of a bus reset raises `BUSEVENTIRQ`; a sample of the bus shows the line state for the
  device's and the host's speed, or both lines high when disturbed. Its FIFO holds two packets. HRSL
  is taken to show the line as it is when it is read: the requests for a sample, which the start and
  the waiting state make (`MAX3421E.c:215`, `transfer.c:266`) and the interrupt handler does not
  (`MAX3421E.c:158`), are left out.
* Time is `alt_nticks()*1000/1000`, which wraps (32 bits): the unit is a pass of the main loop in
  `UsbHost` and a millisecond in `UsbTransfer`, and the wrap is kept (`ClockTop`).
* A `KEY[0]` press is taken to last at least one scan, so that the maps are refilled.
* Characters are numbers in the order in which they are sent, bytes of an SPI command their
  positions, and the chip's answer to the k-th byte of a frame is k: enough to see one lost,
  repeated or moved.
* The program's calls on descriptors are one step each: nothing but the program touches the
  table. No two tasks share it (the HAL runs without an operating system).

## 3. Runs

| run | cfg | asks | bounds |
|---|---|---|---|
| `bomb_fuse` | `MCBombFuse` | are bomb and fuse one bomb with one clock, for any key, position and reset? | thresholds as in the source, three player positions |
| `console` | `MCConsole` | where do frame edges fall, and what do state machine and coins make of the frame clock the raster really produces? | a frame of 6 x 6 pixels with every margin of the real one; thresholds, 8-bit count and keycodes of the source |
| `player_moves` | `PlayerMoves` | what does the collision logic guarantee for every key sequence? | field of 3 x 3 tiles, pixel by pixel, a pillar, a brick in a corner that can break, a safeport that leads home or to a player two pixels inside the pillar, a blast; keys left, right and down, pauses; a player is followed for eight pixels off the field and for one hit |
| `player_lives` | `PlayerLives` | do bumps, teleports, hits and hazards end as they should? | the field with a safeport, a hazard and a breakable brick; keys of one axis |
| `match_duel` | `MatchDuel` | hits in the blast, in all of it, and nowhere else; what is left of a blast and when; a blast in its own colours | both bombs at every offset, short fuses, bricks, a safeport and a hazard around the homes, wins and resets |
| `match_solo` | `MatchSolo` | does a player without lives lose? | one player's bomb hits both, fairness of frames |
| `usb_host` | `MCUsbHost` | does the program set up and poll the device that is there? | two addresses, four disturbances (plug, pull, noise or a failed transfer), a clock of three values |
| `usb_transfer` | `MCUsbTransfer` | does every call return, and what arrives of descriptors and reports? | packets of two bytes, descriptors of two and four, three reports, limits of two retries and NAKs, two faults, one late answer, a clock of two values |
| `hal` | `MCHal` | does the board support package keep its promises under its interrupts and any program? | rings of 4 and FIFOs of 3 characters, six written or four typed, six descriptors, three devices, three alarms on a clock of three values, SPI transfers of 0 and 3 bytes |
| `player_caught` | `PlayerCaught` | *violated:* keys are always heard again | one axis, with pauses |
| `pause_blast` | `MatchPauseBlast` | *violated:* blast registers are put away after an explosion | the pause key |
| `lives_wrap` | `MatchLives` | *violated:* lost lives stay lost | a blast of nine frames |

**Why the bounds are enough.** Positions are pixels, and a tile has its 32 pixels in every run:
what shrinks is the number of tiles. The field of the player runs has every kind of
neighbourhood the real board has (corner, edge, pillar, wall, brick in a corner), the same
margins, and the same distance from the homes to the edges. In `player_moves` the other player
stands as deep in the pillar as a bump takes it, and the safeport is next to walls and reached from
the lane, so that a player is teleported into a wall, hit there, paused and sent home; every other
place of the other player is for the theorem. A player that has left the field goes round in its
10-bit registers, along an edge or across; the constraint `Followed` ends that eight pixels outside
(`Margin`), and after the second hit (`MaxDeaths`: the first one counts twice, and until the last
life is gone the count plays no part in walking). It cuts off no step that leaves the field, and the
run asks for no liveness.

Only `Match` shortens the fuse and the blink thresholds: their order is what its properties depend
on, and `BombFuse` and `GameState` are checked with the real ones and proved for all. The blast of
the duel run has each of its three bursts, and the board around the homes has every kind of tile
on an arm of a blast; the blast of `lives_wrap` needs nine frames, where the real one has 99.
`Console` keeps the parity of line and frame, on which the coins depend.

`UsbHost` has two addresses, the fewest with which a leaked slot differs from the one in use and
the table can be full; four disturbances are enough to plug a device, lose it in the middle of
its enumeration, swap it and disturb the swap, and to use up both addresses. Each premise and
each exception of `KeyboardServed` is needed: dropping any of them gives a counterexample within
these bounds. In `UsbTransfer` the limits are reached with the faults there are, a descriptor
takes one packet more than a full one, or ends with a short or an empty one, and three reports
use both toggles and come back to the first. In `Hal` six characters wrap the ring and fill ring
and FIFO, four typed ones fill the receive ring, the wait of a write and the activity counter
reach their ends, two alarms besides the UART's own are the fewest that can stop each other, and
three bytes are the fewest with one in the middle. The proofs hold for all bounds.

**Fairness.** `WF_vars(Frame)` (`Play`, `Clock`): the oscillator and `vga_controller`, which no
reset reaches, never stop. In `UsbHost`, `WF_vars(Program)` (the loop calls nothing that waits
for another task; a packet has a time limit and a limited number of retries, which
`TransferEnds` checks; the wait for the chip's oscillator, which has none, is assumed to end) and
`WF_vars(ResetEnds)` (the chip times a bus reset itself). In `UsbTransfer`, the program, the
clock and a chip that is not dead go on. In `Hal`, handlers go on (weak); the program and the
timer interrupt are held up by handlers again and again, and get through in between (strong);
the SPI core shifts (weak); a host that is connected takes what it is given and asks from time
to time (weak), but it may be disconnected at any time. Nothing is assumed of keys, of bombs, of
plugging, of the host's typing, of what the program calls. Resets have no fairness: they may
come at any time or never.

**Deadlock** is checked in every run but two. `usb_transfer` may stop when the reports and the
faults of a behaviour are used up, `hal` when the program has returned and waits in `exit`
with the host gone quiet.

**Properties.** Each property of a passing run has a mutant in `PROJECT.json`: a plausible slip
in the code that breaks it. Most are kept as definitions next to the ones they replace, named
`Definition_Slip`.

## 4. What the runs found

Kept as runs that must find the violation:

* **Caught by a pause** (`player_caught`). The pause clears the motion; a sprite that is one
  pixel in a wall then senses the wall, sets no flag as it has no motion, and never comes to the
  branch that reads keys. Only a blast or `KEY[0]` frees it.
* **Invisible blast** (`pause_blast`). `die_addr` is cleared in the scan that sees `Explode4`,
  which lasts one frame. Paused in that frame, the cross stays lethal until the next bomb ends.
  `NoStaleBlast` says in which frames a blast can be left behind: this is one of two. Without
  it nobody is hit but on the cross of a bomb in its blast (`HitsHaveCause`).
* **Lives that come back** (`lives_wrap`). A player at home in its own blast is hit every frame;
  `death_count` has three bits.

Seen while modelling, described by the modules, without a run of their own.

The game:

* Two wall flags: a player that turns in the frame its bump is sensed gets a second flag; the
  second chain serves one of them by a fixed priority while the edge test, first in its chain,
  keeps setting the other. The sprite slides along the edge, through bricks and off the field,
  deaf to keys and blasts. `LeavesOnlyTorn` shows that this is the only way out, and
  `StaysInBounds` that keys of one axis never lead there.
* The hazard tile: the report (p. 10, 15) says that it kills for an unknown reason.
  `HazardKills` is the reason: `max_lives` gains 2 in every frame on it and wraps at 16. A
  player that turns back on the first pixel gains two lives, as was once intended.
* A hit counts twice, because `bomb_flag` is cleared a frame after the player is home (once if
  the blast ends in between). That is why six lives are three, which the report (p. 10) wonders
  about.
* A safeport always leads to the same side: the bit of `port_count` it tosses is 1 at every
  frame edge (`CoinsNeverTurn`).
* The two branches that clear `die_addr` are an if and an else-if (`Color_Mapper.sv:1253`): when
  both fuses come to `Explode4` in one frame, only the first player's registers are cleared, and
  the second's cross stays lethal and invisible until its next bomb ends. Two bombs that are
  planted in one frame do that; it is the other exception of `NoStaleBlast`.
* Key 122 leaves a win screen (the report, p. 13, says only the reset does), and resets no
  player: the next game ends in its first frame.
* Fuses burn on during a pause; the report (p. 3) says the timings are paused.
* `KEY[0]` does not reset `port_flag`.
* The comment at `VGA_controller.sv:99` puts the sync pulse a line later than it is.
* If both players die in one frame, player 2 is shown as the winner.
* With the RAM's one clock of latency, a blast turns a safeport into path if the brick at its
  left is out of the blast's reach; and breaking any brick erases the tile that each player
  stands on in the top-left copy of its map. The other three corners go on seeing it
  (`WalksInTheOpen` excuses the top-left one on lost tiles only).
* A safeport that leads to a player that bumps into something puts the second one into the wall as
  well, up to two pixels deep. There it stands: it is put there again in every frame, then it is
  caught like the player of `player_caught`. It does not walk on inside the wall.

The picture (`OwnColours` holds for a blast while the other bomb is put away; with both bombs out
it does not):

* `Color_Mapper.sv:439` lacks parentheses around an "or": bricks and pickups left and right of
  the second player's bomb load the flame's registers in place of their own, and are drawn in
  colours left over from the last tile of their kind; the same happens to a brick on the arm of
  a bomb that does not explode while the other one does.
* In the one frame of `Explode4` all of the board that is not wall is drawn in the registers of
  the blast.

The USB host:

* A settle time that begins in the last 200 ms before `alt_nticks()*1000` wraps, every 71.6
  minutes, never ends: `usb_delay` lies past the top of the clock. The keyboard has to be
  plugged in again. A transfer whose deadline lies there ends only if the chip answers
  (`TransferEnds`).
* The connect interrupt is acknowledged after the bus is sampled: a device that is plugged in
  between is not noticed.
* Every enumeration that fails after `ADDRESSING` keeps a slot of the device table, until the
  host sees an empty bus.
* `usb_task_state++` for a bus event that is left over turns the state `INITIALIZE` into 2,
  which no `case` knows, and the device table is not cleared. `DriverFits` and `EndpointsExist`
  hold all the same.
* The state `ERROR`, 0xff, is masked to 0xf0 and ends in the `default` branch that says "Should
  never get here".
* After a packet has timed out, the `HXFRDNIRQ` of its late answer is taken for the end of the
  next packet: a report can get lost, and the last one can be taken for a new one, but none comes
  after a later one (`ReportLink` with `late`).
* The keycode register keeps the last report when a keyboard is pulled out with a key down.

The board support package:

* A write can come back short, or with `EIO`, from a host that is connected: the test after a
  wait (`altera_avalon_jtag_uart_write.c:187`) is for any idle second, not for the timeout.
* `alt_fd_lock.c:61` looks for other users of a device below `alt_max_fd` and so skips the
  highest descriptor: a lock is granted although that one has the device open, against the
  comment at 43-45. `LockedStaysClosed` is what remains true: once locked, the device is not
  opened by others.
* Without a host the first `printf` that fills the ring stalls up to the timeout of ten seconds,
  and the keyboard with it.
* A callback that stops the alarm after its own makes `alt_tick` go round in that entry for ever
  (`Owed` makes the exception explicit).
* A close with `O_NONBLOCK` while characters are left returns `-EWOULDBLOCK` and gives the
  descriptor back all the same.
* The read interrupt may be turned off although the ring has room, when a character comes in the
  clock of an empty read; harmless, as the next read turns it on (`ListensWhenEmpty`).
* Before `alt_io_redirect` the standard streams have the flags 0, which is `O_RDONLY`: a write to
  stdout would be refused.
* `alt_avalon_spi.c:55` wonders why more than one credit does not work. `Credits_Two` shows one
  way: with two bytes under way and the program in an interrupt handler, the second answer
  overwrites the first.

## 5. Proofs

TLAPS proves, for every value of the constants that satisfies the named assumptions:

* **`BombFuseProofs`** (`FuseAssumption`: the fuse is positive, blast thresholds rise and end
  below 254; `SpotAssumption`: positions have 10 bits). `TypeOK`, `HandShake`, `SpotTracksBomb`
  and `CountInPhase` are not inductive one by one: that a bomb is removed in the right frame
  needs the hand-shake, the hand-shake needs that no phase overruns, and that needs the count
  each phase starts from. `FuseInv` is their conjunction; `FuseStep` is the fuse's table of
  steps, `StepInv` the induction step, `FuseInvariant` the result; the theorems about its parts
  follow. `Refinement` (`Safety => Bomb!Safety`) then maps every frame to a step of `BombLife`:
  `FuseAges` says how the age moves, `FrameRefines` splits by age.
* **`ConsoleProofs`** (`TimingAssumption`: the order of visible part, sync pulse and end;
  `FlickerAssumption`: blink thresholds rise; `KeyAssumption`). First the two parts alone:
  `RasterInv` relates both sync registers with the counters one pixel before
  (`RasterSyncCorrect`) and puts the frame edge into one place of it (`RasterFrameEdgeCorrect`: one
  edge between two visible scans), `GameInv` says when the start text is hidden,
  also in a menu that is reached with a count that is not zero (`GameBlinkCorrect`,
  `GameWinScreenCorrect`). Then the composition: every step of `Console` is a step of the raster
  and a step or a stutter of the state machine. The coins, for a line of an even number of
  pixels, need an invariant that ties their value to the parity of pixel counter and divider.
  `SyncCorrect`, `BlinkCorrect`, `SteadyCorrect`, `CoinsCorrect`.
* **`PlayerRulesProofs`, `PlayerProofs`** (`BoundsAssumption`, `BoardAssumption`,
  `MeAssumption`, `PlaceAssumption`: the other player is met in the field or on its rim).
  `PlayerRulesProofs` says what a frame makes of a player, one lemma per branch of each priority
  chain, on every board. The rest is four arguments.

  *Leaving the field.* `PlayerInv` is `TypeOK`, `OneAxis` (a player never moves along both axes)
  and `Rim`. On the rim of the field a single wall flag leads back or along it (`RimOf`), but for
  a player that a teleport has just put there: it is put somewhere again in every frame, until one
  without flags and motion (`SentAway`). Hence `LeavesByTwo`: either player leaves the field only
  with two wall flags up, or by `KEY[0]`, which puts player 2 at `YMax - 25`, one row below what
  its bounce keeps. `BothStay` adds that from there it is only pushed up. `LeavesCorrect` and
  `StaysCorrect` (`Safety /\ []~Torn => []StaysInBounds`) are about player 1. The run checks
  `StaysInBounds` for keys of one axis and one place to teleport to, which never raise a second
  flag; the theorem has that as its hypothesis instead.

  *Walking in the open.* Nothing is assumed of where players are put. What is in a wall and stands
  there, after a teleport to a player that bumps or in the middle of a bump, does not walk by
  itself: it is put somewhere again (`SentAway`), pushed, or caught without motion (`StaysStill`).
  For one that does walk, `WalkStep` looks at the frame that made it so: where that frame raised no
  flag, every corner has seen neither wall nor brick in its copy of the map (`SeenOpen`), and the
  step from there is one pixel along one axis (`WalksOn`, `OneStep`, modulo 1024). A frame of play
  needs no more of the past than types and `OneAxis`. Between two edges a brick may break, and a
  map that has lost tiles is no less open (`StaysNearby`). `WalksCorrect` says so of either player
  alone, `PlayersWalk` in `MatchProofs` of both on one board.

  *The end of a life.* `Honest`: `die_flag` is set only with all lives gone, and what can bring
  lives back (a hazard of the board, a hit) is either still there or has cleared it
  (`MovedDies`, `FlaggedRest`). The hazard is one of the board: the copies of the map only lose
  tiles (`HazardTiles`). `DieFlagCorrect`, for every board.
* **`MatchProofs`** (the assumptions about board and field; `NumbersAssumption`;
  `HomesAssumption`: both homes are open). `Typed` is `TypeOK` with `OneAxis` of both players,
  on which the chains depend. `MatchInv` adds `MenuDark` (no blast in a menu that a win screen
  has led to) and `WinHits` (a hit that a win screen finds has been used up two frames later),
  and yields `QuietWinCorrect`. `NoStaleBlastCorrect` needs the fuse's order only: a blast is
  left behind in the step into `Before`, and `CoolsDown` says when the scan before it clears it.
  `HitsHaveCauseCorrect` follows the registers from the scan that loads them to the hit
  (`Traced`: they hold nothing, or the cross of the bomb in its blast); its two hypotheses, no
  pause key and fuses that do not end in one frame, are the two exceptions of `NoStaleBlast`,
  without which it is false. `HitInBlastCorrect` and `OwnColoursCorrect` are about a single scan; for
  the latter, `TakenIs` and the lemmas after it say which branch of a chain is taken, `LoadedIs`
  and `ShowsPlayIs` what the two chains do at a tile near a blast. The facts about one player are
  used again for two that play together: `GameEndsCorrect` takes `Honest` of both to the state
  machine (nobody loses by a `die_flag` left over), and `LostLosesCorrect` is the safety part of
  `LostGameEnds`: a player without lives is out of play two frames later, so that what is left to
  the run is that frames come and hits and teleports end. `PlayersLeaveByTwo` and `PlayersStay` discharge what `Player`
  takes for granted of the other player: each is met in the field as long as neither has two flags
  up. Their hypothesis `StartFar`, that a teleport does not lead to player 2's start, holds of the
  source's numbers (cell 404; a teleport leads to 21 to 277). Last, `MatchProofs`
  instantiates `BombFuseProofs` for either bomb: with any board, pause and win screen around
  them, both keep `FuseInv` (`BombsCorrect`) and implement `BombLife` (`BombLivesCorrect`).
* **`UsbHostProofs`** (`UsbAssumption`: there are two entries or more in the table and address
  128 is none of them). `DriverFits` is about the main loop's copy of a device class, so it
  needs to know that the copy was taken from the slot of the device that runs.
  `GetDriverandReport` takes it from the last slot that is set. Hence: addresses are given out
  without gaps (`NoGaps`), the device being configured or running holds the newest (`SlotHeld`),
  what answers at its address is what the probe entered (`DriverSet`), and the running flag
  never survives into the next device's enumeration (`FlagFresh`): the state machine needs
  several passes of the loop to get there, and the loop lowers the flag in the first.
  `DriverInv` is their conjunction with `TypeOK`; one lemma per group of actions, `StepInv`
  combines them; `TypeCorrect`, `EndpointsCorrect`, `DriverCorrect` follow.
* **`UsbTransferProofs`**, for packets, descriptors, limits and clocks of every size. No safety
  property of a transfer is inductive: each depends on what program, chip and device believe of
  one another. `IInv` is `TypeOK` with: whose token is under way (`Tokened`), what a
  status stage has confirmed (`Confirmed`), what the FIFO holds in which order (`Fifo`,
  `Ordered`), that without a late answer an interrupt is that of the packet launched last
  (`Prompt`), how much of a descriptor has arrived (`Reading`), and how the toggles of host and
  device differ (`Polling`, `OneAhead`, `Unpolled`). One lemma per action and part.
  `ResultIsItsOwn`, `PolledIsConfiguredAlways`, `DescriptorIsWhole`; `LinkIsImplemented` maps
  every step to one of `ReportLink` or a stutter.
* **`HalProofs`** (`FileAssumption`, `UartAssumption`, `AlarmAssumption`, `SpiAssumption`,
  `HalAssumption`), for every size of table, ring and FIFO and every program.
  `FileInv`: the high-water mark is above every descriptor in use, or the search for a lock would
  not find it (`NoLeakCorrect`, `LockedCorrect`). `UartInv`: the driver's copy of the interrupt
  enables is the device's, apart from the instant in which one of them is written, and each ring
  has the interrupt it needs, case by case of where call and handler are (`TxArmedCorrect`,
  `ListensCorrect`). `DataInv` says where each character is, with the contents of a ring as a
  function of its two indices (`UsedIs`, `PlusIs` and the lemmas after them are its arithmetic,
  modulo the length): those shown, those in the FIFO, those in the ring and those still to be
  stored are numbered without a gap, in both directions, and the index that a write has read
  before a handler moved it is only too careful (`OldPointer`). `TextStreamCorrect` maps every
  step to one of `TextStream` or a stutter. `AlarmInv`: there is a numbering of the listed alarms
  (`Chain`) along which `next` and `previous` run from the head back to it; `alt_tick` stands
  before one of them, those behind it are done with for this tick and those ahead are not
  (`At`), unless it is `Astray` in an entry that a callback has taken off. `Inserted` and
  `Removed` say what the two list operations do to the numbering, `DueNow`, `TickNext` and
  `LaterDone` what the clock does to an alarm's time and wrap flag. `AlarmOnTimeCorrect` follows
  for any number of alarms. `SpiInv`: at most one byte is under way, in one of three places, and
  what the chip has heard and the program has kept so far; `SpiExchangeCorrect`, for commands of
  every length and any interrupts.

Only model-checked:

* liveness (`EveryBombBurnsOut`, the two `~>` of `FramesAndScansAlternate`, `HeldRestartWorks`, `BumpsEnd`,
  `HazardKills`, `TeleportEnds`, `LostGameEnds`, `UnplugCleansUp`, `KeyboardServed`,
  `TransferEnds`, `NothingHangs`) and the fairness in `ImplementsBombLife`: the prover does not
  handle `ENABLED`.

## 6. Not modelled, and why

* Sprite ROMs and pictures (data), the HEX driver (a decoder), `bomb.sv`, `bomb2.sv`,
  `bomb_explode.sv`, `user.sv`, `walls.sv`, `vga_text_avl_interface.sv` and the `.bak` files (not
  instantiated).
* Of the generated NIOS system: processor, SDRAM controller, timer and PIO registers, and the
  interconnect. `system.h` is a list of addresses.
* Of the board support package, what this system does not link or never reaches: file systems,
  flash, DMA, `alt_log_printf`, profiling, `times`, sleeping (a loop in assembler), cache
  maintenance (there are no caches), the exception entry. They are a large part of
  the C lines under `software/`; most of the others are headers of declarations and licences, so
  the map covers a small share of them.
* Of the USB host: walking a configuration descriptor (a device is a keyboard, a mouse or
  something else), LEDs, HEX digits and console text, the GPX pin, whose handler only reads a
  register, and the wait for the chip's oscillator.

## 7. Plan

Done: all components of section 1, and proofs of every safety property the runs check. What could
follow:

1. a refinement of `UsbHost`'s one-step transfers by `UsbTransfer`, and of the step "read a
   register" by `SpiMaster`;
2. the map from `Match` to `GameState` and `Player`, as there is one to `BombFuse` (a frame of
   `Match` is a step of theirs and a change of the keycode, or a broken brick, at once);
3. the map as it is loaded from `background.mif`, once there is a source for `map.v`.
