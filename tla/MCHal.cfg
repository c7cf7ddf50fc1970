SPECIFICATION Spec
CONSTANTS
    DevNull = null
    JtagUart0 = uart
    Device = {null, uart, spare}
    NoDev = NoDev
    ALT_MAX_FD = 6
    null = null
    uart = uart
    spare = spare
    a1 = a1
    a2 = a2
    a3 = a3
    BufLen = 4
    DefaultTimeout = 2
    IntMax = 4
    Depth = 3
    Threshold = 1
    MaxWritten <- MCMaxWritten
    MaxTyped <- MCMaxTyped
    Alarm = {a1, a2, a3}
    UartAlarm = a1
    alt_alarm_list = alt_alarm_list
    NULL = NULL
    Wrap = 3
    Rate = 1
    Lengths = {1, 4}
    Timeouts = {0, 2}
    Delays = {0, 1}
    Periods = {1, 2}
    SpiBytes = {0, 3}
INVARIANTS
    TxArmed
    ListensWhenEmpty
    AlarmOnTime
    NoLeak
    SpiExchange
PROPERTIES
    NothingHangs
    ImplementsTextStream
    LockedStaysClosed
CHECK_DEADLOCK FALSE
