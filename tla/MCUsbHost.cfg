SPECIFICATION Spec
CONSTANTS
    NumDevices = 3
    SettleTime = 1
    ClockTop = 2
    LowSpeed <- LowSpeedKinds
    Reports <- OneKey
    MaxUpsets = 4
INVARIANTS
    EndpointsExist
    DriverFits
PROPERTIES
    UnplugCleansUp
    KeyboardServed
