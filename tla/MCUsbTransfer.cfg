CONSTANTS
    NakLimit = 2
    RetryLimit = 2
    XferTimeout = 1
    ClockTop = 1
    MaxPktSize = 2
    Lengths <- MCLengths
    Requests <- MCRequests
    MaxReports = 3
    MaxFaults = 2
    MaxLates = 1
SPECIFICATION Spec
INVARIANTS DescriptorWhole PolledIsConfigured ResultIsOwn
PROPERTIES ImplementsReportLink TransferEnds
CHECK_DEADLOCK FALSE
