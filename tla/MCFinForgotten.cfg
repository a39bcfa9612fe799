CONSTANTS
    CounterNames = {"gaps"}
    MaxCount = 0
    Packets <- MCOneConnection
    MaxFlows = 1
    Timeout = 0
    MallocResults = {TRUE}
    StreamBytes = 1
    MaxPackets = 3
SPECIFICATION Spec
PROPERTY
    FinRemembered
