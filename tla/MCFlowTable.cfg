CONSTANTS
    CounterNames = {"gaps"}
    MaxCount = 1
    Packets <- MCPackets
    MaxFlows = 2
    Timeout = 2
    MallocResults = {TRUE, FALSE}
    StreamBytes = 1
    MaxPackets = 3
SPECIFICATION Spec
INVARIANTS
    FlowAccounting
    OneFlowPerConnection
    ClosedReclaimed
    AnomaliesConserved
    ClosuresCounted
PROPERTIES
    IdleEviction
