CONSTANTS
    f1 = f1
    f2 = f2
    NoFlow = NoFlow
    Flows <- MCFlows
    Configs <- MCConfigs
    MaxRaw = 3
SPECIFICATION Spec
INVARIANTS
    EverythingReleased
    FunnelComplete
    OutputsAgree
    RowsOnDisk
    ShownFlowAnnounced
    StopIsPrompt
PROPERTIES
    StopEnds
    SavefileEnds
