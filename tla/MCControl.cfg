SPECIFICATION FairSpec
CONSTANTS
    Nil = Nil
    Broken = Broken
    Documents <- MCDocuments
    Outputs <- MCOutputs
    Files <- MCFiles
    Nodes <- MCNodes
    MaxRules = 2
    MaxRelays = 2
    Scenarios <- MCScenarios
INVARIANTS
    TypeOK
    Routed
PROPERTIES
    OwnView
    Converges
CHECK_DEADLOCK FALSE
