\* Every kind of task file, two crashes or failed calls, two acts of people in
\* between, and as many Jobs as the controller starts.
SPECIFICATION FairSpec
CONSTANTS
    Inputs <- MCInputs
    Paths <- MCPaths
    PRTarget = "draft"
    DefaultScope = "both"
    JobDeadline = TRUE
    TriggerCap = 2
    MaxFaults = 2
    MaxHuman = 2
INVARIANTS
    TypeOK
    PushedHeadIsGated
    PushedPathsAreGuarded
    ResultNamesPR
    PhaseMatchesResult
PROPERTIES
    UnmergedWorkStays
    ReplayIsInert
    ImplementsPublication
    StrandedBranchGetsPR
    TaskSettles
