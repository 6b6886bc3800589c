\* Both hand-offs under two faults and two acts of people; the controller's
\* fairness.
SPECIFICATION FairSpec
CONSTANTS
    Complete = {TRUE, FALSE}
    Echoes <- AllEchoes
    Brokers = {TRUE, FALSE}
    HasOwner = TRUE
    TriggerCap = 2
    MaxFaults = 2
    MaxHuman = 2
INVARIANTS
    WellFormed
    HandOffIsReal
    ChainsAreBounded
    SpecIsFiledOnce
PROPERTIES
    UnmergedSpecStays
    ReplayIsInert
    FixSettles
