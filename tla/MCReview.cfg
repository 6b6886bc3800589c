\* Review of every kind of task file and branch, one crash or failed call,
\* two acts of people or of the release agent; the controller's fairness.
SPECIFICATION FairSpec
CONSTANTS
    Tasks <- MCTasks
    Heads <- MCHeads
    Versions <- MCVersions
    PRTarget = "ready"
    HasOwner = TRUE
    TriggerCap = 2
    MaxFaults = 1
    MaxHuman = 2
INVARIANTS
    TypeOK
    ApprovedWasVerified
    VulnsClearIsEarned
    HandOffIsActionable
PROPERTY
    ReviewSettles
