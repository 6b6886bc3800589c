\* A pull request merged, its branch deleted with it, before the review.
SPECIFICATION Spec
CONSTANTS
    Tasks <- OneTask
    Heads <- OneHead
    Versions <- MCVersions
    PRTarget = "ready"
    HasOwner = TRUE
    TriggerCap = 1
    MaxFaults = 0
    MaxHuman = 2
INVARIANT
    MergedTaskCompletes
