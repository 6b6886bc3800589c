\* A spec to file while origin does not answer.
SPECIFICATION Spec
CONSTANTS
    Complete = {TRUE}
    Echoes <- RightEcho
    Brokers = {FALSE}
    HasOwner = FALSE
    TriggerCap = 2
    MaxFaults = 1
    MaxHuman = 1
INVARIANT
    AlreadyFiledWasFiled
