\* Minutes as in the code and its deployment; a context without a deadline, as
\* main.go passes it.
SPECIFICATION Spec
CONSTANTS
    JobDeadline = 30
    BulkTimeout = 8
    ClaudeTimeout = 15
    RepairTimeout = 5
    Reserve = 5
    MaxStep = 10
    HasDeadline = FALSE
INVARIANT RepairIsCovered
