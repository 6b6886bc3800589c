\* Planning of every kind of task file and default branch, one crash or failed
\* call, two acts of people; the controller's fairness.
SPECIFICATION FairSpec
CONSTANTS
    Tasks <- MCTasks
    Repos <- MCRepos
    Answers <- MCAnswers
    Ids <- MCIds
    DefaultScope = "both"
    HasOwner = TRUE
    TriggerCap = 2
    MaxFaults = 1
    MaxHuman = 2
INVARIANTS
    WellFormed
    TableIsComplete
    VulnsAreGroundTruth
    ExecutionAcceptsPlan
    ExecutionIsVetted
    NoWorkIsClosed
PROPERTY
    PlanningSettles
