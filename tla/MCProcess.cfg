SPECIFICATION Spec
CONSTANTS
    MayStop = TRUE
    Texts <- MCTexts
    Kinds <- AllKinds
    MaxWritten = 4
    Capacity = 2
    TailMax = 2
    MayCancel = TRUE
INVARIANT LifeCycleIsSound
INVARIANT OutcomeIsTrue
PROPERTY RunReturns
