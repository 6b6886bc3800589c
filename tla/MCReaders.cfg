SPECIFICATION Spec
CONSTANTS
    Readers = {"facts", "changelog", "json", "advisory", "diagnosis"}
    a = a
    b = b
    Ids = {a, b}
    Pins <- DirectPins
    ScannerLines <- SingleLines
    MakeLines <- SomeMakeLines
    ListLines <- ListEntries
    Targets <- TwoTargets
    MaxOutput = 1
    MaxMakeLines = 2
    Kinds <- MCKinds
    Versions <- MCVersions
    MaxLines = 3
    Edits <- MCEdits
    Endings <- BothEndings
    MayBeAbsent = TRUE
    Tokens <- PlainTokens
    MaxTokens = 6
    Paths <- MCPaths
    ModuleVersions <- MCModuleVersions
    Graphs <- PlainGraphs
    MaxEdits = 1
    RunIds = {1, 2, 3}
    Bound = 2
    MaxLog = 3
    MaxCI = 2
INVARIANT TableIsFaithful
INVARIANT WrittenIsSound
INVARIANT AnswerIsFound
INVARIANT ClearingIsSound
INVARIANT EvidenceIsKept
