SPECIFICATION Spec
CONSTANTS
    Readers = {"facts"}
    a = a
    b = b
    Ids = {a, b}
    Pins <- NoPins
    ScannerLines <- PairLines
    MakeLines <- NoMake
    ListLines <- NoEntries
    Targets <- OneTarget
    MaxOutput = 2
    MaxMakeLines = 2
    Kinds <- MCKinds
    Versions <- MCVersions
    MaxLines = 3
    Edits <- MCEdits
    Endings <- BothEndings
    MayBeAbsent = TRUE
    Tokens <- PlainTokens
    MaxTokens = 6
    Paths <- MCPaths
    ModuleVersions <- MCModuleVersions
    Graphs <- PlainGraphs
    MaxEdits = 1
    RunIds = {1, 2, 3}
    Bound = 2
    MaxLog = 3
    MaxCI = 2
INVARIANT NoFindingIsLost
