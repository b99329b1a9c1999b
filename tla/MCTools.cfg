CONSTANTS
    q1 = q1
    d1 = d1
    ts = ts
    Queries = {q1, d1}
    Diagnosing = {d1}
    Document <- MCDocument
    MaxClients = 2
    MaxServers = 2
    MaxRestarts = 1
    c1 = c1
    c2 = c2
    c3 = c3
    ToolCalls = {c1, c2, c3}
    ToolOf <- MCToolOf
    MaxConcurrent = 1
    MaxQueued = 1
    MaxChars = 3
    MaxWindow = 5
    InlineLines = 2
    InlineBytes = 4
    MaxOutput = 7
    MaxArtifact = 6
    MaxLines = 3
    MaxLine = 3
    MaxDiffs = 2
    MaxFiles = 2
    MaxFileLines = 2
    LineKinds <- MCLineKinds
    LineLimit = 1
    MatchLimit = 1
    Agents <- MCAgents
    Intents <- MCIntents
    Items <- MCItems
    Pairs <- MCPairs
    AllNodes = 4
    AllEdges = 3
    MaxNodes = 3
    MaxEdges = 2
    MaxDepth = 2
    Entities = {"a", "b", "c", "d"}
    EdgeChoices <- MCEdges
    MaxImpactDepth = 2
    MaxEntities = 3
SPECIFICATION ToolsSpec
INVARIANTS ToolsTypesOK AnswersFit AnswersAreWhole TraceIsHonest ViewsAreHonest
PROPERTIES CallsSettle QueuedAreServed
CHECK_DEADLOCK FALSE
