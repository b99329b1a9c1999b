CONSTANTS
    Processes = {p1, p2, p3}
    Nobody = Nobody
    Requests = {r1}
    MaxAttempts = 2
    MaxDaemons = 2
    MaxFile = 2
    InitialFileLimit = 1
    ReconcileFileLimit = 2
    MaxPendingPaths = 1
    Imports <- MCImports
    MaxVersion = 2
    MaxQueue = 1
    MaxChanges = 1
    MaxFailures = 1
    MaxStarts = 2
    WorkItems = {1, 2}
    DependsOn <- MCDependsOn
    PageEvents = 2
    PageBytes = 2
    MaxEvents = 3
    Sizes = {2, 3}
    Callers = {a1, a2}
    MaxFileCalls = 2
    MaxSaves = 1
    Sources = {f1, f2}
    MaxContent = 1
    MaxPublications = 2
    MaxForeignEdits = 1
    MaxCommits = 1
    MaxSeals = 1
    MaxReports = 1
    MaxAge = 0
    NumTasks = 2
    Keys = {"route", "repair"}
    MinQualified = 2
    MaxEdits = 1
    MaxHistory = 1
    MaxObservations = 2
SPECIFICATION DaemonSpec
INVARIANTS OneAuthorityUntilOneEnds OrderlyStopLeavesNothing DaemonTypesOK AnsweredIsAudited IndexedIsKnown NothingIsSkipped EditsAreKept AdmissionsAreEarned
PROPERTIES StartIsSettled CallsReturn CodeStateConverges
CHECK_DEADLOCK FALSE
