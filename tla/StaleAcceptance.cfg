\* One gated item, two runs requested for its first submission.
CONSTANTS
    Sessions = {s1}
    Items = {i1}
    Runs = {r1, r2}
    NoSession = NoSession
    NoItem = NoItem
    NoRun = NoRun
    MaxVersion = 8
    SharedClaims = {FALSE}
    IntentItems = {}
SPECIFICATION AgeSpec
INVARIANTS AcceptedRunIsFresh
CHECK_DEADLOCK FALSE
