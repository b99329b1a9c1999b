\* No client sets allowShared, yet an assignment is lost: a claim that finds the
\* item's dependencies open again blocks it in its own name.
CONSTANTS
    Sessions = {s1, s2}
    Items = {i1, i2}
    Runs = {}
    NoSession = NoSession
    NoItem = NoItem
    NoRun = NoRun
    MaxVersion = 4
    SharedClaims = {FALSE}
    IntentItems = {}
SPECIFICATION Spec
PROPERTIES ActiveAssignmentIsKept
CHECK_DEADLOCK FALSE
