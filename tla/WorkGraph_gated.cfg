\* Two items, gated or not, and two evaluation runs: submission, decision,
\* retry, acceptance and completion.  MaxVersion 8 lets a gated item be claimed,
\* submitted, rejected, submitted again, accepted and finished.
CONSTANTS
    Sessions = {s1, s2}
    Items = {i1, i2}
    Runs = {r1, r2}
    NoSession = NoSession
    NoItem = NoItem
    NoRun = NoRun
    MaxVersion = 8
    SharedClaims = {TRUE}
    IntentItems = {}
SPECIFICATION Spec
SYMMETRY Symmetry
INVARIANTS TypeOK DoneNeedsAcceptedRun
PROPERTIES GatedDoneIsFinal
\* The finite pools of sessions, items and runs run out.
CHECK_DEADLOCK FALSE
