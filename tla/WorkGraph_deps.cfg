\* Three items with any dependencies, two sessions, no evaluation run: claims,
\* blocking, unblocking, and the intents declared on one of the items.  A claim
\* with allowShared may do all that one without may do.
CONSTANTS
    Sessions = {s1, s2}
    Items = {i1, i2, i3}
    Runs = {}
    NoSession = NoSession
    NoItem = NoItem
    NoRun = NoRun
    MaxVersion = 4
    SharedClaims = {TRUE}
    IntentItems = {i3}
SPECIFICATION Spec
SYMMETRY Symmetry
INVARIANTS BlockedHasBlocker NoDependencyDeadlock
PROPERTIES EveryChangeIsANewVersion IntentClosedOnlyByItsCompletion
\* The finite pools of sessions and items run out.
CHECK_DEADLOCK FALSE
