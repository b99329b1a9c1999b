\* One process leaves a stale file and two clean it up.
CONSTANTS
    Processes = {p1, p2, p3}
    Nobody = Nobody
SPECIFICATION Spec
INVARIANTS OneAuthority
CHECK_DEADLOCK FALSE
