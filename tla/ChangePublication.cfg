\* Two calls of one process over one file or two, and a call of another process
\* over one file: enough for a PARTIAL receipt, for a queue at the lock and for a
\* file that changes under a call that has the lock.
CONSTANTS
    c1 = c1
    c2 = c2
    c3 = c3
    mcp = mcp
    daemon = daemon
    Calls = {c1, c2, c3}
    Paths = {1, 2}
    Processes = {mcp, daemon}
    ProcessOf <- MCProcessOf
    Batches <- MCBatches
    NoCall = NoCall
SPECIFICATION FairSpec
INVARIANTS ReceiptTellsTruth
PROPERTIES NoLostUpdateInProcess CreationNeverClobbers EveryCallEnds
\* Every call is made once.
CHECK_DEADLOCK FALSE
