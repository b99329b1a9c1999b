\* Two processes pass the check one after the other and then both replace the file.
CONSTANTS
    c1 = c1
    c2 = c2
    c3 = c3
    mcp = mcp
    daemon = daemon
    Calls = {c1, c2, c3}
    Paths = {1, 2}
    Processes = {mcp, daemon}
    ProcessOf <- MCProcessOf
    Batches <- MCBatches
    NoCall = NoCall
SPECIFICATION Spec
PROPERTIES StaleWriterRejected
\* Every call is made once.
CHECK_DEADLOCK FALSE
