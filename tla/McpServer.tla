----------------------------- MODULE McpServer -----------------------------
(***************************************************************************)
(* The MCP server over stdio: one handler per tool call, a limiter that     *)
(* lets a few run at a time and queues a few more, the permissions of the   *)
(* workspace the server was started with, and the tools that pass a call    *)
(* on to the coordination daemon.  What a tool computes is left out; how    *)
(* its call ends is not.                                                    *)
(***************************************************************************)
EXTENDS Naturals, Sequences, FiniteSets, SequencesExt

CONSTANTS
    ToolCalls,      \* the tool calls a host makes
    ToolOf,         \* the tool each call is for, as a function
    MaxConcurrent,  \* maxConcurrentRequests
    MaxQueued       \* maxQueuedRequests

ASSUME McpAssumption ==
    /\ IsFiniteSet(ToolCalls)
    /\ MaxConcurrent \in Nat \ {0} /\ MaxQueued \in Nat

VARIABLES
    mcp,        \* what runMcp was started with
    toolCall,   \* where each call is
    cancelled,  \* the calls whose signal is aborted
    limiter     \* RequestLimiter: active, waiters

mcpVars == <<mcp, toolCall, cancelled, limiter>>

(* The tools by what tells them apart: the capability they need, the risk, and
   whether they call the daemon. *)
Tool(name) ==
    CASE name = "fs_read"         -> [key |-> "read",  risk |-> "read",  remote |-> FALSE]
      [] name = "fs_write"        -> [key |-> "write", risk |-> "write", remote |-> FALSE]
      [] name = "lsp_diagnostics" -> [key |-> "lsp",   risk |-> "read",  remote |-> FALSE]
      [] name = "vcs_diff"        -> [key |-> "vcs",   risk |-> "read",  remote |-> FALSE]
      [] name = "coord_sync"      -> [key |-> "read",  risk |-> "read",  remote |-> TRUE]
      [] name = "coord_claim"     -> [key |-> "read",  risk |-> "write", remote |-> TRUE]
      [] name = "eval_status"     -> [key |-> "read",  risk |-> "read",  remote |-> TRUE]

(* open: the profile decides on writing and on language servers. *)
Capabilities(trusted) == {"read", "search", "ast", "vcs"} \union (IF trusted THEN {"write", "lsp"} ELSE {})

(* createFoundationCapabilities, and what runMcp adds when asked to and able to:
   without a daemon a server that is to coordinate does not start. *)
RegisteredTools(s) ==
    {"fs_read", "fs_write", "lsp_diagnostics", "vcs_diff"}
    \union (IF s.coordination THEN {"coord_sync", "coord_claim"} ELSE {})
    \union (IF s.evaluation THEN {"eval_status"} ELSE {})

McpInit ==
    /\ mcp \in [trusted : BOOLEAN, coordination : BOOLEAN, evaluation : BOOLEAN]
    /\ toolCall = [k \in ToolCalls |-> "none"]
    /\ cancelled = {}
    /\ limiter = [active |-> 0, waiters |-> <<>>]

-----------------------------------------------------------------------------
(* The SDK hands a call of a registered tool to its handler. *)
Receive(k) ==
    /\ toolCall[k] = "none" /\ ToolOf[k] \in RegisteredTools(mcp)
    /\ toolCall' = [toolCall EXCEPT ![k] = "received"]
    /\ UNCHANGED <<mcp, cancelled, limiter>>

(* RequestLimiter.acquire *)
Acquire(k) ==
    /\ toolCall[k] = "received"
    /\ \/ /\ k \in cancelled
          /\ toolCall' = [toolCall EXCEPT ![k] = "failed"]
          /\ UNCHANGED limiter
       \/ /\ k \notin cancelled /\ limiter.active < MaxConcurrent
          /\ limiter' = [limiter EXCEPT !.active = @ + 1]
          /\ toolCall' = [toolCall EXCEPT ![k] = "granted"]
       \/ /\ k \notin cancelled /\ limiter.active >= MaxConcurrent
          /\ Len(limiter.waiters) >= MaxQueued
          /\ toolCall' = [toolCall EXCEPT ![k] = "failed"]
          /\ UNCHANGED limiter
       \/ /\ k \notin cancelled /\ limiter.active >= MaxConcurrent
          /\ Len(limiter.waiters) < MaxQueued
          /\ limiter' = [limiter EXCEPT !.waiters = Append(@, k)]
          /\ toolCall' = [toolCall EXCEPT ![k] = "queued"]
    /\ UNCHANGED <<mcp, cancelled>>

(* The host cancels a call; the listener of a waiter takes it out of the queue. *)
LeftInQueue(k) == limiter.waiters
OutOfQueue(k) ==
    LET index == CHOOSE i \in DOMAIN limiter.waiters : limiter.waiters[i] = k
    IN  IF k \in Range(limiter.waiters) THEN RemoveAt(limiter.waiters, index) ELSE limiter.waiters

Cancel(k) ==
    /\ k \notin cancelled /\ toolCall[k] \notin {"none", "answered", "failed"}
    /\ cancelled' = cancelled \union {k}
    /\ limiter' = [limiter EXCEPT !.waiters = OutOfQueue(k)]
    /\ toolCall' = [toolCall EXCEPT ![k] = IF @ = "queued" THEN "failed" ELSE @]
    /\ UNCHANGED mcp

(* release: the slot passes to the first waiter, or becomes free. *)
NextWaiters == IF limiter.waiters = <<>> THEN {} ELSE {Head(limiter.waiters)}
NoWaiter == {}
HandedTo == NextWaiters

(* The finally of the handler: the call ends as told, and its slot is released. *)
EndsWith(k, outcome) ==
    /\ limiter' = IF HandedTo = {} THEN [limiter EXCEPT !.active = @ - 1]
                  ELSE [limiter EXCEPT !.waiters = Tail(@)]
    /\ toolCall' = [c \in ToolCalls |->
                      IF c = k THEN outcome ELSE IF c \in HandedTo THEN "granted" ELSE toolCall[c]]
    /\ UNCHANGED <<mcp, cancelled>>

Permitted(k) ==
    /\ Tool(ToolOf[k]).key \in Capabilities(mcp.trusted)
    /\ Tool(ToolOf[k]).risk = "write" => mcp.trusted

(* The handler goes on with its slot: it refuses, or executes the capability,
   which for a tool of the daemon looks at the signal once. *)
Refuse(k) ==
    /\ toolCall[k] = "granted"
    /\ ~Permitted(k) \/ (Tool(ToolOf[k]).remote /\ k \in cancelled)
    /\ EndsWith(k, "failed")

Execute(k) ==
    /\ toolCall[k] = "granted"
    /\ Permitted(k) /\ ~(Tool(ToolOf[k]).remote /\ k \in cancelled)
    /\ toolCall' = [toolCall EXCEPT ![k] = IF Tool(ToolOf[k]).remote THEN "calling" ELSE "running"]
    /\ UNCHANGED <<mcp, cancelled, limiter>>

(* The capability returns or throws; after a cancellation it may do either. *)
Return(k) ==
    /\ toolCall[k] \in {"running", "calling"}
    /\ \E outcome \in {"answered", "failed"} : EndsWith(k, outcome)

(* The daemon ends the connection a call waits on: client.call has neither a listener
   for it nor the signal of the request, and never settles. *)
Hang(k) ==
    /\ toolCall[k] = "calling"
    /\ toolCall' = [toolCall EXCEPT ![k] = "hung"]
    /\ UNCHANGED <<mcp, cancelled, limiter>>

McpNext ==
    \E k \in ToolCalls :
        Receive(k) \/ Acquire(k) \/ Cancel(k) \/ Refuse(k) \/ Execute(k) \/ Return(k) \/ Hang(k)

McpSpec == McpInit /\ [][McpNext]_mcpVars

(* Handlers run, and every tool that was not left hanging ends by its own limits. *)
McpStep(k) == Acquire(k) \/ Refuse(k) \/ Execute(k) \/ Return(k)

-----------------------------------------------------------------------------
Holding == {k \in ToolCalls : toolCall[k] \in {"granted", "running", "calling", "hung"}}

(* The types of the server, its calls and its limiter. *)
McpTypeOK ==
    /\ mcp \in [trusted : BOOLEAN, coordination : BOOLEAN, evaluation : BOOLEAN]
    /\ toolCall \in [ToolCalls -> {"none", "received", "queued", "granted", "running", "calling", "hung",
                                   "answered", "failed"}]
    /\ cancelled \subseteq ToolCalls
    /\ limiter.active \in 0..MaxConcurrent /\ Len(limiter.waiters) <= MaxQueued
    /\ Range(limiter.waiters) = {k \in ToolCalls : toolCall[k] = "queued"}

(* The limiter counts the slots that calls hold, whether they are refused, run, wait
   for the daemon or were left hanging by it, and no call is kept in the queue while
   one is free: acquire, release and the abort of a waiter together lose no slot. *)
SlotsAreCounted ==
    /\ Cardinality(Holding) = limiter.active
    /\ limiter.waiters # <<>> => limiter.active = MaxConcurrent

(* A queued call gets a slot or fails, whatever is cancelled meanwhile: no slot is
   lost on the way from one call to the next (RequestLimiter.release). The only
   exception is a server all of whose slots wait for a daemon that went away. *)
QueuedAreServed ==
    \A k \in ToolCalls :
        toolCall[k] = "queued" ~>
            \/ toolCall[k] # "queued"
            \/ Cardinality({c \in ToolCalls : toolCall[c] = "hung"}) = MaxConcurrent
=============================================================================
