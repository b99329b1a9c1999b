--------------------------- MODULE DaemonRequests ---------------------------
(***************************************************************************)
(* Calls of the coordination client over the local socket: one connection  *)
(* per attempt, a bounded number of attempts, handlers of the daemon that   *)
(* run their operation, record it in the audit trail and answer, and a      *)
(* daemon that is stopped, killed and started again.  What an operation does *)
(* is the subject of other modules; here it is how often it goes to the     *)
(* store.                                                                   *)
(***************************************************************************)
EXTENDS Naturals, FiniteSets

CONSTANTS
    Requests,       \* the calls made
    MaxAttempts,    \* options.maxAttempts
    MaxDaemons      \* bound: starts of the daemon

ASSUME RequestsAssumption == IsFiniteSet(Requests) /\ MaxAttempts \in 1..5 /\ MaxDaemons \in Nat \ {0}

VARIABLES
    client,     \* the client: what the call asks for, is doing, and in which attempt
    connection, \* the connection of its current attempt
    handlers,   \* the handlers in flight, also those whose client is gone
    daemon,     \* where the daemon is in its life
    daemons,    \* how many were started
    applied,    \* how often the operation of each call was committed
    audited,    \* the calls an OK of which is in the audit trail
    unwritten   \* history: those an OK of which the open store failed to write there

requestVars == <<client, connection, handlers, daemon, daemons, applied, audited, unwritten>>

(* A method reads from the store, changes it in one transaction, or evaluates, which
   takes two: the decision, and what it does to the work item. *)
Methods == {"read", "change", "evaluate"}

RequestsInit ==
    /\ client \in [Requests -> [method : Methods, pc : {"idle"}, n : {0}]]
    /\ connection = [k \in Requests |-> "none"]
    /\ handlers = {} /\ daemon = "serving" /\ daemons = 1
    /\ applied = [k \in Requests |-> 0] /\ audited = {} /\ unwritten = {}

StoreOpen == daemon \in {"serving", "closing"}

-----------------------------------------------------------------------------
(* withBoundedRetry after a retryable error: the next attempt, or the error.  The
   mistake counts the attempts that failed and not this one. *)
OneAttemptMore(k) == client[k].n <= MaxAttempts
AttemptsLeft(k) == client[k].n < MaxAttempts
Retried(k) ==
    client' = [client EXCEPT ![k].pc = IF AttemptsLeft(k) THEN "backoff" ELSE "failed"]

Returns(k, pc) == client' = [client EXCEPT ![k].pc = pc]

Begin(k) ==
    /\ client[k].pc \in {"idle", "backoff"}
    /\ client' = [client EXCEPT ![k].pc = "calling", ![k].n = @ + 1]
    /\ connection' = [connection EXCEPT ![k] = "none"]
    /\ UNCHANGED <<handlers, daemon, daemons, applied, audited, unwritten>>

(* callOnce connects and writes its frame: handleSocket reads it and starts a handler. *)
Connect(k) ==
    /\ client[k].pc = "calling" /\ connection[k] = "none" /\ daemon = "serving"
    /\ connection' = [connection EXCEPT ![k] = "open"]
    /\ handlers' = handlers \union {[call |-> k, n |-> client[k].n, stage |-> "received", outcome |-> "none"]}
    /\ UNCHANGED <<client, daemon, daemons, applied, audited, unwritten>>

ConnectFails(k) ==
    /\ client[k].pc = "calling" /\ connection[k] = "none"
    /\ Retried(k)
    /\ UNCHANGED <<connection, handlers, daemon, daemons, applied, audited, unwritten>>

(* The mistake: the timeout covers the connecting only. *)
TimedWhileConnecting(k) == connection[k] = "none"
Timed(k) == connection[k] = "open"

(* The client's timeout destroys its socket; the handler is not told. *)
TimesOut(k) ==
    /\ client[k].pc = "calling" /\ Timed(k)
    /\ Retried(k)
    /\ connection' = [connection EXCEPT ![k] = "none"]
    /\ UNCHANGED <<handlers, daemon, daemons, applied, audited, unwritten>>

Abort(k) ==
    /\ client[k].pc = "calling"
    /\ Returns(k, "aborted")
    /\ connection' = [connection EXCEPT ![k] = "none"]
    /\ UNCHANGED <<handlers, daemon, daemons, applied, audited, unwritten>>

-----------------------------------------------------------------------------
Moved(h, stage, outcome) ==
    handlers' = (handlers \ {h}) \union {[h EXCEPT !.stage = stage, !.outcome = outcome]}

MethodOf(h) == client[h.call].method
InDispatch(h) == h.stage \in {"received", "decided"}

(* dispatchRequest: a read of the log, a projection or the graph; ... *)
ServeRead(h) ==
    /\ StoreOpen /\ h.stage = "received" /\ MethodOf(h) = "read"
    /\ Moved(h, "dispatched", "ok")
    /\ UNCHANGED applied

(* ... a transaction of a runtime; ... *)
Commit(h) ==
    /\ StoreOpen /\ h.stage = "received" /\ MethodOf(h) = "change"
    /\ Moved(h, "dispatched", "ok")
    /\ applied' = [applied EXCEPT ![h.call] = @ + 1]

(* ... eval_evaluate and eval_complete: the run is decided, ... *)
Decide(h) ==
    /\ StoreOpen /\ h.stage = "received" /\ MethodOf(h) = "evaluate"
    /\ Moved(h, "decided", "none")
    /\ UNCHANGED applied

(* ... and the decision applied. *)
ApplyDecision(h) ==
    /\ StoreOpen /\ h.stage = "decided"
    /\ Moved(h, "dispatched", "ok")
    /\ applied' = [applied EXCEPT ![h.call] = @ + 1]

(* The operation throws: it is refused, which is final, or the store fails, open or
   closed, which is an error to retry. *)
Throws(h, outcome) ==
    /\ InDispatch(h)
    /\ outcome = "unavailable" \/ StoreOpen
    /\ Moved(h, "dispatched", outcome)
    /\ UNCHANGED applied

Dispatch(h) ==
    /\ \/ ServeRead(h) \/ Commit(h) \/ Decide(h) \/ ApplyDecision(h)
       \/ \E outcome \in {"refused", "unavailable"} : Throws(h, outcome)
    /\ UNCHANGED <<client, connection, daemon, daemons, audited, unwritten>>

(* recordAudit, whose own failure is swallowed, be the store closed or open. *)
Audit(h) ==
    LET noted == IF StoreOpen /\ h.outcome = "ok" THEN {h.call} ELSE {}
    IN  /\ h.stage = "dispatched"
        /\ Moved(h, "audited", h.outcome)
        /\ \/ audited' = audited \union noted /\ UNCHANGED unwritten
           \/ unwritten' = unwritten \union noted /\ UNCHANGED audited
        /\ UNCHANGED <<client, connection, daemon, daemons, applied>>

(* processFrame answers; a result too large for a frame is answered as an error. *)
Answered(h, outcome) ==
    IF connection[h.call] = "open" /\ client[h.call].n = h.n /\ client[h.call].pc = "calling"
    THEN /\ connection' = [connection EXCEPT ![h.call] = "none"]
         /\ IF outcome = "unavailable" THEN Retried(h.call) ELSE Returns(h.call, outcome)
    ELSE UNCHANGED <<client, connection>>

AnswerCall(h) ==
    /\ h.stage = "audited"
    /\ handlers' = handlers \ {h}
    /\ \/ Answered(h, h.outcome)
       \/ h.outcome = "ok" /\ Answered(h, "refused")
    /\ UNCHANGED <<daemon, daemons, applied, audited, unwritten>>

-----------------------------------------------------------------------------
Connected == {k \in Requests : connection[k] = "open"}

(* A client whose request was not yet read sees an error and tries again; one that
   waits for an answer sees the end of the stream, for which callOnce has no listener. *)
Cut(reset) ==
    /\ connection' = [k \in Requests |-> IF k \in Connected THEN (IF k \in reset THEN "none" ELSE "ended") ELSE connection[k]]
    /\ client' = [k \in Requests |->
                     IF k \in reset
                     THEN [client[k] EXCEPT !.pc = IF client[k].n < MaxAttempts THEN "backoff" ELSE "failed"]
                     ELSE client[k]]
(* The mistake: the sockets outlive the server. *)
LeftOpen(reset) == UNCHANGED <<connection, client>>

(* runDaemon's finally: the sockets are destroyed first... *)
Destroyed(reset) == Cut(reset)
StopServing(reset) ==
    /\ daemon = "serving" /\ reset \subseteq Connected
    /\ daemon' = "closing"
    /\ Destroyed(reset)
    /\ UNCHANGED <<handlers, daemons, applied, audited, unwritten>>

(* ... and the store is closed last, while handlers may still run. *)
CloseStore ==
    /\ daemon = "closing"
    /\ daemon' = "closed"
    /\ UNCHANGED <<client, connection, handlers, daemons, applied, audited, unwritten>>

DaemonEnded == daemon = "closed" /\ handlers = {} /\ daemon' = "down"
         /\ UNCHANGED <<client, connection, handlers, daemons, applied, audited, unwritten>>

DaemonDies(reset) ==
    /\ daemon # "down" /\ reset \subseteq Connected
    /\ daemon' = "down" /\ handlers' = {}
    /\ Cut(reset)
    /\ UNCHANGED <<daemons, applied, audited, unwritten>>

DaemonStarts ==
    /\ daemon = "down" /\ daemons < MaxDaemons
    /\ daemon' = "serving" /\ daemons' = daemons + 1
    /\ UNCHANGED <<client, connection, handlers, applied, audited, unwritten>>

RequestsNext ==
    \/ \E k \in Requests : Begin(k) \/ Connect(k) \/ ConnectFails(k) \/ TimesOut(k) \/ Abort(k)
    \/ \E h \in handlers : Dispatch(h) \/ Audit(h) \/ AnswerCall(h)
    \/ \E reset \in SUBSET Connected : StopServing(reset) \/ DaemonDies(reset)
    \/ CloseStore \/ DaemonEnded \/ DaemonStarts

RequestsSpec == RequestsInit /\ [][RequestsNext]_requestVars

(* The client's timers fire; no handler is assumed to end. *)
ClientTimers(k) == (Begin(k) /\ client[k].pc = "backoff") \/ ConnectFails(k) \/ TimesOut(k)
RequestsFairness == \A k \in Requests : WF_requestVars(ClientTimers(k))

-----------------------------------------------------------------------------
(* The types of calls, connections and handlers. *)
RequestsTypeOK ==
    /\ client \in [Requests -> [method : Methods,
                                 pc : {"idle", "calling", "backoff", "ok", "refused", "failed", "aborted"},
                                 n : 0..MaxAttempts]]
    /\ connection \in [Requests -> {"none", "open", "ended"}]
    /\ handlers \subseteq [call : Requests, n : 1..MaxAttempts, stage : {"received", "decided", "dispatched", "audited"},
                           outcome : {"none", "ok", "refused", "unavailable"}]
    /\ daemon \in {"serving", "closing", "closed", "down"} /\ daemons \in 1..MaxDaemons
    /\ applied \in [Requests -> 0..MaxAttempts] /\ {audited, unwritten} \subseteq SUBSET Requests

(* A call that was told OK has done all that it changes, and was recorded while the store
   was open, also when the daemon was stopped between its transactions: the sockets are
   closed before the store (main.ts, finally).  Only a store that fails to write the
   record itself leaves such a call out of the audit trail. *)
AnsweredIsAudited ==
    \A k \in Requests :
        client[k].pc = "ok" => /\ client[k].method = "read" \/ applied[k] > 0
                               /\ k \in audited \union unwritten

(* A call returns, whatever the daemon does, after a bounded number of attempts,
   unless the daemon ended the connection the call was waiting on. *)
CallsReturn ==
    \A k \in Requests :
        client[k].pc = "calling" ~> client[k].pc \notin {"calling", "backoff"} \/ connection[k] = "ended"
=============================================================================
