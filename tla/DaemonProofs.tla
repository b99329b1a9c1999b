---------------------------- MODULE DaemonProofs ----------------------------
(***************************************************************************)
(* Proofs about the daemon of a project, of which one process should be left, *)
(* and what it and the MCP server do for agents: calls that are retried, the  *)
(* index of the code, the reading of the log, and the file tools; for any     *)
(* number of processes, calls, files, events, agents and restarts.           *)
(***************************************************************************)
EXTENDS MCDaemon,
        OrderLemmas, FiniteSetTheorems, TLAPS

(***************************************************************************)
(* Requests.                                                               *)
(***************************************************************************)
(* A connection is open only while its call waits and the daemon serves, and *)
(* a daemon that is down has no handler.                                    *)
OpenIsServed ==
    /\ \A k \in Requests : connection[k] = "open" => daemon = "serving" /\ client[k].pc = "calling"
    /\ daemon = "down" => handlers = {}

(* Who has attempts left may try again, and who has begun has had one.      *)
AttemptsBounded ==
    \A k \in Requests :
        /\ client[k].pc = "idle" => client[k].n = 0
        /\ client[k].pc = "calling" => client[k].n > 0
        /\ client[k].pc = "backoff" => AttemptsLeft(k)

(* What a handler reports it has done, and recorded, or failed to in the open *)
(* store, unless it did so behind the closing of the store.                  *)
HandlersReport ==
    \A h \in handlers :
        /\ h.stage \in {"received", "decided"} <=> h.outcome = "none"
        /\ h.outcome = "ok" => MethodOf(h) = "read" \/ applied[h.call] > 0
        /\ h.outcome = "ok" /\ h.stage = "audited" => h.call \in audited \union unwritten \/ daemon = "closed"

(* The handlers of a call that have yet to change the store, and the         *)
(* attempts that have reached the daemon.                                   *)
Pending(k) == {h \in handlers : h.call = k /\ h.stage \in {"received", "decided"}}
Sent(k) == client[k].n - (IF client[k].pc = "calling" /\ connection[k] = "none" THEN 1 ELSE 0)
OncePerAttempt ==
    /\ IsFiniteSet(handlers)
    /\ \A k \in Requests : applied[k] + Cardinality(Pending(k)) <= Sent(k)

RequestsInv ==
    /\ RequestsTypeOK /\ OpenIsServed /\ AttemptsBounded /\ HandlersReport
    /\ OncePerAttempt /\ AnsweredIsAudited

(* A step of the requests is one of these.                                  *)
LEMMA RequestCases ==
    ASSUME [RequestsNext]_requestVars
    PROVE  \/ \E k \in Requests : Begin(k) \/ Connect(k) \/ ConnectFails(k) \/ TimesOut(k) \/ Abort(k)
           \/ \E h \in handlers :
                Dispatch(h) \/ Audit(h) \/ AnswerCall(h)
           \/ \E reset \in SUBSET Connected : StopServing(reset) \/ DaemonDies(reset)
           \/ CloseStore \/ DaemonEnded \/ DaemonStarts
           \/ UNCHANGED requestVars
  BY DEF RequestsNext

(* What a step of the client does to the call: nothing to the handlers but   *)
(* the new one of Connect.                                                  *)
LEMMA ClientStep ==
    ASSUME RequestsInv, NEW k \in Requests,
           Begin(k) \/ Connect(k) \/ ConnectFails(k) \/ TimesOut(k) \/ Abort(k)
    PROVE  RequestsInv'
<1> USE RequestsAssumption DEF AttemptsLeft, RequestsInv
<1>1. RequestsTypeOK'
  <2>1. CASE Begin(k)
    BY <2>1 DEF RequestsTypeOK, Begin, AttemptsBounded
  <2>2. CASE Connect(k)
    BY <2>2 DEF RequestsTypeOK, Connect, AttemptsBounded
  <2>3. CASE ConnectFails(k) \/ TimesOut(k) \/ Abort(k)
    BY <2>3 DEF RequestsTypeOK, ConnectFails, TimesOut, Abort, Retried, Returns
  <2> QED
    BY <2>1, <2>2, <2>3
<1>2. OpenIsServed' /\ AttemptsBounded'
  BY DEF RequestsTypeOK, OpenIsServed, AttemptsBounded, Begin, Connect, ConnectFails, TimesOut, Abort,
         Retried, Returns
<1>3. \A j \in Requests : client'[j].method = client[j].method
  BY DEF RequestsTypeOK, Begin, Connect, ConnectFails, TimesOut, Abort, Retried, Returns
<1>4. /\ applied' = applied /\ audited' = audited /\ unwritten' = unwritten /\ daemon' = daemon
      /\ \A h \in handlers' : h \in handlers \/ (h.call = k /\ h.stage = "received" /\ h.outcome = "none")
  BY DEF Begin, Connect, ConnectFails, TimesOut, Abort
<1>5. HandlersReport'
  <2>1. \A h \in handlers : h.call \in Requests
    BY DEF RequestsTypeOK
  <2> QED
    BY <1>3, <1>4, <2>1 DEF HandlersReport, MethodOf
<1>6. \A j \in Requests : client'[j].pc = "ok" => client[j].pc = "ok"
  BY DEF RequestsTypeOK, Begin, Connect, ConnectFails, TimesOut, Abort, Retried, Returns
<1>7. AnsweredIsAudited'
  BY <1>3, <1>4, <1>6 DEF AnsweredIsAudited
<1>8. OncePerAttempt'
  <2> HIDE DEF RequestsInv
  <2>1. IsFiniteSet(handlers) /\ IsFiniteSet(handlers')
    BY FS_AddElement DEF RequestsInv, OncePerAttempt, Begin, Connect, ConnectFails, TimesOut, Abort
  <2>2. ASSUME NEW j \in Requests
        PROVE  /\ Cardinality(Pending(j)) \in Nat /\ Cardinality(Pending(j)') \in Nat
               /\ Pending(j)' = Pending(j) => Cardinality(Pending(j)') = Cardinality(Pending(j))
               /\ ~ Connect(j) => Pending(j)' = Pending(j)
               /\ Connect(j) => Cardinality(Pending(j)') <= Cardinality(Pending(j)) + 1
    <3>1. /\ IsFiniteSet(Pending(j))
          /\ Cardinality(Pending(j)) \in Nat /\ Cardinality(Pending(j)') \in Nat
      BY <2>1, FS_Subset, FS_CardinalityType, Pending(j) \subseteq handlers, Pending(j)' \subseteq handlers'
         DEF Pending
    <3>2. ~ Connect(j) => Pending(j)' = Pending(j)
      BY DEF Pending, Begin, Connect, ConnectFails, TimesOut, Abort
    <3>3. ASSUME Connect(j)
          PROVE  Cardinality(Pending(j)') <= Cardinality(Pending(j)) + 1
      <4> DEFINE g == [call |-> j, n |-> client[j].n, stage |-> "received", outcome |-> "none"]
      <4>1. Pending(j)' = Pending(j) \union {g}
        BY <3>3 DEF Pending, Connect
      <4>2. Cardinality(Pending(j) \union {g}) =
              IF g \in Pending(j) THEN Cardinality(Pending(j)) ELSE Cardinality(Pending(j)) + 1
        <5> HIDE DEF g
        <5> QED
          BY <3>1, FS_AddElement, Zenon
      <4> QED
        BY <3>1, <4>1, <4>2
    <3> QED
      BY <3>1, <3>2, <3>3
  <2>3. ASSUME NEW j \in Requests
        PROVE  /\ Sent(j) \in Int /\ Sent(j)' \in Int /\ Sent(j) <= Sent(j)'
               /\ Connect(j) => Sent(j)' = Sent(j) + 1
    BY DEF Sent, RequestsInv, RequestsTypeOK, AttemptsBounded, Begin, Connect, ConnectFails, TimesOut, Abort,
           Timed, Retried, Returns
  <2>4. ASSUME NEW j \in Requests
        PROVE  applied'[j] + Cardinality(Pending(j)') <= Sent(j)'
    <3>1. applied[j] + Cardinality(Pending(j)) <= Sent(j) /\ applied[j] \in Nat
      BY DEF RequestsInv, OncePerAttempt, RequestsTypeOK
    <3> QED
      BY <1>4, <2>2, <2>3, <3>1
  <2> QED
    BY <2>1, <2>4 DEF OncePerAttempt
<1> QED
  BY <1>1, <1>2, <1>5, <1>7, <1>8

(* The handlers there can be.                                               *)
Handlers == [call : Requests, n : 1..MaxAttempts, stage : {"received", "decided", "dispatched", "audited"},
             outcome : {"none", "ok", "refused", "unavailable"}]

(* Moved puts one handler in the place of another of the same attempt.      *)
LEMMA MovedTo ==
    ASSUME NEW h \in Handlers,
           NEW stage \in {"received", "decided", "dispatched", "audited"},
           NEW outcome \in {"none", "ok", "refused", "unavailable"}, Moved(h, stage, outcome)
    PROVE  \E g \in Handlers : /\ handlers' = (handlers \ {h}) \union {g}
                               /\ g.call = h.call /\ g.stage = stage /\ g.outcome = outcome
<1> DEFINE g == [h EXCEPT !.stage = stage, !.outcome = outcome]
<1>1. g \in Handlers /\ g.call = h.call /\ g.stage = stage /\ g.outcome = outcome
  BY DEF Handlers
<1> QED
  BY <1>1 DEF Moved

(* What the dispatch of a request does, in the store and to its handler.    *)
LEMMA DispatchStep ==
    ASSUME RequestsTypeOK, NEW h \in handlers, Dispatch(h)
    PROVE  /\ h.stage \in {"received", "decided"}
           /\ \E g \in Handlers :
                /\ handlers' = (handlers \ {h}) \union {g} /\ g.call = h.call
                /\ \/ g.stage = "decided" /\ g.outcome = "none" /\ applied' = applied
                   \/ g.stage = "dispatched" /\ g.outcome # "none" /\ applied' = applied
                      /\ (g.outcome = "ok" => MethodOf(h) = "read")
                   \/ g.stage = "dispatched" /\ g.outcome # "none"
                      /\ applied' = [applied EXCEPT ![h.call] = @ + 1]
<1> h \in Handlers
  BY DEF RequestsTypeOK, Handlers
<1>1. CASE ServeRead(h)
  BY <1>1, MovedTo DEF ServeRead
<1>2. CASE Commit(h)
  BY <1>2, MovedTo DEF Commit
<1>3. CASE Decide(h)
  BY <1>3, MovedTo DEF Decide
<1>4. CASE ApplyDecision(h)
  BY <1>4, MovedTo DEF ApplyDecision
<1>5. CASE \E outcome \in {"refused", "unavailable"} : Throws(h, outcome)
  <2>2. PICK outcome \in {"refused", "unavailable"} : Throws(h, outcome)
    BY <1>5
  <2>1. PICK g \in Handlers : /\ handlers' = (handlers \ {h}) \union {g}
                              /\ g.call = h.call /\ g.stage = "dispatched" /\ g.outcome = outcome
    BY <2>2, MovedTo DEF Throws
  <2> QED
    BY <2>1, <2>2 DEF Throws, InDispatch
<1> QED
  BY <1>1, <1>2, <1>3, <1>4, <1>5 DEF Dispatch

(* The handlers to come when one is moved or ends.                          *)
LEMMA PendingMoved ==
    ASSUME RequestsTypeOK, IsFiniteSet(handlers), NEW h \in handlers, NEW g \in Handlers,
           g.call = h.call, handlers' = (handlers \ {h}) \union {g}, NEW k \in Requests
    PROVE  /\ IsFiniteSet(handlers')
           /\ Cardinality(Pending(k)) \in Nat /\ Cardinality(Pending(k)') \in Nat
           /\ h.stage \in {"received", "decided"} /\ g.stage = "dispatched" /\ k = h.call =>
                Cardinality(Pending(k)') = Cardinality(Pending(k)) - 1
           /\ h.stage \in {"received", "decided"} \/ g.stage \notin {"received", "decided"} =>
                Cardinality(Pending(k)') <= Cardinality(Pending(k))
<1>1. IsFiniteSet(handlers')
  BY FS_RemoveElement, FS_AddElement
<1>2. /\ IsFiniteSet(Pending(k)) /\ IsFiniteSet(Pending(k)')
      /\ Cardinality(Pending(k)) \in Nat /\ Cardinality(Pending(k)') \in Nat
  BY <1>1, FS_Subset, FS_CardinalityType, Pending(k) \subseteq handlers, Pending(k)' \subseteq handlers'
     DEF Pending
<1>3. h.call # k \/ (h.stage \notin {"received", "decided"} /\ g.stage \notin {"received", "decided"}) =>
        Pending(k)' = Pending(k)
  BY DEF Pending
<1>4. ASSUME h.call = k, h.stage \in {"received", "decided"}
      PROVE  IF g.stage \in {"received", "decided"} THEN Pending(k)' = (Pending(k) \ {h}) \union {g}
             ELSE Pending(k)' = Pending(k) \ {h}
  BY <1>4 DEF Pending
<1>5. ASSUME h.call = k, h.stage \in {"received", "decided"}
      PROVE  /\ IsFiniteSet(Pending(k) \ {h})
             /\ Cardinality(Pending(k) \ {h}) = Cardinality(Pending(k)) - 1
             /\ Cardinality((Pending(k) \ {h}) \union {g}) <= Cardinality(Pending(k))
  <2>1. h \in Pending(k)
    BY <1>5 DEF Pending
  <2>2. /\ IsFiniteSet(Pending(k) \ {h})
        /\ Cardinality(Pending(k) \ {h}) = Cardinality(Pending(k)) - 1
    BY <1>2, <2>1, FS_RemoveElement
  <2>3. Cardinality((Pending(k) \ {h}) \union {g}) \in
          {Cardinality(Pending(k) \ {h}), Cardinality(Pending(k) \ {h}) + 1}
    <3> HIDE DEF Pending
    <3>1. Cardinality((Pending(k) \ {h}) \union {g}) =
            IF g \in Pending(k) \ {h} THEN Cardinality(Pending(k) \ {h})
            ELSE Cardinality(Pending(k) \ {h}) + 1
      BY <2>2, FS_AddElement, Zenon
    <3> QED
      BY <3>1, Zenon
  <2> QED
    BY <1>2, <2>2, <2>3
<1>6. CASE h.call # k \/ h.stage \notin {"received", "decided"}
  <2>1. g.stage \notin {"received", "decided"} \/ h.call # k => Cardinality(Pending(k)') = Cardinality(Pending(k))
    BY <1>3, <1>6
  <2> QED
    BY <1>1, <1>2, <1>6, <2>1
<1>7. CASE h.call = k /\ h.stage \in {"received", "decided"}
  <2>1. /\ g.stage \in {"received", "decided"} => Pending(k)' = (Pending(k) \ {h}) \union {g}
        /\ g.stage \notin {"received", "decided"} => Pending(k)' = Pending(k) \ {h}
    BY <1>4, <1>7
  <2>2. /\ Cardinality(Pending(k) \ {h}) = Cardinality(Pending(k)) - 1
        /\ Cardinality((Pending(k) \ {h}) \union {g}) <= Cardinality(Pending(k))
    BY <1>5, <1>7
  <2>3. CASE g.stage \in {"received", "decided"}
    <3>1. Cardinality(Pending(k)') <= Cardinality(Pending(k))
      BY <2>1, <2>2, <2>3
    <3> QED
      BY <1>1, <1>2, <2>3, <3>1
  <2>4. CASE g.stage \notin {"received", "decided"}
    <3>1. Cardinality(Pending(k)') = Cardinality(Pending(k)) - 1
      BY <2>1, <2>2, <2>4
    <3> QED
      BY <1>1, <1>2, <3>1
  <2> QED
    BY <2>3, <2>4
<1> QED
  BY <1>6, <1>7

(* A step of a handler.                                                     *)
LEMMA HandlerStep ==
    ASSUME RequestsInv, NEW h \in handlers, Dispatch(h) \/ Audit(h) \/ AnswerCall(h)
    PROVE  RequestsInv'
<1> USE DEF AttemptsLeft
<1>1. /\ h \in Handlers /\ h.call \in Requests /\ handlers \subseteq Handlers
      /\ \A g \in Handlers : g.call \in Requests
      /\ applied \in [Requests -> Nat]
      /\ \A k \in Requests : client[k].n \in Nat
  BY RequestsAssumption DEF RequestsInv, RequestsTypeOK, Handlers
<1>2. CASE Dispatch(h)
  <2>1. UNCHANGED <<client, connection, daemon, daemons, audited, unwritten>> /\ h.stage \in {"received", "decided"}
    BY <1>2, DispatchStep DEF Dispatch, RequestsInv
  <2>2. PICK g \in Handlers :
                /\ handlers' = (handlers \ {h}) \union {g} /\ g.call = h.call
                /\ \/ g.stage = "decided" /\ g.outcome = "none" /\ applied' = applied
                   \/ g.stage = "dispatched" /\ g.outcome # "none" /\ applied' = applied
                      /\ (g.outcome = "ok" => MethodOf(h) = "read")
                   \/ g.stage = "dispatched" /\ g.outcome # "none"
                      /\ applied' = [applied EXCEPT ![h.call] = @ + 1]
    BY <1>2, DispatchStep DEF RequestsInv
  <2>3. \A k \in Requests : applied'[k] \in Nat /\ applied'[k] >= applied[k]
    BY <1>1, <2>2
  <2>4. HandlersReport'
    <3>1. g.outcome = "ok" => MethodOf(h) = "read" \/ applied'[h.call] > 0
      BY <1>1, <2>2
    <3> QED
      BY <1>1, <2>1, <2>2, <2>3, <3>1 DEF RequestsInv, HandlersReport, MethodOf
  <2>5. AnsweredIsAudited'
    BY <1>1, <2>1, <2>3 DEF AnsweredIsAudited, RequestsInv
  <2>6. OncePerAttempt'
    <3>1. IsFiniteSet(handlers')
      BY <2>2, PendingMoved, <1>1 DEF RequestsInv, OncePerAttempt
    <3>2. ASSUME NEW k \in Requests
          PROVE  applied'[k] + Cardinality(Pending(k)') <= applied[k] + Cardinality(Pending(k))
      <4>1. /\ Cardinality(Pending(k)) \in Nat /\ Cardinality(Pending(k)') \in Nat
            /\ g.stage = "dispatched" /\ k = h.call => Cardinality(Pending(k)') = Cardinality(Pending(k)) - 1
            /\ Cardinality(Pending(k)') <= Cardinality(Pending(k))
        BY <2>1, <2>2, PendingMoved DEF RequestsInv, OncePerAttempt
      <4>2. applied'[k] = applied[k] \/ (g.stage = "dispatched" /\ k = h.call /\ applied'[k] = applied[k] + 1)
        BY <1>1, <2>2
      <4> QED
        BY <1>1, <4>1, <4>2
    <3>3. ASSUME NEW k \in Requests
          PROVE  Sent(k)' = Sent(k)
      BY <2>1 DEF Sent
    <3>4. ASSUME NEW k \in Requests
          PROVE  applied'[k] + Cardinality(Pending(k)') <= Sent(k)'
      <4>1. applied[k] + Cardinality(Pending(k)) <= Sent(k)
        BY DEF RequestsInv, OncePerAttempt
      <4>2. /\ Cardinality(Pending(k)) \in Nat /\ Cardinality(Pending(k)') \in Nat
            /\ Sent(k) \in Int
        BY <1>1, <2>2, PendingMoved DEF RequestsInv, OncePerAttempt, Sent
      <4> QED
        BY <1>1, <2>3, <3>2, <3>3, <4>1, <4>2
    <3> QED
      BY <3>1, <3>4 DEF OncePerAttempt
  <2>7. RequestsTypeOK'
    <3>1. ASSUME NEW k \in Requests
          PROVE  applied'[k] \in 0..MaxAttempts
      <4>1. Cardinality(Pending(k)') \in Nat
        BY <2>2, PendingMoved DEF RequestsInv, OncePerAttempt
      <4>2. Sent(k)' \in Int /\ Sent(k)' <= MaxAttempts
        BY <2>1, RequestsAssumption DEF Sent, RequestsInv, RequestsTypeOK
      <4> QED
        BY <2>3, <2>6, <4>1, <4>2, RequestsAssumption DEF OncePerAttempt
    <3>2. applied' \in [Requests -> 0..MaxAttempts]
      BY <1>1, <2>2, <3>1
    <3> QED
      BY <1>1, <2>1, <2>2, <3>2 DEF RequestsInv, RequestsTypeOK, Handlers
  <2> QED
    BY <2>1, <2>2, <2>4, <2>5, <2>6, <2>7 DEF RequestsInv, OpenIsServed, AttemptsBounded
<1>3. CASE Audit(h)
  <2>1. UNCHANGED <<client, connection, daemon, daemons, applied>>
        /\ audited \subseteq audited' /\ unwritten \subseteq unwritten'
    BY <1>3 DEF Audit
  <2>2. PICK g \in Handlers : /\ handlers' = (handlers \ {h}) \union {g} /\ g.call = h.call
                              /\ g.stage = "audited" /\ g.outcome = h.outcome
    BY <1>1, <1>3, MovedTo DEF Audit, Handlers
  <2>3. /\ h.outcome = "ok" => h.call \in audited' \union unwritten' \/ daemon = "closed"
        /\ h.outcome # "none"
    BY <1>3 DEF Audit, StoreOpen, RequestsInv, RequestsTypeOK, OpenIsServed, HandlersReport
  <2>4. HandlersReport'
    BY <1>1, <2>1, <2>2, <2>3 DEF RequestsInv, HandlersReport, MethodOf
  <2>5. AnsweredIsAudited'
    BY <2>1 DEF AnsweredIsAudited, RequestsInv
  <2>6. OncePerAttempt'
    <3>1. IsFiniteSet(handlers')
      BY <2>2, PendingMoved, <1>1 DEF RequestsInv, OncePerAttempt
    <3>2. ASSUME NEW k \in Requests
          PROVE  /\ Cardinality(Pending(k)') <= Cardinality(Pending(k))
                 /\ Cardinality(Pending(k)) \in Nat /\ Cardinality(Pending(k)') \in Nat
      BY <2>2, PendingMoved DEF RequestsInv, OncePerAttempt
    <3>3. ASSUME NEW k \in Requests
          PROVE  applied'[k] + Cardinality(Pending(k)') <= Sent(k)'
      <4>1. Sent(k)' = Sent(k) /\ Sent(k) \in Int
        BY <1>1, <2>1 DEF Sent
      <4>2. applied[k] + Cardinality(Pending(k)) <= Sent(k)
        BY DEF RequestsInv, OncePerAttempt
      <4> QED
        BY <1>1, <2>1, <3>2, <4>1, <4>2
    <3> QED
      BY <3>1, <3>3 DEF OncePerAttempt
  <2>7. RequestsTypeOK'
    <3>1. audited' \subseteq Requests /\ unwritten' \subseteq Requests
      BY <1>1, <1>3 DEF Audit, RequestsInv, RequestsTypeOK
    <3> QED
      BY <1>1, <2>1, <2>2, <3>1 DEF RequestsInv, RequestsTypeOK, Handlers
  <2> QED
    BY <2>1, <2>2, <2>4, <2>5, <2>6, <2>7 DEF RequestsInv, OpenIsServed, AttemptsBounded
<1>4. CASE AnswerCall(h)
  <2>1. /\ UNCHANGED <<daemon, daemons, applied, audited, unwritten>> /\ handlers' = handlers \ {h}
        /\ h.stage = "audited"
    BY <1>4 DEF AnswerCall
  <2>2. \/ UNCHANGED <<client, connection>>
        \/ /\ connection[h.call] = "open" /\ client[h.call].pc = "calling"
           /\ connection' = [connection EXCEPT ![h.call] = "none"]
           /\ \E at \in {"ok", "refused", "failed", "backoff"} :
                /\ client' = [client EXCEPT ![h.call].pc = at]
                /\ at = "ok" => h.outcome = "ok"
                /\ at = "backoff" => AttemptsLeft(h.call)
    <3>1. h.outcome \in {"ok", "refused", "unavailable"}
      BY <2>1 DEF RequestsInv, RequestsTypeOK, HandlersReport
    <3>2. ASSUME NEW outcome \in {"ok", "refused", "unavailable"}, Answered(h, outcome),
                 outcome = h.outcome \/ outcome = "refused"
          PROVE  <2>2
      BY <3>2 DEF Answered, Retried, Returns
    <3> QED
      BY <1>4, <3>1, <3>2 DEF AnswerCall
  <2>3. \A k \in Requests :
           /\ client'[k].method = client[k].method /\ client'[k].n = client[k].n
           /\ client'[k].pc = "ok" => client[k].pc = "ok" \/ (k = h.call /\ h.outcome = "ok" /\ connection[k] = "open")
    BY <1>1, <2>2 DEF RequestsInv, RequestsTypeOK
  <2>4. RequestsTypeOK'
    <3>1. CASE UNCHANGED <<client, connection>>
      BY <2>1, <3>1 DEF RequestsInv, RequestsTypeOK
    <3>2. CASE ~UNCHANGED <<client, connection>>
      <4>1. PICK at \in {"ok", "refused", "failed", "backoff"} :
               client' = [client EXCEPT ![h.call].pc = at]
        BY <2>2, <3>2
      <4>2. client' \in [Requests -> [method : Methods,
                 pc : {"idle", "calling", "backoff", "ok", "refused", "failed", "aborted"},
                 n : 0..MaxAttempts]]
        BY <1>1, <4>1 DEF RequestsInv, RequestsTypeOK
      <4>3. connection' \in [Requests -> {"none", "open", "ended"}]
        BY <1>1, <2>2 DEF RequestsInv, RequestsTypeOK
      <4> QED
        BY <2>1, <4>2, <4>3 DEF RequestsInv, RequestsTypeOK
    <3> QED
      BY <3>1, <3>2
  <2>5. OpenIsServed' /\ AttemptsBounded'
    <3>1. CASE UNCHANGED <<client, connection>>
      BY <2>1, <3>1 DEF RequestsInv, OpenIsServed, AttemptsBounded, AttemptsLeft
    <3>2. CASE ~UNCHANGED <<client, connection>>
      <4>1. /\ client' \in [Requests -> [method : Methods,
                 pc : {"idle", "calling", "backoff", "ok", "refused", "failed", "aborted"},
                 n : 0..MaxAttempts]]
            /\ connection \in [Requests -> {"none", "open", "ended"}]
        BY <2>4 DEF RequestsInv, RequestsTypeOK
      <4>2. /\ connection' = [connection EXCEPT ![h.call] = "none"]
            /\ client'[h.call].pc \in {"ok", "refused", "failed", "backoff"}
            /\ client'[h.call].pc = "backoff" => AttemptsLeft(h.call)
            /\ \A k \in Requests : k # h.call => client'[k] = client[k]
            /\ \A k \in Requests : client'[k].n = client[k].n
        BY <1>1, <2>2, <2>3, <3>2 DEF RequestsInv, RequestsTypeOK
      <4>3. OpenIsServed'
        BY <2>1, <4>1, <4>2 DEF RequestsInv, OpenIsServed
      <4>4. AttemptsBounded'
        BY <4>2 DEF RequestsInv, AttemptsBounded, AttemptsLeft
      <4> QED
        BY <4>3, <4>4
    <3> QED
      BY <3>1, <3>2
  <2>6. HandlersReport'
    BY <1>1, <2>1, <2>3 DEF RequestsInv, HandlersReport, MethodOf
  <2>7. AnsweredIsAudited'
    <3>1. ASSUME NEW k \in Requests, client'[k].pc = "ok", client[k].pc # "ok"
          PROVE  (client[k].method = "read" \/ applied[k] > 0) /\ k \in audited \union unwritten
      BY <2>1, <2>3, <3>1 DEF RequestsInv, HandlersReport, MethodOf, OpenIsServed
    <3> QED
      BY <2>1, <2>3, <3>1 DEF RequestsInv, AnsweredIsAudited
  <2>8. OncePerAttempt'
    <3>1. IsFiniteSet(handlers')
      BY <2>1, FS_RemoveElement DEF RequestsInv, OncePerAttempt
    <3>2. ASSUME NEW k \in Requests
          PROVE  Pending(k)' = Pending(k)
      BY <2>1 DEF Pending
    <3>3. ASSUME NEW k \in Requests
          PROVE  Sent(k)' = Sent(k)
      <4>1. client'[k].n = client[k].n
        BY <2>3
      <4>2. client'[k].pc = "calling" /\ connection'[k] = "none" <=> client[k].pc = "calling" /\ connection[k] = "none"
        <5>1. CASE k = h.call
          BY <1>1, <2>2, <5>1 DEF RequestsInv, RequestsTypeOK
        <5>2. CASE k # h.call
          BY <1>1, <2>2, <5>2 DEF RequestsInv, RequestsTypeOK
        <5> QED
          BY <5>1, <5>2
      <4> QED
        BY <4>1, <4>2 DEF Sent
    <3> QED
      BY <2>1, <3>1, <3>2, <3>3 DEF RequestsInv, OncePerAttempt
  <2> QED
    BY <2>4, <2>5, <2>6, <2>7, <2>8 DEF RequestsInv
<1> QED
  BY <1>2, <1>3, <1>4

(* Cut ends the calls that wait, each in one of two ways.                   *)
LEMMA CutCalls ==
    ASSUME RequestsTypeOK, OpenIsServed, NEW reset \in SUBSET Connected, Cut(reset)
    PROVE  /\ client' \in [Requests -> [method : Methods,
                                 pc : {"idle", "calling", "backoff", "ok", "refused", "failed", "aborted"},
                                 n : 0..MaxAttempts]]
           /\ connection' \in [Requests -> {"none", "ended"}]
           /\ \A k \in Requests :
                /\ client'[k].method = client[k].method /\ client'[k].n = client[k].n
                /\ connection'[k] = "none" /\ client'[k].pc = "calling" =>
                      connection[k] = "none" /\ client[k].pc = "calling"
                /\ \/ client'[k].pc = client[k].pc
                   \/ client'[k].pc = "backoff" /\ AttemptsLeft(k)
                   \/ client'[k].pc = "failed"
<1>1. ASSUME NEW k \in Requests
      PROVE  /\ client'[k] \in [method : Methods,
                                 pc : {"idle", "calling", "backoff", "ok", "refused", "failed", "aborted"},
                                 n : 0..MaxAttempts]
             /\ client'[k].method = client[k].method /\ client'[k].n = client[k].n
             /\ client'[k].pc = IF k \notin reset THEN client[k].pc
                                ELSE IF AttemptsLeft(k) THEN "backoff" ELSE "failed"
  <2>1. client'[k] = IF k \in reset
                     THEN [client[k] EXCEPT !.pc = IF client[k].n < MaxAttempts THEN "backoff" ELSE "failed"]
                     ELSE client[k]
    BY DEF Cut
  <2>2. client[k] \in [method : Methods,
                       pc : {"idle", "calling", "backoff", "ok", "refused", "failed", "aborted"},
                       n : 0..MaxAttempts]
    BY DEF RequestsTypeOK
  <2> QED
    BY <2>1, <2>2 DEF AttemptsLeft
<1>2. client' = [k \in Requests |-> client'[k]]
  BY DEF Cut
<1>3. /\ connection' \in [Requests -> {"none", "ended"}]
      /\ \A k \in Requests : connection'[k] = "none" => k \in reset \/ connection[k] = "none"
  BY DEF Cut, Connected, RequestsTypeOK
<1> QED
  BY <1>1, <1>2, <1>3

(* The end and the start of a daemon cut connections and drop handlers.     *)
LEMMA LifeStep ==
    ASSUME RequestsInv,
           \/ \E reset \in SUBSET Connected : StopServing(reset) \/ DaemonDies(reset)
           \/ CloseStore \/ DaemonEnded \/ DaemonStarts
    PROVE  RequestsInv'
<1>1. CASE \E reset \in SUBSET Connected : StopServing(reset) \/ DaemonDies(reset)
  <2>1. PICK reset \in SUBSET Connected : StopServing(reset) \/ DaemonDies(reset)
    BY <1>1
  <2>2. /\ Cut(reset) /\ UNCHANGED <<daemons, applied, audited, unwritten>>
        /\ \/ daemon = "serving" /\ daemon' = "closing" /\ handlers' = handlers
           \/ daemon' = "down" /\ handlers' = {}
    BY <2>1 DEF StopServing, DaemonDies, Destroyed
  <2>3. /\ client' \in [Requests -> [method : Methods,
                                 pc : {"idle", "calling", "backoff", "ok", "refused", "failed", "aborted"},
                                 n : 0..MaxAttempts]]
        /\ connection' \in [Requests -> {"none", "ended"}]
        /\ \A k \in Requests :
             /\ client'[k].method = client[k].method /\ client'[k].n = client[k].n
             /\ connection'[k] = "none" /\ client'[k].pc = "calling" =>
                      connection[k] = "none" /\ client[k].pc = "calling"
             /\ \/ client'[k].pc = client[k].pc
                \/ client'[k].pc = "backoff" /\ AttemptsLeft(k)
                \/ client'[k].pc = "failed"
    BY <2>2, CutCalls DEF RequestsInv
  <2>4. RequestsTypeOK'
    BY <2>2, <2>3 DEF RequestsInv, RequestsTypeOK
  <2>5. OpenIsServed' /\ AttemptsBounded'
    BY <2>2, <2>3 DEF RequestsInv, OpenIsServed, AttemptsBounded, AttemptsLeft
  <2>6. HandlersReport'
    BY <2>2, <2>3 DEF RequestsInv, RequestsTypeOK, HandlersReport, MethodOf
  <2>7. AnsweredIsAudited'
    BY <2>2, <2>3 DEF RequestsInv, AnsweredIsAudited
  <2>8. OncePerAttempt'
    <3>1. ASSUME NEW k \in Requests
          PROVE  Sent(k) \in Int /\ Sent(k)' \in Int /\ Sent(k) <= Sent(k)'
      BY <2>3 DEF Sent, RequestsInv, RequestsTypeOK
    <3>2. IsFiniteSet(handlers')
      BY <2>2, FS_EmptySet DEF RequestsInv, OncePerAttempt
    <3>3. ASSUME NEW k \in Requests
          PROVE  /\ Cardinality(Pending(k)') \in Nat /\ Cardinality(Pending(k)) \in Nat
                 /\ Cardinality(Pending(k)') <= Cardinality(Pending(k))
      BY <2>2, FS_Subset, FS_CardinalityType, Pending(k)' \subseteq Pending(k), Pending(k) \subseteq handlers
         DEF Pending, RequestsInv, OncePerAttempt
    <3> QED
      BY <2>2, <3>1, <3>2, <3>3 DEF RequestsInv, OncePerAttempt, RequestsTypeOK
  <2> QED
    BY <2>4, <2>5, <2>6, <2>7, <2>8 DEF RequestsInv
<1>2. CASE CloseStore \/ DaemonEnded \/ DaemonStarts
  <2>1. /\ UNCHANGED <<client, connection, handlers, applied, audited, unwritten>>
        /\ daemon # "serving" /\ daemon' \in {"closed", "down", "serving"}
        /\ daemon = "closed" => daemon' # "serving" /\ (daemon' = "closed" \/ handlers = {})
        /\ daemon' = "down" => handlers = {}
        /\ daemons' \in 1..MaxDaemons
    BY <1>2, RequestsAssumption DEF CloseStore, DaemonEnded, DaemonStarts, RequestsInv, RequestsTypeOK
  <2>2. RequestsTypeOK' /\ OpenIsServed' /\ AttemptsBounded'
    BY <2>1 DEF RequestsInv, RequestsTypeOK, OpenIsServed, AttemptsBounded, AttemptsLeft
  <2>3. HandlersReport' /\ AnsweredIsAudited' /\ OncePerAttempt'
    BY <2>1 DEF RequestsInv, HandlersReport, MethodOf, AnsweredIsAudited, OncePerAttempt, Pending, Sent
  <2> QED
    BY <2>2, <2>3 DEF RequestsInv
<1> QED
  BY <1>1, <1>2


LEMMA RequestsInvariant == RequestsSpec => []RequestsInv
<1>1. RequestsInit => RequestsInv
  <2>1. ASSUME RequestsInit, NEW k \in Requests
        PROVE  Pending(k) = {} /\ Cardinality(Pending(k)) = 0 /\ Sent(k) = 0
    BY <2>1, FS_EmptySet DEF RequestsInit, Pending, Sent
  <2>2. RequestsInit => RequestsTypeOK
    BY RequestsAssumption DEF RequestsInit, RequestsTypeOK
  <2>3. RequestsInit => OpenIsServed /\ AttemptsBounded /\ HandlersReport /\ AnsweredIsAudited
    BY DEF RequestsInit, OpenIsServed, AttemptsBounded, HandlersReport, AnsweredIsAudited
  <2>4. RequestsInit => OncePerAttempt
    BY <2>1, FS_EmptySet DEF RequestsInit, OncePerAttempt
  <2> QED
    BY <2>2, <2>3, <2>4 DEF RequestsInv
<1>2. RequestsInv /\ [RequestsNext]_requestVars => RequestsInv'
  <2> SUFFICES ASSUME RequestsInv, [RequestsNext]_requestVars
               PROVE  RequestsInv'
    OBVIOUS
  <2>1. CASE UNCHANGED requestVars
    BY <2>1 DEF requestVars, RequestsInv, RequestsTypeOK, OpenIsServed, AttemptsBounded, AttemptsLeft,
                HandlersReport, MethodOf, OncePerAttempt, Pending, Sent, AnsweredIsAudited
  <2> QED
    BY <2>1, RequestCases, ClientStep, HandlerStep, LifeStep
<1> QED
  BY <1>1, <1>2, PTL DEF RequestsSpec

(* The calls, connections and handlers keep their types; in particular no    *)
(* call uses more than options.maxAttempts attempts, and an operation is     *)
(* committed no more often than that.                                       *)
THEOREM RequestTypes == RequestsSpec => []RequestsTypeOK
  BY RequestsInvariant, PTL DEF RequestsInv

(* A call that was told OK has done all that it changes and was recorded      *)
(* while the store was open, whatever was retried, and however often the      *)
(* daemon was stopped and the store closed below running handlers; it is      *)
(* missing in the audit trail only when the open store failed to write it.    *)
THEOREM AnswersAreAudited == RequestsSpec => []AnsweredIsAudited
  BY RequestsInvariant, PTL DEF RequestsInv

(* withBoundedRetry may send a change again that was done but not answered:  *)
(* it is committed at most once for each attempt, by handlers that outlive   *)
(* the attempt's timeout too.                                               *)
THEOREM CommittedOncePerAttempt == RequestsSpec => [](\A k \in Requests : applied[k] <= client[k].n)
<1>1. RequestsInv => \A k \in Requests : applied[k] <= client[k].n
  <2> SUFFICES ASSUME RequestsInv, NEW k \in Requests
               PROVE  applied[k] <= client[k].n
    OBVIOUS
  <2>1. Pending(k) \subseteq handlers
    BY DEF Pending
  <2>2. Cardinality(Pending(k)) \in Nat
    BY <2>1, FS_Subset, FS_CardinalityType DEF RequestsInv, OncePerAttempt
  <2>3. applied[k] + Cardinality(Pending(k)) <= Sent(k) /\ applied[k] \in Nat /\ client[k].n \in Nat
    BY RequestsAssumption DEF RequestsInv, OncePerAttempt, RequestsTypeOK
  <2> QED
    BY <2>2, <2>3 DEF Sent
<1> QED
  BY <1>1, RequestsInvariant, PTL


(***************************************************************************)
(* The file tools.                                                         *)
(***************************************************************************)
(* Bytes on their way into the file carry the edits of the content they       *)
(* expect there, and their own.                                             *)
BytesCarry ==
    \A a \in Callers :
        agent[a].at \in {"apply", "publish", "swap"} => agent[a].expects.edits \union {Own(a)} \subseteq agent[a].bytes

(* Who has begun a call has counted it.                                     *)
CallsCounted == \A a \in Callers : agent[a].at # "idle" => agent[a].n > 0

(* One call at a time is in publishOne, and while it is about to rename over   *)
(* the file it has in its bytes what has to be kept.                         *)
OneInLock == \A a, b \in Callers : HoldsLock(a) /\ HoldsLock(b) => a = b
SwapKeeps == \A a \in Callers : agent[a].at = "swap" /\ agent[a].expects.exists => kept \subseteq agent[a].bytes

FilesInv == FilesTypeOK /\ BytesCarry /\ CallsCounted /\ OneInLock /\ SwapKeeps /\ EditsAreKept

(* The states of one agent.                                                 *)
AgentStates ==
    [at : {"idle", "resolved", "record", "transform", "apply", "publish", "swap", "verify", "after"},
     tool : {"none", "read", "write", "patch"}, n : 0..MaxFileCalls,
     read : Contents, told : Contents, expects : Contents, bytes : SUBSET Edits]

LEMMA ContentFacts ==
    /\ NoFile \in Contents /\ Unknown \in Contents
    /\ \A c \in Contents : c.edits \subseteq Edits /\ (~ c.exists => c = NoFile)
    /\ \A es \in SUBSET Edits : [exists |-> TRUE, edits |-> es] \in Contents
<1>1. NoFile \in Contents /\ Unknown \in Contents
  BY DEF Contents, NoFile, Unknown
<1>2. ASSUME NEW c \in Contents
      PROVE  c.edits \subseteq Edits /\ (~ c.exists => c = NoFile)
  <2>1. CASE c = NoFile
    BY <2>1 DEF NoFile
  <2>2. CASE c \in [exists : {TRUE}, edits : SUBSET Edits]
    BY <2>2
  <2> QED
    BY <2>1, <2>2 DEF Contents
<1>3. \A es \in SUBSET Edits : [exists |-> TRUE, edits |-> es] \in Contents
  BY DEF Contents
<1> QED
  BY <1>1, <1>2, <1>3

LEMMA OwnIsEdit ==
    ASSUME FilesTypeOK, CallsCounted, NEW a \in Callers, agent[a].at # "idle"
    PROVE  Own(a) \in Edits
<1>1. agent[a].n \in 1..MaxFileCalls
  BY FileToolsAssumption DEF FilesTypeOK, CallsCounted
<1> QED
  BY <1>1 DEF Own, Edits

(* A step of an agent that leaves the file alone.                            *)
LEMMA AgentMoves ==
    ASSUME FilesInv, NEW a \in Callers, NEW s \in AgentStates, agent' = [agent EXCEPT ![a] = s],
           s.at # "idle" => s.n > 0, s.at \notin {"swap", "verify"},
           s.at \in {"apply", "publish"} => s.expects.edits \union {<<a, s.n>>} \subseteq s.bytes,
           UNCHANGED <<policy, file, saves, kept>>, latest' \in Contents
    PROVE  FilesInv'
<1>1. /\ agent \in [Callers -> AgentStates] /\ agent' \in [Callers -> AgentStates]
      /\ agent'[a] = s /\ \A b \in Callers \ {a} : agent'[b] = agent[b]
  BY DEF FilesInv, FilesTypeOK, AgentStates
<1>2. FilesTypeOK'
  BY <1>1 DEF FilesInv, FilesTypeOK, AgentStates
<1>3. BytesCarry' /\ CallsCounted'
  BY <1>1 DEF FilesInv, BytesCarry, CallsCounted, Own
<1>4. EditsAreKept' /\ OneInLock' /\ SwapKeeps'
  BY <1>1 DEF FilesInv, EditsAreKept, OneInLock, SwapKeeps, HoldsLock
<1> QED
  BY <1>2, <1>3, <1>4 DEF FilesInv

(* The steps of a call before and after it publishes.                        *)
LEMMA CallStep ==
    ASSUME FilesInv, UNCHANGED policy, NEW a \in Callers,
           \/ \E tool \in {"read", "write", "patch"} : BeginCall(a, tool)
           \/ ReadBytes(a) \/ Record(a) \/ CheckWrite(a) \/ CheckPatch(a) \/ Transform(a) \/ HunkFails(a)
           \/ Prepare(a) \/ VerifyBytes(a) \/ PublishFails(a) \/ ReadBack(a)
           \/ CheckAgain(a) /\ Refused(a)
    PROVE  FilesInv'
<1> DEFINE s == agent[a]
<1>1. /\ s \in AgentStates /\ file \in Contents /\ latest \in Contents
      /\ agent = [agent EXCEPT ![a] = s]
      /\ s.at # "idle" => s.n > 0
      /\ s.at \in {"apply", "publish"} => s.expects.edits \union {<<a, s.n>>} \subseteq s.bytes
  BY DEF FilesInv, FilesTypeOK, AgentStates, CallsCounted, BytesCarry, Own
<1>2. CASE Refused(a) /\ s.at # "idle"
  <2>1. [s EXCEPT !.at = "idle"] \in AgentStates
    BY <1>1 DEF AgentStates
  <2>2. agent' = [agent EXCEPT ![a] = [s EXCEPT !.at = "idle"]]
    BY <1>2 DEF Refused
  <2> QED
    BY <1>1, <1>2, <2>1, <2>2, AgentMoves DEF Refused, AgentStates
<1> USE DEF Moves, Own, HashMatches, Expected
<1>3. ASSUME NEW tool \in {"read", "write", "patch"}, BeginCall(a, tool)
      PROVE  FilesInv'
  <2> DEFINE t == [s EXCEPT !.at = IF Authorized(tool) THEN "resolved" ELSE "idle", !.tool = tool, !.n = @ + 1]
  <2>1. /\ t \in AgentStates /\ agent' = [agent EXCEPT ![a] = t]
        /\ t.at # "idle" => t.n > 0
        /\ t.at \notin {"apply", "publish", "swap", "verify"}
        /\ UNCHANGED <<file, saves, kept>> /\ latest' \in Contents
    <3> DEFINE to == IF Authorized(tool) THEN "resolved" ELSE "idle"
    <3>1. s.n \in Nat /\ s.n + 1 \in 0..MaxFileCalls /\ s.n + 1 > 0
      BY <1>1, <1>3, FileToolsAssumption DEF BeginCall, AgentStates
    <3>2. /\ agent' = [agent EXCEPT ![a].at = to, ![a].tool = tool, ![a].n = @ + 1]
          /\ UNCHANGED <<file, latest, saves, kept>>
      BY <1>3 DEF BeginCall
    <3>3. to \in {"resolved", "idle"}
      OBVIOUS
    <3> HIDE DEF to
    <3>4. [s EXCEPT !.at = to, !.tool = tool, !.n = @ + 1] \in AgentStates
      BY <1>1, <3>1, <3>3 DEF AgentStates
    <3>5. agent' = [agent EXCEPT ![a] = [s EXCEPT !.at = to, !.tool = tool, !.n = @ + 1]]
      BY <1>1, <3>2 DEF AgentStates
    <3>6. [s EXCEPT !.at = to, !.tool = tool, !.n = @ + 1].at = to
          /\ [s EXCEPT !.at = to, !.tool = tool, !.n = @ + 1].n = s.n + 1
      BY <1>1 DEF AgentStates
    <3> QED
      BY <1>1, <3>1, <3>2, <3>3, <3>4, <3>5, <3>6 DEF to
  <2> QED
    BY <2>1, AgentMoves
<1>4. CASE ReadBytes(a) /\ ~ Refused(a)
  <2> DEFINE t == [s EXCEPT !.at = "record", !.read = file]
  <2>1. /\ t \in AgentStates /\ agent' = [agent EXCEPT ![a] = t]
        /\ t.at # "idle" => t.n > 0
        /\ t.at \notin {"swap", "verify"}
        /\ t.at \in {"apply", "publish"} => t.expects.edits \union {<<a, t.n>>} \subseteq t.bytes
        /\ UNCHANGED <<file, saves, kept>> /\ latest' \in Contents
    BY <1>1, <1>4, ContentFacts DEF ReadBytes, AgentStates
  <2> QED
    BY <2>1, AgentMoves
<1>5. CASE Record(a)
  <2> DEFINE t == [s EXCEPT !.at = "idle", !.told = s.read]
  <2>1. /\ t \in AgentStates /\ agent' = [agent EXCEPT ![a] = t]
        /\ t.at # "idle" => t.n > 0
        /\ t.at \notin {"swap", "verify"}
        /\ t.at \in {"apply", "publish"} => t.expects.edits \union {<<a, t.n>>} \subseteq t.bytes
        /\ UNCHANGED <<file, saves, kept>> /\ latest' \in Contents
    BY <1>1, <1>5, ContentFacts DEF Record, AgentStates
  <2> QED
    BY <2>1, AgentMoves
<1>6. CASE CheckWrite(a) /\ ~ Refused(a)
  <2> DEFINE t == [s EXCEPT !.at = "apply", !.expects = file, !.bytes = s.read.edits \union {<<a, s.n>>}]
  <2>1. s.at = "resolved" /\ <<a, s.n>> \in Edits
    BY <1>6, OwnIsEdit DEF CheckWrite, FilesInv
  <2>2. file.edits \subseteq s.read.edits /\ s.read.edits \subseteq Edits /\ s.read \in Contents
    BY <1>1, <1>6, ContentFacts DEF CheckWrite, AgentStates, NoFile
  <2>3. t \in AgentStates
    BY <1>1, <2>1, <2>2 DEF AgentStates
  <2>4. /\ agent' = [agent EXCEPT ![a] = t]
        /\ UNCHANGED <<file, saves, kept, latest>>
    BY <1>1, <1>6 DEF CheckWrite, AgentStates
  <2>5. t.expects.edits \union {<<a, t.n>>} \subseteq t.bytes /\ t.n > 0 /\ t.at \notin {"swap", "verify"}
    BY <1>1, <2>1, <2>2 DEF AgentStates
  <2> QED
    BY <1>1, <2>3, <2>4, <2>5, AgentMoves
<1>7. CASE CheckPatch(a) /\ ~ Refused(a)
  <2> DEFINE t == [s EXCEPT !.at = "transform", !.expects = file]
  <2>1. /\ t \in AgentStates /\ agent' = [agent EXCEPT ![a] = t]
        /\ t.at # "idle" => t.n > 0
        /\ t.at \notin {"swap", "verify"}
        /\ t.at \in {"apply", "publish"} => t.expects.edits \union {<<a, t.n>>} \subseteq t.bytes
        /\ UNCHANGED <<file, saves, kept>> /\ latest' \in Contents
    BY <1>1, <1>7, ContentFacts DEF CheckPatch, AgentStates
  <2> QED
    BY <2>1, AgentMoves
<1>8. CASE Transform(a)
  <2> DEFINE t == [s EXCEPT !.at = "apply", !.bytes = file.edits \union {<<a, s.n>>}]
  <2>1. s.at = "transform" /\ <<a, s.n>> \in Edits
    BY <1>8, OwnIsEdit DEF Transform, FilesInv
  <2>2. s.expects = file /\ file.edits \subseteq Edits
    BY <1>1, <1>8, ContentFacts DEF Transform, AgentStates, NoFile
  <2>3. t \in AgentStates
    BY <1>1, <2>1, <2>2 DEF AgentStates
  <2>4. /\ agent' = [agent EXCEPT ![a] = t]
        /\ UNCHANGED <<file, saves, kept, latest>>
    BY <1>1, <1>8 DEF Transform, AgentStates
  <2>5. t.expects.edits \union {<<a, t.n>>} \subseteq t.bytes /\ t.n > 0 /\ t.at \notin {"swap", "verify"}
    BY <1>1, <2>1, <2>2 DEF AgentStates
  <2> QED
    BY <1>1, <2>3, <2>4, <2>5, AgentMoves
<1>9. CASE Prepare(a) /\ ~ Refused(a)
  <2> DEFINE t == [s EXCEPT !.at = "publish"]
  <2>1. /\ t \in AgentStates /\ agent' = [agent EXCEPT ![a] = t]
        /\ t.at # "idle" => t.n > 0
        /\ t.at \notin {"swap", "verify"}
        /\ t.at \in {"apply", "publish"} => t.expects.edits \union {<<a, t.n>>} \subseteq t.bytes
        /\ UNCHANGED <<file, saves, kept>> /\ latest' \in Contents
    BY <1>1, <1>9, ContentFacts DEF Prepare, AgentStates
  <2> QED
    BY <2>1, AgentMoves
<1>10. CASE ReadBack(a) /\ ~ Refused(a)
  <2> DEFINE t == [s EXCEPT !.at = "idle", !.told = file, !.read = Unknown]
  <2>1. /\ t \in AgentStates /\ agent' = [agent EXCEPT ![a] = t]
        /\ t.at # "idle" => t.n > 0
        /\ t.at \notin {"swap", "verify"}
        /\ t.at \in {"apply", "publish"} => t.expects.edits \union {<<a, t.n>>} \subseteq t.bytes
        /\ UNCHANGED <<file, saves, kept>> /\ latest' \in Contents
    BY <1>1, <1>10, ContentFacts DEF ReadBack, AgentStates
  <2> QED
    BY <2>1, AgentMoves
<1>12. CASE VerifyBytes(a)
  <2> DEFINE t == [s EXCEPT !.at = "after"]
  <2>1. /\ t \in AgentStates /\ agent' = [agent EXCEPT ![a] = t]
        /\ t.at # "idle" => t.n > 0
        /\ t.at \notin {"swap", "verify"}
        /\ t.at \in {"apply", "publish"} => t.expects.edits \union {<<a, t.n>>} \subseteq t.bytes
        /\ UNCHANGED <<file, saves, kept>> /\ latest' \in Contents
    BY <1>1, <1>12, ContentFacts DEF VerifyBytes, AgentStates
  <2> QED
    BY <2>1, AgentMoves
<1>11. s.at = "idle" => Record(a) \/ \E tool \in {"read", "write", "patch"} : BeginCall(a, tool)
  BY DEF ReadBytes, Record, CheckWrite, CheckPatch, Transform, HunkFails, Prepare, CheckAgain, VerifyBytes,
         PublishFails, HoldsLock, ReadBack
<1> QED
  BY <1>2, <1>3, <1>4, <1>5, <1>6, <1>7, <1>8, <1>9, <1>10, <1>11, <1>12 DEF HunkFails, PublishFails

(* A call passes its last check with what has to be kept in its bytes.         *)
LEMMA CheckStep ==
    ASSUME FilesInv, UNCHANGED policy, NEW a \in Callers, CheckAgain(a), ~Refused(a)
    PROVE  FilesInv'
<1> DEFINE t == [agent[a] EXCEPT !.at = "swap"]
<1>1. /\ agent[a].at = "publish" /\ file = agent[a].expects /\ \A b \in Callers : ~HoldsLock(b)
      /\ agent' = [agent EXCEPT ![a] = t] /\ UNCHANGED <<file, latest, saves, kept>>
  BY DEF CheckAgain, Expected, Moves, FilesInv, FilesTypeOK
<1>2. /\ agent \in [Callers -> AgentStates] /\ t \in AgentStates /\ t.at = "swap"
      /\ t.n = agent[a].n /\ t.bytes = agent[a].bytes /\ t.expects = agent[a].expects
  BY DEF FilesInv, FilesTypeOK, AgentStates
<1>3. /\ agent' \in [Callers -> AgentStates] /\ agent'[a] = t
      /\ \A b \in Callers \ {a} : agent'[b] = agent[b]
  BY <1>1, <1>2
<1>4. agent[a].expects.edits \union {Own(a)} \subseteq agent[a].bytes /\ kept \subseteq file.edits
  BY <1>1 DEF FilesInv, BytesCarry, EditsAreKept
<1>5. FilesTypeOK'
  BY <1>1, <1>3 DEF FilesInv, FilesTypeOK, AgentStates
<1>6. BytesCarry' /\ CallsCounted'
  BY <1>1, <1>2, <1>3, <1>4 DEF FilesInv, BytesCarry, CallsCounted, Own
<1>7. OneInLock' /\ SwapKeeps' /\ EditsAreKept'
  BY <1>1, <1>2, <1>3, <1>4 DEF FilesInv, OneInLock, SwapKeeps, HoldsLock, EditsAreKept
<1> QED
  BY <1>5, <1>6, <1>7 DEF FilesInv

(* The steps that change the file: a call puts its bytes in place of those it   *)
(* has checked, or of what the editor has saved since, which is not counted as *)
(* kept; and the editor adds to what is there, or deletes it all.            *)
LEMMA FilesStep ==
    ASSUME FilesInv, UNCHANGED policy,
           EditorSaves \/ EditorDeletes \/ \E a \in Callers : PublishBytes(a)
    PROVE  FilesInv'
<1>1. CASE EditorSaves
  <2>1. saves' \in 1..MaxSaves /\ <<Editor, saves'>> \in Edits
    BY <1>1, FileToolsAssumption DEF EditorSaves, FilesInv, FilesTypeOK, Edits
  <2>2. /\ file' = [exists |-> TRUE, edits |-> file.edits \union {<<Editor, saves'>>}]
        /\ file \in Contents /\ file.edits \subseteq Edits
        /\ kept' = IF AboutToReplace THEN kept ELSE kept \union {<<Editor, saves'>>}
        /\ UNCHANGED <<agent, latest>> /\ kept \subseteq Edits /\ kept \subseteq file.edits
    BY <1>1, ContentFacts DEF EditorSaves, FilesInv, FilesTypeOK, EditsAreKept
  <2>3. file' \in Contents /\ file'.edits = file.edits \union {<<Editor, saves'>>}
    BY <2>1, <2>2, ContentFacts
  <2>4. SwapKeeps'
    BY <2>2 DEF FilesInv, SwapKeeps, AboutToReplace
  <2>5. kept' \subseteq Edits /\ EditsAreKept'
    BY <2>1, <2>2, <2>3 DEF EditsAreKept
  <2>6. FilesTypeOK'
    BY <2>1, <2>2, <2>3, <2>5 DEF FilesInv, FilesTypeOK
  <2> QED
    BY <2>2, <2>4, <2>5, <2>6 DEF FilesInv, BytesCarry, CallsCounted, OneInLock, HoldsLock, Own
<1>2. CASE EditorDeletes
  <2>1. saves' \in 0..MaxSaves /\ file' \in Contents /\ kept' = {} /\ UNCHANGED <<agent, latest>>
    BY <1>2, FileToolsAssumption, ContentFacts DEF EditorDeletes, FilesInv, FilesTypeOK
  <2> QED
    BY <2>1 DEF FilesInv, FilesTypeOK, BytesCarry, CallsCounted, EditsAreKept, OneInLock, SwapKeeps, HoldsLock, Own
<1>3. ASSUME NEW a \in Callers, PublishBytes(a)
      PROVE  FilesInv'
  <2> DEFINE t == [agent[a] EXCEPT !.at = "verify"]
  <2>1. /\ agent[a].at = "swap" /\ (file.exists => agent[a].expects.exists) /\ UNCHANGED <<saves, latest>>
        /\ file' = [exists |-> TRUE, edits |-> agent[a].bytes]
        /\ kept' = kept \union {Own(a)} /\ agent' = [agent EXCEPT ![a] = t]
    BY <1>3 DEF PublishBytes, Moves, FilesInv, FilesTypeOK
  <2>2. Own(a) \in Edits /\ agent[a].bytes \subseteq Edits /\ Own(a) \in agent[a].bytes
    BY <2>1, OwnIsEdit DEF FilesInv, FilesTypeOK, BytesCarry
  <2>3. file' \in Contents /\ latest' \in Contents /\ file'.edits = agent[a].bytes
    BY <2>1, <2>2, ContentFacts DEF FilesInv, FilesTypeOK
  <2>4. /\ agent \in [Callers -> AgentStates] /\ t \in AgentStates /\ t.at = "verify" /\ t.n = agent[a].n
    BY DEF FilesInv, FilesTypeOK, AgentStates
  <2>5. /\ agent' \in [Callers -> AgentStates] /\ agent'[a] = t
        /\ \A b \in Callers \ {a} : agent'[b] = agent[b]
    BY <2>1, <2>4
  <2>6. FilesTypeOK'
    BY <2>1, <2>2, <2>3, <2>5 DEF FilesInv, FilesTypeOK, AgentStates
  <2>7. BytesCarry' /\ CallsCounted'
    BY <2>1, <2>4, <2>5 DEF FilesInv, BytesCarry, CallsCounted, Own
  <2>8. \A b \in Callers \ {a} : ~HoldsLock(b)
    BY <2>1 DEF FilesInv, OneInLock, HoldsLock
  <2>9. OneInLock' /\ SwapKeeps'
    BY <2>1, <2>4, <2>5, <2>8 DEF OneInLock, SwapKeeps, HoldsLock
  <2>10. kept \subseteq agent[a].bytes
    <3>1. CASE agent[a].expects.exists
      BY <2>1, <3>1 DEF FilesInv, SwapKeeps
    <3>2. CASE ~agent[a].expects.exists
      <4>1. file = NoFile
        BY <2>1, <3>2, ContentFacts DEF FilesInv, FilesTypeOK
      <4> QED
        BY <4>1 DEF FilesInv, EditsAreKept, NoFile
    <3> QED
      BY <3>1, <3>2
  <2>11. EditsAreKept'
    BY <2>1, <2>2, <2>3, <2>10 DEF EditsAreKept
  <2> QED
    BY <2>6, <2>7, <2>9, <2>11 DEF FilesInv
<1> QED
  BY <1>1, <1>2, <1>3

LEMMA FilesInvariant == FilesSpec => []FilesInv
<1>1. FilesInit => FilesInv
  <2> SUFFICES ASSUME FilesInit
               PROVE  FilesInv
    OBVIOUS
  <2>1. Resting \in AgentStates /\ Resting.at = "idle"
    BY FileToolsAssumption, ContentFacts DEF Resting, AgentStates
  <2>2. file \in Contents /\ latest \in Contents /\ saves \in 0..MaxSaves /\ kept = {}
    BY FileToolsAssumption, ContentFacts DEF FilesInit
  <2>3. FilesTypeOK
    BY <2>1, <2>2 DEF FilesInit, FilesTypeOK, AgentStates
  <2> QED
    BY <2>1, <2>2, <2>3 DEF FilesInit, FilesInv, BytesCarry, CallsCounted, EditsAreKept, OneInLock, SwapKeeps, HoldsLock
<1>2. FilesInv /\ [FilesNext]_fileVars => FilesInv'
  <2> SUFFICES ASSUME FilesInv, [FilesNext]_fileVars
               PROVE  FilesInv'
    OBVIOUS
  <2>1. CASE UNCHANGED fileVars
    BY <2>1 DEF fileVars, FilesInv, FilesTypeOK, BytesCarry, CallsCounted, EditsAreKept, OneInLock,
                SwapKeeps, HoldsLock, Own
  <2>2. CASE FilesNext
    BY <2>2, CallStep, CheckStep, FilesStep DEF FilesNext
  <2> QED
    BY <2>1, <2>2
<1> QED
  BY <1>1, <1>2, PTL DEF FilesSpec

(* The calls of the file tools, and what they have read and were told, keep   *)
(* their types.                                                             *)
THEOREM FileTypes == FilesSpec => []FilesTypeOK
  BY FilesInvariant, PTL DEF FilesInv

(* fs_write and fs_patch lose no edit of another agent, and none the editor    *)
(* has saved before the last check of the call, with any number of agents and  *)
(* calls: publishOne checks, under the lock, that there are the bytes its own   *)
(* bytes were made from.  What the editor saves between that check and the     *)
(* rename is lost.                                                          *)
THEOREM NoEditIsLost == FilesSpec => []EditsAreKept
  BY FilesInvariant, PTL DEF FilesInv


(***************************************************************************)
(* The index of the code.                                                  *)
(***************************************************************************)
(* The files the store has a fingerprint of.                                *)
Indexed == {f \in Files : index[f] # Absent}

(* Before the first scan has ended nothing watches, and before registration   *)
(* nothing is queued.                                                       *)
NotYetWatching ==
    /\ manager.phase # "watching" => ~ watcher.alive /\ ~ watcher.timer
    /\ manager.phase = "none" => queue = <<>>
    /\ task.stage # "none" => queue # <<>>

(* What is to be stored of a file that is gone is that it is absent, and a     *)
(* scan that runs has every file that is indexed, and that it is to read.     *)
ScanHasAll ==
    /\ task.stage \in {"parse", "store"} => task.files # <<>> /\ (task.stays \/ task.read = Absent)
    /\ task.stage # "none" /\ Head(queue).kind = "reconcile" =>
            Indexed \union Range(task.files) \subseteq task.scan

(* The types of all that is kept.                                           *)
CodeTypes ==
    /\ disk \in [Files -> Versions] /\ index \in [Files -> Versions] /\ impacts \in [Files -> Versions]
    /\ edges \subseteq Files \X Files
    /\ manager \in [phase : {"none", "starting", "watching"}, state : {"starting", "ready", "degraded"},
                    known : SUBSET Files, memory : [Files -> Versions]]
    /\ watcher \in [alive : BOOLEAN, pending : SUBSET Files, overflowed : BOOLEAN, timer : BOOLEAN]
    /\ task \in [stage : {"none", "next", "parse", "store", "announce"}, files : Seq(Files), scan : SUBSET Files,
                 read : Versions, stays : BOOLEAN, imports : SUBSET (Files \X Files)]
    /\ queue \in Seq(Tasks)

CodeInv == CodeTypes /\ NotYetWatching /\ ScanHasAll /\ IndexedIsKnown

LEMMA FilesFinite ==
    /\ Files \subseteq Nat /\ IsFiniteSet(Files) /\ Absent \in Versions
    /\ InitialFileLimit \in Nat /\ ReconcileFileLimit \in Nat
    /\ \A fs \in SUBSET Files : IsFiniteSet(fs) /\ InOrder(fs) \in Seq(Files)
<1>1. /\ MaxFile \in Nat /\ MaxVersion \in Nat
      /\ InitialFileLimit \in Nat /\ ReconcileFileLimit \in Nat
  BY CodeStateAssumption
<1>2. Files \subseteq Nat /\ IsFiniteSet(Files) /\ Absent \in Versions
  BY <1>1, FS_Interval DEF Files, Versions, Absent
<1>3. ASSUME NEW fs \in SUBSET Files
      PROVE  IsFiniteSet(fs) /\ InOrder(fs) \in Seq(Files)
  <2>1. fs \in SUBSET Nat
    BY <1>2
  <2>2. IsFiniteSet(fs)
    BY <1>2, FS_Subset
  <2>3. Cardinality(fs) \in Nat
    BY <2>2, FS_CardinalityType
  <2>4. InOrder(fs) \in [1..Cardinality(fs) -> fs]
    BY <2>1, <2>2, InOrderIsAscending
  <2> HIDE DEF Files
  <2>5. InOrder(fs) \in Seq(fs)
    BY <2>3, <2>4
  <2> QED
    BY <2>2, <2>5
<1> QED
  BY <1>1, <1>2, <1>3

(* discoverFiles finds files of the worktree.                               *)
LEMMA DiscoveredFiles == ASSUME NEW limit \in Nat PROVE Discovered(limit) \in Seq(Files)
<1> DEFINE found == InOrder({f \in Files : disk[f] # Absent})
<1>1. found \in Seq(Files)
  BY FilesFinite
<1> HIDE DEF found
<1>2. Len(found) \in Nat
  BY <1>1
<1>3. \A k \in 0..Len(found) : SubSeq(found, 1, k) \in Seq(Files)
  BY <1>1, <1>2
<1>4. (IF Len(found) < limit THEN Len(found) ELSE limit) \in 0..Len(found)
  BY <1>2
<1>5. Discovered(limit) = SubSeq(found, 1, IF Len(found) < limit THEN Len(found) ELSE limit)
  BY DEF Discovered, found
<1> QED
  BY <1>3, <1>4, <1>5


(* Tasks that wait behind the running one do not change what it is.           *)
LEMMA FlushedTasks ==
    ASSUME CodeTypes
    PROVE  /\ Flushed(watcher) \in Seq(Tasks)
           /\ queue \o Flushed(watcher) \in Seq(Tasks)
           /\ queue # <<>> => /\ queue \o Flushed(watcher) # <<>>
                              /\ Head(queue \o Flushed(watcher)) = Head(queue)
<1> DEFINE scan == [kind |-> "reconcile", limit |-> ReconcileFileLimit, notify |-> TRUE, paths |-> {}]
           paths == [kind |-> "paths", limit |-> ReconcileFileLimit, notify |-> TRUE, paths |-> watcher.pending]
<1>1. scan \in Tasks /\ paths \in Tasks
  BY DEF CodeTypes, Tasks
<1>2. Flushed(watcher) = (IF watcher.overflowed THEN <<scan>> ELSE <<>>)
                         \o (IF watcher.pending # {} THEN <<paths>> ELSE <<>>)
  BY DEF Flushed
<1> HIDE DEF scan, paths
<1>3. Flushed(watcher) \in Seq(Tasks)
  BY <1>1, <1>2
<1>4. queue \in Seq(Tasks)
  BY DEF CodeTypes
<1> QED
  BY <1>3, <1>4

(* The manager, the watch and the changes of files: the index stays as it is. *)
LEMMA ManagerStep ==
    ASSUME CodeInv,
           \/ \E f \in Files, v \in Versions : Change(f, v)
           \/ Register \/ \E watches \in BOOLEAN : Registered(watches)
           \/ ReconcileDue \/ WatchError \/ Flush \/ DaemonRestarts
    PROVE  CodeInv'
<1> USE DEF CodeInv
<1>1. CASE \E f \in Files, v \in Versions : Change(f, v)
  <2>1. PICK f \in Files, v \in Versions : Change(f, v)
    BY <1>1
  <2>2. /\ disk' \in [Files -> Versions]
        /\ watcher' \in [alive : BOOLEAN, pending : SUBSET Files, overflowed : BOOLEAN, timer : BOOLEAN]
        /\ watcher' = watcher \/ watcher.alive
    <3>1. disk' \in [Files -> Versions]
      BY <2>1 DEF Change, CodeTypes
    <3>2. Noted(watcher, f) \in [alive : BOOLEAN, pending : SUBSET Files, overflowed : BOOLEAN, timer : BOOLEAN]
      BY DEF Noted, CodeTypes
    <3> QED
      BY <2>1, <3>1, <3>2 DEF Change, CodeTypes
  <2>3. UNCHANGED <<index, edges, impacts, manager, queue, task>>
    BY <2>1 DEF Change
  <2> QED
    BY <2>2, <2>3 DEF CodeTypes, NotYetWatching, ScanHasAll, Indexed, IndexedIsKnown
<1>2. CASE Register
  <2> DEFINE t == [kind |-> "reconcile", limit |-> InitialFileLimit, notify |-> FALSE, paths |-> {}]
  <2>1. /\ t \in Tasks /\ queue' = <<t>> /\ manager.phase = "none"
        /\ manager' = [phase |-> "starting", state |-> "starting", memory |-> index, known |-> LoadedPaths]
        /\ UNCHANGED <<disk, index, edges, impacts, watcher, task>>
    BY <1>2 DEF Register, Tasks
  <2> HIDE DEF t
  <2>2. queue' \in Seq(Tasks) /\ queue' # <<>>
    BY <2>1
  <2>3. LoadedPaths \subseteq Files
    BY DEF LoadedPaths
  <2>4. CodeTypes'
    BY <2>1, <2>2, <2>3 DEF CodeTypes
  <2>5. NotYetWatching' /\ task.stage = "none"
    BY <2>1, <2>2 DEF NotYetWatching
  <2>6. ScanHasAll'
    BY <2>1, <2>5 DEF ScanHasAll
  <2>7. IndexedIsKnown'
    BY <2>1 DEF IndexedIsKnown, LoadedPaths
  <2> QED
    BY <2>4, <2>5, <2>6, <2>7
<1>3. CASE \E watches \in BOOLEAN : Registered(watches)
  <2>1. PICK watches \in BOOLEAN : Registered(watches)
    BY <1>3
  <2>2. /\ UNCHANGED <<disk, index, edges, queue, task>> /\ queue = <<>> /\ manager.phase = "starting"
        /\ impacts' \in {impacts, index}
        /\ watcher' = [NoWatcher EXCEPT !.alive = watches]
        /\ manager' = [manager EXCEPT !.phase = "watching",
                                  !.state = IF watches /\ @ # "degraded" THEN "ready" ELSE "degraded"]
    BY <2>1 DEF Registered, Refreshed, NotRefreshed
  <2>3. /\ watcher' \in [alive : BOOLEAN, pending : SUBSET Files, overflowed : BOOLEAN, timer : BOOLEAN]
    BY <2>2 DEF NoWatcher
  <2>4. /\ manager' \in [phase : {"none", "starting", "watching"}, state : {"starting", "ready", "degraded"},
                        known : SUBSET Files, memory : [Files -> Versions]]
        /\ manager'.phase = "watching" /\ manager'.known = manager.known
    BY <2>2 DEF CodeTypes
  <2>5. CodeTypes'
    BY <2>2, <2>3, <2>4 DEF CodeTypes
  <2> QED
    BY <2>2, <2>4, <2>5 DEF NotYetWatching, ScanHasAll, Indexed, IndexedIsKnown
<1>4. CASE ReconcileDue
  <2>1. /\ watcher' = [watcher EXCEPT !.overflowed = TRUE, !.timer = TRUE] /\ manager.phase = "watching"
        /\ UNCHANGED <<disk, index, edges, impacts, manager, queue, task>>
    BY <1>4 DEF ReconcileDue, Reconciles
  <2> QED
    BY <2>1 DEF CodeTypes, NotYetWatching, ScanHasAll, Indexed, IndexedIsKnown
<1>5. CASE WatchError
  <2>1. /\ watcher' = [watcher EXCEPT !.alive = FALSE, !.overflowed = TRUE, !.timer = TRUE]
        /\ manager' = [manager EXCEPT !.state = "degraded"] /\ watcher.alive
        /\ UNCHANGED <<disk, index, edges, impacts, queue, task>>
    BY <1>5 DEF WatchError
  <2>2. CodeTypes' /\ manager'.phase = manager.phase /\ manager'.known = manager.known
    BY <2>1 DEF CodeTypes
  <2> QED
    BY <2>1, <2>2 DEF NotYetWatching, ScanHasAll, Indexed, IndexedIsKnown
<1>6. CASE Flush
  <2>1. /\ queue' = queue \o Flushed(watcher) /\ watcher.timer
        /\ watcher' = [watcher EXCEPT !.pending = {}, !.overflowed = FALSE, !.timer = FALSE]
        /\ UNCHANGED <<disk, index, edges, impacts, manager, task>>
    BY <1>6 DEF Flush
  <2>2. /\ queue' \in Seq(Tasks)
        /\ queue # <<>> => queue' # <<>> /\ Head(queue') = Head(queue)
    BY <2>1, FlushedTasks
  <2>3. CodeTypes' /\ ~ watcher'.timer /\ watcher'.alive = watcher.alive
    BY <2>1, <2>2 DEF CodeTypes
  <2>4. NotYetWatching'
    BY <2>1, <2>2, <2>3 DEF NotYetWatching, CodeTypes
  <2>5. ScanHasAll' /\ IndexedIsKnown'
    BY <2>1, <2>2 DEF NotYetWatching, ScanHasAll, Indexed, IndexedIsKnown
  <2> QED
    BY <2>3, <2>4, <2>5
<1>7. CASE DaemonRestarts
  <2>1. /\ manager' = NoManager /\ watcher' = NoWatcher /\ queue' = <<>> /\ task' = NoTask
        /\ UNCHANGED <<disk, index, edges, impacts>>
    BY <1>7 DEF DaemonRestarts
  <2>2. /\ Nothing \in [Files -> Versions] /\ <<>> \in Seq(Files) /\ <<>> \in Seq(Tasks) /\ Absent \in Versions
    BY FilesFinite DEF Nothing
  <2>3. CodeTypes'
    BY <2>1, <2>2 DEF CodeTypes, NoManager, NoWatcher, NoTask
  <2> QED
    BY <2>1, <2>3 DEF NoManager, NoWatcher, NoTask, NotYetWatching, ScanHasAll, IndexedIsKnown
<1> QED
  BY <1>1, <1>2, <1>3, <1>4, <1>5, <1>6, <1>7


(* What is left of the index when files are dropped.                        *)
LEMMA DroppedFiles ==
    ASSUME CodeTypes, NEW fs
    PROVE  /\ Without(fs, index) \in [Files -> Versions]
           /\ Without(fs, manager.memory) \in [Files -> Versions]
           /\ {f \in Files : Without(fs, index)[f] # Absent} = Indexed \ fs
           /\ EdgesAround(fs) \subseteq Files \X Files
  BY FilesFinite DEF CodeTypes, Without, Indexed, EdgesAround

(* A task starts, reads its files one by one, and ends: a scan drops what it   *)
(* does not find before it takes what it has found for all that is known.     *)
LEMMA TaskStarts == ASSUME CodeInv, BeginTask PROVE CodeInv'
<1> USE DEF CodeInv
<1> DEFINE t == Head(queue)
           listed == IF t.kind = "reconcile" THEN Discovered(t.limit) ELSE InOrder(t.paths)
           gone == IF t.kind = "reconcile" THEN manager.known \ Range(listed) ELSE {}
           scan == IF t.kind = "reconcile" THEN Range(listed) ELSE {}
<1>1. /\ queue # <<>> /\ task.stage = "none"
      /\ manager' = [manager EXCEPT !.memory = Without(gone, @)]
      /\ index' = Without(gone, index)
      /\ edges' = EdgesAround(gone)
      /\ impacts' \in {impacts, index'}
      /\ task' = [NoTask EXCEPT !.stage = "next", !.files = listed, !.scan = scan]
      /\ UNCHANGED <<disk, watcher, queue>>
  BY DEF BeginTask, Refreshed, NotRefreshed
<1>2. t \in Tasks
  BY <1>1 DEF CodeTypes
<1>3. listed \in Seq(Files)
  BY <1>2, FilesFinite, DiscoveredFiles DEF Tasks
<1>4. Range(listed) \subseteq Files
  <2> HIDE DEF listed
  <2> QED
    BY <1>3 DEF Range
<1> HIDE DEF listed, t
<1>5. scan \subseteq Files
  BY <1>4
<1>6. /\ task' \in [stage : {"none", "next", "parse", "store", "announce"}, files : Seq(Files), scan : SUBSET Files,
                    read : Versions, stays : BOOLEAN, imports : SUBSET (Files \X Files)]
      /\ task'.stage = "next" /\ task'.files = listed /\ task'.scan = scan
  BY <1>1, <1>3, <1>5, FilesFinite DEF NoTask
<1>7. /\ index' \in [Files -> Versions] /\ edges' \subseteq Files \X Files /\ impacts' \in [Files -> Versions]
      /\ Indexed' = Indexed \ gone
  BY <1>1, DroppedFiles DEF Indexed, CodeTypes
<1>8. /\ manager' \in [phase : {"none", "starting", "watching"}, state : {"starting", "ready", "degraded"},
                      known : SUBSET Files, memory : [Files -> Versions]]
      /\ manager'.phase = manager.phase /\ manager'.known = manager.known
  BY <1>1, DroppedFiles DEF CodeTypes
<1>9. CodeTypes'
  BY <1>1, <1>6, <1>7, <1>8 DEF CodeTypes
<1>10. manager.phase # "none" /\ Indexed \subseteq manager.known
  BY <1>1 DEF NotYetWatching, IndexedIsKnown, Indexed
<1>11. NotYetWatching'
  BY <1>1, <1>8 DEF NotYetWatching
<1>12. ScanHasAll'
  BY <1>1, <1>6, <1>7, <1>10 DEF ScanHasAll, t
<1>13. IndexedIsKnown'
  BY <1>7, <1>8, <1>10 DEF IndexedIsKnown, Indexed
<1> QED
  BY <1>9, <1>11, <1>12, <1>13

LEMMA TaskStep ==
    ASSUME CodeInv,
           \/ \E how \in {"seen", "vanished", "failed"} : ReadFile(how)
           \/ (\E fails \in BOOLEAN : ParseFile(fails)) \/ StoreFile \/ Announce \/ EndTask \/ TaskFails
    PROVE  CodeInv'
<1> USE DEF CodeInv
<1> DEFINE taskSet == [stage : {"none", "next", "parse", "store", "announce"}, files : Seq(Files),
                       scan : SUBSET Files, read : Versions, stays : BOOLEAN, imports : SUBSET (Files \X Files)]
           managerSet == [phase : {"none", "starting", "watching"}, state : {"starting", "ready", "degraded"},
                          known : SUBSET Files, memory : [Files -> Versions]]
<1>1. /\ task \in taskSet /\ manager \in managerSet
      /\ task.files # <<>> => Head(task.files) \in Files /\ Head(task.files) \in Range(task.files)
      /\ task.files # <<>> => Tail(task.files) \in Seq(Files) /\ Range(Tail(task.files)) \subseteq Range(task.files)
  BY DEF CodeTypes, Range
<1>2. task.stage # "none" => queue # <<>> /\ manager.phase # "none" /\ Indexed \subseteq manager.known
  BY DEF NotYetWatching, IndexedIsKnown, Indexed
<1>3. queue # <<>> => Tail(queue) \in Seq(Tasks)
  BY DEF CodeTypes
<1>4. CASE \E how \in {"seen", "vanished", "failed"} : ReadFile(how)
  <2>1. PICK how \in {"seen", "vanished", "failed"} : ReadFile(how)
    BY <1>4
  <2> DEFINE there == disk[Head(task.files)] # Absent
             bytes == IF how = "failed" THEN Absent ELSE disk[Head(task.files)]
  <2>2. /\ task.stage = "next" /\ task.files # <<>> /\ (how = "failed" => there)
        /\ task' = [task EXCEPT !.stage = IF there \/ how = "vanished" THEN "parse" ELSE "store",
                                !.read = bytes, !.stays = there \/ how = "vanished"]
        /\ UNCHANGED <<disk, index, edges, impacts, manager, watcher, queue>>
    BY <2>1 DEF ReadFile
  <2>3. bytes \in Versions /\ (~ there => bytes = Absent)
    BY <1>1, <2>2, FilesFinite DEF CodeTypes
  <2>4. /\ task' \in taskSet /\ task'.files = task.files /\ task'.scan = task.scan
        /\ task'.stage # "none" /\ (task'.stays \/ task'.read = Absent)
    BY <1>1, <2>2, <2>3
  <2>5. CodeTypes'
    BY <2>2, <2>4 DEF CodeTypes
  <2> QED
    BY <1>2, <2>2, <2>4, <2>5 DEF NotYetWatching, ScanHasAll, Indexed, IndexedIsKnown
<1>5. CASE \E fails \in BOOLEAN : ParseFile(fails)
  <2>1. PICK fails \in BOOLEAN : ParseFile(fails)
    BY <1>5
  <2> DEFINE imports == IF fails THEN {} ELSE {e \in ImportsOf(disk) : e[1] = Head(task.files)}
  <2>2. /\ task.stage = "parse" /\ task' = [task EXCEPT !.stage = "store", !.imports = imports]
        /\ UNCHANGED <<disk, index, edges, impacts, manager, watcher, queue>>
    BY <2>1 DEF ParseFile
  <2>3. imports \subseteq Files \X Files
    BY DEF ImportsOf
  <2> HIDE DEF imports
  <2>4. /\ task' \in taskSet /\ task'.files = task.files /\ task'.scan = task.scan
        /\ task'.stage = "store" /\ task'.stays = task.stays /\ task'.read = task.read
    BY <1>1, <2>2, <2>3
  <2>5. CodeTypes'
    BY <2>2, <2>4 DEF CodeTypes
  <2> QED
    BY <1>2, <2>2, <2>4, <2>5 DEF NotYetWatching, ScanHasAll, Indexed, IndexedIsKnown
<1>6. CASE StoreFile
  <2> DEFINE f == Head(task.files)
             stage == IF Head(queue).notify /\ (~task.stays \/ manager.memory[f] # task.read) THEN "announce" ELSE "next"
             known == IF task.stays THEN manager.known \union {f} ELSE manager.known \ {f}
  <2>1. /\ task.stage = "store"
        /\ manager' = [manager EXCEPT !.memory[f] = task.read,
                                      !.known = IF task.stays THEN @ \union {f} ELSE @ \ {f}]
        /\ index' = [index EXCEPT ![f] = task.read]
        /\ edges' = EdgesAround({f}) \union task.imports
        /\ task' = [task EXCEPT !.stage = stage,
                                !.files = Tail(@), !.read = Absent, !.stays = FALSE, !.imports = {}]
        /\ UNCHANGED <<disk, impacts, watcher, queue>>
    BY <1>6 DEF StoreFile
  <2>2. task.files # <<>> /\ (task.stays \/ task.read = Absent) /\ stage \in {"announce", "next"}
    BY <2>1 DEF ScanHasAll
  <2>3. f \in Files /\ f \in Range(task.files)
    BY <1>1, <2>2
  <2> HIDE DEF f, stage
  <2>4. /\ task' \in taskSet /\ task'.files = Tail(task.files) /\ task'.scan = task.scan
        /\ task'.stage \in {"announce", "next"}
    BY <1>1, <2>1, <2>2, FilesFinite
  <2>5. /\ manager' \in managerSet /\ manager'.phase = manager.phase /\ manager'.known = known
    BY <1>1, <2>1, <2>3
  <2>6. /\ index' \in [Files -> Versions] /\ edges' \subseteq Files \X Files
        /\ Indexed' = IF task.read = Absent THEN Indexed \ {f} ELSE Indexed \union {f}
    BY <1>1, <2>1, <2>3, DroppedFiles DEF CodeTypes, Indexed
  <2>7. CodeTypes'
    BY <2>1, <2>4, <2>5, <2>6 DEF CodeTypes
  <2>8. NotYetWatching'
    BY <1>2, <2>1, <2>4, <2>5 DEF NotYetWatching
  <2>9. ScanHasAll'
    <3>1. Head(queue).kind = "reconcile" => Indexed \union Range(task.files) \subseteq task.scan
      BY <2>1 DEF ScanHasAll
    <3> QED
      BY <1>1, <2>1, <2>2, <2>3, <2>4, <2>6, <3>1 DEF ScanHasAll
  <2>10. IndexedIsKnown'
    BY <1>2, <2>1, <2>2, <2>5, <2>6 DEF IndexedIsKnown, Indexed
  <2> QED
    BY <2>7, <2>8, <2>9, <2>10
<1>7. CASE Announce
  <2>1. /\ impacts' \in {impacts, index} /\ task.stage = "announce" /\ task' = [task EXCEPT !.stage = "next"]
        /\ UNCHANGED <<disk, index, edges, manager, watcher, queue>>
    BY <1>7 DEF Announce, Refreshed
  <2>2. /\ task' \in taskSet /\ task'.files = task.files /\ task'.scan = task.scan /\ task'.stage = "next"
    BY <1>1, <2>1
  <2>3. CodeTypes'
    BY <2>1, <2>2 DEF CodeTypes
  <2> QED
    BY <1>2, <2>1, <2>2, <2>3 DEF NotYetWatching, ScanHasAll, Indexed, IndexedIsKnown
<1>8. CASE EndTask
  <2>1. /\ task.stage = "next" /\ task' = NoTask /\ queue' = Tail(queue)
        /\ manager' = [manager EXCEPT !.known = IF Head(queue).kind = "reconcile" THEN task.scan ELSE @]
        /\ UNCHANGED <<disk, index, edges, impacts, watcher>>
    BY <1>8 DEF EndTask
  <2>2. NoTask \in taskSet /\ NoTask.stage = "none"
    BY FilesFinite DEF NoTask
  <2>3. /\ manager' \in managerSet /\ manager'.phase = manager.phase
        /\ manager'.known = IF Head(queue).kind = "reconcile" THEN task.scan ELSE manager.known
    BY <1>1, <2>1
  <2>4. CodeTypes'
    BY <1>2, <1>3, <2>1, <2>2, <2>3 DEF CodeTypes
  <2>5. Indexed \subseteq manager'.known
    BY <1>2, <2>1, <2>3 DEF ScanHasAll
  <2> QED
    BY <1>2, <2>1, <2>2, <2>3, <2>4, <2>5 DEF NotYetWatching, ScanHasAll, Indexed, IndexedIsKnown
<1>9. CASE TaskFails
  <2>1. /\ task.stage \in {"parse", "store", "announce"} /\ task' = NoTask /\ queue' = Tail(queue)
        /\ \/ manager' = [manager EXCEPT !.state = "degraded"]
           \/ task.stage = "store"
              /\ manager' = [manager EXCEPT !.state = "degraded", !.memory[Head(task.files)] = task.read]
        /\ UNCHANGED <<disk, index, edges, impacts, watcher>>
    BY <1>9 DEF TaskFails
  <2>2. NoTask \in taskSet /\ NoTask.stage = "none"
    BY FilesFinite DEF NoTask
  <2>3. /\ manager' \in managerSet /\ manager'.phase = manager.phase /\ manager'.known = manager.known
    <3>1. CASE manager' = [manager EXCEPT !.state = "degraded"]
      BY <1>1, <3>1
    <3>2. CASE /\ task.stage = "store"
               /\ manager' = [manager EXCEPT !.state = "degraded", !.memory[Head(task.files)] = task.read]
      <4>1. Head(task.files) \in Files /\ task.read \in Versions
        BY <1>1, <3>2 DEF ScanHasAll
      <4>2. [manager.memory EXCEPT ![Head(task.files)] = task.read] \in [Files -> Versions]
        BY <1>1, <4>1
      <4>3. manager' = [manager EXCEPT !.state = "degraded",
                                      !.memory = [manager.memory EXCEPT ![Head(task.files)] = task.read]]
        BY <1>1, <3>2
      <4> QED
        BY <1>1, <4>2, <4>3
    <3> QED
      BY <2>1, <3>1, <3>2
  <2>4. CodeTypes'
    BY <1>2, <1>3, <2>1, <2>2, <2>3 DEF CodeTypes
  <2> QED
    BY <1>2, <2>1, <2>2, <2>3, <2>4 DEF NotYetWatching, ScanHasAll, Indexed, IndexedIsKnown
<1> QED
  BY <1>4, <1>5, <1>6, <1>7, <1>8, <1>9

LEMMA CodeInvariant == CodeStateSpec => []CodeInv
<1>1. CodeStateInit => CodeInv
  <2> SUFFICES ASSUME CodeStateInit
               PROVE  CodeInv
    OBVIOUS
  <2>1. /\ disk \in [Files -> {Absent, 1}] /\ index \in {Nothing, disk} /\ impacts = index /\ edges = ImportsOf(index)
        /\ manager = NoManager /\ watcher = NoWatcher /\ queue = <<>> /\ task = NoTask
    BY DEF CodeStateInit
  <2>2. {Absent, 1} \subseteq Versions
    BY CodeStateAssumption DEF Versions, Absent
  <2>3. Nothing \in [Files -> Versions] /\ disk \in [Files -> Versions]
    BY <2>1, <2>2 DEF Nothing
  <2>4. <<>> \in Seq(Files) /\ <<>> \in Seq(Tasks) /\ ImportsOf(index) \subseteq Files \X Files
    BY DEF ImportsOf
  <2>5. CodeTypes
    BY <2>1, <2>2, <2>3, <2>4 DEF CodeTypes, NoManager, NoWatcher, NoTask
  <2> QED
    BY <2>1, <2>5 DEF CodeInv, NoManager, NoWatcher, NoTask, NotYetWatching, ScanHasAll, IndexedIsKnown
<1>2. CodeInv /\ [CodeStateNext]_codeVars => CodeInv'
  <2> SUFFICES ASSUME CodeInv, [CodeStateNext]_codeVars
               PROVE  CodeInv'
    OBVIOUS
  <2>1. CASE UNCHANGED codeVars
    BY <2>1 DEF codeVars, CodeInv, CodeTypes, NotYetWatching, ScanHasAll, Indexed, IndexedIsKnown
  <2>2. CASE CodeStateNext
    BY <2>2, ManagerStep, TaskStarts, TaskStep DEF CodeStateNext
  <2> QED
    BY <2>1, <2>2
<1> QED
  BY <1>1, <1>2, PTL DEF CodeStateSpec

(* The index, the tasks and the watch keep their types; a task reads files of *)
(* the worktree only.                                                       *)
THEOREM CodeStateTypes == CodeStateSpec => []CodeStateTypeOK
<1>1. CodeInv => CodeStateTypeOK
  <2> SUFFICES ASSUME CodeTypes
               PROVE  CodeStateTypeOK
    BY DEF CodeInv
  <2>1. Range(task.files) \subseteq Files
    BY DEF CodeTypes, Range
  <2> QED
    BY <2>1 DEF CodeTypes, CodeStateTypeOK
<1> QED
  BY <1>1, CodeInvariant, PTL

(* knownPaths covers the index of the store, for any number of files, tasks,  *)
(* failures and restarts: a file that goes away unseen is dropped by the next *)
(* scan.                                                                    *)
THEOREM IndexIsKnown == CodeStateSpec => []IndexedIsKnown
  BY CodeInvariant, PTL DEF CodeInv


(***************************************************************************)
(* The reading of the log.                                                 *)
(***************************************************************************)
(* The greatest of some numbers below a bound.                              *)
LEMMA GreatestNatural ==
    ASSUME NEW k \in Nat, NEW T \in SUBSET (0..k), T # {}
    PROVE  Max(T) \in T /\ \A m \in T : m <= Max(T)
<1> DEFINE U == {k - n : n \in T}
<1>1. U \in SUBSET Nat /\ U # {}
  OBVIOUS
<1>2. PICK u \in U : \A m \in U : u <= m
  BY <1>1, LeastNumber
<1>3. k - u \in T
  BY <1>2
<1>4. \A m \in T : k - u >= m
  BY <1>2
<1>5. \E x \in T : \A y \in T : x >= y
  BY <1>3, <1>4
<1>6. Max(T) \in T /\ \A y \in T : Max(T) >= y
  BY <1>5, Zenon DEF Max
<1> QED
  BY <1>6

(* A page of no events takes no bytes, so that some number of events fits.     *)
LEMMA FoldOfNone == FoldLeft(+, 0, <<>>) = 0
<1>1. FoldLeft(+, 0, <<>>) = MapThenFoldSet(LAMBDA x, y : y + x, 0, LAMBDA i : <<>>[i], LAMBDA S : Max(S), DOMAIN <<>>)
  BY Zenon DEF FoldLeft
<1>2. DOMAIN <<>> = {}
  OBVIOUS
<1> QED
  BY <1>1, <1>2, Zenon DEF MapThenFoldSet

LEMMA FittingBounds ==
    ASSUME NEW sizes, Len(sizes) \in Nat, NEW budget \in Nat
    PROVE  Fitting(sizes, budget) \in 0..Len(sizes)
<1> DEFINE total == [n \in 0..Len(sizes) |-> FoldLeft(+, 0, SubSeq(sizes, 1, n))]
           fits == {n \in 0..Len(sizes) : total[n] <= budget}
<1>1. SubSeq(sizes, 1, 0) = <<>>
  OBVIOUS
<1>2. total[0] = FoldLeft(+, 0, SubSeq(sizes, 1, 0))
  <2>1. 0 \in 0..Len(sizes)
    OBVIOUS
  <2> QED
    BY <2>1, Zenon
<1>3. total[0] = 0
  BY <1>1, <1>2, FoldOfNone, Zenon
<1> HIDE DEF total
<1>4. 0 \in fits
  BY <1>3
<1>5. Max(fits) \in fits
  <2>1. fits \in SUBSET (0..Len(sizes)) /\ fits # {}
    BY <1>4
  <2> HIDE DEF fits
  <2> QED
    BY <2>1, GreatestNatural, Zenon
<1>6. Fitting(sizes, budget) = Max(fits)
  BY Zenon DEF Fitting, total
<1> QED
  BY <1>5, <1>6

LEMMA SyncConstants ==
    PageEvents \in Nat /\ PageBytes \in Nat /\ MaxEvents \in Nat
  BY SyncAssumption

(* The events there can be.                                                 *)
Entries == [kind : {"claimed", "artifact", "impact"}, by : People, item : WorkItems,
            size : Sizes \union {1}, supersedes : Nat]

LogTypes ==
    /\ log \in Seq(Entries) /\ \A n \in DOMAIN log : log[n].supersedes <= n - 1
    /\ assignee \in [WorkItems -> People \union {"nobody"}]
    /\ cursor \in 0..Len(log) /\ got \subseteq DOMAIN log /\ due \subseteq DOMAIN log
    /\ answer.at \in {"none", "reading", "sent", "failed"} /\ answer.routed \subseteq DOMAIN log
    /\ answer.mine \subseteq WorkItems

(* An artifact of the log takes the place of event n.                        *)
IsSuperseded(n) == \E m \in DOMAIN log : log[m].supersedes = n

(* What is due concerns the agent, and what a sync on its way has read of it.   *)
DueConcerns ==
    \A n \in due : Concerns(log[n], Mine) /\ (answer.at = "reading" => Concerns(log[n], answer.mine))

(* An answer on its way carries all that concerns the agent up to where it     *)
(* says the agent has read then.                                            *)
AnswerCarriesAll ==
    answer.at = "sent" =>
        /\ answer.through \in cursor..Len(log)
        /\ \A n \in due : cursor < n /\ n <= answer.through => n \in answer.routed \/ IsSuperseded(n)

SyncInv == LogTypes /\ DueConcerns /\ AnswerCarriesAll /\ NothingIsSkipped

(* An event comes to the end of the log; no earlier one changes.              *)
LEMMA AppendStep ==
    ASSUME SyncInv, NEW e \in Entries, e.supersedes <= Len(log),
           NEW rows \in [WorkItems -> People \union {"nobody"}],
           AppendEvent(e, rows)
    PROVE  SyncInv'
<1> DEFINE mine == {i \in WorkItems : rows[i] = "agent"}
<1>1. /\ log' = Append(log, e) /\ assignee' = rows
      /\ due' = Due(e, mine)
      /\ UNCHANGED <<cursor, got, answer>>
  BY DEF AppendEvent
<1>2. log \in Seq(Entries) /\ Len(log) \in Nat
  BY DEF SyncInv, LogTypes
<1>3. /\ log' \in Seq(Entries) /\ Len(log') = Len(log) + 1
      /\ DOMAIN log' = DOMAIN log \union {Len(log) + 1}
      /\ \A n \in DOMAIN log : log'[n] = log[n]
      /\ log'[Len(log) + 1] = e /\ DOMAIN log = 1..Len(log)
  BY <1>1, <1>2
<1>4. Mine' = mine
  BY <1>1 DEF Mine
<1> HIDE DEF mine
<1>5. LogTypes'
  <2>1. \A n \in DOMAIN log' : log'[n].supersedes <= n - 1
    <3>1. \A n \in DOMAIN log : log'[n].supersedes <= n - 1
      BY <1>3 DEF SyncInv, LogTypes
    <3>2. log'[Len(log) + 1].supersedes <= (Len(log) + 1) - 1
      BY <1>2, <1>3
    <3> QED
      BY <1>3, <3>1, <3>2
  <2>2. cursor \in 0..Len(log) /\ got \subseteq DOMAIN log /\ due \subseteq DOMAIN log
        /\ answer.at \in {"none", "reading", "sent", "failed"} /\ answer.routed \subseteq DOMAIN log
        /\ answer.mine \subseteq WorkItems
    BY DEF SyncInv, LogTypes
  <2>3. cursor' \in 0..Len(log') /\ got' \subseteq DOMAIN log'
        /\ answer'.at \in {"none", "reading", "sent", "failed"} /\ answer'.routed \subseteq DOMAIN log'
        /\ answer'.mine \subseteq WorkItems
    BY <1>1, <1>2, <1>3, <2>2
  <2>4. due' \subseteq DOMAIN log'
    BY <1>1, <1>3, <2>2 DEF Due
  <2>5. assignee' \in [WorkItems -> People \union {"nobody"}]
    BY <1>1
  <2> QED
    BY <1>3, <2>1, <2>3, <2>4, <2>5 DEF LogTypes
<1>6. due \subseteq DOMAIN log /\ due' \subseteq due \union {Len(log) + 1}
  BY <1>1 DEF SyncInv, LogTypes, Due
<1>7. DueConcerns'
  <2>1. ASSUME NEW n \in due', n # Len(log) + 1
        PROVE  Concerns(log'[n], mine) /\ (answer.at = "reading" => Concerns(log'[n], answer.mine))
    <3>1. n \in due /\ Concerns(log[n], mine)
      BY <1>1, <2>1 DEF Due
    <3>2. log'[n] = log[n]
      BY <1>3, <1>6, <3>1
    <3> QED
      BY <3>1, <3>2 DEF SyncInv, DueConcerns
  <2>2. Len(log) + 1 \notin due
    BY <1>2, <1>3, <1>6
  <2>3. ASSUME Len(log) + 1 \in due'
        PROVE  Concerns(e, mine) /\ (answer.at = "reading" => Concerns(e, answer.mine))
    BY <1>1, <2>2, <2>3 DEF Due
  <2> QED
    BY <1>1, <1>3, <1>4, <2>1, <2>3 DEF DueConcerns
<1>8. ASSUME NEW n \in due, IsSuperseded(n)
      PROVE  IsSuperseded(n)'
  BY <1>3, <1>8 DEF IsSuperseded
<1>9. AnswerCarriesAll'
  <2>1. SUFFICES ASSUME answer.at = "sent"
                 PROVE  /\ answer.through \in cursor..Len(log')
                        /\ \A n \in due' : cursor < n /\ n <= answer.through =>
                                            n \in answer.routed \/ IsSuperseded(n)'
    BY <1>1 DEF AnswerCarriesAll
  <2>2. answer.through \in cursor..Len(log) /\ cursor \in Nat
    BY <2>1 DEF SyncInv, AnswerCarriesAll, LogTypes
  <2>3. \A n \in due' : n <= answer.through => n \in due
    BY <1>2, <1>6, <2>2
  <2>4. \A n \in due : cursor < n /\ n <= answer.through => n \in answer.routed \/ IsSuperseded(n)
    BY <2>1 DEF SyncInv, AnswerCarriesAll
  <2> QED
    BY <1>2, <1>3, <1>8, <2>2, <2>3, <2>4
<1>10. NothingIsSkipped'
  <2>1. cursor \in 0..Len(log) /\ cursor' = cursor /\ got' = got
    BY <1>1 DEF SyncInv, LogTypes
  <2>2. \A n \in due' : n <= cursor => n \in due
    BY <1>2, <1>6, <2>1
  <2>3. \A n \in due : n <= cursor => n \in got \/ IsSuperseded(n)
    BY DEF SyncInv, NothingIsSkipped, IsSuperseded
  <2>4. \A n \in due' : n <= cursor => n \in got \/ IsSuperseded(n)'
    BY <1>8, <2>2, <2>3
  <2> QED
    BY <1>2, <1>3, <2>1, <2>4 DEF NothingIsSkipped, IsSuperseded
<1> QED
  BY <1>5, <1>7, <1>9, <1>10 DEF SyncInv

(* A page ends between the cursor and the end of the log, and the agent reads  *)
(* no further than that, and not past what did not fit into the answer.       *)
LEMMA PageBounds ==
    ASSUME LogTypes
    PROVE  /\ PageEnd \in cursor..Len(log) /\ ReadThrough \in cursor..PageEnd
           /\ \A n \in Picked : n <= ReadThrough => n \in Routed
           /\ Routed \subseteq Picked /\ Picked \subseteq DOMAIN log
<1>1. cursor \in Nat /\ Len(log) \in Nat /\ cursor <= Len(log) /\ DOMAIN log = 1..Len(log)
  BY DEF LogTypes
<1> DEFINE to == Least(Len(log), cursor + PageEvents)
           sizes == SizesOf(cursor, to)
<1>2. to \in cursor..Len(log)
  BY <1>1, SyncConstants DEF Least
<1> HIDE DEF to
<1>3. Len(sizes) = to - cursor /\ Len(sizes) \in Nat
  BY <1>1, <1>2 DEF SizesOf
<1>4. PageEnd = cursor + Fitting(sizes, PageBytes)
  BY DEF PageEnd, to
<1>5. PageEnd \in cursor..Len(log)
  <2>1. Fitting(sizes, PageBytes) \in 0..Len(sizes)
    BY <1>3, FittingBounds, SyncConstants, Zenon
  <2> HIDE DEF sizes
  <2> QED
    BY <1>1, <1>2, <1>3, <1>4, <2>1
<1>6. Picked \subseteq (cursor + 1)..PageEnd /\ Picked \in SUBSET Nat
  BY <1>1, <1>5 DEF Picked
<1>7. ReadThrough \in cursor..PageEnd /\ \A n \in Picked : n <= ReadThrough => n \in Routed
  <2> DEFINE left == Picked \ Routed
  <2>1. CASE left = {}
    BY <1>1, <1>5, <2>1 DEF ReadThrough
  <2>2. CASE left # {}
    <3>1. ReadThrough = Min(left) - 1
      BY <2>2 DEF ReadThrough
    <3>2. left \in SUBSET Nat
      BY <1>6
    <3>3. \E x \in left : \A y \in left : x <= y
      BY <2>2, <3>2, LeastNumber
    <3>4. Min(left) \in left /\ \A y \in left : Min(left) <= y
      BY <3>3, Zenon DEF Min
    <3>5. Min(left) \in (cursor + 1)..PageEnd
      BY <1>6, <3>4
    <3>6. ASSUME NEW n \in Picked, n <= ReadThrough
          PROVE  n \in Routed
      <4>1. n \in Nat /\ ~ (Min(left) <= n)
        BY <1>1, <1>5, <1>6, <3>1, <3>5, <3>6
      <4> QED
        BY <3>4, <4>1
    <3>7. ReadThrough \in cursor..PageEnd
      BY <1>1, <1>5, <3>1, <3>5
    <3> QED
      BY <3>6, <3>7
  <2> QED
    BY <2>1, <2>2
<1>8. Routed \subseteq Picked
  <2> DEFINE order == InOrder(Picked)
             orderSizes == [n \in DOMAIN order |-> log[order[n]].size]
  <2>1. IsFiniteSet(Picked)
    <3>1. cursor + 1 \in Int /\ PageEnd \in Int
      BY <1>1, <1>5
    <3>2. IsFiniteSet((cursor + 1)..PageEnd)
      BY <3>1, FS_Interval, Zenon
    <3> QED
      BY <1>6, <3>2, FS_Subset, Zenon
  <2>2. Cardinality(Picked) \in Nat
    BY <2>1, FS_CardinalityType
  <2>3. order \in [1..Cardinality(Picked) -> Picked]
    BY <1>6, <2>1, InOrderIsAscending
  <2> HIDE DEF order
  <2>4. Len(orderSizes) = Cardinality(Picked)
    BY <2>2, <2>3
  <2> HIDE DEF orderSizes
  <2>5. Fitting(orderSizes, RouteBytes) \in 0..Cardinality(Picked)
    <3>1. Len(orderSizes) \in Nat /\ RouteBytes \in Nat
      BY <2>2, <2>4, SyncConstants DEF RouteBytes
    <3>2. Fitting(orderSizes, RouteBytes) \in 0..Len(orderSizes)
      BY <3>1, FittingBounds, Zenon
    <3> QED
      BY <2>4, <3>2
  <2>6. Routed = {order[n] : n \in 1..Fitting(orderSizes, RouteBytes)}
    BY DEF Routed, order, orderSizes
  <2> QED
    BY <2>2, <2>3, <2>5, <2>6
<1> QED
  BY <1>1, <1>5, <1>6, <1>7, <1>8

(* A sync reads what is the agent's: what is due concerns it.                *)
LEMMA RowsStep == ASSUME SyncInv, ReadRows PROVE SyncInv'
<1>1. /\ UNCHANGED <<log, assignee, cursor, got, due>>
      /\ answer'.at = "reading" /\ answer'.mine = Mine /\ answer'.routed = {}
  BY DEF ReadRows, NoAnswer
<1>2. LogTypes'
  BY <1>1 DEF SyncInv, LogTypes, Mine
<1>3. Mine' = Mine /\ NothingIsSkipped'
  BY <1>1 DEF SyncInv, Mine, NothingIsSkipped
<1>4. DueConcerns'
  BY <1>1, <1>3 DEF SyncInv, DueConcerns
<1>5. AnswerCarriesAll'
  BY <1>1 DEF AnswerCarriesAll
<1> QED
  BY <1>2, <1>3, <1>4, <1>5 DEF SyncInv

(* The answer that coord_sync makes carries all that concerns the agent.      *)
LEMMA AnswerStep == ASSUME SyncInv, ReadPage PROVE SyncInv'
<1>1. UNCHANGED <<log, assignee, cursor, got, due>> /\ answer.at = "reading"
  BY DEF ReadPage
<1>2. LogTypes
  BY DEF SyncInv
<1>3. Mine' = Mine /\ NothingIsSkipped'
  BY <1>1 DEF SyncInv, Mine, NothingIsSkipped
<1>4. CASE TooLarge
  <2>1. answer'.at = "failed" /\ answer'.routed = {} /\ answer'.mine = {}
    BY <1>4 DEF ReadPage, NoAnswer
  <2>2. LogTypes' /\ DueConcerns' /\ AnswerCarriesAll'
    BY <1>1, <1>3, <2>1 DEF SyncInv, LogTypes, DueConcerns, AnswerCarriesAll
  <2> QED
    BY <1>3, <2>2 DEF SyncInv
<1>5. CASE ~ TooLarge
  <2>1. answer' = [at |-> "sent", mine |-> {}, through |-> ReadThrough, routed |-> Routed, more |-> PageEnd < Len(log)]
    BY <1>5 DEF ReadPage, NoAnswer
  <2>2. answer'.at = "sent" /\ answer'.routed = Routed /\ answer'.through = ReadThrough /\ answer'.mine = {}
    BY <2>1
  <2>3. /\ PageEnd \in cursor..Len(log) /\ ReadThrough \in cursor..PageEnd
        /\ \A n \in Picked : n <= ReadThrough => n \in Routed
        /\ Routed \subseteq DOMAIN log /\ cursor \in Nat /\ Len(log) \in Nat
        /\ DOMAIN log = 1..Len(log)
    BY <1>2, PageBounds DEF LogTypes
  <2>4. ASSUME NEW n \in due, cursor < n, n <= ReadThrough
        PROVE  n \in Routed \/ IsSuperseded(n)
    <3>1. n \in (cursor + 1)..PageEnd /\ Concerns(log[n], answer.mine)
      BY <1>1, <2>3, <2>4 DEF SyncInv, DueConcerns, LogTypes
    <3>2. CASE n \in Superseded(cursor, PageEnd)
      BY <2>3, <3>2 DEF Superseded, IsSuperseded
    <3>3. CASE n \notin Superseded(cursor, PageEnd)
      <4>1. n \in Picked
        BY <3>1, <3>3 DEF Picked
      <4> QED
        BY <2>3, <2>4, <4>1
    <3> QED
      BY <3>2, <3>3
  <2>5. LogTypes'
    BY <1>1, <1>2, <2>2, <2>3 DEF LogTypes
  <2>6. AnswerCarriesAll'
    <3>1. ReadThrough \in cursor..Len(log)
      BY <2>3
    <3> QED
      BY <1>1, <2>2, <2>4, <3>1 DEF AnswerCarriesAll, IsSuperseded
  <2>7. DueConcerns'
    BY <1>1, <1>3, <2>2 DEF SyncInv, DueConcerns
  <2> QED
    BY <1>3, <2>5, <2>6, <2>7 DEF SyncInv
<1> QED
  BY <1>4, <1>5

LEMMA SyncInvariant == SyncSpec => []SyncInv
<1>1. SyncInit => SyncInv
  BY DEF SyncInit, SyncInv, LogTypes, DueConcerns, AnswerCarriesAll, NothingIsSkipped, NoAnswer, Entries
<1>2. SyncInv /\ [SyncNext]_syncVars => SyncInv'
  <2> SUFFICES ASSUME SyncInv, [SyncNext]_syncVars
               PROVE  SyncInv'
    OBVIOUS
  <2>1. assignee \in [WorkItems -> People \union {"nobody"}] /\ Len(log) \in Nat /\ People = {"agent", "other"}
    BY DEF SyncInv, LogTypes, People
  <2>2. ASSUME NEW i \in WorkItems, NEW by \in People, ClaimItem(i, by)
        PROVE  SyncInv'
    <3> DEFINE e == [kind |-> "claimed", by |-> by, item |-> i, size |-> 1, supersedes |-> 0]
               rows == [assignee EXCEPT ![i] = by]
    <3>1. e \in Entries /\ e.supersedes <= Len(log)
      BY <2>1 DEF Entries
    <3>2. rows \in [WorkItems -> People \union {"nobody"}]
      BY <2>1
    <3>3. AppendEvent(e, rows)
      BY <2>2 DEF ClaimItem
    <3> HIDE DEF e, rows
    <3> QED
      BY <3>1, <3>2, <3>3, AppendStep
  <2>3. ASSUME NEW i \in WorkItems, NEW by \in People, NEW size \in Sizes, NEW old \in 0..Len(log),
               PublishArtifact(i, by, size, old)
        PROVE  SyncInv'
    <3> DEFINE e == [kind |-> "artifact", by |-> by, item |-> i, size |-> size, supersedes |-> old]
    <3>1. e \in Entries /\ e.supersedes <= Len(log)
      BY <2>1 DEF Entries
    <3>2. AppendEvent(e, assignee)
      BY <2>3 DEF PublishArtifact
    <3> HIDE DEF e
    <3> QED
      BY <2>1, <3>1, <3>2, AppendStep
  <2>4. ASSUME NEW i \in WorkItems, DetectImpact(i)
        PROVE  SyncInv'
    <3> DEFINE e == [kind |-> "impact", by |-> "other", item |-> i, size |-> 1, supersedes |-> 0]
    <3>1. e \in Entries /\ e.supersedes <= Len(log)
      BY <2>1 DEF Entries
    <3>2. AppendEvent(e, assignee)
      BY <2>4 DEF DetectImpact
    <3> HIDE DEF e
    <3> QED
      BY <2>1, <3>1, <3>2, AppendStep
  <2>5. CASE ReceiveAnswer
    <3>1. /\ answer.at = "sent" /\ got' = got \union answer.routed /\ cursor' = answer.through
          /\ answer' = NoAnswer /\ UNCHANGED <<log, assignee, due>>
      BY <2>5 DEF ReceiveAnswer
    <3>2. /\ answer.through \in cursor..Len(log) /\ cursor \in Nat /\ answer.routed \subseteq DOMAIN log
          /\ \A n \in due : cursor < n /\ n <= answer.through => n \in answer.routed \/ IsSuperseded(n)
          /\ \A n \in due : n <= cursor => n \in got \/ IsSuperseded(n)
          /\ due \subseteq 1..Len(log)
      BY <2>1, <3>1 DEF SyncInv, AnswerCarriesAll, NothingIsSkipped, LogTypes, IsSuperseded
    <3>3. \A n \in due : n <= cursor' => n \in got' \/ IsSuperseded(n)
      BY <2>1, <3>1, <3>2
    <3>4. LogTypes'
      BY <2>1, <3>1, <3>2 DEF SyncInv, LogTypes, NoAnswer
    <3>5. DueConcerns'
      BY <3>1 DEF SyncInv, DueConcerns, Mine, NoAnswer
    <3>6. AnswerCarriesAll'
      BY <3>1 DEF AnswerCarriesAll, NoAnswer
    <3>7. NothingIsSkipped'
      <4>1. cursor' <= Len(log) /\ log' = log /\ due' = due
        BY <2>1, <3>1, <3>2
      <4> QED
        BY <3>3, <4>1 DEF NothingIsSkipped, IsSuperseded
    <3> QED
      BY <3>4, <3>5, <3>6, <3>7 DEF SyncInv
  <2>6. CASE LoseAnswer
    BY <2>6 DEF LoseAnswer, NoAnswer, SyncInv, LogTypes, DueConcerns, Mine, AnswerCarriesAll, NothingIsSkipped
  <2>7. CASE UNCHANGED syncVars
    BY <2>7 DEF syncVars, SyncInv, LogTypes, DueConcerns, Mine, AnswerCarriesAll, NothingIsSkipped, IsSuperseded
  <2> QED
    BY <2>2, <2>3, <2>4, <2>5, <2>6, <2>7, RowsStep, AnswerStep DEF SyncNext
<1> QED
  BY <1>1, <1>2, PTL DEF SyncSpec

(* The log, the cursor and the answers keep their types; an answer names        *)
(* events of the log only.                                                  *)
THEOREM SyncTypes == SyncSpec => []SyncTypeOK
<1>1. SyncInv => SyncTypeOK
  <2> SUFFICES ASSUME LogTypes
               PROVE  SyncTypeOK
    BY DEF SyncInv
  <2>1. ASSUME NEW n \in DOMAIN log
        PROVE  log[n] \in Entries /\ log[n].supersedes \in 0..(n - 1)
    <3>1. log[n] \in Entries /\ n \in Nat /\ log[n].supersedes <= n - 1
      BY DEF LogTypes
    <3> QED
      BY <3>1 DEF Entries
  <2> QED
    BY <2>1 DEF LogTypes, SyncTypeOK, Entries
<1> QED
  BY <1>1, SyncInvariant, PTL

(* coord_sync skips nothing that concerns the agent from when it was appended    *)
(* on: the cursor passes it only with the answer that carries it, for any page, *)
(* budget and number of lost answers, while the log grows and items are claimed *)
(* by one and the other.  What stops concerning the agent is not covered, and   *)
(* neither is an event about an item that became the agent's after the sync     *)
(* which passes the event had read the rows.                                 *)
THEOREM SyncSkipsNothing == SyncSpec => []NothingIsSkipped
  BY SyncInvariant, PTL DEF SyncInv

(***************************************************************************)
(* The processes that want to be the daemon of a project.                  *)
(***************************************************************************)
(* A file at one of the three paths belongs to a process that has made it    *)
(* and not yet taken it away, or was killed before it could.                  *)
FilesOwned ==
    /\ lock # Nobody => pc[lock] \in {"write", "crashed"} \cup Running \cup Stopping
    /\ socket # Nobody => pc[socket] \in {"publish", "serving", "close", "crashed"}
    /\ metadata # Nobody => pc[metadata] \in {"serving", "close", "forget", "crashed"}

(* A record is written by a process that went on to serve; what a start       *)
(* checks is such a record.                                                   *)
RecordsWritten ==
    /\ \A p \in written : pc[p] \in Running \cup Stopping \cup Ended
    /\ \A p \in Processes : pc[p] = "check" => seen[p] \in written

NoneEnded == \A p \in Processes : pc[p] \notin Ended

(* While no process has ended nobody cleans up, and whoever has created a     *)
(* lock file still finds it at the path.                                      *)
LockKept ==
    NoneEnded =>
        \A p \in Processes :
            /\ pc[p] # "unlink"
            /\ pc[p] \in {"write"} \cup Running \cup Stopping => lock = p

(* A start that goes on has rounds of its loop left. *)
RoundsLeft == \A p \in Processes : pc[p] \in Acquiring \cup {"off"} => attempt[p] < Attempts

(* The inductive invariant. *)
IInv == TypeOK /\ RoundsLeft /\ FilesOwned /\ RecordsWritten /\ LockKept

LEMMA StepCases ==
    ASSUME [Next]_vars
    PROVE  \/ \E p \in Processes :
                 \/ Start(p)
                 \/ CreateLock(p) \/ LockExists(p) \/ WriteLock(p)
                 \/ ReadMissing(p) \/ ReadRecord(p) \/ ReadUnreadable(p)
                 \/ CheckOwner(p) \/ UnlinkStale(p)
                 \/ ClearEndpoint(p) \/ Listen(p) \/ ListenFails(p) \/ PublishMetadata(p)
                 \/ Signal(p)
                 \/ CloseEndpoint(p) \/ RemoveMetadata(p) \/ ReadOwnLock(p) \/ RemoveLock(p)
                 \/ Crash(p)
           \/ UNCHANGED vars
  BY DEF Next, Acquire, Serve, Stop

(* The variables keep their types, and a start that goes on has rounds left.  *)
LEMMA TypeStep ==
    ASSUME TypeOK, RoundsLeft, [Next]_vars
    PROVE  TypeOK' /\ RoundsLeft'
<1> USE LockAssumption
    DEF TypeOK, RoundsLeft, Goto, files, Acquiring, Running, Stopping, Ended, Attempts
<1>1. ASSUME NEW p \in Processes,
             \/ Start(p) \/ CreateLock(p) \/ LockExists(p) \/ WriteLock(p)
             \/ ReadRecord(p) \/ ReadUnreadable(p) \/ CheckOwner(p)
      PROVE  TypeOK' /\ RoundsLeft'
  BY <1>1 DEF Start, CreateLock, LockExists, WriteLock, ReadRecord, ReadUnreadable,
              UnreadableRefused, CheckOwner
<1>2. ASSUME NEW p \in Processes, ReadMissing(p) \/ UnlinkStale(p)
      PROVE  TypeOK' /\ RoundsLeft'
  BY <1>2 DEF ReadMissing, UnlinkStale, TryAgain
<1>3. ASSUME NEW p \in Processes,
             \/ ClearEndpoint(p) \/ Listen(p) \/ ListenFails(p) \/ PublishMetadata(p)
             \/ Signal(p) \/ CloseEndpoint(p) \/ RemoveMetadata(p)
             \/ ReadOwnLock(p) \/ RemoveLock(p) \/ Crash(p)
      PROVE  TypeOK' /\ RoundsLeft'
  BY <1>3 DEF ClearEndpoint, Listen, ListenFails, PublishMetadata, Signal, CloseEndpoint,
              RemoveMetadata, MetadataRemoved, ReadOwnLock, RemoveLock, Crash
<1>4. CASE UNCHANGED vars
  BY <1>4 DEF vars
<1> QED
  BY StepCases, <1>1, <1>2, <1>3, <1>4

(* A file leaves its path before its owner ends, unless the owner is killed.  *)
LEMMA OwnedStep ==
    ASSUME TypeOK, FilesOwned, [Next]_vars
    PROVE  FilesOwned'
<1> USE LockAssumption DEF TypeOK, FilesOwned, Goto, files, Running, Stopping
<1>1. ASSUME NEW p \in Processes,
             \/ Start(p) \/ CreateLock(p) \/ LockExists(p) \/ WriteLock(p)
             \/ ReadRecord(p) \/ ReadUnreadable(p) \/ CheckOwner(p)
             \/ ReadMissing(p) \/ UnlinkStale(p)
      PROVE  FilesOwned'
  BY <1>1 DEF Start, CreateLock, LockExists, WriteLock, ReadRecord, ReadUnreadable,
              CheckOwner, ReadMissing, UnlinkStale, TryAgain
<1>2. ASSUME NEW p \in Processes,
             ClearEndpoint(p) \/ Listen(p) \/ ListenFails(p) \/ PublishMetadata(p)
      PROVE  FilesOwned'
  BY <1>2 DEF ClearEndpoint, Listen, ListenFails, PublishMetadata
<1>3. ASSUME NEW p \in Processes,
             \/ Signal(p) \/ CloseEndpoint(p) \/ RemoveMetadata(p)
             \/ ReadOwnLock(p) \/ RemoveLock(p) \/ Crash(p)
      PROVE  FilesOwned'
  BY <1>3 DEF Signal, CloseEndpoint, RemoveMetadata, MetadataRemoved, ReadOwnLock,
              RemoveLock, Crash
<1>4. CASE UNCHANGED vars
  BY <1>4 DEF vars
<1> QED
  BY StepCases, <1>1, <1>2, <1>3, <1>4

(* Ended processes stay ended.                                                *)
LEMMA EndedForGood ==
    ASSUME TypeOK, [Next]_vars, NoneEnded'
    PROVE  NoneEnded
  BY StepCases
     DEF NoneEnded, TypeOK, Goto, Ended, vars, files, TryAgain,
         Start, CreateLock, LockExists, WriteLock, ReadRecord, ReadUnreadable,
         CheckOwner, ReadMissing, UnlinkStale,
         ClearEndpoint, Listen, ListenFails, PublishMetadata,
         Signal, CloseEndpoint, RemoveMetadata, ReadOwnLock, RemoveLock, Crash

LEMMA RecordsStep ==
    ASSUME TypeOK, RecordsWritten, [Next]_vars
    PROVE  RecordsWritten'
<1> USE LockAssumption
    DEF TypeOK, RecordsWritten, Goto, files, Acquiring, Running, Stopping, Ended
<1>1. ASSUME NEW p \in Processes,
             \/ Start(p) \/ CreateLock(p) \/ LockExists(p) \/ WriteLock(p)
             \/ ReadRecord(p) \/ ReadUnreadable(p) \/ CheckOwner(p)
             \/ ReadMissing(p) \/ UnlinkStale(p)
      PROVE  RecordsWritten'
  BY <1>1 DEF Start, CreateLock, LockExists, WriteLock, ReadRecord, ReadUnreadable,
              UnreadableRefused, CheckOwner, ReadMissing, UnlinkStale, TryAgain
<1>2. ASSUME NEW p \in Processes,
             \/ ClearEndpoint(p) \/ Listen(p) \/ ListenFails(p) \/ PublishMetadata(p)
             \/ Signal(p) \/ CloseEndpoint(p) \/ RemoveMetadata(p)
             \/ ReadOwnLock(p) \/ RemoveLock(p) \/ Crash(p)
      PROVE  RecordsWritten'
  BY <1>2 DEF ClearEndpoint, Listen, ListenFails, PublishMetadata, Signal, CloseEndpoint,
              RemoveMetadata, ReadOwnLock, RemoveLock, Crash
<1>3. CASE UNCHANGED vars
  BY <1>3 DEF vars
<1> QED
  BY StepCases, <1>1, <1>2, <1>3

(* While no process has ended, every record read belongs to a live process:   *)
(* nothing is ever taken for stale.                                           *)
LEMMA LockKeptStep ==
    ASSUME IInv, [Next]_vars
    PROVE  LockKept'
<1> SUFFICES ASSUME NoneEnded'
             PROVE  \A p \in Processes :
                       /\ pc'[p] # "unlink"
                       /\ pc'[p] \in {"write"} \cup Running \cup Stopping => lock' = p
  BY DEF LockKept
<1>0. NoneEnded
  BY EndedForGood DEF IInv
<1> USE <1>0, LockAssumption
    DEF IInv, TypeOK, LockKept, Goto, files, Acquiring, Running, Stopping, Ended
<1>1. ASSUME NEW q \in Processes, CheckOwner(q)
      PROVE  pc' = [pc EXCEPT ![q] = "refused"] /\ lock' = lock
  <2>1. Alive(seen[q])
    BY <1>1 DEF CheckOwner, RecordsWritten, Alive, NoneEnded
  <2> QED
    BY <1>1, <2>1 DEF CheckOwner
<1>2. ASSUME NEW q \in Processes, RemoveLock(q) \/ Crash(q)
      PROVE  FALSE
  BY <1>2 DEF RemoveLock, Crash, NoneEnded
<1>3. ASSUME NEW q \in Processes,
             \/ Start(q) \/ CreateLock(q) \/ LockExists(q) \/ WriteLock(q)
             \/ ReadRecord(q) \/ ReadUnreadable(q) \/ ReadMissing(q) \/ UnlinkStale(q)
      PROVE  \A p \in Processes :
                /\ pc'[p] # "unlink"
                /\ pc'[p] \in {"write"} \cup Running \cup Stopping => lock' = p
  BY <1>3 DEF Start, CreateLock, LockExists, WriteLock, ReadRecord, ReadUnreadable,
              UnreadableRefused, ReadMissing, UnlinkStale, TryAgain
<1>4. ASSUME NEW q \in Processes,
             \/ ClearEndpoint(q) \/ Listen(q) \/ ListenFails(q) \/ PublishMetadata(q)
             \/ Signal(q) \/ CloseEndpoint(q) \/ RemoveMetadata(q) \/ ReadOwnLock(q)
      PROVE  \A p \in Processes :
                /\ pc'[p] # "unlink"
                /\ pc'[p] \in {"write"} \cup Running \cup Stopping => lock' = p
  BY <1>4 DEF ClearEndpoint, Listen, ListenFails, PublishMetadata, Signal, CloseEndpoint,
              RemoveMetadata, ReadOwnLock, NoneEnded
<1>5. CASE UNCHANGED vars
  BY <1>5 DEF vars
<1> QED
  BY StepCases, <1>1, <1>2, <1>3, <1>4, <1>5

LEMMA Invariance == Spec => []IInv
<1>1. Init => IInv
  BY LockAssumption
     DEF Init, IInv, TypeOK, RoundsLeft, FilesOwned, RecordsWritten, LockKept,
         Acquiring, Running, Stopping, Ended, Attempts
<1>2. IInv /\ [Next]_vars => IInv'
  BY TypeStep, OwnedStep, RecordsStep, LockKeptStep DEF IInv
<1> QED
  BY <1>1, <1>2, PTL DEF Spec

(* The files of the lock, the socket and the metadata, and where the processes  *)
(* are, keep their types; no start tries more often than it may.               *)
THEOREM LockTypes == Spec => []TypeOK
  BY Invariance, PTL DEF IInv

(* Daemons that start together, none of them ever having ended, agree on one  *)
(* authority, with its record and its socket in place.                        *)
THEOREM SafeUntilOneEnds == Spec => []OneAuthorityUntilOneEnds
<1>1. IInv => OneAuthorityUntilOneEnds
  <2> SUFFICES ASSUME IInv, NoneEnded
               PROVE  /\ OneAuthority
                      /\ \A p \in Processes : Authority(p) => lock = p /\ socket \in {p, Nobody}
    BY DEF OneAuthorityUntilOneEnds, NoneEnded
  <2>1. \A p \in Processes : Authority(p) => lock = p
    BY DEF IInv, LockKept, Authority
  <2>2. socket # Nobody => socket \in Processes /\ Authority(socket)
    BY DEF IInv, TypeOK, FilesOwned, NoneEnded, Authority, Running, Stopping, Ended
  <2> QED
    BY <2>1, <2>2 DEF OneAuthority
<1> QED
  BY <1>1, Invariance, PTL

(* Whatever way they overlapped, daemons that all stopped in order leave no   *)
(* lock, socket or metadata file.                                             *)
THEOREM NothingLeft == Spec => []OrderlyStopLeavesNothing
<1>1. IInv => OrderlyStopLeavesNothing
  BY DEF IInv, TypeOK, FilesOwned, OrderlyStopLeavesNothing, Running, Stopping
<1> QED
  BY <1>1, Invariance, PTL


(***************************************************************************)
(* Admission.                                                              *)
(***************************************************************************)
AdmissionReceipts == [path : Sources, input : Contained, output : Contained, status : {"APPLIED", "PARTIAL"}]

AdmissionTypes ==
    /\ tree \in [Sources -> Contained] /\ indexed \in [Sources -> Contained] /\ previous \in [Sources -> Seen]
    /\ issued \in Seq(AdmissionReceipts) /\ receipts \subseteq DOMAIN issued
    /\ DOMAIN classified \subseteq Sources /\ \A f \in DOMAIN classified : classified[f] \in Statuses
    /\ DOMAIN report \subseteq Sources /\ \A f \in DOMAIN report : report[f] \in Statuses
    /\ heads \in Seq([Sources -> Contained]) /\ stray \in BOOLEAN
    /\ seal \in [base : Nat, head : Nat, covered : SUBSET (DOMAIN issued), age : 0..(MaxAge + 1)]

(* A file the daemon, or the report, calls managed has a complete receipt that *)
(* was recorded.                                                            *)
ManagedIsApplied ==
    /\ \A f \in DOMAIN classified : classified[f] = "managed" => Applied(f) # {}
    /\ \A f \in DOMAIN report : report[f] = "managed" => Applied(f) # {}

(* The attestation in the worktree is one that was made.                      *)
SealWasMade ==
    seal # NoSeal => [base |-> seal.base, head |-> seal.head, covered |-> seal.covered] \in sealed

AdmissionInv == AdmissionTypes /\ ManagedIsApplied /\ SealWasMade /\ AllowedIsSealed

(* A step that hands out or records receipts, or changes the tree, and leaves  *)
(* what is classified, reported and sealed alone.                            *)
LEMMA ReceiptStep ==
    ASSUME AdmissionInv,
           \/ \E f \in Sources, c \in Contained :
                 ForeignEdit(f, c) \/ \E status \in {"APPLIED", "PARTIAL"} : Publish(f, c, status)
           \/ \E n \in DOMAIN issued : RecordReceipt(n)
    PROVE  AdmissionInv'
<1>1. /\ tree' \in [Sources -> Contained]
      /\ issued' \in Seq(AdmissionReceipts) /\ DOMAIN issued \subseteq DOMAIN issued'
      /\ \A n \in DOMAIN issued : issued'[n] = issued[n]
      /\ receipts \subseteq receipts' /\ receipts' \subseteq DOMAIN issued'
      /\ UNCHANGED <<indexed, previous, classified, report, heads, stray, seal, sealed>> /\ allowed' = NoRange
  <2>1. ASSUME NEW f \in Sources, NEW c \in Contained, NEW status \in {"APPLIED", "PARTIAL"},
               Publish(f, c, status)
        PROVE  <1>1
    <3> DEFINE r == [path |-> f, input |-> tree[f], output |-> c, status |-> status]
    <3>1. r \in AdmissionReceipts
      BY DEF AdmissionInv, AdmissionTypes, AdmissionReceipts
    <3>2. issued' = Append(issued, r)
      BY <2>1 DEF Publish
    <3> HIDE DEF r
    <3>3. /\ issued' \in Seq(AdmissionReceipts) /\ DOMAIN issued \subseteq DOMAIN issued'
          /\ \A n \in DOMAIN issued : issued'[n] = issued[n]
      BY <3>1, <3>2 DEF AdmissionInv, AdmissionTypes
    <3> QED
      BY <2>1, <3>3 DEF Publish, AdmissionInv, AdmissionTypes
  <2>2. ASSUME NEW f \in Sources, NEW c \in Contained, ForeignEdit(f, c)
        PROVE  <1>1
    BY <2>2 DEF ForeignEdit, AdmissionInv, AdmissionTypes
  <2>3. ASSUME NEW n \in DOMAIN issued, RecordReceipt(n)
        PROVE  <1>1
    BY <2>3 DEF RecordReceipt, AdmissionInv, AdmissionTypes
  <2> QED
    BY <2>1, <2>2, <2>3
<1>2. \A f : Applied(f) \subseteq Applied(f)'
  BY <1>1 DEF Applied, ForPath, AdmissionInv, AdmissionTypes
<1>3. AdmissionTypes'
  BY <1>1 DEF AdmissionInv, AdmissionTypes
<1>4. ManagedIsApplied' /\ SealWasMade' /\ AllowedIsSealed'
  BY <1>1, <1>2 DEF AdmissionInv, ManagedIsApplied, SealWasMade, AllowedIsSealed
<1> QED
  BY <1>3, <1>4 DEF AdmissionInv

(* Only a file with a complete receipt is called managed.                     *)
LEMMA ClassifiedFacts ==
    ASSUME NEW f, NEW current
    PROVE  /\ Classified(f, current) \in Statuses
           /\ Classified(f, current) = "managed" => Applied(f) # {}
  BY DEF Classified, Statuses

(* The daemon observes, the report is exported, the tree committed.           *)
LEMMA ObserveStep ==
    ASSUME AdmissionInv,
           (\E f \in Sources : Observe(f)) \/ Export \/ CommitFiles \/ Tick
    PROVE  AdmissionInv'
<1> USE DEF AdmissionInv
<1>1. ASSUME UNCHANGED <<issued, receipts>>
      PROVE  \A f : Applied(f)' = Applied(f)
  BY <1>1 DEF Applied, ForPath
<1>2. ASSUME NEW f \in Sources, Observe(f)
      PROVE  AdmissionInv'
  <2>1. /\ indexed' = [indexed EXCEPT ![f] = tree[f]] /\ previous' = [previous EXCEPT ![f] = tree[f]]
        /\ classified' = [g \in DOMAIN classified \union {f} |->
                             IF g = f THEN Classified(f, tree[f]) ELSE classified[g]]
        /\ UNCHANGED <<tree, issued, receipts, report, heads, stray, seal, sealed>> /\ allowed' = NoRange
    BY <1>2 DEF Observe
  <2>2. tree[f] \in Contained /\ tree[f] \in Seen
    BY DEF AdmissionTypes, Seen
  <2>3. /\ DOMAIN classified' = DOMAIN classified \union {f}
        /\ \A g \in DOMAIN classified' :
              /\ classified'[g] \in Statuses
              /\ classified'[g] = "managed" => Applied(g) # {}
    BY <2>1, ClassifiedFacts DEF AdmissionTypes, ManagedIsApplied
  <2>4. AdmissionTypes'
    BY <2>1, <2>2, <2>3 DEF AdmissionTypes
  <2> QED
    BY <1>1, <2>1, <2>3, <2>4 DEF ManagedIsApplied, SealWasMade, AllowedIsSealed
<1>3. CASE Export
  <2>1. /\ report' = classified /\ allowed' = NoRange
        /\ UNCHANGED <<tree, indexed, previous, issued, receipts, classified, heads, stray, seal, sealed>>
    BY <1>3 DEF Export
  <2>2. AdmissionTypes'
    BY <2>1 DEF AdmissionTypes
  <2> QED
    BY <1>1, <2>1, <2>2 DEF ManagedIsApplied, SealWasMade, AllowedIsSealed
<1>4. CASE CommitFiles
  <2>1. /\ heads' = Append(heads, tree) /\ stray' = FALSE /\ allowed' = NoRange
        /\ UNCHANGED <<tree, indexed, previous, issued, receipts, classified, report, seal, sealed>>
    BY <1>4 DEF CommitFiles
  <2>2. Append(heads, tree) \in Seq([Sources -> Contained])
    BY DEF AdmissionTypes
  <2>3. AdmissionTypes'
    BY <2>1, <2>2 DEF AdmissionTypes
  <2> QED
    BY <1>1, <2>1, <2>3 DEF ManagedIsApplied, SealWasMade, AllowedIsSealed
<1>5. CASE Tick
  <2>1. /\ seal # NoSeal /\ seal.age <= MaxAge /\ seal' = [seal EXCEPT !.age = @ + 1] /\ allowed' = NoRange
        /\ UNCHANGED <<tree, indexed, previous, issued, receipts, classified, report, heads, stray, sealed>>
    BY <1>5 DEF Tick
  <2>2. /\ seal.base \in Nat /\ seal.head \in Nat /\ seal.covered \in SUBSET (DOMAIN issued)
        /\ seal.age \in Nat /\ seal.age + 1 \in 0..(MaxAge + 1)
        /\ seal' = [base |-> seal.base, head |-> seal.head, covered |-> seal.covered, age |-> seal.age + 1]
    BY <2>1, AdmissionAssumption DEF AdmissionTypes
  <2>3. /\ seal' \in [base : Nat, head : Nat, covered : SUBSET (DOMAIN issued), age : 0..(MaxAge + 1)]
        /\ seal'.base = seal.base /\ seal'.head = seal.head /\ seal'.covered = seal.covered
    BY <2>1, <2>2 DEF AdmissionTypes
  <2>4. AdmissionTypes'
    BY <2>1, <2>3 DEF AdmissionTypes
  <2> QED
    BY <1>1, <2>1, <2>3, <2>4 DEF ManagedIsApplied, SealWasMade, AllowedIsSealed
<1> QED
  BY <1>2, <1>3, <1>4, <1>5

(* The scripts seal and verify.                                             *)
LEMMA ScriptStep ==
    ASSUME AdmissionInv, NEW b \in DOMAIN heads, NEW h \in DOMAIN heads, NEW ns \in Coverages,
           Seal(b, h, ns) \/ \E strict, reportOnly \in BOOLEAN : Verify(b, h, ns, strict, reportOnly)
    PROVE  AdmissionInv'
<1> USE DEF AdmissionInv
<1>1. ASSUME UNCHANGED <<issued, receipts>>
      PROVE  \A f : Applied(f)' = Applied(f)
  BY <1>1 DEF Applied, ForPath
<1>2. CASE Seal(b, h, ns)
  <2>1. /\ seal' = [base |-> b, head |-> h, covered |-> ns, age |-> 0] /\ stray' = TRUE /\ allowed' = NoRange
        /\ sealed' = sealed \union {[base |-> b, head |-> h, covered |-> ns]}
        /\ UNCHANGED <<tree, indexed, previous, issued, receipts, classified, report, heads>>
    BY <1>2 DEF Seal
  <2>2. b \in Nat /\ h \in Nat /\ ns \subseteq DOMAIN issued /\ MaxAge \in Nat
    BY AdmissionAssumption DEF AdmissionTypes, Coverages
  <2>3. AdmissionTypes'
    BY <2>1, <2>2 DEF AdmissionTypes
  <2> QED
    BY <1>1, <2>1, <2>3 DEF ManagedIsApplied, SealWasMade, AllowedIsSealed
<1>3. ASSUME NEW strict \in BOOLEAN, NEW reportOnly \in BOOLEAN, Verify(b, h, ns, strict, reportOnly)
      PROVE  AdmissionInv'
  <2>1. /\ seal # NoSeal
        /\ allowed' = IF LocalAdmission(b, h, strict) = "allowed" /\ Attested(b, h, ns)
                      THEN [base |-> b, head |-> h, covered |-> ns] ELSE NoRange
        /\ UNCHANGED <<tree, indexed, previous, issued, receipts, classified, report, heads, stray, seal, sealed>>
    BY <1>3 DEF Verify
  <2>2. AdmissionTypes' /\ ManagedIsApplied' /\ SealWasMade'
    BY <1>1, <2>1 DEF AdmissionTypes, ManagedIsApplied, SealWasMade
  <2>3. LocalAdmission(b, h, strict) = "allowed" => \A f \in Changed(b, h) : Applied(f) # {}
    BY DEF LocalAdmission, ManagedIsApplied
  <2>4. Attested(b, h, ns) => [base |-> b, head |-> h, covered |-> ns] \in sealed
    BY <2>1 DEF Attested, SameCoverage, SealWasMade
  <2>5. Changed(b, h)' = Changed(b, h)
    BY <2>1 DEF Changed
  <2>6. AllowedIsSealed'
    BY <1>1, <2>1, <2>3, <2>4, <2>5 DEF AllowedIsSealed
  <2> QED
    BY <2>2, <2>6
<1> QED
  BY <1>2, <1>3

LEMMA AdmissionInvariant == AdmissionSpec => []AdmissionInv
<1>1. AdmissionInit => AdmissionInv
  <2> SUFFICES ASSUME AdmissionInit
               PROVE  AdmissionInv
    OBVIOUS
  <2>1. 0 \in Contained /\ Unread \in Seen /\ MaxAge \in Nat
    BY AdmissionAssumption DEF Contained, Seen
  <2>2. /\ tree \in [Sources -> Contained] /\ indexed = tree /\ previous \in [Sources -> Seen] /\ heads = <<tree>>
        /\ issued = <<>> /\ receipts = {} /\ stray = FALSE /\ seal = NoSeal /\ sealed = {} /\ allowed = NoRange
        /\ DOMAIN classified = {} /\ report = classified
    BY <2>1 DEF AdmissionInit
  <2>3. <<tree>> \in Seq([Sources -> Contained]) /\ <<>> \in Seq(AdmissionReceipts) /\ DOMAIN <<>> = {}
    BY <2>2
  <2>4. NoSeal \in [base : Nat, head : Nat, covered : SUBSET {}, age : 0..(MaxAge + 1)]
    BY <2>1 DEF NoSeal
  <2>5. AdmissionTypes
    BY <2>1, <2>2, <2>3, <2>4 DEF AdmissionTypes
  <2> QED
    BY <2>2, <2>5 DEF AdmissionInv, ManagedIsApplied, SealWasMade, AllowedIsSealed
<1>2. AdmissionInv /\ [AdmissionNext]_admissionVars => AdmissionInv'
  <2> SUFFICES ASSUME AdmissionInv, [AdmissionNext]_admissionVars
               PROVE  AdmissionInv'
    OBVIOUS
  <2>1. CASE UNCHANGED admissionVars
    BY <2>1 DEF admissionVars, AdmissionInv, AdmissionTypes, ManagedIsApplied, Applied, ForPath, SealWasMade,
                AllowedIsSealed, Changed
  <2>2. CASE AdmissionNext
    BY <2>2, ReceiptStep, ObserveStep, ScriptStep DEF AdmissionNext
  <2> QED
    BY <2>1, <2>2
<1> QED
  BY <1>1, <1>2, PTL DEF AdmissionSpec

(* The files, receipts, reports, commits and the attestation keep their types. *)
THEOREM AdmissionTypesKept == AdmissionSpec => []AdmissionTypeOK
<1>1. AdmissionInv => AdmissionTypeOK
  <2> SUFFICES ASSUME AdmissionTypes
               PROVE  AdmissionTypeOK
    BY DEF AdmissionInv
  <2>1. \A n \in DOMAIN heads : heads[n] \in [Sources -> Contained]
    BY DEF AdmissionTypes
  <2> QED
    BY <2>1 DEF AdmissionTypes, AdmissionTypeOK, AdmissionReceipts
<1> QED
  BY <1>1, AdmissionInvariant, PTL

(* verify-my-pi-admission allows only ranges that were sealed, with the         *)
(* receipts it expects, and every changed file of which has a complete and     *)
(* recorded receipt, for any files, commits, edits and runs of the scripts.   *)
THEOREM AdmittedIsSealed == AdmissionSpec => []AllowedIsSealed
  BY AdmissionInvariant, PTL DEF AdmissionInv


(***************************************************************************)
(* Evidence.                                                               *)
(***************************************************************************)
EvidenceTypes ==
    /\ hypothesis \in {"PN6", "PN8"}
    /\ worktree \in Trees /\ history \in Seq(Trees) /\ Tip \in 1..(MaxHistory + 1)
    /\ observation \in [at : {"idle", "verify", "arms"}, task : Nat, read : Definitions, def : Definitions,
                        commit : Nat, started : Nat]
    /\ results \in [ObservedTasks -> Results]
    /\ aggregation \in [at : {"idle", "loading", "bound"}, next : Nat, qualified : SUBSET observed, head : 0..Tip]
    /\ evidence.accepted \in BOOLEAN /\ evidence.head \in 0..Tip
    /\ release.at \in {"idle", "promote", "write", "released"} /\ release.head \in 0..Tip

(* What was observed was registered by a commit that the run had before it.    *)
ObservedIsRegistered ==
    \A pair \in observed :
        /\ pair.task \in ObservedTasks /\ pair.arms \in ArmPairs
        /\ pair.started \in 1..Tip /\ RegisteredBefore(pair)

(* The arms run what the commit of the registration holds.                     *)
RunIsRegistered ==
    LET o == observation IN
    /\ o.at # "idle" => o.task \in ObservedTasks /\ o.started \in 1..Tip
    /\ o.at = "arms" => /\ o.commit \in 1..o.started
                        /\ history[o.commit].task[o.task] = o.def /\ history[o.commit].receipt[o.task] = o.def

(* A complete result is of an observation, and names the commit that holds the *)
(* definition which was run.                                                  *)
ResultIsObserved ==
    \A t \in ObservedTasks :
        results[t].completed =>
            /\ [task |-> t, def |-> results[t].blob, started |-> results[t].started, arms |-> results[t].arms] \in observed
            /\ results[t].commit \in 1..Tip /\ history[results[t].commit].task[t] = results[t].blob

(* What is aggregated has one pair of a task, and is older than what it is bound to. *)
AggregateIsObserved ==
    /\ IsFiniteSet(aggregation.qualified)
    /\ \A pair \in aggregation.qualified : pair.task < aggregation.next
    /\ \A p, q \in aggregation.qualified : p.task = q.task => p = q
    /\ aggregation.at = "bound" => \A pair \in aggregation.qualified : pair.started <= aggregation.head

(* The commits for which there are observations enough.                       *)
ObservedHeads ==
    {h \in Nat : \E pairs \in SUBSET observed :
                    /\ Cardinality({pair.task : pair \in pairs}) = Cardinality(pairs)
                    /\ Cardinality(KeysOf(pairs)) >= MinQualified
                    /\ \A pair \in pairs : pair.started <= h /\ RegisteredBefore(pair)
                    /\ OutcomeMet(pairs, TRUE)}

AcceptedIsObserved == evidence.accepted => evidence.head \in ObservedHeads
HeadIsObserved == release.at = "released" => release.head \in ObservedHeads

EvidenceInv ==
    /\ EvidenceTypes /\ ObservedIsRegistered /\ RunIsRegistered /\ ResultIsObserved
    /\ AggregateIsObserved /\ AcceptedIsObserved /\ HeadIsObserved

(* As the history and the observations grow, what was observed stays so.       *)
LEMMA HistoryGrows ==
    ASSUME EvidenceInv, UNCHANGED hypothesis, observed \subseteq observed',
           history' \in Seq(Trees), Tip <= Tip', \A n \in 1..Tip : history'[n] = history[n]
    PROVE  /\ UNCHANGED observed => ObservedIsRegistered'
           /\ ObservedHeads \subseteq ObservedHeads'
           /\ \A t \in ObservedTasks :
                 results[t].completed => /\ results[t].commit \in 1..Tip'
                                         /\ history'[results[t].commit].task[t] = results[t].blob
           /\ RunIsRegistered /\ UNCHANGED observation => RunIsRegistered'
<1> USE DEF EvidenceInv
<1>1. Tip \in Nat /\ Tip' \in Nat
  BY DEF EvidenceTypes, Tip
<1>2. ArmPairs' = ArmPairs
  BY DEF ArmPairs, ArmOutcomes
<1>3. ASSUME NEW pair \in observed
      PROVE  pair.started \in 1..Tip' /\ RegisteredBefore(pair)'
  BY <1>1 DEF ObservedIsRegistered, RegisteredBefore
<1>4. ASSUME NEW h \in ObservedHeads
      PROVE  h \in ObservedHeads'
  <2>1. PICK pairs \in SUBSET observed :
            /\ Cardinality({pair.task : pair \in pairs}) = Cardinality(pairs)
            /\ Cardinality(KeysOf(pairs)) >= MinQualified
            /\ \A pair \in pairs : pair.started <= h /\ RegisteredBefore(pair)
            /\ OutcomeMet(pairs, TRUE)
    BY DEF ObservedHeads
  <2>2. OutcomeMet(pairs, TRUE)'
    BY <2>1, Zenon DEF OutcomeMet
  <2>3. (Cardinality(KeysOf(pairs)) >= MinQualified)'
    BY <2>1 DEF KeysOf
  <2>4. pairs \in SUBSET observed' /\ h \in Nat
    BY DEF ObservedHeads
  <2>5. \A pair \in pairs : pair.started <= h /\ RegisteredBefore(pair)'
    BY <2>1, <1>3
  <2> QED
    BY <2>1, <2>2, <2>3, <2>4, <2>5 DEF ObservedHeads
<1>5. ASSUME RunIsRegistered, UNCHANGED observation
      PROVE  RunIsRegistered'
  BY <1>1, <1>5 DEF RunIsRegistered, EvidenceTypes
<1>6. ASSUME UNCHANGED observed
      PROVE  ObservedIsRegistered'
  BY <1>2, <1>3, <1>6 DEF ObservedIsRegistered
<1>7. ASSUME NEW t \in ObservedTasks, results[t].completed
      PROVE  results[t].commit \in 1..Tip' /\ history'[results[t].commit].task[t] = results[t].blob
  <2>1. results[t].commit \in 1..Tip /\ history[results[t].commit].task[t] = results[t].blob
    BY <1>7 DEF ResultIsObserved
  <2>2. history'[results[t].commit] = history[results[t].commit]
    BY <2>1
  <2> QED
    BY <1>1, <2>1, <2>2
<1> QED
  BY <1>4, <1>5, <1>6, <1>7


(* What follows for a step that leaves the observations and what was made of    *)
(* them alone.                                                             *)
LEMMA OnlyHistoryGrows ==
    ASSUME EvidenceInv, worktree' \in Trees, history' \in Seq(Trees), Tip <= Tip', Tip' <= MaxHistory + 1,
           \A n \in 1..Tip : history'[n] = history[n],
           UNCHANGED <<hypothesis, observation, results, aggregation, evidence, release, observed>>
    PROVE  EvidenceInv'
<1> USE DEF EvidenceInv
<1>1. Tip \in Nat /\ Tip' \in Nat /\ MaxHistory \in Nat
  BY EvidenceAssumption DEF EvidenceTypes, Tip
<1>2. ArmPairs' = ArmPairs /\ Results' = Results
  BY DEF ArmPairs, ArmOutcomes, Results
<1>3. EvidenceTypes'
  BY <1>1, <1>2 DEF EvidenceTypes
<1>4. ObservedIsRegistered' /\ RunIsRegistered' /\ ResultIsObserved'
  BY HistoryGrows DEF ObservedIsRegistered, ResultIsObserved
<1>5. AggregateIsObserved'
  BY DEF AggregateIsObserved
<1>6. AcceptedIsObserved' /\ HeadIsObserved'
  BY HistoryGrows DEF AcceptedIsObserved, HeadIsObserved
<1> QED
  BY <1>3, <1>4, <1>5, <1>6

(* Developers edit and commit.                                              *)
LEMMA DeveloperStep ==
    ASSUME EvidenceInv,
           \/ \E t \in ObservedTasks : WriteReceipt(t) \/ \E d \in Definitions : Define(t, d) \/ Revise(t, d)
           \/ ChangeCode \/ CommitCandidate
    PROVE  EvidenceInv'
<1> USE DEF EvidenceInv
<1>1. history \in Seq(Trees) /\ Tip \in Nat /\ Tip <= MaxHistory + 1 /\ worktree \in Trees /\ MaxHistory \in Nat
  BY EvidenceAssumption DEF EvidenceTypes
<1>2. ASSUME NEW w \in Trees, Edit(w)
      PROVE  EvidenceInv'
  <2>1. /\ worktree' \in Trees /\ history' = history /\ Tip' = Tip
        /\ UNCHANGED <<hypothesis, observation, results, aggregation, evidence, release, observed>>
    BY <1>2 DEF Edit, Tip
  <2> QED
    BY <1>1, <2>1, OnlyHistoryGrows
<1>3. ASSUME NEW t \in ObservedTasks, NEW d \in Definitions, Define(t, d) \/ Revise(t, d)
      PROVE  EvidenceInv'
  <2>1. [worktree EXCEPT !.task[t] = d] \in Trees
    BY <1>1 DEF Trees
  <2>2. [worktree EXCEPT !.task[t] = d, !.receipt[t] = d] \in Trees
    BY <1>1 DEF Trees
  <2> QED
    BY <1>2, <1>3, <2>1, <2>2 DEF Define, Revise
<1>4. ASSUME NEW t \in ObservedTasks, WriteReceipt(t)
      PROVE  EvidenceInv'
  <2>1. [worktree EXCEPT !.receipt[t] = worktree.task[t]] \in Trees
    BY <1>1 DEF Trees
  <2> QED
    BY <1>2, <1>4, <2>1 DEF WriteReceipt
<1>5. CASE ChangeCode
  <2>1. worktree.code \in 0..1 /\ 1 - worktree.code \in 0..1
    BY <1>1 DEF Trees
  <2>2. [worktree EXCEPT !.code = 1 - @] \in Trees
    BY <1>1, <2>1 DEF Trees
  <2> QED
    BY <1>2, <1>5, <2>2 DEF ChangeCode
<1>6. CASE CommitCandidate
  <2>1. /\ history' = Append(history, worktree) /\ worktree' = worktree /\ Tip <= MaxHistory
        /\ UNCHANGED <<hypothesis, observation, results, aggregation, evidence, release, observed>>
    BY <1>6 DEF CommitCandidate
  <2>2. history' \in Seq(Trees) /\ Tip' = Tip + 1 /\ \A n \in 1..Tip : history'[n] = history[n]
    BY <1>1, <2>1 DEF Tip
  <2>3. Tip <= Tip' /\ Tip' <= MaxHistory + 1
    BY <1>1, <2>1, <2>2
  <2> QED
    BY <1>1, <2>1, <2>2, <2>3, OnlyHistoryGrows
<1> QED
  BY <1>3, <1>4, <1>5, <1>6

(* The arms have run, and the result is written, or the run ends without one.  *)
LEMMA ArmsStep ==
    ASSUME EvidenceInv, RunArms
    PROVE  EvidenceInv'
<1> USE DEF EvidenceInv
<1>1. /\ observation.at = "arms"
      /\ UNCHANGED <<hypothesis, worktree, history, aggregation, evidence, release>> /\ Tip' = Tip
  BY DEF RunArms, OthersStay, Tip
<1>2. Tip \in Nat /\ \A n \in 1..Tip : history[n] \in Trees
  BY DEF EvidenceTypes, Tip
<1>3. ArmPairs' = ArmPairs /\ Results' = Results
  BY <1>1 DEF ArmPairs, ArmOutcomes, Results
<1>4. observation' = NotRunning
  BY DEF RunArms, Abandoned
<1>5. NotRunning \in [at : {"idle", "verify", "arms"}, task : Nat, read : Definitions, def : Definitions,
                      commit : Nat, started : Nat]
  BY DEF NotRunning, Definitions
<1>6. observed \subseteq observed'
  BY DEF RunArms, Abandoned
<1> DEFINE o == observation
<1>7. /\ o.task \in ObservedTasks /\ o.started \in 1..Tip /\ o.commit \in 1..o.started
      /\ history[o.commit].task[o.task] = o.def /\ history[o.commit].receipt[o.task] = o.def
      /\ o.def \in Definitions
  BY <1>1 DEF RunIsRegistered, EvidenceTypes
<1>8. o.commit \in 1..Tip /\ o.commit \in 0..(MaxHistory + 1) /\ o.started \in 0..(MaxHistory + 1)
  BY <1>2, <1>7, EvidenceAssumption DEF EvidenceTypes
<1>9. ASSUME NEW arms \in ArmPairs
      PROVE  LET p == [task |-> o.task, def |-> o.def, started |-> o.started, arms |-> arms]
             IN p.task \in ObservedTasks /\ p.arms \in ArmPairs /\ p.started \in 1..Tip /\ RegisteredBefore(p)
  BY <1>7 DEF RegisteredBefore
<1>10. /\ results' \in [ObservedTasks -> Results]
       /\ \A t \in ObservedTasks :
             \/ results'[t] = results[t]
             \/ ~results'[t].completed
             \/ /\ [task |-> t, def |-> results'[t].blob, started |-> results'[t].started, arms |-> results'[t].arms]
                       \in observed'
                /\ results'[t].commit \in 1..Tip /\ history[results'[t].commit].task[t] = results'[t].blob
       /\ \A pair \in observed' \ observed :
             pair.task \in ObservedTasks /\ pair.arms \in ArmPairs /\ pair.started \in 1..Tip /\ RegisteredBefore(pair)
  <2>1. CASE Abandoned
    BY <2>1 DEF Abandoned, EvidenceTypes
  <2>2. ASSUME NEW arms \in ArmPairs, ~Completed(arms), results' = [results EXCEPT ![o.task] = NoResult],
               observed' = observed
        PROVE  <1>10
    <3>1. NoResult \in Results /\ NoResult.completed = FALSE
      BY EvidenceAssumption DEF NoResult, Results, Definitions
    <3> QED
      BY <2>2, <3>1, <1>7 DEF EvidenceTypes
  <2>3. ASSUME NEW arms \in ArmPairs, Completed(arms),
               results' = [results EXCEPT ![o.task] =
                              [completed |-> TRUE, blob |-> history[o.commit].task[o.task],
                               commit |-> o.commit, started |-> o.started, arms |-> arms]],
               observed' = observed \union {[task |-> o.task, def |-> o.def, started |-> o.started, arms |-> arms]}
        PROVE  <1>10
    <3> DEFINE r == [completed |-> TRUE, blob |-> history[o.commit].task[o.task],
                     commit |-> o.commit, started |-> o.started, arms |-> arms]
    <3>1. r \in Results
      BY <1>7, <1>8 DEF Results
    <3>2. /\ results' \in [ObservedTasks -> Results]
          /\ \A t \in ObservedTasks : results'[t] = IF t = o.task THEN r ELSE results[t]
      BY <2>3, <3>1, <1>7 DEF EvidenceTypes
    <3>3. /\ [task |-> o.task, def |-> r.blob, started |-> r.started, arms |-> r.arms] \in observed'
          /\ r.commit \in 1..Tip /\ history[r.commit].task[o.task] = r.blob
      BY <2>3, <1>7, <1>8
    <3> HIDE DEF r
    <3> QED
      BY <2>3, <3>2, <3>3, <1>9
  <2> QED
    BY <2>1, <2>2, <2>3 DEF RunArms
<1>11. EvidenceTypes'
  BY <1>1, <1>3, <1>4, <1>5, <1>6, <1>10 DEF EvidenceTypes
<1>12. ObservedHeads \subseteq ObservedHeads'
  BY <1>1, <1>2, <1>6, HistoryGrows DEF EvidenceTypes
<1>13. ObservedIsRegistered'
  BY <1>1, <1>3, <1>10 DEF ObservedIsRegistered, RegisteredBefore
<1>14. RunIsRegistered'
  BY <1>4 DEF RunIsRegistered, NotRunning
<1>15. ResultIsObserved'
  BY <1>1, <1>6, <1>10 DEF ResultIsObserved
<1>16. AggregateIsObserved' /\ AcceptedIsObserved' /\ HeadIsObserved'
  BY <1>1, <1>12 DEF AggregateIsObserved, AcceptedIsObserved, HeadIsObserved
<1> QED
  BY <1>11, <1>13, <1>14, <1>15, <1>16


(* A run begins, or has its registration verified.                            *)
LEMMA BeginRunStep ==
    ASSUME EvidenceInv, (\E t \in ObservedTasks : ReadTask(t)) \/ VerifyRegistration
    PROVE  EvidenceInv'
<1> USE DEF EvidenceInv
<1>1. /\ UNCHANGED <<hypothesis, worktree, history, aggregation, evidence, release, results, observed>> /\ Tip' = Tip
  BY DEF ReadTask, VerifyRegistration, Abandoned, OthersStay, Tip
<1>2. Tip \in Nat /\ Tip >= 1
  BY DEF EvidenceTypes, Tip
<1>3. ArmPairs' = ArmPairs /\ Results' = Results
  BY <1>1 DEF ArmPairs, ArmOutcomes, Results
<1> DEFINE Runs == [at : {"idle", "verify", "arms"}, task : Nat, read : Definitions, def : Definitions,
                    commit : Nat, started : Nat]
<1>4. NotRunning \in Runs /\ NotRunning.at = "idle"
  BY DEF NotRunning, Definitions
<1>5. observation' \in Runs /\ RunIsRegistered'
  <2>1. ASSUME NEW t \in ObservedTasks, ReadTask(t)
        PROVE  <1>5
    <3>1. observation' = [at |-> "verify", task |-> t, read |-> worktree.task[t], def |-> Malformed,
                          commit |-> 0, started |-> Tip]
      BY <2>1 DEF ReadTask, NotRunning
    <3>2. t \in Nat /\ worktree.task[t] \in Definitions /\ Malformed \in Definitions
      BY EvidenceAssumption DEF EvidenceTypes, Trees, Definitions, ObservedTasks
    <3> QED
      BY <1>1, <1>2, <3>1, <3>2 DEF RunIsRegistered
  <2>2. ASSUME VerifyRegistration, observation' = NotRunning
        PROVE  <1>5
    BY <1>4, <2>2 DEF RunIsRegistered
  <2>3. ASSUME VerifyRegistration, observation' # NotRunning
        PROVE  <1>5
    <3> DEFINE t == observation.task
               d == IF hypothesis = "PN6" THEN worktree.task[t] ELSE observation.read
               started == IF hypothesis = "PN6" THEN Tip ELSE observation.started
    <3>1. /\ observation.at = "verify" /\ Preregistered(t, d, started)
          /\ observation' = [observation EXCEPT !.at = "arms", !.def = d, !.started = started,
                                                !.commit = RegistrationCommit(t)]
      BY <2>3 DEF VerifyRegistration, Abandoned
    <3>2. t \in ObservedTasks /\ t \in Nat /\ started \in 1..Tip /\ d \in Definitions /\ observation.read \in Definitions
      BY <1>2, <3>1 DEF RunIsRegistered, EvidenceTypes, Trees
    <3>3. /\ RegistrationCommit(t) \in 1..started
          /\ history[RegistrationCommit(t)].task[t] = d /\ history[RegistrationCommit(t)].receipt[t] = d
      BY <3>1 DEF Preregistered
    <3> HIDE DEF d, started
    <3>4. observation' = [at |-> "arms", task |-> t, read |-> observation.read, def |-> d,
                          commit |-> RegistrationCommit(t), started |-> started]
      BY <3>1 DEF EvidenceTypes
    <3> HIDE DEF t
    <3> QED
      BY <1>1, <1>2, <3>2, <3>3, <3>4 DEF RunIsRegistered
  <2> QED
    BY <2>1, <2>2, <2>3
<1>6. EvidenceTypes'
  BY <1>1, <1>3, <1>5 DEF EvidenceTypes
<1>7. ObservedHeads \subseteq ObservedHeads' /\ ObservedIsRegistered'
  BY <1>1, <1>2, HistoryGrows DEF EvidenceTypes
<1>8. ResultIsObserved'
  BY <1>1 DEF ResultIsObserved
<1>9. AggregateIsObserved' /\ AcceptedIsObserved' /\ HeadIsObserved'
  BY <1>1, <1>7 DEF AggregateIsObserved, AcceptedIsObserved, HeadIsObserved
<1> QED
  BY <1>5, <1>6, <1>7, <1>8, <1>9

(* What qualifies is an observation.                                          *)
LEMMA QualifiedIsObserved ==
    ASSUME EvidenceInv, NEW t \in ObservedTasks, Qualified(t)
    PROVE  AsPair(t) \in observed
<1>1. worktree.task[t] = results[t].blob
  BY DEF Qualified, Preregistered
<1> QED
  BY <1>1 DEF Qualified, AsPair, EvidenceInv, ResultIsObserved

(* Sets of pairs of which no two are of one task have as many tasks as pairs.   *)
LEMMA TasksCount ==
    ASSUME NEW pairs, IsFiniteSet(pairs), \A p, q \in pairs : p.task = q.task => p = q
    PROVE  Cardinality({pair.task : pair \in pairs}) = Cardinality(pairs)
<1> DEFINE tasks == {pair.task : pair \in pairs}
           f == [pair \in pairs |-> pair.task]
<1>1. f \in [pairs -> tasks] /\ \A t \in tasks : \E p \in pairs : f[p] = t
  OBVIOUS
<1>2. \A p, q \in pairs : f[p] = f[q] => p = q
  OBVIOUS
<1>3. f \in Surjection(pairs, tasks) /\ f \in Injection(pairs, tasks)
  BY <1>1, <1>2, Zenon DEF Surjection, Injection, IsInjective
<1> HIDE DEF f
<1> QED
  BY <1>3, FS_Surjection

(* The results are aggregated, bound to a commit, and become evidence.         *)
LEMMA AggregateStep ==
    ASSUME EvidenceInv, LoadPair \/ BindCandidate \/ \E recallKept \in BOOLEAN : EmitEvidence(recallKept)
    PROVE  EvidenceInv'
<1> USE DEF EvidenceInv
<1>1. /\ UNCHANGED <<hypothesis, worktree, history, observation, results, release, observed>> /\ Tip' = Tip
  BY DEF LoadPair, BindCandidate, EmitEvidence, Aggregates, Tip
<1>2. Tip \in Nat /\ Tip >= 1
  BY DEF EvidenceTypes, Tip
<1>3. ArmPairs' = ArmPairs /\ Results' = Results
  BY <1>1 DEF ArmPairs, ArmOutcomes, Results
<1>4. /\ ObservedHeads \subseteq ObservedHeads'
      /\ ObservedIsRegistered' /\ RunIsRegistered' /\ ResultIsObserved' /\ HeadIsObserved'
  BY <1>1, <1>2, HistoryGrows DEF EvidenceTypes, ResultIsObserved, HeadIsObserved
<1> DEFINE Aggregations == [at : {"idle", "loading", "bound"}, next : Nat, qualified : SUBSET observed, head : 0..Tip]
<1>5. NotAggregating \in Aggregations /\ (aggregation' = NotAggregating => AggregateIsObserved')
  <2>1. NotAggregating \in Aggregations
    BY <1>2 DEF NotAggregating
  <2>2. aggregation' = NotAggregating => AggregateIsObserved'
    BY FS_EmptySet DEF NotAggregating, AggregateIsObserved
  <2> QED
    BY <2>1, <2>2
<1>6. ASSUME aggregation' \in Aggregations, evidence'.accepted \in BOOLEAN, evidence'.head \in 0..Tip
      PROVE  EvidenceTypes'
  BY <1>1, <1>3, <1>6 DEF EvidenceTypes
<1>7. CASE LoadPair
  <2> DEFINE t == aggregation.next
             q == IF Qualified(t) THEN aggregation.qualified \union {AsPair(t)} ELSE aggregation.qualified
  <2>1. t \in ObservedTasks /\ aggregation' = [aggregation EXCEPT !.at = "loading", !.next = @ + 1, !.qualified = q]
    BY <1>7 DEF LoadPair
  <2>2. t \in Nat /\ aggregation.qualified \subseteq observed /\ \A pair \in aggregation.qualified : pair.task \in Nat
    BY EvidenceAssumption DEF EvidenceTypes, ObservedIsRegistered, ObservedTasks
  <2>3. q \subseteq observed /\ IsFiniteSet(q)
    BY <2>1, <2>2, QualifiedIsObserved, FS_AddElement DEF AggregateIsObserved
  <2>4. AsPair(t).task = t
    BY DEF AsPair
  <2>5. \A pair \in q : pair.task < t + 1
    BY <2>2, <2>4 DEF AggregateIsObserved
  <2>6. \A p, r \in q : p.task = r.task => p = r
    BY <2>2, <2>4 DEF AggregateIsObserved
  <2> HIDE DEF q
  <2>7. aggregation' = [at |-> "loading", next |-> t + 1, qualified |-> q, head |-> aggregation.head]
    BY <2>1 DEF EvidenceTypes
  <2>8. aggregation' \in Aggregations
    BY <2>2, <2>3, <2>7 DEF EvidenceTypes
  <2>9. AggregateIsObserved'
    BY <2>3, <2>5, <2>6, <2>7 DEF AggregateIsObserved
  <2>10. UNCHANGED evidence
    BY <1>7 DEF LoadPair
  <2> QED
    BY <1>4, <1>6, <2>8, <2>9, <2>10 DEF EvidenceTypes, AcceptedIsObserved
<1>8. CASE BindCandidate
  <2>1. UNCHANGED evidence /\ AcceptedIsObserved'
    BY <1>4, <1>8 DEF BindCandidate, AcceptedIsObserved
  <2>2. aggregation' \in Aggregations /\ AggregateIsObserved'
    <3>1. CASE aggregation' = NotAggregating
      BY <1>5, <3>1
    <3>2. CASE aggregation' = [aggregation EXCEPT !.at = "bound", !.head = Tip]
      <4>1. aggregation' = [at |-> "bound", next |-> aggregation.next, qualified |-> aggregation.qualified, head |-> Tip]
        BY <3>2 DEF EvidenceTypes
      <4>2. \A pair \in aggregation.qualified : pair.started <= Tip
        BY <1>2 DEF EvidenceTypes, ObservedIsRegistered
      <4> QED
        BY <1>2, <4>1, <4>2 DEF EvidenceTypes, AggregateIsObserved
    <3> QED
      BY <1>8, <3>1, <3>2 DEF BindCandidate
  <2> QED
    BY <1>4, <1>6, <2>1, <2>2 DEF EvidenceTypes
<1>9. ASSUME NEW recallKept \in BOOLEAN, EmitEvidence(recallKept)
      PROVE  EvidenceInv'
  <2>1. aggregation.at = "bound" /\ aggregation' = NotAggregating
    BY <1>9 DEF EmitEvidence
  <2>2. CASE evidence' = NoEvidence
    <3>1. EvidenceTypes' /\ AcceptedIsObserved'
      BY <1>2, <1>5, <1>6, <2>1, <2>2 DEF NoEvidence, AcceptedIsObserved
    <3> QED
      BY <1>4, <1>5, <2>1, <3>1
  <2>3. CASE evidence' # NoEvidence
    <3> DEFINE q == aggregation.qualified
    <3>1. /\ TargetMet(q) /\ OutcomeMet(q, recallKept)
          /\ evidence'.accepted = TRUE /\ evidence'.head = aggregation.head
      BY <1>9, <2>3 DEF EmitEvidence
    <3>2. OutcomeMet(q, TRUE)
      BY <3>1, Zenon DEF OutcomeMet
    <3>3. q \in SUBSET observed /\ aggregation.head \in 0..Tip /\ aggregation.head \in Nat
      BY <1>2 DEF EvidenceTypes
    <3>4. Cardinality({pair.task : pair \in q}) = Cardinality(q)
      BY TasksCount DEF AggregateIsObserved
    <3>5. \A pair \in q : pair.started <= aggregation.head /\ RegisteredBefore(pair)
      BY <2>1, <3>3 DEF AggregateIsObserved, ObservedIsRegistered
    <3>6. Cardinality(KeysOf(q)) >= MinQualified
      BY <3>1 DEF TargetMet
    <3>7. aggregation.head \in ObservedHeads
      BY <3>2, <3>3, <3>4, <3>5, <3>6 DEF ObservedHeads
    <3>8. EvidenceTypes' /\ AcceptedIsObserved'
      BY <1>4, <1>5, <1>6, <2>1, <3>1, <3>3, <3>7 DEF AcceptedIsObserved
    <3> QED
      BY <1>4, <1>5, <2>1, <3>8
  <2> QED
    BY <2>2, <2>3
<1> QED
  BY <1>7, <1>8, <1>9

(* A release is begun, promoted and written.                                  *)
LEMMA ReleaseStep ==
    ASSUME EvidenceInv, BeginRelease \/ Promote \/ \E commit \in 1..Tip : WriteManifest(commit)
    PROVE  EvidenceInv'
<1> USE DEF EvidenceInv
<1>1. /\ UNCHANGED <<hypothesis, worktree, history, observation, results, aggregation, evidence, observed>> /\ Tip' = Tip
  BY DEF BeginRelease, Promote, WriteManifest, Releases, Tip
<1>2. Tip \in Nat /\ Tip >= 1
  BY DEF EvidenceTypes, Tip
<1>3. ArmPairs' = ArmPairs /\ Results' = Results
  BY <1>1 DEF ArmPairs, ArmOutcomes, Results
<1>4. /\ ObservedHeads \subseteq ObservedHeads'
      /\ ObservedIsRegistered' /\ RunIsRegistered' /\ ResultIsObserved' /\ AcceptedIsObserved'
  BY <1>1, <1>2, HistoryGrows DEF EvidenceTypes, ResultIsObserved, AcceptedIsObserved
<1>5. AggregateIsObserved'
  BY <1>1 DEF AggregateIsObserved
<1>6. /\ release'.at \in {"idle", "promote", "write", "released"} /\ release'.head \in 0..Tip
      /\ release'.at = "released" => release'.head \in ObservedHeads
  <2>1. CASE BeginRelease
    BY <2>1 DEF BeginRelease, EvidenceTypes
  <2>2. CASE Promote
    BY <1>2, <2>2 DEF Promote, NotReleasing, EvidenceTypes
  <2>3. ASSUME NEW commit \in 1..Tip, WriteManifest(commit)
        PROVE  <1>6
    BY <1>2, <2>3 DEF WriteManifest, NotReleasing, BoundTo, AcceptedIsObserved
  <2> QED
    BY <2>1, <2>2, <2>3
<1>7. EvidenceTypes' /\ HeadIsObserved'
  BY <1>1, <1>3, <1>4, <1>6 DEF EvidenceTypes, HeadIsObserved
<1> QED
  BY <1>4, <1>5, <1>7

LEMMA EvidenceInvariant == EvidenceSpec => []EvidenceInv
<1>1. EvidenceInit => EvidenceInv
  <2> SUFFICES ASSUME EvidenceInit
               PROVE  EvidenceInv
    OBVIOUS
  <2>1. worktree \in Trees /\ history = <<worktree>> /\ history \in Seq(Trees) /\ Tip = 1 /\ MaxHistory \in Nat
    BY EvidenceAssumption DEF EvidenceInit, Tip
  <2>2. NotRunning \in [at : {"idle", "verify", "arms"}, task : Nat, read : Definitions, def : Definitions,
                        commit : Nat, started : Nat]
    BY DEF NotRunning, Definitions
  <2>3. NoResult \in Results /\ NoResult.completed = FALSE
    BY <2>1 DEF NoResult, Results, Definitions
  <2>4. NotAggregating \in [at : {"idle", "loading", "bound"}, next : Nat, qualified : SUBSET {}, head : 0..Tip]
    BY <2>1 DEF NotAggregating
  <2>5. EvidenceTypes
    BY <2>1, <2>2, <2>3, <2>4 DEF EvidenceInit, EvidenceTypes, NoEvidence, NotReleasing
  <2>6. ObservedIsRegistered /\ RunIsRegistered /\ ResultIsObserved
    BY <2>3 DEF EvidenceInit, ObservedIsRegistered, RunIsRegistered, ResultIsObserved, NotRunning
  <2>7. AggregateIsObserved /\ AcceptedIsObserved /\ HeadIsObserved
    BY FS_EmptySet DEF EvidenceInit, AggregateIsObserved, AcceptedIsObserved, HeadIsObserved, NotAggregating,
                       NoEvidence, NotReleasing
  <2> QED
    BY <2>5, <2>6, <2>7 DEF EvidenceInv
<1>2. EvidenceInv /\ [EvidenceNext]_evidenceVars => EvidenceInv'
  <2> SUFFICES ASSUME EvidenceInv, [EvidenceNext]_evidenceVars
               PROVE  EvidenceInv'
    OBVIOUS
  <2>1. CASE UNCHANGED evidenceVars
    <3>1. /\ worktree' \in Trees /\ history' \in Seq(Trees) /\ Tip' = Tip /\ Tip \in Nat /\ Tip <= MaxHistory + 1
          /\ history' = history
          /\ UNCHANGED <<hypothesis, observation, results, aggregation, evidence, release, observed>>
      BY <2>1, EvidenceAssumption DEF evidenceVars, EvidenceInv, EvidenceTypes, Tip
    <3> QED
      BY <3>1, OnlyHistoryGrows
  <2>2. CASE EvidenceNext
    BY <2>2, DeveloperStep, BeginRunStep, ArmsStep, AggregateStep, ReleaseStep DEF EvidenceNext
  <2> QED
    BY <2>1, <2>2
<1> QED
  BY <1>1, <1>2, PTL DEF EvidenceSpec

(* The worktree, the commits, the runs and what the scripts make of them keep   *)
(* their types.                                                             *)
THEOREM EvidenceTypesKept == EvidenceSpec => []EvidenceTypeOK
<1>1. EvidenceInv => EvidenceTypeOK
  <2> SUFFICES ASSUME EvidenceInv
               PROVE  EvidenceTypeOK
    OBVIOUS
  <2>1. \A n \in 1..Tip : history[n] \in Trees
    BY DEF EvidenceInv, EvidenceTypes, Tip
  <2> QED
    BY <2>1 DEF EvidenceInv, EvidenceTypes, ObservedIsRegistered, EvidenceTypeOK
<1> QED
  BY <1>1, EvidenceInvariant, PTL

(* What create-production-next-manifest releases was observed: the evidence      *)
(* rests on complete pairs of enough kinds, registered before they were run,    *)
(* in which the treatment did better, for any tasks, edits, commits and runs.  *)
THEOREM ReleaseIsObserved == EvidenceSpec => []ReleasedIsObserved
<1>1. EvidenceInv => ReleasedIsObserved
  BY DEF EvidenceInv, HeadIsObserved, ObservedHeads, ReleasedIsObserved
<1> QED
  BY <1>1, EvidenceInvariant, PTL


(***************************************************************************)
(* The parts together.                                                     *)
(***************************************************************************)
(* A behaviour of the daemon's parts, as it is model-checked, is one of every    *)
(* part.                                                                    *)
THEOREM PartsAreKept ==
    DaemonSpec => /\ Spec /\ RequestsSpec /\ CodeStateSpec /\ SyncSpec /\ FilesSpec /\ AdmissionSpec /\ EvidenceSpec
<1>1. DaemonInit => /\ Init /\ RequestsInit /\ CodeStateInit /\ SyncInit /\ FilesInit /\ AdmissionInit /\ EvidenceInit
  BY DEF DaemonInit
<1>2. [DaemonNext]_daemonVars =>
          /\ [Next]_vars
          /\ [RequestsNext]_requestVars /\ [CodeStateNext]_codeVars /\ [SyncNext]_syncVars /\ [FilesNext]_fileVars
          /\ [AdmissionNext]_admissionVars /\ [EvidenceNext]_evidenceVars
  BY DEF DaemonNext, daemonVars, lockVars, LockStep, RequestStep, CodeStep, SyncStep, FileStep, AdmissionStep, EvidenceStep
<1> QED
  BY <1>1, <1>2, PTL DEF DaemonSpec, Spec, RequestsSpec, CodeStateSpec, SyncSpec, FilesSpec, AdmissionSpec, EvidenceSpec

(* Every part keeps its types, whatever the others do.                        *)
THEOREM DaemonTypes == DaemonSpec => []DaemonTypesOK
  BY PartsAreKept, LockTypes, RequestTypes, CodeStateTypes, SyncTypes, FileTypes, AdmissionTypesKept, EvidenceTypesKept, PTL
     DEF DaemonTypesOK
(* Whatever the daemon's parts do, a change is admitted only on the sealed record of exactly     *)
(* its files, and a release only on observations of the commit it is made of.            *)
THEOREM AdmissionsEarned == DaemonSpec => []AdmissionsAreEarned
  BY PartsAreKept, AdmittedIsSealed, ReleaseIsObserved, PTL DEF AdmissionsAreEarned
=============================================================================
