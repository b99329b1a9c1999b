----------------------------- MODULE ToolsProofs -----------------------------
(***************************************************************************)
(* Proofs about the tools: the language-server clients, whose requests are   *)
(* answered by processes that come and go, the limiter of the MCP server,   *)
(* and the collector of a diff.                                            *)
(***************************************************************************)
EXTENDS LspClient, McpServer, VcsDiff,
        OrderLemmas, FiniteSetTheorems, SequenceTheorems, TLAPS

(***************************************************************************)
(* Language-server clients.                                                *)
(***************************************************************************)
(* What holds of a client r, number c, beside the processes s: its requests are  *)
(* numbered below nextId, a number that a process still has to answer is that of *)
(* one request, and until the client restarts its process has been told of the    *)
(* documents it marked.                                                      *)
Numbered(r, qs) == \A q \in qs : q.id < r.nextId /\ (q.kind = "query" => q.who \in Queries)

Fits(c, r, s) ==
    /\ r.timer => r.restarts > 0
    /\ r.proc # 0 => s[r.proc].life # "unused" /\ s[r.proc].owner = c
    /\ Numbered(r, r.pending)
    /\ \A p \in Servers : s[p].life # "unused" /\ s[p].owner = c =>
          /\ Numbered(r, s[p].requests)
          /\ \A q \in s[p].requests, e \in r.pending : e.id = q.id => e = q
          /\ r.restarts = 0 => \A q \in s[p].requests : q.kind = "query" => Document[q.who] \in s[p].known
    /\ r.restarts = 0 /\ Running(r, s) => r.opened \subseteq s[r.proc].known

ServersOwned ==
    \A p \in Servers : IF server[p].life = "unused" THEN server[p].requests = {} ELSE server[p].owner \in 1..current

ClientsFit ==
    \A c \in Clients : Fits(c, client[c], server) /\ (c > current => client[c] = NewClient)

UnderWay == {"starting", "entering", "reading", "asked", "waiting"}
CallsPlaced == \A k \in Queries : call[k].pc \in UnderWay => call[k].client \in 1..current

LspInv == LspTypeOK /\ ServersOwned /\ ClientsFit /\ CallsPlaced /\ AnswersAreOwn


-----------------------------------------------------------------------------
(* A step replaces a client c by r and the processes by s: processes of other     *)
(* clients stay as they are, and r and s fit.                                  *)
OnlyOwn(c, s) ==
    \A p \in Servers :
        \/ s[p] = server[p]
        \/ /\ s[p].life # "unused" /\ s[p].owner = c
           /\ server[p].life = "unused" \/ server[p].owner = c

Holds(c, r, s) ==
    /\ r \in ClientRecords /\ s \in [Servers -> ServerRecords]
    /\ Fits(c, r, s) /\ OnlyOwn(c, s)

LEMMA KeptAtFirst ==
    ASSUME LspInv, NEW c \in Clients
    PROVE  Holds(c, client[c], server)
  BY DEF LspInv, LspTypeOK, ClientsFit, Holds, OnlyOwn

(* The client forgets requests, ends with its process or restarts.               *)
LEMMA KeptByClient ==
    ASSUME NEW c, NEW r, NEW s, Holds(c, r, s), NEW r2 \in ClientRecords,
           r2.proc \in {0, r.proc}, r2.nextId = r.nextId, r2.pending \subseteq r.pending,
           r2.timer => r2.restarts > 0, r2.restarts >= r.restarts,
           r2.restarts = 0 /\ r2.proc # 0 /\ ~r2.killed => ~r.killed /\ r2.opened \subseteq r.opened
    PROVE  Holds(c, r2, s)
<1>1. r \in ClientRecords /\ r.restarts \in Nat /\ r2.restarts \in Nat
  BY LspAssumption DEF Holds, ClientRecords
<1>2. r2.restarts = 0 => r.restarts = 0
  BY <1>1
<1>3. r2.restarts = 0 /\ Running(r2, s) => r.restarts = 0 /\ Running(r, s) /\ r2.proc = r.proc /\ r2.opened \subseteq r.opened
  BY <1>2 DEF Running
<1> QED
  BY <1>2, <1>3 DEF Holds, Fits, Numbered

(* Processes of the client end, close or answer.                                *)
LEMMA KeptByServer ==
    ASSUME NEW c \in Clients, NEW r, NEW s, Holds(c, r, s), NEW s2 \in [Servers -> ServerRecords],
           \A p \in Servers :
               \/ s2[p] = s[p]
               \/ /\ s[p].life # "unused" /\ s[p].owner = c /\ s2[p].life # "unused" /\ s2[p].owner = c
                  /\ s2[p].life = "running" => s[p].life = "running" /\ s[p].known \subseteq s2[p].known
                  /\ s2[p].requests \subseteq s[p].requests
                  /\ s[p].known \subseteq s2[p].known \/ s2[p].requests = {}
    PROVE  Holds(c, r, s2)
<1>1. OnlyOwn(c, s2)
  BY DEF Holds, OnlyOwn
<1>2. \A p \in Servers : s2[p].life # "unused" /\ s2[p].owner = c =>
          /\ s[p].life # "unused" /\ s[p].owner = c /\ s2[p].requests \subseteq s[p].requests
          /\ s[p].known \subseteq s2[p].known \/ s2[p].requests = {}
  OBVIOUS
<1>3. r \in ClientRecords /\ (r.proc # 0 => r.proc \in Servers)
  BY DEF Holds, ClientRecords
<1>4. r.proc # 0 => s2[r.proc].life # "unused" /\ s2[r.proc].owner = c
  BY <1>3 DEF Holds, Fits
<1>5. Running(r, s2) => Running(r, s) /\ s[r.proc].known \subseteq s2[r.proc].known
  BY <1>3 DEF Running
<1>6. ASSUME NEW p \in Servers, s2[p].life # "unused" /\ s2[p].owner = c
      PROVE  /\ Numbered(r, s2[p].requests)
             /\ \A q \in s2[p].requests, e \in r.pending : e.id = q.id => e = q
             /\ r.restarts = 0 => \A q \in s2[p].requests : q.kind = "query" => Document[q.who] \in s2[p].known
  BY <1>2, <1>6 DEF Holds, Fits, Numbered
<1> QED
  BY <1>1, <1>3, <1>4, <1>5, <1>6 DEF Holds, Fits

(* A request is numbered, and sent if the process runs; a query then only for a   *)
(* document the process has been told of.                                       *)
LEMMA KeptByAsking ==
    ASSUME NEW c \in Clients, NEW r, NEW s, Holds(c, r, s), NEW kind \in {"init", "query", "stop"}, NEW who \in Queries \union {0},
           kind = "query" => /\ who \in Queries
                             /\ r.restarts = 0 /\ Running(r, s) => Document[who] \in s[r.proc].known
    PROVE  Holds(c, Asking(r, s, kind, who)[1], Asking(r, s, kind, who)[2])
<1> DEFINE q == [id |-> r.nextId, kind |-> kind, who |-> who]
           r2 == [r EXCEPT !.nextId = @ + 1, !.pending = @ \union {q}]
           r3 == [r EXCEPT !.nextId = @ + 1]
           s2 == [s EXCEPT ![r.proc].requests = @ \union {q}]
<1>1. /\ r \in ClientRecords /\ s \in [Servers -> ServerRecords] /\ r.nextId \in Nat /\ q \in Request
      /\ r.proc # 0 => r.proc \in Servers
  BY DEF Holds, ClientRecords, Request
<1>2. Asking(r, s, kind, who) = IF Running(r, s) THEN <<r2, s2>> ELSE <<r3, s>>
  BY DEF Asking, RequestId
<1>3. /\ r2 \in ClientRecords /\ r2.nextId = r.nextId + 1 /\ r2.pending = r.pending \union {q} /\ r2.proc = r.proc
      /\ r2.timer = r.timer /\ r2.restarts = r.restarts /\ r2.opened = r.opened /\ r2.killed = r.killed
  <2>1. q \in Request /\ r.nextId + 1 \in Nat
    BY <1>1
  <2> HIDE DEF q
  <2>2. r.pending \union {q} \in SUBSET Request
    BY <1>1, <2>1 DEF ClientRecords
  <2> QED
    BY <1>1, <2>1, <2>2 DEF ClientRecords
<1>4. /\ r3 \in ClientRecords /\ r3.nextId = r.nextId + 1 /\ r3.pending = r.pending /\ r3.proc = r.proc
      /\ r3.timer = r.timer /\ r3.restarts = r.restarts /\ r3.opened = r.opened /\ r3.killed = r.killed
  BY <1>1 DEF ClientRecords
<1>5. \A e \in r.pending : e.id \in Nat
  BY <1>1 DEF ClientRecords, Request
<1>6. \A p \in Servers : \A e \in s[p].requests : e.id \in Nat
  BY <1>1 DEF ServerRecords, Request
<1>7. CASE ~Running(r, s)
  <2>1. Running(r3, s) = Running(r, s)
    BY <1>4 DEF Running
  <2>2. Fits(c, r3, s)
    BY <1>1, <1>4, <1>5, <1>6, <1>7, <2>1 DEF Holds, Fits, Numbered
  <2> QED
    BY <1>1, <1>2, <1>4, <1>7, <2>2 DEF Holds
<1>8. CASE Running(r, s)
  <2>1. r.proc \in Servers /\ s[r.proc].life = "running" /\ s[r.proc].owner = c
    BY <1>1, <1>8 DEF Running, Holds, Fits
  <2>2. /\ s2 \in [Servers -> ServerRecords]
        /\ \A p \in Servers : p # r.proc => s2[p] = s[p]
        /\ s2[r.proc].life = "running" /\ s2[r.proc].owner = c /\ s2[r.proc].known = s[r.proc].known
        /\ s2[r.proc].requests = s[r.proc].requests \union {q}
    BY <1>1, <2>1 DEF ServerRecords
  <2>3. OnlyOwn(c, s2)
    BY <2>1, <2>2 DEF Holds, OnlyOwn
  <2>4. q.id = r.nextId /\ q.kind = kind /\ q.who = who
    OBVIOUS
  <2> HIDE DEF q, r2, s2
  <2>5. Numbered(r2, r2.pending)
    BY <1>1, <1>3, <1>5, <2>4 DEF Holds, Fits, Numbered
  <2>6. ASSUME NEW p \in Servers, s2[p].life # "unused" /\ s2[p].owner = c
        PROVE  /\ Numbered(r2, s2[p].requests)
               /\ \A x \in s2[p].requests, e \in r2.pending : e.id = x.id => e = x
               /\ r2.restarts = 0 => \A x \in s2[p].requests : x.kind = "query" => Document[x.who] \in s2[p].known
    <3>1. s[p].life # "unused" /\ s[p].owner = c /\ s2[p].known = s[p].known
      BY <2>1, <2>2, <2>6
    <3>2. s2[p].requests \subseteq s[p].requests \union {q} /\ (p # r.proc => s2[p].requests = s[p].requests)
      BY <2>2
    <3>3. Numbered(r, s[p].requests) /\ \A x \in s[p].requests, e \in r.pending : e.id = x.id => e = x
      BY <3>1 DEF Holds, Fits
    <3>4. r.restarts = 0 => \A x \in s[p].requests : x.kind = "query" => Document[x.who] \in s[p].known
      BY <3>1 DEF Holds, Fits
    <3>5. Numbered(r, r.pending)
      BY DEF Holds, Fits
    <3>6. Numbered(r2, s2[p].requests)
      BY <1>1, <1>3, <1>6, <2>4, <3>2, <3>3 DEF Numbered
    <3>7. \A x \in s2[p].requests, e \in r2.pending : e.id = x.id => e = x
      BY <1>1, <1>3, <1>5, <1>6, <2>4, <3>2, <3>3, <3>5 DEF Numbered
    <3>8. r2.restarts = 0 => \A x \in s2[p].requests : x.kind = "query" => Document[x.who] \in s2[p].known
      BY <1>3, <1>8, <2>4, <3>1, <3>2, <3>4
    <3> QED
      BY <3>6, <3>7, <3>8
  <2>7. Fits(c, r2, s2)
    BY <1>3, <1>8, <2>1, <2>2, <2>5, <2>6 DEF Holds, Fits, Running
  <2> QED
    BY <1>2, <1>3, <1>8, <2>2, <2>3, <2>7 DEF Holds
<1> QED
  BY <1>7, <1>8


(* The client kills its process and forgets it.                                 *)
LEMMA KeptByKill ==
    ASSUME NEW c \in Clients, NEW r, NEW s, Holds(c, r, s), NEW state \in LspState
    PROVE  Holds(c, [Killed(r) EXCEPT !.state = state], AfterKill(r, s))
<1> DEFINE r2 == [Killed(r) EXCEPT !.state = state]
<1>1. r \in ClientRecords /\ s \in [Servers -> ServerRecords] /\ (r.proc # 0 => r.proc \in Servers)
  BY DEF Holds, ClientRecords
<1>2. /\ r2 \in ClientRecords /\ r2.proc = 0 /\ r2.nextId = r.nextId /\ r2.pending = r.pending
      /\ r2.timer = r.timer /\ r2.restarts = r.restarts
  BY <1>1 DEF Killed, ClientRecords
<1>3. (r.timer => r.restarts > 0) /\ r.restarts \in Nat
  BY <1>1, LspAssumption DEF Holds, Fits, ClientRecords
<1>4. AfterKill(r, s) \in [Servers -> ServerRecords]
  BY <1>1 DEF AfterKill, ServerRecords
<1>5. \A p \in Servers :
          \/ AfterKill(r, s)[p] = s[p]
          \/ /\ p = r.proc /\ s[p].life = "running" /\ AfterKill(r, s)[p] = [s[p] EXCEPT !.life = "exited"]
  BY <1>1 DEF AfterKill
<1>6. r.proc # 0 => s[r.proc].owner = c
  BY DEF Holds, Fits
<1>7. \A p \in Servers :
          \/ AfterKill(r, s)[p] = s[p]
          \/ /\ s[p].life = "running" /\ s[p].owner = c
             /\ AfterKill(r, s)[p].life = "exited" /\ AfterKill(r, s)[p].owner = c
             /\ AfterKill(r, s)[p].requests = s[p].requests /\ AfterKill(r, s)[p].known = s[p].known
  <2> SUFFICES ASSUME NEW p \in Servers, AfterKill(r, s)[p] # s[p]
               PROVE  /\ s[p].life = "running" /\ s[p].owner = c
                      /\ AfterKill(r, s)[p].life = "exited" /\ AfterKill(r, s)[p].owner = c
                      /\ AfterKill(r, s)[p].requests = s[p].requests /\ AfterKill(r, s)[p].known = s[p].known
    OBVIOUS
  <2>1. p = r.proc /\ s[p].life = "running" /\ AfterKill(r, s)[p] = [s[p] EXCEPT !.life = "exited"]
    BY <1>5
  <2>2. s[p] \in ServerRecords /\ r.proc # 0
    BY <1>1, <2>1 DEF Servers
  <2>3. s[p].owner = c
    BY <1>6, <2>1, <2>2
  <2> QED
    BY <2>1, <2>2, <2>3 DEF ServerRecords
<1>8. Holds(c, r, AfterKill(r, s))
  BY <1>4, <1>7, KeptByServer
<1> HIDE DEF r2
<1>9. Holds(c, r2, AfterKill(r, s))
  BY <1>2, <1>3, <1>8, KeptByClient
<1> QED
  BY <1>9 DEF r2

LEMMA KeptByStartFailed ==
    ASSUME NEW c \in Clients, NEW r, NEW s, Holds(c, r, s)
    PROVE  Holds(c, StartFailed(r), AfterKill(r, s))
<1>1. r \in ClientRecords
  BY DEF Holds
<1>2. PICK state \in LspState : StartFailed(r) = [Killed(r) EXCEPT !.state = state]
  <2>1. CASE r.byTimer
    BY <2>1 DEF StartFailed, LspState
  <2>2. CASE ~r.byTimer
    <3>1. Killed(r).state = "STOPPED"
      BY <1>1 DEF Killed, ClientRecords
    <3>2. StartFailed(r) = [Killed(r) EXCEPT !.state = Killed(r).state]
      BY <2>2 DEF StartFailed
    <3> QED
      BY <3>1, <3>2 DEF LspState
  <2> QED
    BY <2>1, <2>2
<1> QED
  BY <1>2, KeptByKill

(* Requests are rejected.                                                     *)
LEMMA KeptByRejecting ==
    ASSUME NEW c \in Clients, NEW r, NEW s, Holds(c, r, s), NEW qs
    PROVE  Holds(c, Rejecting(r, qs), ProcsAfter(r, s, qs))
<1> DEFINE left == [r EXCEPT !.pending = @ \ qs]
           stopped == [left EXCEPT !.state = "STOPPED"]
<1>1. r \in ClientRecords /\ r.restarts \in Nat /\ (r.timer => r.restarts > 0)
  BY LspAssumption DEF Holds, Fits, ClientRecords
<1>2. /\ left \in ClientRecords /\ left.proc = r.proc /\ left.nextId = r.nextId /\ left.pending \subseteq r.pending
      /\ left.timer = r.timer /\ left.restarts = r.restarts /\ left.killed = r.killed /\ left.opened = r.opened
  BY <1>1 DEF ClientRecords
<1>3. Holds(c, left, s)
  <2> HIDE DEF left
  <2> QED
    BY <1>1, <1>2, KeptByClient
<1>4. /\ stopped \in ClientRecords /\ stopped.proc = r.proc /\ stopped.nextId = r.nextId /\ stopped.pending \subseteq r.pending
      /\ stopped.timer = r.timer /\ stopped.restarts = r.restarts /\ stopped.killed = r.killed /\ stopped.opened = r.opened
  <2> HIDE DEF left
  <2> QED
    BY <1>2 DEF ClientRecords, LspState
<1>5. Holds(c, stopped, s)
  <2> HIDE DEF stopped
  <2> QED
    BY <1>1, <1>4, KeptByClient
<1>6. AfterKill(left, s) = AfterKill(r, s)
  <2> HIDE DEF left
  <2> QED
    BY <1>2 DEF AfterKill
<1>7. Holds(c, StartFailed(left), AfterKill(r, s))
  <2> HIDE DEF left
  <2> QED
    BY <1>3, <1>6, KeptByStartFailed
<1>8. "init" \in {q.kind : q \in qs} <=> \E q \in qs : q.kind = "init"
  OBVIOUS
<1>9. CASE \E q \in qs : q.kind = "init"
  BY <1>7, <1>8, <1>9 DEF Rejecting, ProcsAfter
<1>10. CASE ~ \E q \in qs : q.kind = "init"
  BY <1>3, <1>5, <1>8, <1>10 DEF Rejecting, ProcsAfter
<1> QED
  BY <1>9, <1>10


LEMMA LeastServer ==
    ASSUME Unused # {}
    PROVE  Min(Unused) \in Unused
<1>1. Unused \subseteq Nat
  BY DEF Unused, Servers
<1>2. \E n \in Unused : \A m \in Unused : n <= m
  BY <1>1, LeastNumber
<1> QED
  BY <1>2, Zenon DEF Min

(* The client spawns a process and asks it to initialize.                        *)
LEMMA KeptByStart ==
    ASSUME LspInv, NEW c \in Clients, NEW r, Holds(c, r, server), r.restarts = 0 => r.opened = {},
           NEW byTimer \in BOOLEAN, Unused # {}
    PROVE  Holds(c, Started(c, r, byTimer)[1], Started(c, r, byTimer)[2])
<1> DEFINE p == Min(Unused)
           r2 == [r EXCEPT !.state = "STARTING", !.killed = FALSE, !.proc = p, !.byTimer = byTimer]
           s2 == [server EXCEPT ![p].life = "running", ![p].owner = c]
<1>1. p \in Servers /\ server[p].life = "unused" /\ server[p].requests = {} /\ p # 0
  <2>1. p \in Unused
    BY LeastServer
  <2> HIDE DEF p
  <2>2. p \in Servers /\ server[p].life = "unused"
    BY <2>1 DEF Unused
  <2> QED
    BY <2>2 DEF LspInv, ServersOwned, Servers
<1>2. /\ r \in ClientRecords /\ server \in [Servers -> ServerRecords]
      /\ Fits(c, r, server)
  BY DEF Holds
<1> HIDE DEF p
<1>3. /\ r2 \in ClientRecords /\ r2.proc = p /\ r2.nextId = r.nextId /\ r2.pending = r.pending
      /\ r2.timer = r.timer /\ r2.restarts = r.restarts /\ r2.opened = r.opened
  BY <1>1, <1>2 DEF ClientRecords, LspState
<1>4. /\ s2 \in [Servers -> ServerRecords] /\ \A x \in Servers : x # p => s2[x] = server[x]
      /\ s2[p].life = "running" /\ s2[p].owner = c /\ s2[p].requests = {}
  BY <1>1, <1>2 DEF ServerRecords
<1> HIDE DEF r2, s2
<1>5. OnlyOwn(c, s2)
  BY <1>1, <1>4 DEF OnlyOwn
<1>6. \A x \in Servers : s2[x].life # "unused" /\ s2[x].owner = c =>
          \/ s2[x].requests = {}
          \/ s2[x] = server[x] /\ server[x].life # "unused" /\ server[x].owner = c
  BY <1>4
<1>7. Numbered(r2, r2.pending)
  BY <1>2, <1>3 DEF Fits, Numbered
<1>8. ASSUME NEW x \in Servers, s2[x].life # "unused" /\ s2[x].owner = c
      PROVE  /\ Numbered(r2, s2[x].requests)
             /\ \A q \in s2[x].requests, e \in r2.pending : e.id = q.id => e = q
             /\ r2.restarts = 0 => \A q \in s2[x].requests : q.kind = "query" => Document[q.who] \in s2[x].known
  BY <1>2, <1>3, <1>6, <1>8 DEF Fits, Numbered
<1>9. r2.restarts = 0 => r2.opened = {}
  BY <1>3
<1>10. Fits(c, r2, s2)
  BY <1>1, <1>2, <1>3, <1>4, <1>7, <1>8, <1>9 DEF Fits
<1>11. Holds(c, r2, s2)
  BY <1>3, <1>4, <1>5, <1>10 DEF Holds
<1>12. Started(c, r, byTimer) = Asking(r2, s2, "init", 0)
  BY DEF Started, p, r2, s2
<1> QED
  BY <1>11, <1>12, KeptByAsking

-----------------------------------------------------------------------------
(* A client and its processes take their step, and a call may take one with them. *)
LEMMA ClientStep ==
    ASSUME LspInv, NEW c \in Clients, NEW r, NEW s, Holds(c, r, s),
           client' = [client EXCEPT ![c] = r], server' = s,
           current' \in Clients \union {0}, current <= current', c <= current'
    PROVE  /\ client' \in [Clients -> ClientRecords] /\ server' \in [Servers -> ServerRecords]
           /\ ServersOwned' /\ ClientsFit'
<1>1. /\ client \in [Clients -> ClientRecords] /\ server \in [Servers -> ServerRecords]
      /\ r \in ClientRecords /\ s \in [Servers -> ServerRecords]
      /\ current \in Nat /\ current' \in Nat /\ c \in Nat /\ c >= 1
  BY DEF LspInv, LspTypeOK, Holds, Clients
<1>2. ASSUME NEW p \in Servers
      PROVE  \/ s[p] = server[p]
             \/ s[p].life # "unused" /\ s[p].owner = c
  BY DEF Holds, OnlyOwn
<1>3. ServersOwned'
  BY <1>1, <1>2 DEF LspInv, ServersOwned
<1>4. ASSUME NEW d \in Clients, d # c
      PROVE  Fits(d, client[d], s)
  <2>1. Fits(d, client[d], server) /\ client[d] \in ClientRecords
    BY <1>1 DEF LspInv, ClientsFit
  <2>2. client[d].proc # 0 => client[d].proc \in Servers
    BY <2>1 DEF ClientRecords
  <2>3. \A p \in Servers : server[p].life # "unused" /\ server[p].owner = d => s[p] = server[p]
    BY <1>4 DEF Holds, OnlyOwn
  <2>4. \A p \in Servers : s[p].life # "unused" /\ s[p].owner = d => s[p] = server[p]
    BY <1>2, <1>4
  <2>5. client[d].proc # 0 => s[client[d].proc] = server[client[d].proc]
    BY <2>1, <2>2, <2>3 DEF Fits
  <2>6. ASSUME NEW p \in Servers, s[p].life # "unused" /\ s[p].owner = d
        PROVE  /\ Numbered(client[d], s[p].requests)
               /\ \A q \in s[p].requests, e \in client[d].pending : e.id = q.id => e = q
               /\ client[d].restarts = 0 => \A q \in s[p].requests : q.kind = "query" => Document[q.who] \in s[p].known
    <3>1. s[p] = server[p]
      BY <2>4, <2>6
    <3> QED
      BY <2>1, <2>6, <3>1 DEF Fits
  <2> QED
    BY <2>1, <2>5, <2>6 DEF Fits, Running
<1>5. Fits(c, r, s)
  BY DEF Holds
<1>6. \A d \in Clients : client'[d] = IF d = c THEN r ELSE client[d]
  BY <1>1
<1>7. \A d \in Clients : Fits(d, client'[d], s)
  BY <1>4, <1>5, <1>6
<1>8. \A d \in Clients : d > current' => client'[d] = NewClient
  BY <1>1, <1>6 DEF LspInv, ClientsFit, Clients
<1> QED
  BY <1>1, <1>3, <1>7, <1>8 DEF ClientsFit

CallsKept == call \in [Queries -> CallRecords] /\ CallsPlaced /\ AnswersAreOwn

(* A call goes on, or some of them fail.                                        *)
LEMMA CallGoes ==
    ASSUME LspInv, NEW k \in Queries, NEW c \in Clients, current' \in Clients, current <= current', c <= current',
           NEW pc \in {"starting", "entering", "reading", "asked", "waiting", "done", "failed"}, Goes(k, pc, c)
    PROVE  CallsKept'
<1>1. call \in [Queries -> CallRecords] /\ current \in Nat /\ current' \in Nat /\ c \in 1..current'
  BY DEF LspInv, LspTypeOK, Clients
<1>2. /\ call' \in [Queries -> CallRecords]
      /\ \A j \in Queries : j # k => call'[j] = call[j]
      /\ call'[k].client = c /\ call'[k].got = call[k].got
  BY <1>1 DEF Goes, CallRecords
<1>3. CallsPlaced'
  BY <1>1, <1>2 DEF LspInv, CallsPlaced
<1>4. AnswersAreOwn'
  BY <1>2 DEF LspInv, AnswersAreOwn
<1> QED
  BY <1>2, <1>3, <1>4 DEF CallsKept

LEMMA CallsEnd ==
    ASSUME LspInv, NEW ks, NEW pc \in {"done", "failed"}, UNCHANGED current,
           call' = [k \in Queries |-> IF k \in ks THEN [call[k] EXCEPT !.pc = pc] ELSE call[k]]
    PROVE  CallsKept'
<1>1. call \in [Queries -> CallRecords]
  BY DEF LspInv, LspTypeOK
<1>2. \A k \in Queries : /\ call'[k] \in CallRecords /\ call'[k].got = call[k].got
                         /\ call'[k].pc \in UnderWay => call'[k] = call[k]
  BY <1>1 DEF CallRecords, UnderWay
<1>3. call' \in [Queries -> CallRecords]
  BY <1>2
<1> QED
  BY <1>2, <1>3 DEF LspInv, CallsKept, CallsPlaced, AnswersAreOwn

LEMMA CallsStay ==
    ASSUME LspInv, current' \in Clients \union {0}, current <= current', UNCHANGED call
    PROVE  CallsKept'
<1>1. current \in Nat /\ current' \in Nat
  BY DEF LspInv, LspTypeOK, Clients
<1> QED
  BY <1>1 DEF LspInv, LspTypeOK, CallsKept, CallsPlaced, AnswersAreOwn

(* The parts of the invariant together.                                         *)
LEMMA LspInvFrom ==
    ASSUME LspInv, NEW c \in Clients, NEW r, NEW s, Holds(c, r, s),
           client' = [client EXCEPT ![c] = r], server' = s,
           current' \in Clients \union {0}, current <= current', c <= current', starting' \in {0, current'},
           CallsKept'
    PROVE  LspInv'
  BY ClientStep DEF LspInv, LspTypeOK, CallsKept

(* Requests of a client are rejected.                                           *)
LEMMA RejectStep ==
    ASSUME LspInv, NEW c \in 1..current, NEW r, NEW s, NEW qs, Holds(c, r, s), Reject(c, r, qs, s)
    PROVE  LspInv'
<1>1. current \in Clients /\ c \in Clients /\ c <= current /\ current' = current /\ current <= current'
  BY LspAssumption DEF LspInv, LspTypeOK, Clients, Reject
<1>2. starting' \in {0, current'}
  BY DEF Reject, LspInv, LspTypeOK
<1>3. CallsKept'
  BY <1>1, CallsEnd DEF Reject, CallsFail
<1>4. Holds(c, Rejecting(r, qs), ProcsAfter(r, s, qs))
  BY <1>1, KeptByRejecting
<1> QED
  BY <1>1, <1>2, <1>3, <1>4, LspInvFrom DEF Reject


-----------------------------------------------------------------------------
(* What is under way is at a client that exists.                                *)
LEMMA AtClient ==
    ASSUME LspInv, NEW k \in Queries, call[k].pc \in UnderWay
    PROVE  /\ call[k].client \in Clients /\ call[k].client \in 1..current
           /\ current \in Clients /\ current <= current /\ call[k].client <= current
<1>1. call[k].client \in 1..current /\ current \in Clients \union {0} /\ MaxClients \in Nat
  BY LspAssumption DEF LspInv, LspTypeOK, CallsPlaced
<1> QED
  BY <1>1 DEF Clients

(* getClient.                                                              *)
LEMMA GetClientStep ==
    ASSUME LspInv, NEW k \in Queries, UseClient(k) \/ JoinStart(k) \/ CreateClient(k) \/ SpawnFails(k)
    PROVE  LspInv'
<1>1. /\ current \in Clients \union {0} /\ starting \in {0, current} /\ current \in Nat /\ MaxClients \in Nat
      /\ client \in [Clients -> ClientRecords] /\ server \in [Servers -> ServerRecords]
  BY LspAssumption DEF LspInv, LspTypeOK, Clients
<1>2. ASSUME UseClient(k) \/ JoinStart(k)
      PROVE  LspInv'
  <2>1. current \in Clients /\ current' = current /\ starting' = starting /\ client' = client /\ server' = server
    BY <1>1, <1>2 DEF UseClient, JoinStart
  <2>2. Goes(k, "entering", current) \/ Goes(k, "starting", current)
    BY <1>1, <1>2 DEF UseClient, JoinStart
  <2>3. CallsKept'
    BY <1>1, <2>1, <2>2, CallGoes
  <2>4. client' = [client EXCEPT ![current] = client[current]]
    BY <1>1, <2>1
  <2>5. Holds(current, client[current], server) /\ current <= current' /\ starting' \in {0, current'}
    BY <1>1, <2>1, KeptAtFirst
  <2> QED
    BY <2>1, <2>3, <2>4, <2>5, LspInvFrom
<1>3. ASSUME NeedsClient(k)
      PROVE  /\ current + 1 \in Clients /\ current <= current + 1 /\ current + 1 <= current + 1
             /\ client[current + 1] = NewClient /\ current + 1 > current
  <2>1. current + 1 \in Clients
    BY <1>1, <1>3 DEF NeedsClient, Clients
  <2> QED
    BY <1>1, <2>1 DEF LspInv, ClientsFit
<1>4. CASE CreateClient(k)
  <2> DEFINE c == current + 1
             started == Started(c, client[c], FALSE)
  <2>1. /\ NeedsClient(k) /\ Unused # {}
        /\ client' = [client EXCEPT ![c] = started[1]] /\ server' = started[2]
        /\ current' = c /\ starting' = c /\ Goes(k, "starting", c)
    BY <1>4 DEF CreateClient
  <2>2. /\ c \in Clients /\ current <= c /\ c <= c /\ client[c].opened = {} /\ Holds(c, client[c], server)
    BY <1>3, <2>1, KeptAtFirst DEF NewClient
  <2> HIDE DEF c
  <2>3. Holds(c, started[1], started[2])
    BY <2>1, <2>2, KeptByStart
  <2>4. CallsKept'
    BY <2>1, <2>2, CallGoes
  <2> HIDE DEF started
  <2> QED
    BY <2>1, <2>2, <2>3, <2>4, LspInvFrom
<1>5. CASE SpawnFails(k)
  <2> DEFINE c == current + 1
  <2>1. /\ NeedsClient(k) /\ client' = client /\ server' = server /\ starting' = starting /\ starting = 0
        /\ current' = c /\ Goes(k, "failed", c)
    BY <1>5 DEF SpawnFails, NeedsClient
  <2>2. c \in Clients /\ current <= c /\ c <= c /\ Holds(c, client[c], server)
    BY <1>3, <2>1, KeptAtFirst
  <2> HIDE DEF c
  <2>3. CallsKept'
    BY <2>1, <2>2, CallGoes
  <2>4. client' = [client EXCEPT ![c] = client[c]]
    BY <1>1, <2>1
  <2> QED
    BY <2>1, <2>2, <2>3, <2>4, LspInvFrom
<1> QED
  BY <1>2, <1>4, <1>5

(* A call goes on behind openDocument: what it asks is of a document the process   *)
(* has been told of.                                                          *)
LEMMA ProceedStep ==
    ASSUME LspInv, NEW k \in Queries, call[k].pc \in UnderWay, NEW r, NEW s, Holds(call[k].client, r, s),
           r.restarts = 0 /\ Running(r, s) => Document[k] \in s[r.proc].known,
           Proceed(k, r, s), UNCHANGED <<current, starting>>
    PROVE  LspInv'
<1> DEFINE c == call[k].client
           waits == [r EXCEPT !.waiters = @ \union {k}]
           asked == Asking(r, s, "query", k)
<1>1. /\ c \in Clients /\ current \in Clients /\ c <= current /\ current <= current /\ current' = current
      /\ starting' \in {0, current'}
  BY AtClient DEF LspInv, LspTypeOK
<1>2. Holds(c, r, s) /\ r \in ClientRecords /\ r.restarts \in Nat /\ (r.timer => r.restarts > 0)
  BY LspAssumption DEF Holds, Fits, ClientRecords
<1>3. Holds(c, waits, s)
  <2>1. /\ waits \in ClientRecords /\ waits.proc = r.proc /\ waits.nextId = r.nextId /\ waits.pending = r.pending
        /\ waits.timer = r.timer /\ waits.restarts = r.restarts /\ waits.killed = r.killed /\ waits.opened = r.opened
    BY <1>2 DEF ClientRecords
  <2> HIDE DEF waits, c
  <2> QED
    BY <1>1, <1>2, <2>1, KeptByClient
<1>4. Holds(c, asked[1], asked[2])
  <2> HIDE DEF c
  <2> QED
    BY <1>1, <1>2, KeptByAsking
<1>5. \E pc \in {"done", "waiting", "asked", "failed"} : Goes(k, pc, c)
  BY DEF Proceed
<1>6. \/ client' = [client EXCEPT ![c] = r] /\ server' = s
      \/ client' = [client EXCEPT ![c] = waits] /\ server' = s
      \/ client' = [client EXCEPT ![c] = asked[1]] /\ server' = asked[2]
  BY DEF Proceed
<1> HIDE DEF c, waits, asked
<1>7. CallsKept'
  BY <1>1, <1>5, CallGoes
<1> QED
  BY <1>1, <1>2, <1>3, <1>4, <1>6, <1>7, LspInvFrom

LEMMA OpenStep ==
    ASSUME LspInv, NEW k \in Queries, OpenDocument(k) \/ FileRead(k)
    PROVE  LspInv'
<1> DEFINE c == call[k].client
           d == Document[k]
           r == client[c]
<1>1. call[k].pc \in UnderWay /\ UNCHANGED <<current, starting>>
  BY DEF OpenDocument, FileRead, UnderWay
<1>2. /\ c \in Clients /\ current \in Clients /\ c <= current /\ current <= current
      /\ client \in [Clients -> ClientRecords] /\ server \in [Servers -> ServerRecords] /\ d \in Docs
      /\ current' = current /\ starting' \in {0, current'}
  BY <1>1, AtClient DEF LspInv, LspTypeOK, Docs
<1>3. Holds(c, r, server)
  BY <1>2, KeptAtFirst
<1>4. ASSUME OpenDocument(k), d \in r.opened
      PROVE  LspInv'
  <2>1. r.restarts = 0 /\ Running(r, server) => d \in server[r.proc].known
    BY <1>3, <1>4 DEF Holds, Fits
  <2> QED
    BY <1>1, <1>3, <1>4, <2>1, ProceedStep DEF OpenDocument
<1>5. ASSUME OpenDocument(k), d \notin r.opened
      PROVE  LspInv'
  <2>1. client' = [client EXCEPT ![c] = r] /\ server' = server /\ Goes(k, "reading", c)
    BY <1>5 DEF OpenDocument, MarkedOpen
  <2> HIDE DEF c, r
  <2>2. CallsKept'
    BY <1>2, <2>1, CallGoes
  <2> QED
    BY <1>2, <1>3, <2>1, <2>2, LspInvFrom
<1>6. CASE FileRead(k)
  <2> DEFINE s == IF Running(r, server) THEN [server EXCEPT ![r.proc].known = @ \union {d}] ELSE server
             r2 == [r EXCEPT !.opened = @ \union {d}]
  <2>1. r \in ClientRecords /\ (r.proc # 0 => r.proc \in Servers)
    BY <1>2 DEF ClientRecords
  <2>2. /\ s \in [Servers -> ServerRecords]
        /\ \A p \in Servers :
              \/ s[p] = server[p]
              \/ /\ Running(r, server) /\ p = r.proc
                 /\ s[p].life = "running" /\ s[p].owner = server[p].owner /\ s[p].requests = server[p].requests
                 /\ s[p].known = server[p].known \union {d}
        /\ Running(r, server) => s[r.proc].known = server[r.proc].known \union {d} /\ s[r.proc].life = "running"
    <3>1. CASE Running(r, server)
      <4>1. r.proc \in Servers /\ server[r.proc].life = "running" /\ s = [server EXCEPT ![r.proc].known = @ \union {d}]
        BY <2>1, <3>1 DEF Running
      <4> QED
        BY <1>2, <4>1 DEF ServerRecords
    <3>2. CASE ~Running(r, server)
      BY <1>2, <3>2
    <3> QED
      BY <3>1, <3>2
  <2>3. r.proc # 0 => server[r.proc].life # "unused" /\ server[r.proc].owner = c
    BY <1>3 DEF Holds, Fits
  <2>4. \A p \in Servers :
            \/ s[p] = server[p]
            \/ /\ server[p].life # "unused" /\ server[p].owner = c /\ s[p].life # "unused" /\ s[p].owner = c
               /\ server[p].life = "running" /\ server[p].known \subseteq s[p].known
               /\ s[p].requests \subseteq server[p].requests
    BY <2>2, <2>3 DEF Running
  <2>5. Running(r, s) = Running(r, server)
    BY <2>1, <2>2 DEF Running
  <2>6. FileRead(k) => Proceed(k, r2, s)
    BY DEF FileRead
  <2> HIDE DEF c, s
  <2>7. Holds(c, r, s)
    BY <1>2, <1>3, <2>2, <2>4, KeptByServer
  <2>8. /\ r2 \in ClientRecords /\ r2.proc = r.proc /\ r2.nextId = r.nextId /\ r2.pending = r.pending
        /\ r2.timer = r.timer /\ r2.restarts = r.restarts /\ r2.killed = r.killed /\ r2.opened = r.opened \union {d}
    BY <1>2, <2>1 DEF ClientRecords
  <2> HIDE DEF r2, r, d
  <2>9. Running(r2, s) = Running(r, server)
    BY <2>5, <2>8 DEF Running
  <2>10. Holds(c, r2, s)
    <3>1. Fits(c, r2, s)
      BY <2>2, <2>7, <2>8, <2>9, <2>5 DEF Holds, Fits, Numbered
    <3> QED
      BY <2>7, <2>8, <3>1 DEF Holds
  <2>11. r2.restarts = 0 /\ Running(r2, s) => d \in s[r2.proc].known
    BY <2>2, <2>8, <2>9
  <2> QED
    BY <1>1, <1>6, <2>6, <2>10, <2>11, ProceedStep DEF c, d
<1> QED
  BY <1>4, <1>5, <1>6

(* A waiter gives up.                                                        *)
LEMMA WaitStep ==
    ASSUME LspInv, NEW k \in Queries, WaitTimesOut(k)
    PROVE  LspInv'
<1> DEFINE c == call[k].client
           r == client[c]
           r2 == [r EXCEPT !.waiters = {w \in @ : Document[w] # Document[k]}]
<1>1. /\ call[k].pc \in UnderWay /\ UNCHANGED <<server, current, starting>> /\ Goes(k, "done", c)
      /\ client' = [client EXCEPT ![c].waiters = {w \in @ : Document[w] # Document[k]}]
  BY DEF WaitTimesOut, UnderWay
<1>2. /\ c \in Clients /\ current \in Clients /\ c <= current /\ current <= current
      /\ client \in [Clients -> ClientRecords] /\ current' = current /\ starting' \in {0, current'}
  BY <1>1, AtClient DEF LspInv, LspTypeOK
<1>3. Holds(c, r, server) /\ r \in ClientRecords /\ r.restarts \in Nat /\ (r.timer => r.restarts > 0)
  BY <1>2, KeptAtFirst, LspAssumption DEF Holds, Fits, ClientRecords
<1>4. client' = [client EXCEPT ![c] = r2]
  BY <1>1, <1>2
<1>5. /\ r2 \in ClientRecords /\ r2.proc = r.proc /\ r2.nextId = r.nextId /\ r2.pending = r.pending
      /\ r2.timer = r.timer /\ r2.restarts = r.restarts /\ r2.killed = r.killed /\ r2.opened = r.opened
  BY <1>3 DEF ClientRecords
<1> HIDE DEF c, r, r2
<1>6. Holds(c, r2, server)
  BY <1>2, <1>3, <1>5, KeptByClient
<1>7. CallsKept'
  BY <1>1, <1>2, CallGoes
<1> QED
  BY <1>1, <1>2, <1>4, <1>6, <1>7, LspInvFrom


-----------------------------------------------------------------------------
(* A process that was spawned belongs to a client that exists.                   *)
LEMMA AtOwner ==
    ASSUME LspInv, NEW p \in Servers, server[p].life # "unused"
    PROVE  /\ server[p].owner \in Clients /\ server[p].owner \in 1..current
           /\ current \in Clients /\ current <= current /\ server[p].owner <= current
           /\ Holds(server[p].owner, client[server[p].owner], server)
<1>1. server[p].owner \in 1..current /\ current \in Clients \union {0} /\ MaxClients \in Nat
  BY LspAssumption DEF LspInv, LspTypeOK, ServersOwned
<1>2. server[p].owner \in Clients /\ current \in Clients /\ current <= current /\ server[p].owner <= current
  BY <1>1 DEF Clients
<1>3. Holds(server[p].owner, client[server[p].owner], server)
  BY <1>2, KeptAtFirst
<1> QED
  BY <1>1, <1>2, <1>3

(* What the message handlers leave behind for the rest of the client.            *)
LEMMA BadFrameStep ==
    ASSUME LspInv, NEW c \in 1..current, NEW r, NEW s, Holds(c, r, s), FrameError(c, r, s)
    PROVE  LspInv'
<1>1. c \in Clients
  BY LspAssumption DEF LspInv, LspTypeOK, Clients
<1>2. Holds(c, [Killed(r) EXCEPT !.state = "DEGRADED"], AfterKill(r, s))
  BY <1>1, KeptByKill DEF LspState
<1> QED
  BY <1>2, RejectStep DEF FrameError

(* An answer resolves the request of its number, which is its own.               *)
LEMMA ResolveStep ==
    ASSUME LspInv, NEW c \in 1..current, NEW s, Holds(c, client[c], s),
           NEW q, NEW e \in client[c].pending, e = q, Resolve(c, client[c], q, e, s)
    PROVE  LspInv'
<1> DEFINE r == client[c]
           left == [r EXCEPT !.pending = @ \ {e}]
           ready == [r EXCEPT !.pending = @ \ {e}, !.state = "READY"]
           stopped == [r EXCEPT !.pending = @ \ {e}, !.state = "STOPPED"]
<1>1. /\ current \in Clients /\ c \in Clients /\ c <= current /\ current <= current
      /\ call \in [Queries -> CallRecords]
  BY LspAssumption DEF LspInv, LspTypeOK, Clients
<1>2. r \in ClientRecords /\ r.restarts \in Nat /\ (r.timer => r.restarts > 0) /\ Numbered(r, r.pending)
  BY LspAssumption DEF Holds, Fits, ClientRecords
<1>3. ASSUME NEW r2 \in {left, ready, stopped}
      PROVE  Holds(c, r2, s)
  <2>1. /\ r2 \in ClientRecords /\ r2.proc = r.proc /\ r2.nextId = r.nextId /\ r2.pending \subseteq r.pending
        /\ r2.timer = r.timer /\ r2.restarts = r.restarts /\ r2.killed = r.killed /\ r2.opened = r.opened
    <3>1. CASE r2 = left
      BY <1>2, <3>1 DEF ClientRecords
    <3>2. CASE r2 = ready
      BY <1>2, <3>2 DEF ClientRecords, LspState
    <3>3. CASE r2 = stopped
      BY <1>2, <3>3 DEF ClientRecords, LspState
    <3> QED
      BY <1>3, <3>1, <3>2, <3>3
  <2> HIDE DEF left, ready, stopped, r
  <2> QED
    BY <1>1, <1>2, <2>1, KeptByClient DEF r
<1>4. PICK r2 \in {left, ready, stopped} : client' = [client EXCEPT ![c] = r2]
  BY DEF Resolve
<1>5. server' = s /\ current' = current /\ starting' \in {0, current'}
  BY DEF Resolve, LspInv, LspTypeOK
<1>6. CallsKept'
  <2>1. \A k \in Queries :
            \/ e.kind = "query" /\ e.who = k /\ call'[k] = [call[k] EXCEPT !.pc = "done", !.got = {q.who}]
            \/ call[k].pc = "starting" /\ call'[k] = [call[k] EXCEPT !.pc = "entering"]
            \/ call'[k] = call[k]
    BY DEF Resolve, Starters
  <2>2. \A k \in Queries :
            /\ call'[k] \in CallRecords
            /\ call'[k].pc \in UnderWay => call[k].pc \in UnderWay /\ call'[k].client = call[k].client
            /\ call'[k].got \subseteq {k}
    <3> SUFFICES ASSUME NEW k \in Queries
                 PROVE  /\ call'[k] \in CallRecords
                        /\ call'[k].pc \in UnderWay => call[k].pc \in UnderWay /\ call'[k].client = call[k].client
                        /\ call'[k].got \subseteq {k}
      OBVIOUS
    <3>1. call[k] \in CallRecords /\ call[k].got \subseteq {k}
      BY <1>1 DEF LspInv, AnswersAreOwn
    <3>2. CASE e.who = k /\ call'[k] = [call[k] EXCEPT !.pc = "done", !.got = {q.who}]
      <4>1. call'[k].got = {k} /\ call'[k].pc = "done" /\ {k} \in SUBSET (Queries \union {0})
        BY <3>1, <3>2 DEF CallRecords
      <4>2. call'[k] = [pc |-> "done", client |-> call[k].client, got |-> {k}]
        BY <3>1, <3>2 DEF CallRecords
      <4>3. call'[k] \in CallRecords
        BY <3>1, <4>1, <4>2 DEF CallRecords
      <4> QED
        BY <4>1, <4>3 DEF UnderWay
    <3>3. CASE call[k].pc = "starting" /\ call'[k] = [call[k] EXCEPT !.pc = "entering"]
      BY <3>1, <3>3 DEF CallRecords, UnderWay
    <3> QED
      BY <2>1, <3>1, <3>2, <3>3
  <2>3. call' = [k \in Queries |-> call'[k]]
    BY DEF Resolve
  <2>4. call' \in [Queries -> CallRecords]
    BY <2>2, <2>3
  <2> QED
    BY <1>5, <2>2, <2>4 DEF CallsKept, CallsPlaced, AnswersAreOwn, LspInv
<1> HIDE DEF left, ready, stopped
<1> QED
  BY <1>1, <1>3, <1>4, <1>5, <1>6, LspInvFrom

LEMMA AnswerStep ==
    ASSUME LspInv, NEW p \in Servers, NEW q \in server[p].requests, NEW ok \in BOOLEAN, Answer(p, q, ok)
    PROVE  LspInv'
<1> DEFINE c == server[p].owner
           r == client[c]
           s == [server EXCEPT ![p].requests = @ \ {q}]
<1>1. server[p].life # "unused"
  BY DEF LspInv, ServersOwned
<1>2. /\ c \in Clients /\ c \in 1..current /\ current \in Clients /\ current <= current /\ c <= current
      /\ Holds(c, r, server)
  BY <1>1, AtOwner
<1>3. client \in [Clients -> ClientRecords] /\ server \in [Servers -> ServerRecords] /\ starting \in {0, current}
  BY DEF LspInv, LspTypeOK
<1>4. /\ s \in [Servers -> ServerRecords]
      /\ \A x \in Servers :
            \/ s[x] = server[x]
            \/ /\ server[x].life # "unused" /\ server[x].owner = c /\ s[x].life # "unused" /\ s[x].owner = c
               /\ s[x].life = "running" => server[x].life = "running" /\ server[x].known \subseteq s[x].known
               /\ s[x].requests \subseteq server[x].requests
               /\ server[x].known \subseteq s[x].known
  BY <1>1, <1>3 DEF ServerRecords
<1>5. \A e \in r.pending : e.id = q.id => e = q
  BY <1>1, <1>2 DEF Holds, Fits
<1>6. \/ FrameError(c, r, s)
      \/ \E rest \in BOOLEAN : client' = [client EXCEPT ![c].residue = rest] /\ server' = s /\ UNCHANGED <<current, starting, call>>
      \/ server' = s /\ UNCHANGED <<client, current, starting, call>>
      \/ \E e \in {x \in r.pending : x.id = q.id} : Resolve(c, r, q, e, s) \/ Reject(c, r, {e}, s)
  BY DEF Answer
<1> HIDE DEF s
<1>7. Holds(c, r, s)
  BY <1>2, <1>4, KeptByServer
<1>8. ASSUME UNCHANGED <<current, starting, call>>
      PROVE  CallsKept' /\ current' \in Clients \union {0} /\ current <= current' /\ c <= current' /\ starting' \in {0, current'}
  BY <1>2, <1>3, <1>8, CallsStay
<1>9. ASSUME NEW rest \in BOOLEAN, client' = [client EXCEPT ![c].residue = rest], server' = s,
             UNCHANGED <<current, starting, call>>
      PROVE  LspInv'
  <2> DEFINE r2 == [r EXCEPT !.residue = rest]
  <2>1. client' = [client EXCEPT ![c] = r2]
    BY <1>2, <1>3, <1>9
  <2>2. r \in ClientRecords /\ r.restarts \in Nat /\ (r.timer => r.restarts > 0)
    BY <1>2, LspAssumption DEF Holds, Fits, ClientRecords
  <2>3. /\ r2 \in ClientRecords /\ r2.proc = r.proc /\ r2.nextId = r.nextId /\ r2.pending = r.pending
        /\ r2.timer = r.timer /\ r2.restarts = r.restarts /\ r2.killed = r.killed /\ r2.opened = r.opened
    BY <2>2 DEF ClientRecords
  <2> HIDE DEF c, r, r2
  <2>4. Holds(c, r2, s)
    BY <1>2, <1>7, <2>2, <2>3, KeptByClient
  <2> QED
    BY <1>2, <1>8, <1>9, <2>1, <2>4, LspInvFrom
<1>10. ASSUME server' = s, UNCHANGED <<client, current, starting, call>>
       PROVE  LspInv'
  <2>1. client' = [client EXCEPT ![c] = r]
    BY <1>2, <1>3, <1>10
  <2> HIDE DEF c, r
  <2> QED
    BY <1>2, <1>7, <1>8, <1>10, <2>1, LspInvFrom
<1>11. ASSUME NEW e \in r.pending, e.id = q.id, Resolve(c, r, q, e, s)
       PROVE  LspInv'
  BY <1>2, <1>5, <1>7, <1>11, ResolveStep
<1>12. ASSUME NEW e \in r.pending, Reject(c, r, {e}, s)
       PROVE  LspInv'
  BY <1>2, <1>7, <1>12, RejectStep
<1> QED
  BY <1>2, <1>6, <1>7, <1>9, <1>10, <1>11, <1>12, BadFrameStep


(* Diagnostics are published, or the process ends.                              *)
LEMMA ProcessStep ==
    ASSUME LspInv, NEW p \in Servers,
           (\E d \in Docs : PublishDiagnostics(p, d)) \/ BadFrame(p) \/ Exit(p)
    PROVE  LspInv'
<1> DEFINE c == server[p].owner
           r == client[c]
<1>1. server[p].life # "unused"
  BY DEF PublishDiagnostics, BadFrame, Exit, Speaking
<1>2. /\ c \in Clients /\ c \in 1..current /\ current \in Clients /\ current <= current /\ c <= current
      /\ Holds(c, r, server)
  BY <1>1, AtOwner
<1>3. client \in [Clients -> ClientRecords] /\ server \in [Servers -> ServerRecords] /\ starting \in {0, current}
  BY DEF LspInv, LspTypeOK
<1>4. r \in ClientRecords /\ r.restarts \in Nat /\ (r.timer => r.restarts > 0)
  BY <1>2, LspAssumption DEF Holds, Fits, ClientRecords
<1>5. ASSUME NEW d \in Docs, PublishDiagnostics(p, d)
      PROVE  LspInv'
  <2> DEFINE told == {k \in r.waiters : Document[k] = d}
             r2 == [r EXCEPT !.pushed = @ \union {d}, !.waiters = @ \ told]
  <2>1. client' = [client EXCEPT ![c] = r2] /\ server' = server /\ current' = current /\ starting' = starting
    BY <1>2, <1>3, <1>5 DEF PublishDiagnostics
  <2>2. CallsKept'
    BY <1>5, CallsEnd DEF PublishDiagnostics
  <2>3. /\ r2 \in ClientRecords /\ r2.proc = r.proc /\ r2.nextId = r.nextId /\ r2.pending = r.pending
        /\ r2.timer = r.timer /\ r2.restarts = r.restarts /\ r2.killed = r.killed /\ r2.opened = r.opened
    BY <1>4, <1>5 DEF ClientRecords
  <2> HIDE DEF c, r, r2
  <2>4. Holds(c, r2, server)
    BY <1>2, <1>4, <2>3, KeptByClient
  <2> QED
    BY <1>2, <1>3, <2>1, <2>2, <2>4, LspInvFrom
<1>6. CASE BadFrame(p)
  BY <1>2, <1>6, BadFrameStep DEF BadFrame
<1>7. CASE Exit(p)
  <2> DEFINE s == [server EXCEPT ![p].life = "exited"]
  <2>1. PICK cut \in BOOLEAN : client' = [client EXCEPT ![c].residue = @ \/ cut]
    BY <1>7 DEF Exit
  <2> DEFINE r2 == [r EXCEPT !.residue = @ \/ cut]
  <2>2. /\ client' = [client EXCEPT ![c] = r2] /\ server' = s
        /\ UNCHANGED <<current, starting, call>> /\ server[p].life = "running"
    BY <1>2, <1>3, <1>7, <2>1 DEF Exit
  <2>3. /\ s \in [Servers -> ServerRecords]
        /\ \A x \in Servers :
              \/ s[x] = server[x]
              \/ /\ server[x].life # "unused" /\ server[x].owner = c /\ s[x].life # "unused" /\ s[x].owner = c
                 /\ s[x].life # "running" /\ s[x].requests \subseteq server[x].requests
                 /\ server[x].known \subseteq s[x].known
    BY <1>1, <1>3 DEF ServerRecords
  <2>4. r.residue \/ cut \in BOOLEAN
    OBVIOUS
  <2>5. /\ r2 \in ClientRecords /\ r2.proc = r.proc /\ r2.nextId = r.nextId /\ r2.pending = r.pending
        /\ r2.timer = r.timer /\ r2.restarts = r.restarts /\ r2.killed = r.killed /\ r2.opened = r.opened
    BY <1>4, <2>4 DEF ClientRecords
  <2> HIDE DEF c, r, r2, s
  <2>6. Holds(c, r, s)
    BY <1>2, <2>3, KeptByServer
  <2>7. Holds(c, r2, s)
    BY <1>2, <1>4, <2>5, <2>6, KeptByClient
  <2>8. CallsKept'
    BY <1>2, <2>2, CallsStay
  <2> QED
    BY <1>2, <1>3, <2>2, <2>7, <2>8, LspInvFrom
<1> QED
  BY <1>5, <1>6, <1>7

LEMMA KeptByClose ==
    ASSUME NEW c \in Clients, NEW r, NEW s, Holds(c, r, s)
    PROVE  Holds(c, AfterClose(r), s)
<1>1. /\ r \in ClientRecords /\ r.restarts \in 0..MaxRestarts /\ (r.timer => r.restarts > 0)
      /\ MaxRestarts \in Nat /\ r.restarts \in Nat
  BY LspAssumption DEF Holds, Fits, ClientRecords
<1> DEFINE again == [r EXCEPT !.state = "RESTARTING", !.restarts = @ + 1, !.timer = TRUE]
<1>2. ASSUME NEW state \in LspState
      PROVE  Holds(c, [r EXCEPT !.state = state], s)
  <2> DEFINE r2 == [r EXCEPT !.state = state]
  <2>1. /\ r2 \in ClientRecords /\ r2.proc = r.proc /\ r2.nextId = r.nextId /\ r2.pending = r.pending
        /\ r2.timer = r.timer /\ r2.restarts = r.restarts /\ r2.killed = r.killed /\ r2.opened = r.opened
    BY <1>1 DEF ClientRecords
  <2> HIDE DEF r2
  <2>2. Holds(c, r2, s)
    BY <1>1, <2>1, KeptByClient
  <2> QED
    BY <2>2 DEF r2
<1>3. ASSUME r.restarts < MaxRestarts
      PROVE  Holds(c, again, s)
  <2>1. r.restarts + 1 \in 0..MaxRestarts
    BY <1>1, <1>3
  <2>2. /\ again \in ClientRecords /\ again.proc = r.proc /\ again.nextId = r.nextId /\ again.pending = r.pending
        /\ again.restarts = r.restarts + 1
    BY <1>1, <2>1 DEF ClientRecords, LspState
  <2>3. again.restarts > 0 /\ again.restarts >= r.restarts
    BY <1>1, <2>2
  <2> HIDE DEF again
  <2> QED
    BY <1>1, <2>2, <2>3, KeptByClient
<1>4. \/ AfterClose(r) = again /\ r.restarts < MaxRestarts
      \/ \E state \in LspState : AfterClose(r) = [r EXCEPT !.state = state]
  BY DEF AfterClose, LspState
<1> QED
  BY <1>2, <1>3, <1>4

(* The pipes of a process are closed.                                          *)
LEMMA CloseStep ==
    ASSUME LspInv, NEW p \in Servers, Close(p)
    PROVE  LspInv'
<1> DEFINE c == server[p].owner
           r == client[c]
           s == [server EXCEPT ![p].life = "closed", ![p].known = {}, ![p].requests = {}]
<1>1. server[p].life # "unused"
  BY DEF Close
<1>2. c \in Clients /\ c \in 1..current /\ Holds(c, r, server)
  BY <1>1, AtOwner
<1>3. server \in [Servers -> ServerRecords]
  BY DEF LspInv, LspTypeOK
<1>4. /\ s \in [Servers -> ServerRecords]
      /\ \A x \in Servers :
            \/ s[x] = server[x]
            \/ /\ server[x].life # "unused" /\ server[x].owner = c /\ s[x].life # "unused" /\ s[x].owner = c
               /\ s[x].life # "running" /\ s[x].requests = {}
  <2>1. /\ s[p].life = "closed" /\ s[p].owner = server[p].owner /\ s[p].known = {} /\ s[p].requests = {}
        /\ s[p] \in ServerRecords
    BY <1>3 DEF ServerRecords
  <2>2. \A x \in Servers : x # p => s[x] = server[x]
    BY <1>3
  <2>3. s = [x \in Servers |-> s[x]]
    BY <1>3
  <2> HIDE DEF s
  <2> QED
    BY <1>1, <1>3, <2>1, <2>2, <2>3
<1>5. Reject(c, AfterClose(r), r.pending, s)
  BY DEF Close
<1> HIDE DEF c, r, s
<1>6. Holds(c, r, s)
  BY <1>2, <1>4, KeptByServer
<1>7. Holds(c, AfterClose(r), s)
  BY <1>2, <1>6, KeptByClose
<1> QED
  BY <1>2, <1>5, <1>7, RejectStep

-----------------------------------------------------------------------------
(* A client that does anything exists.                                         *)
LEMMA Existing ==
    ASSUME LspInv, NEW c \in Clients, client[c] # NewClient
    PROVE  /\ c \in 1..current /\ current \in Clients /\ current <= current /\ c <= current
           /\ Holds(c, client[c], server)
<1>1. c \in 1..current /\ current \in Clients /\ current \in Nat
  BY LspAssumption DEF LspInv, LspTypeOK, ClientsFit, Clients
<1>2. Holds(c, client[c], server)
  BY KeptAtFirst
<1> QED
  BY <1>1, <1>2

(* The timers of a client.                                                    *)
LEMMA TimerStep ==
    ASSUME LspInv, NEW c \in Clients,
           (\E q \in client[c].pending : RequestTimesOut(c, q)) \/ Restart(c) \/ IdleShutdown(c)
    PROVE  LspInv'
<1> DEFINE r == client[c]
<1>1. r # NewClient
  <2>1. NewClient.pending = {} /\ NewClient.timer = FALSE /\ NewClient.state = "STOPPED"
    BY DEF NewClient
  <2>2. r.pending # {} \/ r.timer \/ r.state = "READY"
    BY DEF Restart, IdleShutdown
  <2> HIDE DEF r
  <2> QED
    BY <2>1, <2>2
<1>2. /\ c \in 1..current /\ current \in Clients /\ current <= current /\ c <= current
      /\ Holds(c, r, server)
  BY <1>1, Existing
<1>3. r \in ClientRecords /\ r.restarts \in Nat /\ (r.timer => r.restarts > 0)
  BY <1>2, LspAssumption DEF Holds, Fits, ClientRecords
<1>4. ASSUME UNCHANGED <<current, starting, call>>
      PROVE  /\ CallsKept' /\ current' \in Clients \union {0} /\ current <= current' /\ c <= current'
             /\ starting' \in {0, current'}
  BY <1>2, <1>4, CallsStay DEF LspInv, LspTypeOK
<1>5. ASSUME NEW q \in r.pending, RequestTimesOut(c, q)
      PROVE  LspInv'
  BY <1>2, <1>5, RejectStep DEF RequestTimesOut
<1>6. CASE Restart(c)
  <2> DEFINE r2 == [r EXCEPT !.timer = FALSE]
             r3 == [r2 EXCEPT !.state = "DEGRADED", !.killed = FALSE]
             started == Started(c, r2, TRUE)
  <2>1. /\ r2 \in ClientRecords /\ r2.proc = r.proc /\ r2.nextId = r.nextId /\ r2.pending = r.pending
        /\ r2.timer = FALSE /\ r2.restarts = r.restarts /\ r2.killed = r.killed /\ r2.opened = r.opened
    BY <1>3 DEF ClientRecords
  <2>2. r.restarts > 0 /\ UNCHANGED <<current, starting, call>>
    BY <1>3, <1>6 DEF Restart
  <2>3. \/ Unused # {} /\ client' = [client EXCEPT ![c] = started[1]] /\ server' = started[2]
        \/ client' = [client EXCEPT ![c] = r3] /\ server' = server
    BY <1>6 DEF Restart
  <2> HIDE DEF r, r2
  <2>4. /\ r3 \in ClientRecords /\ r3.proc = r.proc /\ r3.nextId = r.nextId /\ r3.pending = r.pending
        /\ r3.timer = FALSE /\ r3.restarts = r.restarts
    BY <2>1 DEF ClientRecords, LspState
  <2> HIDE DEF r3
  <2>5. Holds(c, r2, server)
    BY <1>2, <1>3, <2>1, KeptByClient
  <2>6. Holds(c, r3, server)
    BY <1>2, <1>3, <2>2, <2>4, KeptByClient
  <2>7. ASSUME Unused # {}
        PROVE  Holds(c, started[1], started[2])
    <3>1. r2.restarts = 0 => r2.opened = {}
      BY <1>3, <2>1, <2>2
    <3> QED
      BY <2>5, <2>7, <3>1, KeptByStart
  <2> HIDE DEF started
  <2> QED
    BY <1>4, <2>2, <2>3, <2>6, <2>7, LspInvFrom
<1>7. CASE IdleShutdown(c)
  <2> DEFINE r2 == [r EXCEPT !.state = "STOPPING"]
             asked == Asking(r2, server, "stop", 0)
             r3 == [asked[1] EXCEPT !.state = "STOPPED"]
  <2>1. /\ r2 \in ClientRecords /\ r2.proc = r.proc /\ r2.nextId = r.nextId /\ r2.pending = r.pending
        /\ r2.timer = r.timer /\ r2.restarts = r.restarts /\ r2.killed = r.killed /\ r2.opened = r.opened
    BY <1>3 DEF ClientRecords, LspState
  <2>2. UNCHANGED <<current, starting, call>>
    BY <1>7 DEF IdleShutdown
  <2>3. /\ client' = [client EXCEPT ![c] = asked[1]] \/ client' = [client EXCEPT ![c] = r3]
        /\ server' = asked[2]
    BY <1>7 DEF IdleShutdown
  <2> HIDE DEF r, r2
  <2>4. Holds(c, r2, server)
    BY <1>2, <1>3, <2>1, KeptByClient
  <2>5. Holds(c, asked[1], asked[2])
    BY <2>4, KeptByAsking
  <2> HIDE DEF asked
  <2>6. asked[1] \in ClientRecords /\ asked[1].restarts \in Nat /\ (asked[1].timer => asked[1].restarts > 0)
    BY <2>5, LspAssumption DEF Holds, Fits, ClientRecords
  <2>7. /\ r3 \in ClientRecords /\ r3.proc = asked[1].proc /\ r3.nextId = asked[1].nextId /\ r3.pending = asked[1].pending
        /\ r3.timer = asked[1].timer /\ r3.restarts = asked[1].restarts /\ r3.killed = asked[1].killed
        /\ r3.opened = asked[1].opened
    BY <2>6 DEF ClientRecords, LspState
  <2> HIDE DEF r3
  <2>8. Holds(c, r3, asked[2])
    BY <2>5, <2>6, <2>7, KeptByClient
  <2> QED
    BY <1>4, <2>2, <2>3, <2>5, <2>8, LspInvFrom
<1> QED
  BY <1>5, <1>6, <1>7

LEMMA LspInvariant == LspSpec => []LspInv
<1>1. LspInit => LspInv
  <2> SUFFICES ASSUME LspInit
               PROVE  LspInv
    OBVIOUS
  <2>1. /\ client = [c \in Clients |-> NewClient] /\ server = [p \in Servers |-> NewServer]
        /\ current = 0 /\ starting = 0
        /\ \A k \in Queries : call[k].pc = "idle" /\ call[k].got = {}
    BY DEF LspInit
  <2>2. NewClient \in ClientRecords /\ NewServer \in ServerRecords
    BY LspAssumption DEF NewClient, NewServer, ClientRecords, ServerRecords, LspState
  <2>3. LspTypeOK
    BY <2>2 DEF LspInit, LspTypeOK, CallRecords
  <2>4. ServersOwned /\ CallsPlaced /\ AnswersAreOwn
    BY <2>1 DEF ServersOwned, CallsPlaced, AnswersAreOwn, NewServer, UnderWay
  <2>5. \A c \in Clients : Fits(c, NewClient, server)
    BY <2>1 DEF Fits, Numbered, Running, NewClient, NewServer
  <2> QED
    BY <2>1, <2>3, <2>4, <2>5 DEF LspInv, ClientsFit
<1>2. LspInv /\ [LspNext]_lspVars => LspInv'
  <2> SUFFICES ASSUME LspInv, [LspNext]_lspVars
               PROVE  LspInv'
    OBVIOUS
  <2>1. CASE UNCHANGED lspVars
    BY <2>1 DEF lspVars, LspInv, LspTypeOK, ServersOwned, ClientsFit, CallsPlaced, AnswersAreOwn
  <2>2. CASE LspNext
    BY <2>2, GetClientStep, OpenStep, WaitStep, AnswerStep, ProcessStep, CloseStep, TimerStep DEF LspNext
  <2> QED
    BY <2>1, <2>2
<1> QED
  BY <1>1, <1>2, PTL DEF LspSpec

(* The clients, their processes and the calls keep their types.                   *)
THEOREM LspTypes == LspSpec => []LspTypeOK
  BY LspInvariant, PTL DEF LspInv

(* A call is given the answer to its own request or none, for any calls, clients,  *)
(* processes and restarts, in whatever order answers, timers and exits come.     *)
THEOREM OwnAnswers == LspSpec => []AnswersAreOwn
  BY LspInvariant, PTL DEF LspInv

(* Until its client restarts, a process is asked about documents it was told of. *)
THEOREM OpenedFirst == LspSpec => []QueriesFollowOpen
<1>1. LspInv => QueriesFollowOpen
  <2> SUFFICES ASSUME LspInv, NEW p \in Servers, NEW q \in server[p].requests, q.kind = "query",
                      client[server[p].owner].restarts = 0
               PROVE  Document[q.who] \in server[p].known
    BY DEF QueriesFollowOpen
  <2>1. server[p].life # "unused"
    BY DEF LspInv, ServersOwned
  <2>2. server[p].owner \in Clients
    BY <2>1, AtOwner
  <2> QED
    BY <2>1, <2>2 DEF LspInv, ClientsFit, Fits
<1> QED
  BY <1>1, LspInvariant, PTL


(***************************************************************************)
(* The limiter of the MCP server.                                          *)
(***************************************************************************)
CallStates == {"none", "received", "queued", "granted", "running", "calling", "hung", "answered", "failed"}
HoldingStates == {"granted", "running", "calling", "hung"}
Queued == {k \in ToolCalls : toolCall[k] = "queued"}

(* A call waits at one place of the queue only. *)
McpInv ==
    /\ McpTypeOK
    /\ limiter \in [active : 0..MaxConcurrent, waiters : Seq(ToolCalls)]
    /\ \A i, j \in DOMAIN limiter.waiters : limiter.waiters[i] = limiter.waiters[j] => i = j
    /\ SlotsAreCounted

(* The queue, beside the calls that are queued. *)
QueueFits(waiters, queued) ==
    /\ waiters \in Seq(ToolCalls) /\ Len(waiters) <= MaxQueued
    /\ Range(waiters) = queued
    /\ \A i, j \in DOMAIN waiters : waiters[i] = waiters[j] => i = j

LEMMA QueueAtFirst ==
    ASSUME McpInv
    PROVE  QueueFits(limiter.waiters, Queued)
  BY DEF McpInv, McpTypeOK, QueueFits, Queued

(* Who is queued at the end, who takes a place of the queue and who leaves one.   *)
LEMMA QueueAppend ==
    ASSUME NEW w, NEW qs, QueueFits(w, qs), NEW k \in ToolCalls, k \notin qs, Len(w) < MaxQueued
    PROVE  QueueFits(Append(w, k), qs \union {k})
<1>1. /\ w \in Seq(ToolCalls) /\ Len(w) \in Nat /\ MaxQueued \in Nat
      /\ \A i \in 1..Len(w) : w[i] # k
  BY McpAssumption DEF QueueFits, Range
<1>2. /\ Append(w, k) \in Seq(ToolCalls) /\ Len(Append(w, k)) = Len(w) + 1
      /\ \A i \in 1..Len(w) : Append(w, k)[i] = w[i]
      /\ Append(w, k)[Len(w) + 1] = k
  BY <1>1
<1>3. Range(w) = {w[i] : i \in 1..Len(w)} /\ Range(Append(w, k)) = {Append(w, k)[i] : i \in 1..(Len(w) + 1)}
  BY <1>1, <1>2 DEF Range
<1>4. Range(Append(w, k)) = qs \union {k}
  <2>1. \A x \in Range(Append(w, k)) : x \in qs \union {k}
    BY <1>1, <1>2, <1>3 DEF QueueFits
  <2>2. \A x \in qs : x \in Range(Append(w, k))
    BY <1>1, <1>2, <1>3 DEF QueueFits
  <2>3. k \in Range(Append(w, k))
    BY <1>1, <1>2, <1>3
  <2> QED
    BY <2>1, <2>2, <2>3
<1>5. \A i, j \in DOMAIN Append(w, k) : Append(w, k)[i] = Append(w, k)[j] => i = j
  BY <1>1, <1>2 DEF QueueFits
<1> QED
  BY <1>1, <1>2, <1>4, <1>5 DEF QueueFits

LEMMA QueueTail ==
    ASSUME NEW w, NEW qs, QueueFits(w, qs), w # <<>>
    PROVE  Head(w) \in qs /\ QueueFits(Tail(w), qs \ {Head(w)})
<1>1. /\ w \in Seq(ToolCalls) /\ Len(w) \in Nat /\ Len(w) > 0 /\ MaxQueued \in Nat
      /\ Head(w) = w[1] /\ DOMAIN w = 1..Len(w)
  BY McpAssumption DEF QueueFits
<1>2. /\ Tail(w) \in Seq(ToolCalls) /\ Len(Tail(w)) = Len(w) - 1 /\ DOMAIN Tail(w) = 1..(Len(w) - 1)
      /\ \A i \in 1..(Len(w) - 1) : Tail(w)[i] = w[i + 1]
  BY <1>1
<1>3. qs = {w[i] : i \in 1..Len(w)} /\ Range(Tail(w)) = {Tail(w)[i] : i \in 1..(Len(w) - 1)}
  BY <1>1, <1>2 DEF Range, QueueFits
<1>4. \A i, j \in 1..Len(w) : w[i] = w[j] => i = j
  BY <1>1 DEF QueueFits
<1>5. Range(Tail(w)) = qs \ {Head(w)}
  <2>1. \A x \in Range(Tail(w)) : x \in qs /\ x # Head(w)
    <3> SUFFICES ASSUME NEW i \in 1..(Len(w) - 1)
                 PROVE  w[i + 1] \in qs /\ w[i + 1] # Head(w)
      BY <1>2, <1>3
    <3>1. i + 1 \in 1..Len(w) /\ 1 \in 1..Len(w) /\ i + 1 # 1
      BY <1>1
    <3> QED
      BY <1>1, <1>3, <1>4, <3>1
  <2>2. \A x \in qs : x # Head(w) => x \in Range(Tail(w))
    <3> SUFFICES ASSUME NEW i \in 1..Len(w), w[i] # Head(w)
                 PROVE  w[i] \in Range(Tail(w))
      BY <1>3
    <3>1. i - 1 \in 1..(Len(w) - 1) /\ (i - 1) + 1 = i
      BY <1>1
    <3>2. Tail(w)[i - 1] = w[i]
      BY <1>2, <3>1
    <3> QED
      BY <1>3, <3>1, <3>2
  <2> QED
    BY <2>1, <2>2
<1>6. \A i, j \in 1..(Len(w) - 1) : Tail(w)[i] = Tail(w)[j] => i = j
  <2> SUFFICES ASSUME NEW i \in 1..(Len(w) - 1), NEW j \in 1..(Len(w) - 1), w[i + 1] = w[j + 1]
               PROVE  i = j
    BY <1>2
  <2>1. i + 1 \in 1..Len(w) /\ j + 1 \in 1..Len(w)
    BY <1>1
  <2>2. i + 1 = j + 1
    BY <1>4, <2>1
  <2> QED
    BY <2>2
<1> QED
  BY <1>1, <1>2, <1>3, <1>5, <1>6 DEF QueueFits


LEMMA QueueOut ==
    ASSUME NEW w, NEW qs, QueueFits(w, qs), NEW at \in DOMAIN w
    PROVE  QueueFits(RemoveAt(w, at), qs \ {w[at]})
<1> DEFINE left == SubSeq(w, 1, at - 1)
           right == SubSeq(w, at + 1, Len(w))
           n == Len(w)
           r == RemoveAt(w, at)
<1>1. /\ w \in Seq(ToolCalls) /\ n \in Nat /\ MaxQueued \in Nat /\ DOMAIN w = 1..n
      /\ at \in 1..n /\ n <= MaxQueued
      /\ \A i, j \in 1..n : w[i] = w[j] => i = j
  BY McpAssumption DEF QueueFits
<1>2. /\ left \in Seq(ToolCalls) /\ Len(left) = at - 1
      /\ \A i \in 1..(at - 1) : left[i] = w[i]
  <2>1. 1 \in 1..(n + 1) /\ at - 1 \in (1 - 1)..n /\ (at - 1) - 1 + 1 = at - 1
    BY <1>1
  <2>2. /\ left \in Seq(ToolCalls) /\ Len(left) = (IF 1 <= at - 1 THEN (at - 1) - 1 + 1 ELSE 0)
        /\ \A i \in 1..((at - 1) - 1 + 1) : left[i] = w[1 + i - 1]
    BY <1>1, <2>1, SubSeqProperties
  <2> QED
    BY <1>1, <2>2
<1>3. /\ right \in Seq(ToolCalls) /\ Len(right) = n - at
      /\ \A i \in 1..(n - at) : right[i] = w[at + i]
  <2>1. /\ at + 1 \in Int /\ n \in Int /\ n - (at + 1) + 1 = n - at /\ (at + 1 <= n <=> n - at > 0)
        /\ n - at \in Nat /\ \A i \in (at + 1)..n : w[i] \in ToolCalls
    BY <1>1
  <2>2. /\ right \in Seq(ToolCalls) /\ Len(right) = (IF at + 1 <= n THEN n - (at + 1) + 1 ELSE 0)
        /\ \A i \in 1..(n - (at + 1) + 1) : right[i] = w[(at + 1) + i - 1]
    BY <2>1, SubSeqProperties
  <2>3. Len(right) = n - at
    BY <2>1, <2>2
  <2>4. \A i \in 1..(n - at) : (at + 1) + i - 1 = at + i
    BY <1>1
  <2> QED
    BY <2>1, <2>2, <2>3, <2>4
<1>4. r = left \o right
  BY DEF RemoveAt
<1> HIDE DEF left, right, r
<1>5. /\ r \in Seq(ToolCalls) /\ Len(r) = n - 1 /\ DOMAIN r = 1..(n - 1)
      /\ \A i \in 1..(n - 1) : r[i] = IF i < at THEN w[i] ELSE w[i + 1]
  <2>1. r \in Seq(ToolCalls) /\ Len(r) = n - 1 /\ DOMAIN r = 1..(n - 1)
    <3>1. r \in Seq(ToolCalls) /\ Len(r) = Len(left) + Len(right)
      BY <1>2, <1>3, <1>4, ConcatProperties
    <3>2. Len(r) = n - 1
      BY <1>1, <1>2, <1>3, <3>1
    <3> QED
      BY <3>1, <3>2
  <2>2. ASSUME NEW i \in 1..(n - 1)
        PROVE  r[i] = IF i < at THEN w[i] ELSE w[i + 1]
    <3>1. r[i] = IF i <= Len(left) THEN left[i] ELSE right[i - Len(left)]
      <4>1. left \in Seq(ToolCalls) /\ right \in Seq(ToolCalls)
        BY <1>2, <1>3
      <4>2. i \in 1..(Len(left) + Len(right))
        BY <1>1, <1>2, <1>3
      <4> QED
        BY <1>4, <4>1, <4>2, ConcatProperties
    <3>2. CASE i < at
      BY <1>1, <1>2, <3>1, <3>2
    <3>3. CASE i >= at
      <4>1. i - (at - 1) \in 1..(n - at) /\ at + (i - (at - 1)) = i + 1
        BY <1>1, <3>3
      <4>2. Len(left) = at - 1 /\ ~(i <= Len(left))
        BY <1>1, <1>2, <3>3
      <4>3. r[i] = right[i - (at - 1)]
        BY <3>1, <4>2
      <4>4. right[i - (at - 1)] = w[at + (i - (at - 1))]
        BY <1>3, <4>1
      <4>5. r[i] = w[i + 1] /\ ~(i < at)
        BY <1>1, <3>3, <4>1, <4>3, <4>4
      <4> QED
        BY <4>5
    <3> QED
      BY <1>1, <3>2, <3>3
  <2> QED
    BY <2>1, <2>2
<1>6. qs = {w[i] : i \in 1..n} /\ Range(r) = {r[i] : i \in 1..(n - 1)}
  BY <1>1, <1>5 DEF Range, QueueFits
<1>7. \A i \in 1..(n - 1) : \E x \in 1..n : r[i] = w[x] /\ x # at /\ (x = i \/ x = i + 1)
  BY <1>1, <1>5
<1>8. Range(r) = qs \ {w[at]}
  <2>1. \A i \in 1..(n - 1) : r[i] \in qs /\ r[i] # w[at]
    BY <1>1, <1>6, <1>7
  <2>2. ASSUME NEW x \in 1..n, x # at
        PROVE  w[x] \in Range(r)
    <3>1. CASE x < at
      <4>1. x \in 1..(n - 1) /\ r[x] = w[x]
        BY <1>1, <1>5, <3>1
      <4> QED
        BY <1>6, <4>1
    <3>2. CASE x > at
      <4>1. x - 1 \in 1..(n - 1) /\ ~(x - 1 < at) /\ (x - 1) + 1 = x
        BY <1>1, <3>2
      <4>2. r[x - 1] = w[x]
        BY <1>5, <4>1
      <4> QED
        BY <1>6, <4>1, <4>2
    <3> QED
      BY <1>1, <2>2, <3>1, <3>2
  <2>3. \A x \in qs : x # w[at] => x \in Range(r)
    BY <1>6, <2>2
  <2>4. \A x \in Range(r) : x \in qs /\ x # w[at]
    BY <1>6, <2>1
  <2> QED
    BY <2>3, <2>4
<1>9. \A i, j \in 1..(n - 1) : r[i] = r[j] => i = j
  <2> SUFFICES ASSUME NEW i \in 1..(n - 1), NEW j \in 1..(n - 1), r[i] = r[j]
               PROVE  i = j
    OBVIOUS
  <2> DEFINE a == IF i < at THEN i ELSE i + 1
             b == IF j < at THEN j ELSE j + 1
  <2>1. a \in 1..n /\ b \in 1..n /\ w[a] = w[b]
    BY <1>1, <1>5
  <2>2. a = b
    BY <1>1, <2>1
  <2> QED
    BY <1>1, <2>2
<1> QED
  BY <1>1, <1>5, <1>8, <1>9 DEF QueueFits, r

-----------------------------------------------------------------------------
(* A call gets a slot, or gives one up.                                        *)
LEMMA HoldingIsFinite ==
    ASSUME TRUE
    PROVE  IsFiniteSet(Holding) /\ Cardinality(Holding) \in Nat
<1>1. Holding \subseteq ToolCalls
  BY DEF Holding
<1> QED
  BY <1>1, McpAssumption, FS_Subset, FS_CardinalityType

(* What the conjuncts of the invariant say of the next state.                     *)
LEMMA McpInvFrom ==
    ASSUME McpInv, mcp' = mcp, cancelled' \subseteq ToolCalls, toolCall' \in [ToolCalls -> CallStates],
           NEW active \in 0..MaxConcurrent, NEW w, limiter' = [active |-> active, waiters |-> w],
           QueueFits(w, Queued'), Cardinality(Holding') = active, w # <<>> => active = MaxConcurrent
    PROVE  McpInv'
<1>1. limiter'.active = active /\ limiter'.waiters = w
  OBVIOUS
<1>2. McpTypeOK'
  BY <1>1 DEF McpInv, McpTypeOK, QueueFits, Queued, CallStates
<1>3. limiter' \in [active : 0..MaxConcurrent, waiters : Seq(ToolCalls)]
  BY DEF QueueFits
<1> QED
  BY <1>1, <1>2, <1>3 DEF McpInv, QueueFits, SlotsAreCounted

LEMMA LimiterAtFirst ==
    ASSUME McpInv
    PROVE  /\ limiter = [active |-> limiter.active, waiters |-> limiter.waiters]
           /\ limiter.active \in 0..MaxConcurrent /\ limiter.active \in Nat /\ MaxConcurrent \in Nat \ {0}
           /\ Cardinality(Holding) = limiter.active
           /\ limiter.waiters # <<>> => limiter.active = MaxConcurrent
           /\ toolCall \in [ToolCalls -> CallStates] /\ cancelled \subseteq ToolCalls
           /\ QueueFits(limiter.waiters, Queued)
<1>1. limiter \in [active : 0..MaxConcurrent, waiters : Seq(ToolCalls)]
  BY DEF McpInv
<1>2. limiter = [active |-> limiter.active, waiters |-> limiter.waiters]
  BY <1>1
<1> QED
  BY <1>1, <1>2, McpAssumption, QueueAtFirst DEF McpInv, McpTypeOK, SlotsAreCounted, CallStates

(* A call that neither gets nor gives up a slot, nor enters or leaves the queue.   *)
LEMMA OnItsWay ==
    ASSUME McpInv, NEW k \in ToolCalls, NEW pc \in CallStates, toolCall' = [toolCall EXCEPT ![k] = pc],
           toolCall[k] # "queued", pc # "queued", toolCall[k] \in HoldingStates <=> pc \in HoldingStates,
           UNCHANGED <<mcp, cancelled, limiter>>
    PROVE  McpInv'
<1>1. toolCall \in [ToolCalls -> CallStates]
  BY LimiterAtFirst
<1>2. Holding' = Holding /\ Queued' = Queued /\ toolCall' \in [ToolCalls -> CallStates]
  BY <1>1 DEF Holding, Queued, HoldingStates
<1> QED
  BY <1>2, LimiterAtFirst, McpInvFrom


(* acquire: the call gets a slot, is queued or is turned away.                 *)
LEMMA AcquireStep ==
    ASSUME McpInv, NEW k \in ToolCalls, Acquire(k)
    PROVE  McpInv'
<1> DEFINE w == limiter.waiters
           active == limiter.active
<1>1. toolCall[k] = "received" /\ UNCHANGED <<mcp, cancelled>>
  BY DEF Acquire
<1>2. /\ limiter = [active |-> active, waiters |-> w] /\ active \in 0..MaxConcurrent
      /\ limiter.active = active /\ limiter.waiters = w
      /\ MaxConcurrent \in Nat \ {0} /\ Cardinality(Holding) = active
      /\ w # <<>> => active = MaxConcurrent
      /\ toolCall \in [ToolCalls -> CallStates] /\ cancelled \subseteq ToolCalls /\ QueueFits(w, Queued)
  BY LimiterAtFirst
<1> HIDE DEF w, active
<1>3. CASE /\ toolCall' = [toolCall EXCEPT ![k] = "failed"]
           /\ UNCHANGED limiter
  BY <1>1, <1>3, OnItsWay DEF CallStates, HoldingStates
<1>4. CASE /\ active < MaxConcurrent
           /\ limiter' = [limiter EXCEPT !.active = @ + 1]
           /\ toolCall' = [toolCall EXCEPT ![k] = "granted"]
  <2>1. limiter' = [active |-> active + 1, waiters |-> w] /\ active + 1 \in 0..MaxConcurrent /\ w = <<>>
    BY <1>2, <1>4
  <2>2. /\ Holding' = Holding \union {k} /\ k \notin Holding /\ Queued' = Queued
        /\ toolCall' \in [ToolCalls -> CallStates]
    BY <1>1, <1>2, <1>4 DEF Holding, Queued, CallStates
  <2>3. Cardinality(Holding') = active + 1
    BY <1>2, <2>2, HoldingIsFinite, FS_AddElement
  <2> QED
    BY <1>1, <1>2, <2>1, <2>2, <2>3, McpInvFrom
<1>5. CASE /\ active >= MaxConcurrent /\ Len(w) < MaxQueued
           /\ limiter' = [limiter EXCEPT !.waiters = Append(@, k)]
           /\ toolCall' = [toolCall EXCEPT ![k] = "queued"]
  <2>1. active = MaxConcurrent
    BY <1>2, <1>5
  <2>4. limiter' = [active |-> active, waiters |-> Append(w, k)]
    BY <1>2, <1>5
  <2>2. /\ Holding' = Holding /\ Queued' = Queued \union {k} /\ k \notin Queued
        /\ toolCall' \in [ToolCalls -> CallStates]
    BY <1>1, <1>2, <1>5 DEF Holding, Queued, CallStates
  <2>3. QueueFits(Append(w, k), Queued')
    BY <1>2, <1>5, <2>2, QueueAppend
  <2> QED
    BY <1>1, <1>2, <2>1, <2>2, <2>3, <2>4, McpInvFrom
<1> QED
  BY <1>2, <1>3, <1>4, <1>5 DEF Acquire

(* A waiter that is cancelled leaves the queue; another call only keeps in mind    *)
(* that it was.                                                             *)
LEMMA CancelStep ==
    ASSUME McpInv, NEW k \in ToolCalls, Cancel(k)
    PROVE  McpInv'
<1> DEFINE w == limiter.waiters
           active == limiter.active
<1>1. /\ limiter = [active |-> active, waiters |-> w] /\ limiter.active = active /\ limiter.waiters = w
      /\ active \in 0..MaxConcurrent
      /\ Cardinality(Holding) = active /\ (w # <<>> => active = MaxConcurrent)
      /\ toolCall \in [ToolCalls -> CallStates] /\ cancelled \subseteq ToolCalls /\ QueueFits(w, Queued)
  BY LimiterAtFirst
<1> HIDE DEF w, active
<1>2. /\ mcp' = mcp /\ cancelled' \subseteq ToolCalls
      /\ toolCall' = [toolCall EXCEPT ![k] = IF @ = "queued" THEN "failed" ELSE @]
      /\ limiter' = [limiter EXCEPT !.waiters = OutOfQueue(k)]
  BY <1>1 DEF Cancel
<1>3. limiter' = [active |-> active, waiters |-> OutOfQueue(k)]
  BY <1>1, <1>2
<1>4. Range(w) = Queued /\ w \in Seq(ToolCalls)
  BY <1>1 DEF QueueFits
<1>5. CASE k \in Queued
  <2> DEFINE at == CHOOSE i \in DOMAIN w : w[i] = k
  <2>1. at \in DOMAIN w /\ w[at] = k
    BY <1>4, <1>5 DEF Range
  <2>2. OutOfQueue(k) = RemoveAt(w, at)
    BY <1>1, <1>4, <1>5 DEF OutOfQueue
  <2>3. w # <<>>
    BY <2>1
  <2> HIDE DEF at
  <2>4. /\ Holding' = Holding /\ Queued' = Queued \ {k}
        /\ toolCall' \in [ToolCalls -> CallStates]
    BY <1>1, <1>2, <1>5 DEF Holding, Queued, CallStates
  <2>5. QueueFits(OutOfQueue(k), Queued')
    BY <1>1, <2>1, <2>2, <2>4, QueueOut
  <2>6. Cardinality(Holding') = active /\ active = MaxConcurrent
    BY <1>1, <2>3, <2>4
  <2> QED
    BY <1>1, <1>2, <1>3, <2>4, <2>5, <2>6, McpInvFrom
<1>6. CASE k \notin Queued
  <2>1. OutOfQueue(k) = w
    BY <1>1, <1>4, <1>6 DEF OutOfQueue
  <2>2. toolCall' = toolCall
    BY <1>1, <1>2, <1>6 DEF Queued
  <2>3. Holding' = Holding /\ Queued' = Queued
    BY <2>2 DEF Holding, Queued
  <2>4. /\ limiter' = [active |-> active, waiters |-> w] /\ QueueFits(w, Queued') /\ Cardinality(Holding') = active
        /\ toolCall' \in [ToolCalls -> CallStates]
    BY <1>1, <1>3, <2>1, <2>2, <2>3
  <2> QED
    BY <1>1, <1>2, <2>4, McpInvFrom
<1> QED
  BY <1>5, <1>6

(* release: the slot of a call that ends goes to the first waiter, or is free.    *)
LEMMA ReleaseStep ==
    ASSUME McpInv, NEW k \in Holding, NEW outcome \in {"answered", "failed"}, EndsWith(k, outcome)
    PROVE  McpInv'
<1> DEFINE w == limiter.waiters
           active == limiter.active
<1>1. /\ limiter = [active |-> active, waiters |-> w] /\ limiter.active = active /\ limiter.waiters = w
      /\ active \in 0..MaxConcurrent /\ active \in Nat
      /\ Cardinality(Holding) = active /\ (w # <<>> => active = MaxConcurrent)
      /\ toolCall \in [ToolCalls -> CallStates] /\ cancelled \subseteq ToolCalls /\ QueueFits(w, Queued)
  BY LimiterAtFirst
<1> HIDE DEF w, active
<1>2. /\ mcp' = mcp /\ cancelled' \subseteq ToolCalls
      /\ k \in ToolCalls /\ toolCall[k] \in HoldingStates
  BY <1>1 DEF EndsWith, Holding, HoldingStates
<1>3. /\ IsFiniteSet(Holding) /\ Cardinality(Holding \ {k}) = active - 1 /\ active - 1 \in 0..MaxConcurrent
      /\ IsFiniteSet(Holding \ {k})
  <2>1. Cardinality(Holding \ {k}) = Cardinality(Holding) - 1 /\ IsFiniteSet(Holding \ {k})
    BY HoldingIsFinite, FS_RemoveElement
  <2>2. Cardinality(Holding \ {k}) \in Nat
    BY <2>1, FS_CardinalityType
  <2>3. Cardinality(Holding \ {k}) = active - 1
    BY <1>1, <2>1
  <2>4. active - 1 \in 0..MaxConcurrent
    <3>1. active - 1 \in Nat /\ MaxConcurrent \in Nat /\ active <= MaxConcurrent
      BY <1>1, <2>2, <2>3, McpAssumption
    <3> QED
      BY <1>1, <3>1
  <2> QED
    BY <2>1, <2>3, <2>4, HoldingIsFinite
<1>4. CASE w = <<>>
  <2>1. HandedTo = {}
    BY <1>1, <1>4 DEF HandedTo, NextWaiters
  <2>2. limiter' = [active |-> active - 1, waiters |-> w]
    BY <1>1, <2>1 DEF EndsWith
  <2>3. toolCall' = [c \in ToolCalls |-> IF c = k THEN outcome ELSE toolCall[c]]
    BY <2>1 DEF EndsWith
  <2>4. Holding' = Holding \ {k} /\ Queued' = Queued /\ toolCall' \in [ToolCalls -> CallStates]
    BY <1>1, <1>2, <2>3 DEF Holding, Queued, CallStates, HoldingStates
  <2> QED
    BY <1>1, <1>2, <1>3, <1>4, <2>2, <2>4, McpInvFrom
<1>5. CASE w # <<>>
  <2> DEFINE h == Head(w)
  <2>1. HandedTo = {h} /\ HandedTo # {}
    BY <1>1, <1>5 DEF HandedTo, NextWaiters
  <2>2. h \in Queued /\ QueueFits(Tail(w), Queued \ {h})
    BY <1>1, <1>5, QueueTail
  <2>3. limiter' = [active |-> active, waiters |-> Tail(w)]
    BY <1>1, <2>1 DEF EndsWith
  <2>4. toolCall' = [c \in ToolCalls |-> IF c = k THEN outcome ELSE IF c = h THEN "granted" ELSE toolCall[c]]
    BY <2>1 DEF EndsWith
  <2> HIDE DEF h
  <2>5. h \in ToolCalls /\ toolCall[h] = "queued" /\ h # k /\ h \notin Holding
    BY <1>2, <2>2 DEF Queued, Holding, HoldingStates
  <2>6. /\ Holding' = (Holding \ {k}) \union {h} /\ Queued' = Queued \ {h}
        /\ toolCall' \in [ToolCalls -> CallStates]
    BY <1>1, <1>2, <2>4, <2>5 DEF Holding, Queued, CallStates, HoldingStates
  <2>7. Cardinality((Holding \ {k}) \union {h}) = Cardinality(Holding \ {k}) + 1
    BY <1>3, <2>5, FS_AddElement
  <2>8. Cardinality(Holding') = active /\ active = MaxConcurrent
    BY <1>1, <1>3, <1>5, <2>6, <2>7
  <2> QED
    BY <1>1, <1>2, <2>2, <2>3, <2>6, <2>8, McpInvFrom
<1> QED
  BY <1>4, <1>5

LEMMA McpInvariant == McpSpec => []McpInv
<1>1. McpInit => McpInv
  <2> SUFFICES ASSUME McpInit
               PROVE  McpInv
    OBVIOUS
  <2>1. Holding = {} /\ {k \in ToolCalls : toolCall[k] = "queued"} = {}
    BY DEF McpInit, Holding
  <2>2. Range(<<>>) = {} /\ <<>> \in Seq(ToolCalls) /\ Len(<<>>) = 0
    BY DEF Range
  <2>3. McpTypeOK /\ limiter \in [active : 0..MaxConcurrent, waiters : Seq(ToolCalls)]
    BY <2>1, <2>2, McpAssumption DEF McpInit, McpTypeOK
  <2>4. SlotsAreCounted
    BY <2>1, FS_EmptySet DEF McpInit, SlotsAreCounted
  <2> QED
    BY <2>3, <2>4 DEF McpInit, McpInv
<1>2. McpInv /\ [McpNext]_mcpVars => McpInv'
  <2> SUFFICES ASSUME McpInv, [McpNext]_mcpVars
               PROVE  McpInv'
    OBVIOUS
  <2>1. CASE UNCHANGED mcpVars
    BY <2>1 DEF mcpVars, McpInv, McpTypeOK, SlotsAreCounted, Holding
  <2>2. ASSUME NEW k \in ToolCalls, Receive(k)
        PROVE  McpInv'
    BY <2>2, OnItsWay DEF Receive, CallStates, HoldingStates
  <2>3. ASSUME NEW k \in ToolCalls, Refuse(k) \/ Return(k)
        PROVE  McpInv'
    BY <2>3, ReleaseStep DEF Refuse, Return, Holding
  <2>4. ASSUME NEW k \in ToolCalls, Execute(k)
        PROVE  McpInv'
    BY <2>4, OnItsWay DEF Execute, CallStates, HoldingStates
  <2>5. ASSUME NEW k \in ToolCalls, Hang(k)
        PROVE  McpInv'
    BY <2>5, OnItsWay DEF Hang, CallStates, HoldingStates
  <2> QED
    BY <2>1, <2>2, <2>3, <2>4, <2>5, AcquireStep, CancelStep DEF McpNext
<1> QED
  BY <1>1, <1>2, PTL DEF McpSpec

(* The server, its calls and the limiter keep their types; the calls that are queued   *)
(* are those in the queue of the limiter.                                      *)
THEOREM McpTypes == McpSpec => []McpTypeOK
  BY McpInvariant, PTL DEF McpInv

(* For any number of calls, of slots and of places in the queue, a slot that is         *)
(* counted is held by a call, and no call waits while a slot is free.            *)
THEOREM NoSlotIsLost == McpSpec => []SlotsAreCounted
  BY McpInvariant, PTL DEF McpInv

(***************************************************************************)
(* The collector of a diff.                                                *)
(***************************************************************************)
(* A fold without elements is its base: no lines have no bytes.                   *)
LEMMA NoBytes == Bytes(<<>>) = 0
<1> DEFINE Iter(g) == [s \in SUBSET (DOMAIN <<>>) |-> IF s = {} THEN 0 ELSE g[s \ {Max(s)}] + <<>>[Max(s)]]
           iter == CHOOSE g : g = Iter(g)
<1>1. Bytes(<<>>) = iter[DOMAIN <<>>]
  BY DEF Bytes, FoldLeft, MapThenFoldSet
<1>2. DOMAIN <<>> = {}
  OBVIOUS
<1>3. \E g : g = Iter(g)
  <2> WITNESS [s \in SUBSET (DOMAIN <<>>) |-> 0]
  <2> QED
    BY <1>2
<1>4. iter = Iter(iter)
  BY <1>3
<1> HIDE DEF iter
<1> QED
  BY <1>1, <1>2, <1>4

(* The fold over lines is the one function that takes the last of them off:       *)
(* such a function exists for the lines 1..k, whatever k.                    *)
LineSteps(g, base, lines, k) ==
    [s \in SUBSET (1..k) |-> IF s = {} THEN base ELSE ConsumeLine(g[s \ {Max(s)}], lines[Max(s)])]

LEMMA FoldExists ==
    ASSUME NEW base, NEW lines, NEW k \in Nat
    PROVE  \E g : g = LineSteps(g, base, lines, k)
<1> DEFINE None == {n \in Nat : ~ \E g : g = LineSteps(g, base, lines, n)}
<1>1. SUFFICES ASSUME None # {}
               PROVE  FALSE
  OBVIOUS
<1>2. PICK n \in None : \A m \in None : n <= m
  BY <1>1, LeastNumber
<1>3. n \in Nat /\ ~ \E g : g = LineSteps(g, base, lines, n)
  OBVIOUS
<1>4. n # 0
  <2> SUFFICES \E g : g = LineSteps(g, base, lines, 0)
    BY <1>3
  <2> WITNESS [s \in SUBSET (1..0) |-> base]
  <2> QED
    BY DEF LineSteps
<1>5. n - 1 \in Nat /\ n - 1 \notin None
  BY <1>2, <1>3, <1>4
<1>6. PICK g : g = LineSteps(g, base, lines, n - 1)
  BY <1>5
<1> HIDE DEF None
<1> DEFINE h == [s \in SUBSET (1..n) |->
                   IF s = {} THEN base ELSE ConsumeLine(g[s \ {Max(s)}], lines[Max(s)])]
<1>7. ASSUME NEW s \in SUBSET (1..n), s # {}
      PROVE  h[s \ {Max(s)}] = g[s \ {Max(s)}]
  <2> DEFINE t == s \ {Max(s)}
  <2>1. s \subseteq 0..n
    BY <1>3
  <2>2. Max(s) \in s /\ \A m \in s : Max(s) >= m
    BY <1>3, <1>7, <2>1, GreatestNumber
  <2>3. t \subseteq 1..(n - 1) /\ t \subseteq 1..n
    <3> SUFFICES ASSUME NEW m \in s, m # Max(s)
                 PROVE  m \in 1..(n - 1) /\ m \in 1..n
      OBVIOUS
    <3>1. m \in 1..n /\ Max(s) \in 1..n /\ m <= Max(s)
      BY <2>2
    <3> QED
      BY <1>3, <3>1
  <2> HIDE DEF t
  <2>4. h[t] = IF t = {} THEN base ELSE ConsumeLine(g[t \ {Max(t)}], lines[Max(t)])
    BY <2>3
  <2>5. g[t] = IF t = {} THEN base ELSE ConsumeLine(g[t \ {Max(t)}], lines[Max(t)])
    BY <1>6, <2>3 DEF LineSteps
  <2> QED
    BY <2>4, <2>5 DEF t
<1>8. h = LineSteps(h, base, lines, n)
  BY <1>7 DEF LineSteps
<1> QED
  BY <1>3, <1>8

LEMMA FoldSteps ==
    ASSUME NEW base, NEW k \in Nat, NEW lines, DOMAIN lines = 1..k
    PROVE  \E g : g = LineSteps(g, base, lines, k) /\ FoldLeft(ConsumeLine, base, lines) = g[1..k]
<1> DEFINE iter == CHOOSE g : g = [s \in SUBSET (DOMAIN lines) |->
                     IF s = {} THEN base ELSE ConsumeLine(g[s \ {Max(s)}], lines[Max(s)])]
<1>1. FoldLeft(ConsumeLine, base, lines) = iter[DOMAIN lines]
  BY DEF FoldLeft, MapThenFoldSet
<1>2. iter = CHOOSE g : g = LineSteps(g, base, lines, k)
  BY DEF LineSteps
<1>3. iter = LineSteps(iter, base, lines, k)
  BY <1>2, FoldExists
<1> HIDE DEF iter
<1> QED
  BY <1>1, <1>3

(* Lines that follow the ones shown: all of them are shown, or fewer than there are. *)
UptoLine(n) == [i \in 1..n |-> i]
ShowsUpto(shown, n) == shown \in Seq(Nat) /\ (shown = UptoLine(n) \/ Len(shown) < n)

LEMMA ConsumeOne ==
    ASSUME NEW shown, NEW n \in Nat, ShowsUpto(shown, n)
    PROVE  ShowsUpto(ConsumeLine(shown, n + 1), n + 1)
<1>1. ConsumeLine(shown, n + 1) = shown \/ ConsumeLine(shown, n + 1) = Append(shown, n + 1)
  BY DEF ConsumeLine
<1>2. shown \in Seq(Nat) /\ Len(shown) \in Nat
  BY DEF ShowsUpto
<1>3. Len(shown) <= n
  BY <1>2 DEF ShowsUpto, UptoLine
<1>4. CASE ConsumeLine(shown, n + 1) = shown
  BY <1>2, <1>3, <1>4 DEF ShowsUpto
<1>5. CASE ConsumeLine(shown, n + 1) = Append(shown, n + 1)
  <2>1. Append(shown, n + 1) \in Seq(Nat) /\ Len(Append(shown, n + 1)) = Len(shown) + 1
    BY <1>2
  <2>2. CASE shown = UptoLine(n)
    <3>1. Len(shown) = n
      BY <1>2, <2>2 DEF UptoLine
    <3>2. Append(shown, n + 1) = UptoLine(n + 1)
      BY <1>2, <2>1, <2>2, <3>1 DEF UptoLine
    <3> QED
      BY <1>5, <2>1, <3>2 DEF ShowsUpto
  <2>3. CASE Len(shown) < n
    BY <1>2, <1>5, <2>1, <2>3 DEF ShowsUpto
  <2> QED
    BY <2>2, <2>3 DEF ShowsUpto
<1> QED
  BY <1>1, <1>4, <1>5

LEMMA ConsumeMany ==
    ASSUME NEW base \in Seq(Nat), NEW seen \in Nat, NEW k \in Nat
    PROVE  /\ FoldLeft(ConsumeLine, base, [n \in 1..k |-> seen + n]) \in Seq(Nat)
           /\ base = UptoLine(seen) =>
                 ShowsUpto(FoldLeft(ConsumeLine, base, [n \in 1..k |-> seen + n]), seen + k)
           /\ k = 0 => FoldLeft(ConsumeLine, base, [n \in 1..k |-> seen + n]) = base
<1> DEFINE lines == [n \in 1..k |-> seen + n]
           Right(shown, i) == shown \in Seq(Nat) /\ (base = UptoLine(seen) => ShowsUpto(shown, seen + i))
<1>1. PICK g : /\ g = LineSteps(g, base, lines, k)
               /\ FoldLeft(ConsumeLine, base, lines) = g[1..k]
  BY FoldSteps
<1>13. k = 0 => g[1..k] = base
  <2>1. 1..0 = {}
    OBVIOUS
  <2> QED
    BY <1>1, <2>1 DEF LineSteps
<1> DEFINE Wrong == {i \in 0..k : ~Right(g[1..i], i)}
<1>2. SUFFICES ASSUME Wrong # {}
               PROVE  FALSE
  <2>1. k \in 0..k /\ k \notin Wrong
    BY <1>2
  <2> QED
    BY <1>1, <1>13, <2>1
<1>3. PICK n \in Wrong : \A m \in Wrong : n <= m
  <2>1. Wrong \subseteq Nat
    OBVIOUS
  <2> HIDE DEF Wrong
  <2> QED
    BY <1>2, <2>1, LeastNumber
<1>4. n \in 0..k /\ ~Right(g[1..n], n)
  OBVIOUS
<1>5. n # 0
  <2>1. g[{}] = base
    BY <1>1 DEF LineSteps
  <2>2. Right(base, 0)
    BY DEF ShowsUpto
  <2>3. 1..0 = {}
    OBVIOUS
  <2> HIDE DEF Right
  <2> QED
    BY <1>4, <2>1, <2>2, <2>3
<1>6. n - 1 \in 0..k /\ n - 1 \notin Wrong
  BY <1>3, <1>4, <1>5
<1>7. Right(g[1..(n - 1)], n - 1)
  BY <1>6
<1> HIDE DEF Wrong
<1>8. Max(1..n) = n
  <2>1. n \in Nat \ {0}
    BY <1>4, <1>5
  <2> QED
    BY <2>1, MaxUpto
<1>9. g[1..n] = ConsumeLine(g[1..(n - 1)], (seen + (n - 1)) + 1)
  <2>1. 1..n \in SUBSET (1..k) /\ 1..n # {} /\ (1..n) \ {n} = 1..(n - 1)
    <3>1. n \in Nat /\ n <= k /\ n \in 1..n
      BY <1>4, <1>5
    <3>2. 1..n \subseteq 1..k
      BY <3>1
    <3>3. (1..n) \ {n} = 1..(n - 1)
      BY <3>1
    <3> QED
      BY <3>1, <3>2, <3>3
  <2>2. g[1..n] = ConsumeLine(g[(1..n) \ {n}], lines[n])
    BY <1>1, <1>8, <2>1 DEF LineSteps
  <2>3. lines[n] = (seen + (n - 1)) + 1
    BY <1>4, <1>5
  <2> QED
    BY <2>1, <2>2, <2>3
<1>10. seen + (n - 1) \in Nat /\ (seen + (n - 1)) + 1 = seen + n /\ seen + n \in Nat
  BY <1>4, <1>6
<1>11. g[1..n] \in Seq(Nat)
  <2> DEFINE before == g[1..(n - 1)]
             line == (seen + (n - 1)) + 1
  <2>1. before \in Seq(Nat) /\ line \in Nat
    BY <1>4, <1>6, <1>7
  <2>2. g[1..n] = before \/ g[1..n] = Append(before, line)
    BY <1>9 DEF ConsumeLine
  <2> HIDE DEF before, line
  <2>3. Append(before, line) \in Seq(Nat)
    BY <2>1
  <2> QED
    BY <2>1, <2>2, <2>3
<1>12. base = UptoLine(seen) => ShowsUpto(g[1..n], seen + n)
  BY <1>7, <1>9, <1>10, ConsumeOne
<1> QED
  BY <1>4, <1>11, <1>12

-----------------------------------------------------------------------------
(* A collector that has been given so many bytes: they are in the prefix or with    *)
(* the writer, and unless something was left out every line seen is shown.     *)
Collectors ==
    [inline : Seq(Nat), seen : Nat, prefix : Seq(Nat), truncated : BOOLEAN,
     writer : [open : BOOLEAN, bytes : Seq(Nat)]]

Collects(c, read) ==
    /\ c \in Collectors
    /\ c.writer.open => c.truncated /\ c.writer.bytes = Chunk(0, read)
    /\ ~c.writer.open => c.prefix = Chunk(0, read)
    /\ ~c.truncated => c.inline = UptoLine(c.seen)

VcsInv ==
    /\ diff \in Seq(Nat)
    /\ git \in [at : {"idle", "diff", "ended"}, unended : BOOLEAN, read : Nat, aborted : BOOLEAN]
    /\ collector \in Collectors
    /\ result \in [at : {"none", "nothing", "failed", "answered", "expired"}, artifact : Nat]
    /\ store \in [at : {"none", "ready", "broken"}, left : Nat, artifacts : Seq(Seq(Nat))]
    /\ git.at # "idle" => Collects(collector, git.read) /\ result = NoAnswerYet
    /\ git.at = "ended" => git.read = Output
    /\ diffs \in Nat /\ store.left + Len(store.artifacts) + (IF git.at = "idle" THEN 0 ELSE 1) <= diffs
    /\ result.at = "answered" =>
          IF collector.truncated
          THEN result.artifact \in DOMAIN store.artifacts /\ store.artifacts[result.artifact] = Chunk(0, Output)
          ELSE result.artifact = 0 /\ collector.inline = UptoLine(Len(diff))

LEMMA CollectsFields ==
    ASSUME NEW c \in Collectors
    PROVE  /\ c = [inline |-> c.inline, seen |-> c.seen, prefix |-> c.prefix, truncated |-> c.truncated,
                   writer |-> c.writer]
           /\ c.writer = [open |-> c.writer.open, bytes |-> c.writer.bytes]
           /\ c.inline \in Seq(Nat) /\ c.seen \in Nat /\ c.prefix \in Seq(Nat) /\ c.truncated \in BOOLEAN
           /\ c.writer.open \in BOOLEAN /\ c.writer.bytes \in Seq(Nat)
  BY DEF Collectors

(* The bytes of the output, in their order, and those that follow them.                *)
LEMMA ChunkFollows ==
    ASSUME NEW read \in Nat, NEW size \in Nat
    PROVE  /\ Chunk(0, read) \in Seq(Nat) /\ Len(Chunk(0, read)) = read
           /\ Chunk(read, size) \in Seq(Nat) /\ Len(Chunk(read, size)) = size
           /\ Chunk(0, read) \o Chunk(read, size) = Chunk(0, read + size)
<1> DEFINE a == Chunk(0, read)
           b == Chunk(read, size)
           c == Chunk(0, read + size)
<1>1. /\ a \in Seq(Nat) /\ Len(a) = read /\ \A k \in 1..read : a[k] = 0 + k
      /\ b \in Seq(Nat) /\ Len(b) = size /\ \A k \in 1..size : b[k] = read + k
      /\ c \in Seq(Nat) /\ Len(c) = read + size /\ \A k \in 1..(read + size) : c[k] = 0 + k
  BY DEF Chunk
<1> HIDE DEF a, b, c
<1>2. a \o b \in Seq(Nat) /\ Len(a \o b) = read + size
  BY <1>1
<1>3. ASSUME NEW k \in 1..(read + size)
      PROVE  (a \o b)[k] = c[k]
  <2>1. c[k] = k
    BY <1>1
  <2>2. CASE k <= read
    <3>1. k \in 1..read /\ (a \o b)[k] = a[k]
      BY <1>1, <2>2
    <3> QED
      BY <1>1, <2>1, <3>1
  <2>3. CASE k > read
    <3>1. k - read \in 1..size /\ (a \o b)[k] = b[k - read]
      BY <1>1, <2>3
    <3>2. b[k - read] = read + (k - read)
      BY <1>1, <3>1
    <3> QED
      BY <2>1, <3>1, <3>2
  <2>4. k <= read \/ k > read
    OBVIOUS
  <2> QED
    BY <2>2, <2>3, <2>4
<1>4. a \o b = c
  <2> DEFINE d == a \o b
  <2>1. d \in Seq(Nat) /\ Len(d) = read + size /\ \A k \in 1..(read + size) : d[k] = c[k]
    BY <1>2, <1>3
  <2>2. DOMAIN d = 1..(read + size) /\ DOMAIN c = 1..(read + size)
    BY <1>1, <2>1
  <2> HIDE DEF d
  <2>3. d = c
    BY <1>1, <2>1, <2>2
  <2> QED
    BY <2>3 DEF d
<1> QED
  BY <1>1, <1>4 DEF a, b, c

LEMMA CollectsStart ==
    ASSUME NEW c, NEW read, Collects(c, read), c.truncated
    PROVE  Collects(StartWriter(c), read) /\ StartWriter(c).writer.open
<1>1. /\ c \in Collectors /\ c.inline \in Seq(Nat) /\ c.seen \in Nat /\ c.prefix \in Seq(Nat) /\ c.truncated \in BOOLEAN
      /\ c = [inline |-> c.inline, seen |-> c.seen, prefix |-> c.prefix, truncated |-> c.truncated,
              writer |-> c.writer]
      /\ c.writer \in [open : BOOLEAN, bytes : Seq(Nat)]
  BY CollectsFields DEF Collects, Collectors
<1>2. CASE c.writer.open
  BY <1>2 DEF StartWriter
<1>3. CASE ~c.writer.open
  <2>1. StartWriter(c) = [inline |-> c.inline, seen |-> c.seen, prefix |-> <<>>, truncated |-> c.truncated,
                          writer |-> [open |-> TRUE, bytes |-> c.prefix]]
    <3>1. StartWriter(c) = [c EXCEPT !.writer = [open |-> TRUE, bytes |-> c.prefix], !.prefix = <<>>]
      BY <1>3 DEF StartWriter, WithWriter
    <3> QED
      BY <1>1, <3>1
  <2> DEFINE w == StartWriter(c)
  <2>2. /\ w.inline = c.inline /\ w.seen = c.seen /\ w.prefix = <<>> /\ w.truncated = c.truncated
        /\ w.writer.open = TRUE /\ w.writer.bytes = c.prefix
    BY <2>1
  <2>3. w \in Collectors
    BY <1>1, <2>1, CollectsFields, EmptySeq DEF Collectors
  <2> HIDE DEF w
  <2> QED
    BY <1>3, <2>2, <2>3 DEF Collects, w
<1> QED
  BY <1>2, <1>3

(* A writer to which more bytes are given.                                        *)
LEMMA WriterGrows ==
    ASSUME NEW c, c \in Collectors, NEW bytes, bytes \in Seq(Nat)
    PROVE  LET w == StartWriter(c)
           IN  /\ w \in Collectors
               /\ Written(c, bytes) = [inline |-> w.inline, seen |-> w.seen, prefix |-> w.prefix, truncated |-> w.truncated,
                                       writer |-> [open |-> w.writer.open, bytes |-> w.writer.bytes \o bytes]]
               /\ Written(c, bytes) \in Collectors
<1> DEFINE w == StartWriter(c)
           e == Written(c, bytes)
           wr == [w.writer EXCEPT !.bytes = @ \o bytes]
           more == w.writer.bytes \o bytes
<1>1. w \in Collectors
  <2>1. CASE c.writer.open
    BY <2>1 DEF StartWriter
  <2>2. CASE ~c.writer.open
    <3>1. StartWriter(c) = [c EXCEPT !.writer = [open |-> TRUE, bytes |-> c.prefix], !.prefix = <<>>]
      BY <2>2 DEF StartWriter, WithWriter
    <3>2. /\ c = [inline |-> c.inline, seen |-> c.seen, prefix |-> c.prefix, truncated |-> c.truncated,
                  writer |-> c.writer]
          /\ c.inline \in Seq(Nat) /\ c.seen \in Nat /\ c.prefix \in Seq(Nat) /\ c.truncated \in BOOLEAN
      BY CollectsFields
    <3>3. w = [inline |-> c.inline, seen |-> c.seen, prefix |-> <<>>, truncated |-> c.truncated,
               writer |-> [open |-> TRUE, bytes |-> c.prefix]]
      BY <3>1, <3>2
    <3> HIDE DEF w
    <3> QED
      BY <3>2, <3>3, EmptySeq DEF Collectors
  <2> QED
    BY <2>1, <2>2
<1>2. e = [w EXCEPT !.writer = wr]
  BY DEF Written
<1> HIDE DEF w, e
<1>3. /\ w = [inline |-> w.inline, seen |-> w.seen, prefix |-> w.prefix, truncated |-> w.truncated,
              writer |-> w.writer]
      /\ w.writer = [open |-> w.writer.open, bytes |-> w.writer.bytes]
      /\ w.inline \in Seq(Nat) /\ w.seen \in Nat /\ w.prefix \in Seq(Nat) /\ w.truncated \in BOOLEAN
      /\ w.writer.open \in BOOLEAN /\ w.writer.bytes \in Seq(Nat)
  BY <1>1, CollectsFields
<1>4. more \in Seq(Nat)
  BY <1>3
<1>5. wr = [open |-> w.writer.open, bytes |-> more]
  <2> DEFINE v == w.writer
  <2>1. v = [open |-> w.writer.open, bytes |-> w.writer.bytes]
    BY <1>3
  <2>2. wr = [v EXCEPT !.bytes = @ \o bytes]
    OBVIOUS
  <2> HIDE DEF v, wr
  <2>3. wr = [open |-> w.writer.open, bytes |-> w.writer.bytes \o bytes]
    BY <2>1, <2>2
  <2> QED
    BY <2>3
<1> HIDE DEF wr
<1>6. e = [inline |-> w.inline, seen |-> w.seen, prefix |-> w.prefix, truncated |-> w.truncated, writer |-> wr]
  BY <1>2, <1>3
<1>7. wr \in [open : BOOLEAN, bytes : Seq(Nat)]
  <2> HIDE DEF more
  <2> QED
    BY <1>3, <1>4, <1>5
<1>8. e \in Collectors
  BY <1>3, <1>6, <1>7 DEF Collectors
<1> QED
  BY <1>1, <1>5, <1>6, <1>8 DEF w, e, more

LEMMA CollectsKept ==
    ASSUME NEW c, NEW read \in Nat, Collects(c, read), NEW size \in Nat
    PROVE  Collects(Kept(c, Chunk(read, size)), read + size)
<1> DEFINE chunk == Chunk(read, size)
<1>1. /\ c \in Collectors /\ c.inline \in Seq(Nat) /\ c.seen \in Nat /\ c.prefix \in Seq(Nat) /\ c.truncated \in BOOLEAN
      /\ c = [inline |-> c.inline, seen |-> c.seen, prefix |-> c.prefix, truncated |-> c.truncated,
              writer |-> c.writer]
      /\ c.writer \in [open : BOOLEAN, bytes : Seq(Nat)]
  BY CollectsFields DEF Collects, Collectors
<1>4. chunk \in Seq(Nat) /\ Chunk(0, read) \o chunk = Chunk(0, read + size)
  BY ChunkFollows
<1> HIDE DEF chunk
<1>2. CASE ~c.writer.open /\ Len(c.prefix) + Len(chunk) <= InlineBytes
  <2> DEFINE d == Kept(c, chunk)
             more == c.prefix \o chunk
  <2>1. d = [inline |-> c.inline, seen |-> c.seen, prefix |-> more, truncated |-> c.truncated,
             writer |-> c.writer]
    <3>1. d = [c EXCEPT !.prefix = @ \o chunk]
      BY <1>2 DEF Kept
    <3> HIDE DEF d
    <3> QED
      BY <1>1, <3>1
  <2>4. more \in Seq(Nat) /\ more = Chunk(0, read + size)
    BY <1>1, <1>2, <1>4 DEF Collects
  <2> HIDE DEF more, d
  <2>2. d \in Collectors
    BY <1>1, <2>1, <2>4 DEF Collectors
  <2>3. /\ d.inline = c.inline /\ d.seen = c.seen /\ d.prefix = more /\ d.truncated = c.truncated
        /\ d.writer = c.writer
    BY <2>1
  <2> QED
    BY <1>2, <2>2, <2>3, <2>4 DEF Collects, d, chunk
<1>3. CASE ~(~c.writer.open /\ Len(c.prefix) + Len(chunk) <= InlineBytes)
  <2> DEFINE d == [c EXCEPT !.truncated = c.truncated \/ ~c.writer.open]
             w == StartWriter(d)
             e == Written(d, chunk)
  <2>1. d = [inline |-> c.inline, seen |-> c.seen, prefix |-> c.prefix, truncated |-> TRUE, writer |-> c.writer]
    <3>1. (c.truncated \/ ~c.writer.open) = TRUE
      BY <1>1 DEF Collects
    <3>2. d = [c EXCEPT !.truncated = TRUE]
      BY <3>1
    <3> HIDE DEF d
    <3>3. c = [inline |-> c.inline, seen |-> c.seen, prefix |-> c.prefix, truncated |-> c.truncated,
               writer |-> c.writer]
      BY <1>1
    <3> QED
      BY <3>2, <3>3
  <2>2. d \in Collectors
    BY <1>1, <2>1 DEF Collectors
  <2>3. d.truncated /\ d.writer = c.writer /\ d.prefix = c.prefix
    BY <2>1
  <2>4. Collects(d, read)
    BY <2>2, <2>3 DEF Collects
  <2>5. Kept(c, chunk) = e
    BY <1>3 DEF Kept
  <2> HIDE DEF d
  <2>6. Collects(w, read) /\ w.writer.open
    BY <2>3, <2>4, CollectsStart
  <2>7. /\ e = [inline |-> w.inline, seen |-> w.seen, prefix |-> w.prefix, truncated |-> w.truncated,
                writer |-> [open |-> w.writer.open, bytes |-> w.writer.bytes \o chunk]]
        /\ e \in Collectors
    BY <1>4, <2>2, WriterGrows
  <2> HIDE DEF w, e
  <2>8. /\ e.inline = w.inline /\ e.seen = w.seen /\ e.truncated = w.truncated
        /\ e.writer.open = w.writer.open /\ e.writer.bytes = w.writer.bytes \o chunk
    BY <2>7
  <2>9. w.writer.bytes = Chunk(0, read)
    BY <2>6 DEF Collects
  <2>10. Collects(e, read + size)
    BY <1>4, <2>6, <2>7, <2>8, <2>9 DEF Collects
  <2> QED
    BY <2>5, <2>10 DEF chunk
<1> QED
  BY <1>2, <1>3

LEMMA CollectsConsumed ==
    ASSUME NEW c, NEW read, Collects(c, read), NEW to \in Nat
    PROVE  /\ Collects(Consumed(c, to), read) /\ Consumed(c, to).seen = to
           /\ c.truncated => Consumed(c, to).truncated
<1> DEFINE k == IF to >= c.seen THEN to - c.seen ELSE 0
           inline == FoldLeft(ConsumeLine, c.inline, [n \in 1..(to - c.seen) |-> c.seen + n])
           d == Consumed(c, to)
<1>1. /\ c \in Collectors /\ c.inline \in Seq(Nat) /\ c.seen \in Nat
      /\ c = [inline |-> c.inline, seen |-> c.seen, prefix |-> c.prefix, truncated |-> c.truncated,
              writer |-> c.writer]
  BY CollectsFields DEF Collects
<1>2. k \in Nat /\ 1..(to - c.seen) = 1..k
  BY <1>1
<1>3. inline = FoldLeft(ConsumeLine, c.inline, [n \in 1..k |-> c.seen + n])
  BY <1>2
<1>4. d = [c EXCEPT !.seen = to, !.inline = inline, !.truncated = @ \/ Len(inline) # to]
  BY DEF Consumed
<1> HIDE DEF k, inline, d
<1>5. inline \in Seq(Nat) /\ (c.inline = UptoLine(c.seen) => ShowsUpto(inline, c.seen + k))
  BY <1>1, <1>2, <1>3, ConsumeMany
<1>6. d = [inline |-> inline, seen |-> to, prefix |-> c.prefix, truncated |-> c.truncated \/ Len(inline) # to,
           writer |-> c.writer]
  BY <1>1, <1>4
<1>7. d \in Collectors
  BY <1>1, <1>5, <1>6, CollectsFields DEF Collectors
<1>8. /\ d.inline = inline /\ d.seen = to /\ d.prefix = c.prefix /\ d.writer = c.writer
      /\ d.truncated = (c.truncated \/ Len(inline) # to)
  BY <1>6
<1>9. ASSUME ~c.truncated, Len(inline) = to
      PROVE  inline = UptoLine(to)
  <2>1. c.inline = UptoLine(c.seen) /\ ShowsUpto(inline, c.seen + k)
    BY <1>5, <1>9 DEF Collects
  <2>2. CASE to >= c.seen
    <3>1. c.seen + k = to
      BY <1>1, <2>2 DEF k
    <3> QED
      BY <1>9, <2>1, <3>1 DEF ShowsUpto
  <2>3. CASE to < c.seen
    <3>1. k = 0
      BY <1>1, <2>3 DEF k
    <3>2. inline = c.inline
      BY <1>1, <1>3, <3>1, ConsumeMany
    <3> QED
      BY <1>1, <1>9, <2>1, <2>3, <3>2 DEF UptoLine
  <2> QED
    BY <1>1, <2>2, <2>3
<1> QED
  BY <1>7, <1>8, <1>9 DEF Collects, d

LEMMA CollectsClosed ==
    ASSUME NEW c, NEW read, Collects(c, read), NEW n \in Nat,
           c.seen = n
    PROVE  LET f == IF c.truncated THEN StartWriter(c) ELSE c
           IN  /\ Collects(f, read)
               /\ f.writer.open = f.truncated
               /\ f.truncated => f.writer.bytes = Chunk(0, read)
               /\ ~f.truncated => f.inline = UptoLine(n)
               /\ c.truncated => f.truncated
<1> DEFINE f == IF c.truncated THEN StartWriter(c) ELSE c
<1>1. c \in Collectors /\ c.truncated \in BOOLEAN /\ c.writer.open \in BOOLEAN
  BY CollectsFields DEF Collects
<1>2. CASE c.truncated
  <2>1. f = StartWriter(c) /\ Collects(f, read) /\ f.writer.open
    BY <1>2, CollectsStart
  <2> HIDE DEF f
  <2>2. f.truncated /\ f.writer.bytes = Chunk(0, read)
    BY <2>1 DEF Collects
  <2>3. f.truncated \in BOOLEAN /\ f.writer.open \in BOOLEAN
    BY <2>1, CollectsFields DEF Collects
  <2>4. f.writer.open = f.truncated
    BY <2>1, <2>2, <2>3
  <2> QED
    BY <2>1, <2>2, <2>4 DEF f
<1>3. CASE ~c.truncated
  <2>1. f = c
    BY <1>3
  <2>2. ~c.writer.open /\ c.inline = UptoLine(n)
    BY <1>3 DEF Collects
  <2> HIDE DEF f
  <2> QED
    BY <1>1, <1>3, <2>1, <2>2 DEF f
<1> QED
  BY <1>2, <1>3

(* How many lines of the diff were read to their end: as many as it has, or fewer.        *)
LEMMA LinesInDiff ==
    ASSUME diff \in Seq(Nat), NEW read \in Nat
    PROVE  LinesIn(read) \in 0..Len(diff)
<1> DEFINE S == {n \in 0..Len(diff) : Bytes(SubSeq(diff, 1, n)) <= read}
<1>1. Len(diff) \in Nat /\ S \subseteq 0..Len(diff)
  OBVIOUS
<1>2. 0 \in S
  <2>1. SubSeq(diff, 1, 0) = <<>>
    BY SubSeqEmpty
  <2>2. Bytes(SubSeq(diff, 1, 0)) <= read
    <3>1. Bytes(SubSeq(diff, 1, 0)) = 0
      BY <2>1, NoBytes
    <3> QED
      BY <3>1
  <2>3. 0 \in 0..Len(diff)
    BY <1>1
  <2> QED
    BY <2>2, <2>3
<1>3. LinesIn(read) = Max(S)
  BY DEF LinesIn
<1> HIDE DEF S
<1>4. Max(S) \in S
  BY <1>1, <1>2, GreatestNumber
<1> QED
  BY <1>1, <1>3, <1>4

LEMMA CollectorAppends ==
    ASSUME diff \in Seq(Nat), git.read \in Nat, Collects(collector, git.read), NEW size \in Nat
    PROVE  Collects(Appended(size), git.read + size)
<1> DEFINE k == Kept(collector, Chunk(git.read, size))
           to == LinesIn(git.read + size)
           c == Consumed(k, to)
<1>1. Collects(k, git.read + size)
  BY CollectsKept
<1>2. to \in Nat
  <2>1. git.read + size \in Nat /\ Len(diff) \in Nat
    OBVIOUS
  <2>2. to \in 0..Len(diff)
    BY <2>1, LinesInDiff
  <2> HIDE DEF to
  <2> QED
    BY <2>1, <2>2
<1> HIDE DEF k, to
<1>3. Collects(c, git.read + size) /\ c.seen = to
  BY <1>1, <1>2, CollectsConsumed
<1> HIDE DEF c
<1>4. Collects(IF c.truncated THEN StartWriter(c) ELSE c, git.read + size)
  BY <1>2, <1>3, CollectsClosed
<1> QED
  BY <1>4 DEF Appended, c, k, to

LEMMA CollectorFinishes ==
    ASSUME diff \in Seq(Nat), git.read \in Nat, Collects(collector, git.read)
    PROVE  /\ Collects(Finished, git.read)
           /\ Finished.writer.open = Finished.truncated
           /\ Finished.truncated => Finished.writer.bytes = Chunk(0, git.read)
           /\ ~Finished.truncated => Finished.inline = UptoLine(Len(diff)) /\ ~collector.truncated
<1> DEFINE c == Consumed(collector, Len(diff))
<1>1. Len(diff) \in Nat
  OBVIOUS
<1>2. Collects(c, git.read) /\ c.seen = Len(diff) /\ (collector.truncated => c.truncated)
  BY <1>1, CollectsConsumed
<1>3. Finished = IF c.truncated THEN StartWriter(c) ELSE c
  BY DEF Finished
<1> HIDE DEF c
<1> QED
  BY <1>1, <1>2, <1>3, CollectsClosed

-----------------------------------------------------------------------------
(* The fields of the records, and that the collector of a call that runs has    *)
(* what was read.                                                      *)
LEMMA VcsFields ==
    ASSUME VcsInv
    PROVE  /\ git = [at |-> git.at, unended |-> git.unended, read |-> git.read, aborted |-> git.aborted]
           /\ git.at \in {"idle", "diff", "ended"} /\ git.unended \in BOOLEAN /\ git.read \in Nat
           /\ git.aborted \in BOOLEAN
           /\ store = [at |-> store.at, left |-> store.left, artifacts |-> store.artifacts]
           /\ store.at \in {"none", "ready", "broken"} /\ store.left \in Nat
           /\ store.artifacts \in Seq(Seq(Nat)) /\ Len(store.artifacts) \in Nat /\ diffs \in Nat
           /\ result = [at |-> result.at, artifact |-> result.artifact]
           /\ result.at \in {"none", "nothing", "failed", "answered", "expired"} /\ result.artifact \in Nat
  BY DEF VcsInv

LEMMA VcsStarts == VcsInit => VcsInv
  BY EmptySeq DEF VcsInit, VcsInv, Idle, NewCollector, NoWriter, NoAnswerYet, Collectors

LEMMA VcsOpens ==
    ASSUME VcsInv, OpenStore
    PROVE  VcsInv'
<1>1. PICK at \in {"ready", "broken"} : store' = [store EXCEPT !.at = at]
  BY DEF OpenStore
<1>2. store' = [at |-> at, left |-> store.left, artifacts |-> store.artifacts]
  BY <1>1, VcsFields
<1>3. /\ store' \in [at : {"none", "ready", "broken"}, left : Nat, artifacts : Seq(Seq(Nat))]
      /\ store'.left = store.left /\ store'.artifacts = store.artifacts
  BY <1>2, VcsFields
<1>4. UNCHANGED <<diff, git, collector, result, diffs>>
  BY DEF OpenStore
<1>5. Output' = Output
  BY <1>4 DEF Output
<1> QED
  BY <1>3, <1>4, <1>5 DEF VcsInv

LEMMA VcsAsks ==
    ASSUME VcsInv, AskForNames
    PROVE  VcsInv'
<1>1. collector' = NewCollector /\ store' = store /\ git.at = "idle" /\ diffs' = diffs + 1
  BY DEF AskForNames, VcsInv
<1>2. collector' \in Collectors /\ Collects(collector', 0)
  <2>1. Chunk(0, 0) = <<>>
    BY ChunkFollows
  <2> QED
    BY <1>1, <2>1, EmptySeq DEF NewCollector, NoWriter, Collectors, Collects, UptoLine
<1>3. CASE /\ diff' \in BoundedSeq(1..MaxLine, MaxLines)
           /\ git' \in [at : {"diff"}, unended : BOOLEAN, read : {0}, aborted : {FALSE}]
           /\ result' = NoAnswerYet
  <2>1. diff' \in Seq(Nat)
    <3>1. PICK n \in 0..MaxLines : diff' \in [1..n -> 1..MaxLine]
      BY <1>3 DEF BoundedSeq, SeqOf
    <3>2. MaxLine \in Nat /\ MaxLines \in Nat
      BY VcsAssumption
    <3> QED
      BY <3>1, <3>2
  <2>2. /\ git' \in [at : {"idle", "diff", "ended"}, unended : BOOLEAN, read : Nat, aborted : BOOLEAN]
        /\ git'.at = "diff" /\ git'.read = 0
    <3>1. PICK unended \in BOOLEAN : git' = [at |-> "diff", unended |-> unended, read |-> 0, aborted |-> FALSE]
      BY <1>3
    <3> QED
      BY <3>1
  <2>3. /\ result' \in [at : {"none", "nothing", "failed", "answered", "expired"}, artifact : Nat]
        /\ result'.at = "none"
    BY <1>3 DEF NoAnswerYet
  <2> QED
    BY <1>1, <1>2, <1>3, <2>1, <2>2, <2>3 DEF VcsInv
<1>4. CASE /\ \E at \in {"nothing", "failed"} : result' = [NoAnswerYet EXCEPT !.at = at]
           /\ diff' = <<>> /\ git' = Idle
  <2>1. /\ result' \in [at : {"none", "nothing", "failed", "answered", "expired"}, artifact : Nat]
        /\ result'.at # "answered"
    BY <1>4 DEF NoAnswerYet
  <2>2. diff' \in Seq(Nat)
    BY <1>4, EmptySeq
  <2>3. /\ git' \in [at : {"idle", "diff", "ended"}, unended : BOOLEAN, read : Nat, aborted : BOOLEAN]
        /\ git'.at = "idle"
    BY <1>4 DEF Idle
  <2> QED
    BY <1>1, <1>2, <2>1, <2>2, <2>3 DEF VcsInv
<1> QED
  BY <1>3, <1>4 DEF AskForNames

LEMMA VcsAborts ==
    ASSUME VcsInv, Abort
    PROVE  VcsInv'
<1>1. git' = [git EXCEPT !.aborted = TRUE] /\ UNCHANGED <<diff, collector, result, store, diffs>>
  BY DEF Abort
<1>2. git' = [at |-> git.at, unended |-> git.unended, read |-> git.read, aborted |-> TRUE]
  BY <1>1, VcsFields
<1>3. /\ git' \in [at : {"idle", "diff", "ended"}, unended : BOOLEAN, read : Nat, aborted : BOOLEAN]
      /\ git'.at = git.at /\ git'.unended = git.unended /\ git'.read = git.read
  BY <1>2, VcsFields
<1>4. Output' = Output
  BY <1>1, <1>3 DEF Output
<1> QED
  BY <1>1, <1>3, <1>4 DEF VcsInv

(* The collector's abort leaves one temporary file at most, and an answer that says so. *)
LEMMA VcsFails ==
    ASSUME VcsInv, NEW opens, CollectorAborts(opens), git.at # "idle"
    PROVE  VcsInv'
<1>1. git' = [at |-> "idle", unended |-> git.unended, read |-> git.read, aborted |-> git.aborted]
  BY VcsFields DEF CollectorAborts
<1>2. result' = [at |-> "failed", artifact |-> 0]
  BY DEF CollectorAborts, NoAnswerYet
<1>3. collector' = [inline |-> collector.inline, seen |-> collector.seen, prefix |-> <<>>,
                    truncated |-> collector.truncated, writer |-> NoWriter]
  <2>1. collector \in Collectors
    BY DEF VcsInv
  <2>2. collector' = [collector EXCEPT !.writer = NoWriter, !.prefix = <<>>]
    BY DEF CollectorAborts
  <2>3. collector = [inline |-> collector.inline, seen |-> collector.seen, prefix |-> collector.prefix,
                     truncated |-> collector.truncated, writer |-> collector.writer]
    BY <2>1, CollectsFields
  <2> QED
    BY <2>2, <2>3
<1>4. collector' \in Collectors
  <2>1. collector \in Collectors
    BY DEF VcsInv
  <2>2. collector.inline \in Seq(Nat) /\ collector.seen \in Nat /\ collector.truncated \in BOOLEAN
    BY <2>1, CollectsFields
  <2> QED
    BY <1>3, <2>2, EmptySeq DEF Collectors, NoWriter
<1>5. /\ git' \in [at : {"idle", "diff", "ended"}, unended : BOOLEAN, read : Nat, aborted : BOOLEAN]
      /\ git'.at = "idle"
  BY <1>1, VcsFields
<1>6. store.left + Len(store.artifacts) + 1 <= diffs
  BY DEF VcsInv
<1>7. /\ store' \in [at : {"none", "ready", "broken"}, left : Nat, artifacts : Seq(Seq(Nat))]
      /\ store'.left + Len(store'.artifacts) <= diffs
  <2>1. CASE store' = store
    BY <1>6, <2>1, VcsFields DEF VcsInv
  <2>2. CASE store' = [store EXCEPT !.left = @ + 1]
    <3>1. store' = [at |-> store.at, left |-> store.left + 1, artifacts |-> store.artifacts]
      BY <2>2, VcsFields
    <3>2. store'.left = store.left + 1 /\ store'.artifacts = store.artifacts
      BY <3>1
    <3>3. store' \in [at : {"none", "ready", "broken"}, left : Nat, artifacts : Seq(Seq(Nat))]
      BY <3>1, VcsFields
    <3> QED
      BY <1>6, <3>2, <3>3, VcsFields
  <2> QED
    BY <2>1, <2>2 DEF CollectorAborts
<1>8. /\ result' \in [at : {"none", "nothing", "failed", "answered", "expired"}, artifact : Nat]
      /\ result'.at # "answered"
  BY <1>2
<1>9. diff' = diff /\ diff \in Seq(Nat) /\ diffs' = diffs /\ diffs \in Nat
  BY DEF CollectorAborts, VcsInv
<1>10. store'.left + Len(store'.artifacts) + 0 <= diffs
  <2>1. store'.left \in Nat /\ Len(store'.artifacts) \in Nat
    BY <1>7
  <2> QED
    BY <1>7, <1>9, <2>1
<1> QED
  BY <1>4, <1>5, <1>7, <1>8, <1>9, <1>10 DEF VcsInv

LEMMA VcsCloses ==
    ASSUME VcsInv, GitCloses
    PROVE  VcsInv'
<1>1. /\ git' = [git EXCEPT !.at = "ended"] /\ UNCHANGED <<diff, collector, result, store, diffs>>
      /\ git.at = "diff" /\ git.read = Output
  BY DEF GitCloses
<1>2. git' = [at |-> "ended", unended |-> git.unended, read |-> git.read, aborted |-> git.aborted]
  BY <1>1, VcsFields
<1>3. /\ git' \in [at : {"idle", "diff", "ended"}, unended : BOOLEAN, read : Nat, aborted : BOOLEAN]
      /\ git'.at = "ended" /\ git'.unended = git.unended /\ git'.read = git.read
  BY <1>2, VcsFields
<1>4. Output' = Output
  BY <1>1, <1>3 DEF Output
<1>5. Collects(collector, git.read) /\ result = NoAnswerYet /\ result.at # "answered"
  BY <1>1 DEF VcsInv, NoAnswerYet
<1> QED
  BY <1>1, <1>3, <1>4, <1>5 DEF VcsInv

LEMMA VcsReads ==
    ASSUME VcsInv, NEW size \in 1..(MaxLines * MaxLine), ReadChunk(size)
    PROVE  VcsInv'
<1>1. /\ git.at = "diff" /\ git' = [git EXCEPT !.read = @ + size] /\ collector' = Appended(size)
      /\ UNCHANGED <<diff, result, store, diffs>>
  BY DEF ReadChunk
<1>2. size \in Nat
  BY VcsAssumption
<1>3. Collects(collector, git.read) /\ result = NoAnswerYet /\ diff \in Seq(Nat)
  BY <1>1 DEF VcsInv
<1>4. git' = [at |-> "diff", unended |-> git.unended, read |-> git.read + size, aborted |-> git.aborted]
  BY <1>1, VcsFields
<1>5. /\ git' \in [at : {"idle", "diff", "ended"}, unended : BOOLEAN, read : Nat, aborted : BOOLEAN]
      /\ git'.at = "diff" /\ git'.read = git.read + size
  BY <1>2, <1>4, VcsFields
<1>6. Collects(collector', git'.read)
  BY <1>1, <1>2, <1>3, <1>5, VcsFields, CollectorAppends
<1>7. collector' \in Collectors
  BY <1>6 DEF Collects
<1>8. store' \in [at : {"none", "ready", "broken"}, left : Nat, artifacts : Seq(Seq(Nat))]
  BY <1>1 DEF VcsInv
<1>9. result' = NoAnswerYet /\ result'.at # "answered"
      /\ result' \in [at : {"none", "nothing", "failed", "answered", "expired"}, artifact : Nat]
  BY <1>1, <1>3 DEF NoAnswerYet
<1> QED
  BY <1>1, <1>3, <1>5, <1>6, <1>7, <1>8, <1>9 DEF VcsInv

LEMMA VcsFinishes ==
    ASSUME VcsInv, Finish
    PROVE  VcsInv'
<1>1. /\ git.at = "ended" /\ git' = [git EXCEPT !.at = "idle"]
      /\ collector' = [Finished EXCEPT !.writer = NoWriter] /\ diff' = diff
  BY DEF Finish
<1>2. Collects(collector, git.read) /\ diff \in Seq(Nat) /\ git.read = Output
  BY <1>1 DEF VcsInv
<1>3. /\ Collects(Finished, git.read)
      /\ Finished.writer.open = Finished.truncated
      /\ Finished.truncated => Finished.writer.bytes = Chunk(0, Output)
      /\ ~Finished.truncated => Finished.inline = UptoLine(Len(diff)) /\ ~collector.truncated
  BY <1>2, VcsFields, CollectorFinishes
<1>4. Finished \in Collectors
  BY <1>3 DEF Collects
<1>5. /\ git' = [at |-> "idle", unended |-> git.unended, read |-> git.read, aborted |-> git.aborted]
  BY <1>1, VcsFields
<1>6. /\ git' \in [at : {"idle", "diff", "ended"}, unended : BOOLEAN, read : Nat, aborted : BOOLEAN]
      /\ git'.at = "idle" /\ git'.unended = git.unended
  BY <1>5, VcsFields
<1>7. Output' = Output /\ diff' \in Seq(Nat) /\ Len(diff') = Len(diff)
  BY <1>1, <1>2, <1>6 DEF Output
<1> DEFINE f == Finished
<1>8. f \in Collectors /\ collector' = [f EXCEPT !.writer = NoWriter]
  BY <1>1, <1>4
<1>9. /\ f.writer.open = f.truncated /\ (f.truncated => f.writer.bytes = Chunk(0, Output))
      /\ (~f.truncated => f.inline = UptoLine(Len(diff)))
  BY <1>3
<1>10. IF f.writer.open
       THEN /\ result' = [at |-> "answered", artifact |-> Len(store.artifacts) + 1]
            /\ store' = [store EXCEPT !.artifacts = Append(@, f.writer.bytes)]
       ELSE /\ result' = [at |-> "answered", artifact |-> 0]
            /\ UNCHANGED store
  BY DEF Finish
<1>15. store.left + Len(store.artifacts) + 1 <= diffs /\ diffs' = diffs
  BY <1>1 DEF VcsInv, Finish
<1> HIDE DEF f
<1>16. collector' = [inline |-> f.inline, seen |-> f.seen, prefix |-> f.prefix,
                     truncated |-> f.truncated, writer |-> NoWriter]
  <2>1. f = [inline |-> f.inline, seen |-> f.seen, prefix |-> f.prefix, truncated |-> f.truncated,
             writer |-> f.writer]
    BY <1>8, CollectsFields
  <2> QED
    BY <1>8, <2>1
<1>11. /\ f.inline \in Seq(Nat) /\ f.seen \in Nat /\ f.prefix \in Seq(Nat) /\ f.truncated \in BOOLEAN
       /\ f.writer.bytes \in Seq(Nat)
  BY <1>8, CollectsFields
<1>12. collector' \in Collectors /\ collector'.truncated = f.truncated /\ collector'.inline = f.inline
  BY <1>11, <1>16, EmptySeq DEF Collectors, NoWriter
<1>13. CASE f.truncated
  <2> DEFINE artifacts == Append(store.artifacts, f.writer.bytes)
  <2>1. /\ result' = [at |-> "answered", artifact |-> Len(store.artifacts) + 1]
        /\ store' = [at |-> store.at, left |-> store.left, artifacts |-> artifacts]
    BY <1>9, <1>10, <1>13, VcsFields
  <2>2. /\ artifacts \in Seq(Seq(Nat)) /\ Len(artifacts) = Len(store.artifacts) + 1
        /\ Len(store.artifacts) + 1 \in DOMAIN artifacts
        /\ artifacts[Len(store.artifacts) + 1] = f.writer.bytes
        /\ Len(store.artifacts) + 1 \in Nat
    BY <1>11, VcsFields
  <2> HIDE DEF artifacts
  <2>3. /\ store' \in [at : {"none", "ready", "broken"}, left : Nat, artifacts : Seq(Seq(Nat))]
        /\ store'.left = store.left /\ store'.artifacts = artifacts
    BY <2>1, <2>2, VcsFields
  <2>4. /\ result' \in [at : {"none", "nothing", "failed", "answered", "expired"}, artifact : Nat]
        /\ result'.artifact = Len(store.artifacts) + 1
    BY <2>1, <2>2
  <2>5. result'.artifact \in DOMAIN store'.artifacts
        /\ store'.artifacts[result'.artifact] = Chunk(0, Output)'
    <3>1. Chunk(0, Output)' = Chunk(0, Output)
      BY <1>7 DEF Chunk
    <3> QED
      BY <1>9, <1>13, <2>2, <2>3, <2>4, <3>1
  <2>6. store'.left + Len(store'.artifacts) + 0 <= diffs'
    BY <1>15, <2>2, <2>3, VcsFields
  <2> QED
    BY <1>6, <1>7, <1>12, <1>13, <1>15, <2>3, <2>4, <2>5, <2>6, VcsFields DEF VcsInv
<1>14. CASE ~f.truncated
  <2>1. result' = [at |-> "answered", artifact |-> 0] /\ store' = store
    BY <1>9, <1>10, <1>14
  <2>2. /\ result' \in [at : {"none", "nothing", "failed", "answered", "expired"}, artifact : Nat]
        /\ result'.artifact = 0
    BY <2>1
  <2>3. collector'.inline = UptoLine(Len(diff'))
    BY <1>7, <1>9, <1>12, <1>14
  <2>4. store'.left + Len(store'.artifacts) + 0 <= diffs'
    BY <1>15, <2>1, VcsFields
  <2> QED
    BY <1>6, <1>7, <1>12, <1>14, <1>15, <2>1, <2>2, <2>3, <2>4, VcsFields DEF VcsInv
<1> QED
  BY <1>11, <1>13, <1>14

LEMMA VcsExpires ==
    ASSUME VcsInv, NEW n, ExpireArtifact(n)
    PROVE  VcsInv'
<1> DEFINE artifacts == [store.artifacts EXCEPT ![n] = <<>>]
           gone == result.artifact = n
<1>1. /\ n \in DOMAIN store.artifacts /\ store' = [store EXCEPT !.artifacts = artifacts]
      /\ result' = [result EXCEPT !.artifact = IF @ = n THEN 0 ELSE @,
                                  !.at = IF gone THEN "expired" ELSE @]
      /\ UNCHANGED <<diff, git, collector, diffs>>
  BY DEF ExpireArtifact
<1>2. /\ artifacts \in Seq(Seq(Nat)) /\ DOMAIN artifacts = DOMAIN store.artifacts
      /\ Len(artifacts) = Len(store.artifacts)
      /\ \A m \in DOMAIN store.artifacts : m # n => artifacts[m] = store.artifacts[m]
      /\ n \in Nat \ {0}
  <2>1. store.artifacts \in Seq(Seq(Nat)) /\ <<>> \in Seq(Nat)
    BY VcsFields, EmptySeq
  <2> QED
    BY <1>1, <2>1
<1> HIDE DEF artifacts
<1>3. store' = [at |-> store.at, left |-> store.left, artifacts |-> artifacts]
  BY <1>1, VcsFields
<1>4. /\ store' \in [at : {"none", "ready", "broken"}, left : Nat, artifacts : Seq(Seq(Nat))]
      /\ store'.left = store.left /\ store'.artifacts = artifacts
  BY <1>2, <1>3, VcsFields
<1>5. Output' = Output
  BY <1>1 DEF Output
<1>8. store'.left + Len(store'.artifacts) + (IF git'.at = "idle" THEN 0 ELSE 1) <= diffs'
  BY <1>1, <1>2, <1>4 DEF VcsInv
<1>6. CASE gone
  <2>1. result' = [at |-> "expired", artifact |-> 0]
    BY <1>1, <1>6, VcsFields
  <2>2. /\ result' \in [at : {"none", "nothing", "failed", "answered", "expired"}, artifact : Nat]
        /\ result'.at # "answered"
    BY <2>1
  <2>3. git.at = "idle"
    BY <1>2, <1>6 DEF VcsInv, NoAnswerYet
  <2> QED
    BY <1>1, <1>4, <1>5, <1>8, <2>2, <2>3 DEF VcsInv
<1>7. CASE ~gone
  <2>1. result' = result
    BY <1>1, <1>7, VcsFields
  <2>2. result.artifact \in DOMAIN store.artifacts => artifacts[result.artifact] = store.artifacts[result.artifact]
    BY <1>2, <1>7
  <2> QED
    BY <1>1, <1>2, <1>4, <1>5, <2>1, <2>2 DEF VcsInv
<1> QED
  BY <1>6, <1>7

LEMMA VcsKeeps ==
    ASSUME VcsInv, [VcsNext]_vcsVars
    PROVE  VcsInv'
<1>1. CASE OpenStore
  BY <1>1, VcsOpens
<1>2. CASE AskForNames
  BY <1>2, VcsAsks
<1>3. CASE Abort
  BY <1>3, VcsAborts
<1>4. CASE ChunkFails
  <2>1. PICK opens \in BOOLEAN : CollectorAborts(opens) /\ git.at = "diff"
    BY <1>4 DEF ChunkFails
  <2> QED
    BY <2>1, VcsFails
<1>5. CASE GitCloses
  BY <1>5, VcsCloses
<1>6. CASE GitFails
  <2>1. CollectorAborts(FALSE) /\ git.at = "diff"
    BY <1>6 DEF GitFails
  <2> QED
    BY <2>1, VcsFails
<1>7. CASE Finish
  BY <1>7, VcsFinishes
<1>8. CASE FinishFails
  <2>1. CollectorAborts(Finished.writer.open) /\ git.at = "ended"
    BY <1>8 DEF FinishFails
  <2> QED
    BY <2>1, VcsFails
<1>9. CASE \E size \in 1..(MaxLines * MaxLine) : ReadChunk(size)
  BY <1>9, VcsReads
<1>10. CASE \E n \in 1..MaxDiffs : ExpireArtifact(n)
  BY <1>10, VcsExpires
<1>11. CASE UNCHANGED vcsVars
  BY <1>11 DEF vcsVars, VcsInv, Collects, Output, Chunk
<1> QED
  BY <1>1, <1>2, <1>3, <1>4, <1>5, <1>6, <1>7, <1>8, <1>9, <1>10, <1>11 DEF VcsNext

LEMMA VcsAlways == VcsSpec => []VcsInv
<1>1. VcsInit => VcsInv
  BY VcsStarts
<1>2. VcsInv /\ [VcsNext]_vcsVars => VcsInv'
  BY VcsKeeps
<1> QED
  BY <1>1, <1>2, PTL DEF VcsSpec

(* An answer that is not truncated shows every line of the diff, in their order, and has  *)
(* no artifact: however git's output was cut into chunks, and whatever the limits.    *)
THEOREM DiffsAreWhole == VcsSpec => []DiffIsWhole
<1>1. VcsInv => DiffIsWhole
  <2> SUFFICES ASSUME VcsInv, result.at = "answered", ~collector.truncated
               PROVE  result.artifact = 0 /\ collector.inline = [n \in DOMAIN diff |-> n]
    BY DEF DiffIsWhole
  <2>1. result.artifact = 0 /\ collector.inline = UptoLine(Len(diff)) /\ diff \in Seq(Nat)
    BY DEF VcsInv
  <2>2. DOMAIN diff = 1..Len(diff)
    BY <2>1
  <2> QED
    BY <2>1, <2>2 DEF UptoLine
<1> QED
  BY <1>1, VcsAlways, PTL

(* A truncated answer has an artifact with every byte that git printed, in its place, until it   *)
(* expires: what was kept inline first, then what was read after it, wherever the artifact was      *)
(* begun.  No call leaves more than one file, its artifact or the temporary one it could not        *)
(* remove.                                                                       *)
THEOREM ArtifactsAreWhole == VcsSpec => []ArtifactIsWhole
<1>1. VcsInv => ArtifactIsWhole
  <2> SUFFICES ASSUME VcsInv
               PROVE  ArtifactIsWhole
    OBVIOUS
  <2>1. store.left + Len(store.artifacts) <= diffs
    <3> DEFINE going == IF git.at = "idle" THEN 0 ELSE 1
    <3>1. store.left + Len(store.artifacts) + going <= diffs /\ going \in {0, 1}
      BY DEF VcsInv
    <3> HIDE DEF going
    <3> QED
      BY <3>1, VcsFields
  <2>2. ASSUME result.at = "answered", collector.truncated
        PROVE  result.artifact # 0 /\ store.artifacts[result.artifact] = Chunk(0, Output)
    <3>1. result.artifact \in DOMAIN store.artifacts /\ store.artifacts[result.artifact] = Chunk(0, Output)
      BY <2>2 DEF VcsInv
    <3>2. DOMAIN store.artifacts = 1..Len(store.artifacts)
      BY VcsFields
    <3> QED
      BY <3>1, <3>2
  <2> QED
    BY <2>1, <2>2 DEF ArtifactIsWhole
<1> QED
  BY <1>1, VcsAlways, PTL

-----------------------------------------------------------------------------
(* The bytes of lines are the fold's: a number, no less than the last line's.       *)
SumSteps(g, lines, k) ==
    [s \in SUBSET (1..k) |-> IF s = {} THEN 0 ELSE g[s \ {Max(s)}] + lines[Max(s)]]

LEMMA SumExists ==
    ASSUME NEW lines, NEW k \in Nat
    PROVE  \E g : g = SumSteps(g, lines, k)
<1> DEFINE None == {n \in Nat : ~ \E g : g = SumSteps(g, lines, n)}
<1>1. SUFFICES ASSUME None # {}
               PROVE  FALSE
  OBVIOUS
<1>2. PICK n \in None : \A m \in None : n <= m
  BY <1>1, LeastNumber
<1>3. n \in Nat /\ ~ \E g : g = SumSteps(g, lines, n)
  OBVIOUS
<1>4. n # 0
  <2> SUFFICES \E g : g = SumSteps(g, lines, 0)
    BY <1>3
  <2> WITNESS [s \in SUBSET (1..0) |-> 0]
  <2> QED
    BY DEF SumSteps
<1>5. n - 1 \in Nat /\ n - 1 \notin None
  BY <1>2, <1>3, <1>4
<1>6. PICK g : g = SumSteps(g, lines, n - 1)
  BY <1>5
<1> HIDE DEF None
<1> DEFINE h == [s \in SUBSET (1..n) |-> IF s = {} THEN 0 ELSE g[s \ {Max(s)}] + lines[Max(s)]]
<1>7. ASSUME NEW s \in SUBSET (1..n), s # {}
      PROVE  h[s \ {Max(s)}] = g[s \ {Max(s)}]
  <2> DEFINE t == s \ {Max(s)}
  <2>1. s \subseteq 0..n
    BY <1>3
  <2>2. Max(s) \in s /\ \A m \in s : Max(s) >= m
    BY <1>3, <1>7, <2>1, GreatestNumber
  <2>3. t \subseteq 1..(n - 1) /\ t \subseteq 1..n
    <3> SUFFICES ASSUME NEW m \in s, m # Max(s)
                 PROVE  m \in 1..(n - 1) /\ m \in 1..n
      OBVIOUS
    <3>1. m \in 1..n /\ Max(s) \in 1..n /\ m <= Max(s)
      BY <2>2
    <3> QED
      BY <1>3, <3>1
  <2> HIDE DEF t
  <2>4. h[t] = IF t = {} THEN 0 ELSE g[t \ {Max(t)}] + lines[Max(t)]
    BY <2>3
  <2>5. g[t] = IF t = {} THEN 0 ELSE g[t \ {Max(t)}] + lines[Max(t)]
    BY <1>6, <2>3 DEF SumSteps
  <2> QED
    BY <2>4, <2>5 DEF t
<1>8. h = SumSteps(h, lines, n)
  BY <1>7 DEF SumSteps
<1> QED
  BY <1>3, <1>8

LEMMA BytesAreSum ==
    ASSUME NEW lines \in Seq(Nat)
    PROVE  \E g : g = SumSteps(g, lines, Len(lines)) /\ Bytes(lines) = g[1..Len(lines)]
<1> DEFINE iter == CHOOSE g : g = [s \in SUBSET (DOMAIN lines) |->
                     IF s = {} THEN 0 ELSE g[s \ {Max(s)}] + lines[Max(s)]]
<1>1. Bytes(lines) = iter[DOMAIN lines]
  BY DEF Bytes, FoldLeft, MapThenFoldSet
<1>2. DOMAIN lines = 1..Len(lines) /\ Len(lines) \in Nat
  OBVIOUS
<1>3. iter = CHOOSE g : g = SumSteps(g, lines, Len(lines))
  BY <1>2 DEF SumSteps
<1>4. iter = SumSteps(iter, lines, Len(lines))
  BY <1>2, <1>3, SumExists
<1> HIDE DEF iter
<1> QED
  BY <1>1, <1>2, <1>4

LEMMA BytesOfLines ==
    ASSUME NEW lines \in Seq(Nat)
    PROVE  /\ Bytes(lines) \in Nat
           /\ Len(lines) > 0 => Bytes(lines) >= lines[Len(lines)]
<1> DEFINE k == Len(lines)
<1>1. k \in Nat /\ \A i \in 1..k : lines[i] \in Nat
  OBVIOUS
<1>2. PICK g : g = SumSteps(g, lines, k) /\ Bytes(lines) = g[1..k]
  BY BytesAreSum
<1> HIDE DEF k
<1>3. ASSUME NEW n \in 1..k
      PROVE  g[1..n] = g[1..(n - 1)] + lines[n]
  <2>1. n \in Nat \ {0}
    BY <1>1, <1>3
  <2>2. 1..n # {}
    BY <2>1
  <2>3. Max(1..n) = n
    BY <2>1, MaxUpto
  <2>4. 1..n \in SUBSET (1..k) /\ (1..n) \ {n} = 1..(n - 1)
    <3>1. 1..n \subseteq 1..k
      BY <1>1
    <3>2. (1..n) \ {n} = 1..(n - 1)
      BY <1>1
    <3> QED
      BY <3>1, <3>2
  <2>5. g[1..n] = IF 1..n = {} THEN 0 ELSE g[(1..n) \ {Max(1..n)}] + lines[Max(1..n)]
    <3>1. \A s \in SUBSET (1..k) : SumSteps(g, lines, k)[s] = IF s = {} THEN 0 ELSE g[s \ {Max(s)}] + lines[Max(s)]
      BY DEF SumSteps
    <3> QED
      BY <1>2, <2>4, <3>1
  <2> QED
    BY <2>2, <2>3, <2>4, <2>5
<1> DEFINE Wrong == {n \in 0..k : g[1..n] \notin Nat}
<1>4. Wrong = {}
  <2> SUFFICES ASSUME Wrong # {}
               PROVE  FALSE
    OBVIOUS
  <2>1. Wrong \subseteq Nat
    BY <1>1
  <2> HIDE DEF Wrong
  <2>2. PICK n \in Wrong : \A m \in Wrong : n <= m
    BY <2>1, LeastNumber
  <2>3. n \in 0..k /\ g[1..n] \notin Nat
    BY <2>2 DEF Wrong
  <2>4. n # 0
    <3>1. 1..0 = {}
      OBVIOUS
    <3>2. g[{}] = 0
      BY <1>2 DEF SumSteps
    <3> QED
      BY <2>3, <3>1, <3>2
  <2>5. n - 1 \notin Wrong /\ n - 1 \in 0..k /\ n \in 1..k
    BY <1>1, <2>2, <2>3, <2>4
  <2>6. g[1..(n - 1)] \in Nat
    BY <2>5 DEF Wrong
  <2> QED
    BY <1>1, <1>3, <2>3, <2>5, <2>6
<1>5. \A n \in 0..k : g[1..n] \in Nat
  BY <1>4
<1> HIDE DEF Wrong
<1>6. Bytes(lines) \in Nat
  BY <1>1, <1>2, <1>5
<1>7. ASSUME k > 0
      PROVE  Bytes(lines) >= lines[k]
  <2>1. k \in 1..k /\ k - 1 \in 0..k
    BY <1>1, <1>7
  <2>2. g[1..k] = g[1..(k - 1)] + lines[k] /\ g[1..(k - 1)] \in Nat /\ lines[k] \in Nat
    BY <1>1, <1>3, <1>5, <2>1
  <2> QED
    BY <1>2, <2>2
<1> QED
  BY <1>6, <1>7 DEF k

(* The lines shown are lines of the diff.                                       *)
LEMMA ConsumeInside ==
    ASSUME NEW m \in Nat, NEW base \in Seq(1..m), NEW seen \in Nat, NEW k \in Nat, seen + k <= m
    PROVE  FoldLeft(ConsumeLine, base, [n \in 1..k |-> seen + n]) \in Seq(1..m)
<1> DEFINE lines == [n \in 1..k |-> seen + n]
<1>1. PICK g : /\ g = LineSteps(g, base, lines, k)
               /\ FoldLeft(ConsumeLine, base, lines) = g[1..k]
  BY FoldSteps
<1> DEFINE Wrong == {i \in 0..k : g[1..i] \notin Seq(1..m)}
<1>2. SUFFICES ASSUME Wrong # {}
               PROVE  FALSE
  <2>1. k \in 0..k /\ k \notin Wrong
    BY <1>2
  <2> QED
    BY <1>1, <2>1
<1>3. PICK n \in Wrong : \A i \in Wrong : n <= i
  <2>1. Wrong \subseteq Nat
    OBVIOUS
  <2> HIDE DEF Wrong
  <2> QED
    BY <1>2, <2>1, LeastNumber
<1>4. n \in 0..k /\ g[1..n] \notin Seq(1..m)
  OBVIOUS
<1>5. n # 0
  <2>1. g[{}] = base
    BY <1>1 DEF LineSteps
  <2>2. 1..0 = {}
    OBVIOUS
  <2> QED
    BY <1>4, <2>1, <2>2
<1>6. n - 1 \in 0..k /\ n - 1 \notin Wrong
  BY <1>3, <1>4, <1>5
<1>7. g[1..(n - 1)] \in Seq(1..m)
  BY <1>6
<1> HIDE DEF Wrong
<1>8. Max(1..n) = n
  <2>1. n \in Nat \ {0}
    BY <1>4, <1>5
  <2> QED
    BY <2>1, MaxUpto
<1>9. g[1..n] = ConsumeLine(g[1..(n - 1)], seen + n)
  <2>1. 1..n \in SUBSET (1..k) /\ 1..n # {} /\ (1..n) \ {n} = 1..(n - 1)
    <3>1. n \in Nat /\ n <= k /\ n \in 1..n
      BY <1>4, <1>5
    <3>2. 1..n \subseteq 1..k
      BY <3>1
    <3>3. (1..n) \ {n} = 1..(n - 1)
      BY <3>1
    <3> QED
      BY <3>1, <3>2, <3>3
  <2>2. g[1..n] = ConsumeLine(g[(1..n) \ {n}], lines[n])
    BY <1>1, <1>8, <2>1 DEF LineSteps
  <2>3. lines[n] = seen + n
    BY <1>4, <1>5
  <2> QED
    BY <2>1, <2>2, <2>3
<1>10. seen + n \in 1..m
  BY <1>4, <1>5
<1> DEFINE before == g[1..(n - 1)]
           line == seen + n
<1>11. g[1..n] = before \/ g[1..n] = Append(before, line)
  BY <1>9 DEF ConsumeLine
<1>12. before \in Seq(1..m) /\ line \in 1..m
  BY <1>7, <1>10
<1> HIDE DEF before, line
<1>13. Append(before, line) \in Seq(1..m)
  BY <1>12
<1> QED
  BY <1>4, <1>11, <1>12, <1>13

-----------------------------------------------------------------------------
(* What a collector keeps is bounded: lines of the diff, and the bytes it may have in    *)
(* memory.                                                              *)
Bounded(c) ==
    /\ c \in Collectors
    /\ c.inline \in Seq(1..Len(diff)) /\ c.seen \in 0..Len(diff) /\ Len(c.prefix) <= InlineBytes

LEMMA BoundedWriter ==
    ASSUME NEW c, Bounded(c)
    PROVE  Bounded(StartWriter(c))
<1>1. /\ c \in Collectors /\ c.inline \in Seq(Nat) /\ c.seen \in Nat /\ c.prefix \in Seq(Nat) /\ c.truncated \in BOOLEAN
      /\ c = [inline |-> c.inline, seen |-> c.seen, prefix |-> c.prefix, truncated |-> c.truncated,
              writer |-> c.writer]
      /\ c.inline \in Seq(1..Len(diff)) /\ c.seen \in 0..Len(diff) /\ Len(c.prefix) <= InlineBytes
  BY CollectsFields DEF Bounded
<1>2. InlineBytes \in Nat
  BY VcsAssumption
<1>3. CASE c.writer.open
  BY <1>1, <1>3 DEF StartWriter, Bounded
<1>4. CASE ~c.writer.open
  <2>1. StartWriter(c) = [c EXCEPT !.writer = [open |-> TRUE, bytes |-> c.prefix], !.prefix = <<>>]
    BY <1>4 DEF StartWriter, WithWriter
  <2>2. StartWriter(c) = [inline |-> c.inline, seen |-> c.seen, prefix |-> <<>>, truncated |-> c.truncated,
                          writer |-> [open |-> TRUE, bytes |-> c.prefix]]
    BY <1>1, <2>1
  <2> DEFINE w == StartWriter(c)
  <2>3. w \in Collectors /\ w.inline = c.inline /\ w.seen = c.seen /\ w.prefix = <<>>
    BY <1>1, <2>2, EmptySeq DEF Collectors
  <2> HIDE DEF w
  <2> QED
    BY <1>1, <1>2, <2>3 DEF Bounded, w
<1> QED
  BY <1>3, <1>4

LEMMA BoundedKept ==
    ASSUME NEW c, Bounded(c), NEW chunk \in Seq(Nat)
    PROVE  Bounded(Kept(c, chunk))
<1>1. /\ c \in Collectors /\ c.inline \in Seq(Nat) /\ c.seen \in Nat /\ c.prefix \in Seq(Nat) /\ c.truncated \in BOOLEAN
      /\ c = [inline |-> c.inline, seen |-> c.seen, prefix |-> c.prefix, truncated |-> c.truncated,
              writer |-> c.writer]
      /\ c.writer \in [open : BOOLEAN, bytes : Seq(Nat)]
      /\ c.inline \in Seq(1..Len(diff)) /\ c.seen \in 0..Len(diff) /\ Len(c.prefix) <= InlineBytes
  BY CollectsFields DEF Bounded, Collectors
<1>3. CASE ~c.writer.open /\ Len(c.prefix) + Len(chunk) <= InlineBytes
  <2> DEFINE d == Kept(c, chunk)
             more == c.prefix \o chunk
  <2>1. d = [c EXCEPT !.prefix = @ \o chunk]
    BY <1>3 DEF Kept
  <2> HIDE DEF d
  <2>2. d = [inline |-> c.inline, seen |-> c.seen, prefix |-> more, truncated |-> c.truncated,
             writer |-> c.writer]
    BY <1>1, <2>1
  <2>3. more \in Seq(Nat) /\ Len(more) <= InlineBytes
    BY <1>1, <1>3
  <2> HIDE DEF more
  <2>4. d \in Collectors /\ d.inline = c.inline /\ d.seen = c.seen /\ d.prefix = more
    BY <1>1, <2>2, <2>3 DEF Collectors
  <2> QED
    BY <1>1, <2>3, <2>4 DEF Bounded, d
<1>4. CASE ~(~c.writer.open /\ Len(c.prefix) + Len(chunk) <= InlineBytes)
  <2> DEFINE late == c.truncated \/ ~c.writer.open
             d == [c EXCEPT !.truncated = late]
             w == StartWriter(d)
             e == Written(d, chunk)
  <2>1. late \in BOOLEAN
    OBVIOUS
  <2>2. Kept(c, chunk) = e
    BY <1>4 DEF Kept
  <2> HIDE DEF late
  <2>3. d = [inline |-> c.inline, seen |-> c.seen, prefix |-> c.prefix, truncated |-> late, writer |-> c.writer]
    <3>1. d = [c EXCEPT !.truncated = late]
      OBVIOUS
    <3> HIDE DEF d
    <3> QED
      BY <1>1, <3>1
  <2> HIDE DEF d
  <2>4. d \in Collectors /\ d.inline = c.inline /\ d.seen = c.seen /\ d.prefix = c.prefix
    BY <1>1, <2>1, <2>3 DEF Collectors
  <2>5. Bounded(w)
    BY <1>1, <2>4, BoundedWriter DEF Bounded
  <2>6. /\ e = [inline |-> w.inline, seen |-> w.seen, prefix |-> w.prefix, truncated |-> w.truncated,
                writer |-> [open |-> w.writer.open, bytes |-> w.writer.bytes \o chunk]]
        /\ e \in Collectors
    BY <2>4, WriterGrows
  <2> HIDE DEF w, e
  <2>7. e.inline = w.inline /\ e.seen = w.seen /\ e.prefix = w.prefix
    BY <2>6
  <2>8. Bounded(e)
    BY <2>5, <2>6, <2>7 DEF Bounded
  <2> QED
    BY <2>2, <2>8
<1> QED
  BY <1>3, <1>4

LEMMA BoundedConsumed ==
    ASSUME diff \in Seq(Nat), NEW c, Bounded(c), NEW to \in 0..Len(diff)
    PROVE  Bounded(Consumed(c, to))
<1> DEFINE k == IF to >= c.seen THEN to - c.seen ELSE 0
           inline == FoldLeft(ConsumeLine, c.inline, [n \in 1..(to - c.seen) |-> c.seen + n])
           d == Consumed(c, to)
<1>1. /\ c \in Collectors /\ c.seen \in Nat /\ c.prefix \in Seq(Nat) /\ c.truncated \in BOOLEAN
      /\ c = [inline |-> c.inline, seen |-> c.seen, prefix |-> c.prefix, truncated |-> c.truncated,
              writer |-> c.writer]
      /\ c.writer \in [open : BOOLEAN, bytes : Seq(Nat)]
      /\ c.inline \in Seq(1..Len(diff)) /\ c.seen \in 0..Len(diff) /\ Len(c.prefix) <= InlineBytes
  BY CollectsFields DEF Bounded, Collectors
<1>2. Len(diff) \in Nat /\ to \in Nat
  OBVIOUS
<1>3. k \in Nat /\ 1..(to - c.seen) = 1..k /\ c.seen + k <= Len(diff)
  BY <1>1, <1>2
<1>4. inline = FoldLeft(ConsumeLine, c.inline, [n \in 1..k |-> c.seen + n])
  BY <1>3
<1>5. d = [c EXCEPT !.seen = to, !.inline = inline, !.truncated = @ \/ Len(inline) # to]
  BY DEF Consumed
<1> HIDE DEF k, inline, d
<1>6. inline \in Seq(1..Len(diff))
  BY <1>1, <1>2, <1>3, <1>4, ConsumeInside
<1>7. inline \in Seq(Nat)
  <2>1. 1..Len(diff) \subseteq Nat
    OBVIOUS
  <2> QED
    BY <1>6, <2>1, SeqMonotonic
<1> DEFINE cut == c.truncated \/ Len(inline) # to
<1>8. d = [inline |-> inline, seen |-> to, prefix |-> c.prefix, truncated |-> cut, writer |-> c.writer]
  BY <1>1, <1>5
<1>9. cut \in BOOLEAN
  OBVIOUS
<1> HIDE DEF cut
<1>10. d \in Collectors /\ d.inline = inline /\ d.seen = to /\ d.prefix = c.prefix
  BY <1>1, <1>2, <1>7, <1>8, <1>9 DEF Collectors
<1> QED
  BY <1>1, <1>6, <1>10 DEF Bounded, d

LEMMA BoundedClosed ==
    ASSUME NEW c, Bounded(c)
    PROVE  Bounded(IF c.truncated THEN StartWriter(c) ELSE c)
<1>1. Bounded(StartWriter(c))
  BY BoundedWriter
<1> QED
  BY <1>1

(* No more is read than git prints, and what is kept is bounded.                      *)
VcsBounds ==
    /\ Output \in Nat /\ git.read \in 0..Output
    /\ Bounded(collector)

(* What the writer has, and what is in the store, stays within the store's limit.       *)
ArtifactBounds ==
    /\ Storable(collector)
    /\ \A n \in DOMAIN store.artifacts : Len(store.artifacts[n]) <= MaxArtifact

LEMMA BoundsHold ==
    ASSUME VcsInv, VcsBounds, [VcsNext]_vcsVars
    PROVE  VcsBounds'
<1>1. diff \in Seq(Nat) /\ git.read \in Nat /\ Bounded(collector) /\ Output \in Nat /\ git.read \in 0..Output
  BY VcsFields DEF VcsInv, VcsBounds
<1>2. ASSUME diff' = diff, collector' = collector, git'.read = git.read, git'.unended = git.unended
      PROVE  VcsBounds'
  BY <1>1, <1>2 DEF VcsBounds, Bounded, Output
<1>3. CASE AskForNames
  <2>1. collector' = NewCollector
    BY <1>3 DEF AskForNames
  <2>2. diff' \in Seq(Nat) /\ Output' \in Nat /\ git'.read = 0
    <3>1. CASE /\ diff' \in BoundedSeq(1..MaxLine, MaxLines)
               /\ git' \in [at : {"diff"}, unended : BOOLEAN, read : {0}, aborted : {FALSE}]
               /\ git'.unended => Len(diff') > 0 /\ Last(diff') > 1
      <4>1. PICK n \in 0..MaxLines : diff' \in [1..n -> 1..MaxLine]
        BY <3>1 DEF BoundedSeq, SeqOf
      <4>2. MaxLine \in Nat /\ MaxLines \in Nat
        BY VcsAssumption
      <4>3. diff' \in Seq(Nat)
        BY <4>1, <4>2
      <4>4. Bytes(diff') \in Nat /\ (Len(diff') > 0 => Bytes(diff') >= diff'[Len(diff')])
        BY <4>3, BytesOfLines
      <4>5. Output' = Bytes(diff') - (IF git'.unended THEN 1 ELSE 0)
        BY DEF Output
      <4>6. CASE git'.unended
        <5>1. Len(diff') > 0 /\ diff'[Len(diff')] > 1
          BY <3>1, <4>6 DEF Last
        <5>2. diff'[Len(diff')] \in Nat
          BY <4>3, <5>1
        <5> QED
          BY <3>1, <4>3, <4>4, <4>5, <4>6, <5>1, <5>2
      <4>7. CASE ~git'.unended
        BY <3>1, <4>3, <4>4, <4>5, <4>7
      <4> QED
        BY <4>6, <4>7
    <3>2. CASE diff' = <<>> /\ git' = Idle
      <4>1. Output' = Bytes(diff') - (IF git'.unended THEN 1 ELSE 0)
        BY DEF Output
      <4>2. Bytes(diff') = 0
        BY <3>2, NoBytes
      <4> QED
        BY <3>2, <4>1, <4>2, EmptySeq DEF Idle
    <3> QED
      BY <1>3, <3>1, <3>2 DEF AskForNames
  <2>3. NewCollector \in Collectors
    BY EmptySeq DEF NewCollector, NoWriter, Collectors
  <2>4. /\ NewCollector.inline = <<>> /\ NewCollector.seen = 0 /\ NewCollector.prefix = <<>>
        /\ InlineBytes \in Nat /\ Len(diff') \in Nat
    BY <2>2, VcsAssumption DEF NewCollector
  <2>5. Bounded(collector)'
    BY <2>1, <2>3, <2>4, EmptySeq DEF Bounded
  <2> QED
    BY <2>2, <2>5 DEF VcsBounds
<1>4. CASE \E size \in 1..(MaxLines * MaxLine) : ReadChunk(size)
  <2>1. PICK size \in 1..(MaxLines * MaxLine) : ReadChunk(size)
    BY <1>4
  <2>2. /\ size \in 1..(Output - git.read) /\ git' = [git EXCEPT !.read = @ + size]
        /\ collector' = Appended(size) /\ diff' = diff /\ size \in Nat
    BY <2>1, VcsAssumption DEF ReadChunk
  <2>3. git'.read = git.read + size /\ git'.unended = git.unended
    <3>1. git = [at |-> git.at, unended |-> git.unended, read |-> git.read, aborted |-> git.aborted]
      BY VcsFields
    <3>2. git' = [at |-> git.at, unended |-> git.unended, read |-> git.read + size, aborted |-> git.aborted]
      BY <2>2, <3>1
    <3> QED
      BY <3>2
  <2>4. Output' = Output
    BY <2>2, <2>3 DEF Output
  <2>5. git.read + size \in Nat /\ git.read + size \in 0..Output
    BY <1>1, <2>2
  <2> DEFINE c == Consumed(Kept(collector, Chunk(git.read, size)), LinesIn(git.read + size))
  <2>6. Bounded(Kept(collector, Chunk(git.read, size)))
    BY <1>1, <2>2, BoundedKept, ChunkFollows
  <2>7. LinesIn(git.read + size) \in 0..Len(diff)
    BY <1>1, <2>5, LinesInDiff
  <2>8. Bounded(c)
    BY <1>1, <2>6, <2>7, BoundedConsumed
  <2>9. Appended(size) = IF c.truncated THEN StartWriter(c) ELSE c
    BY DEF Appended
  <2> HIDE DEF c
  <2>10. Bounded(Appended(size))
    BY <2>8, <2>9, BoundedClosed
  <2>11. Bounded(collector)'
    BY <2>2, <2>10 DEF Bounded
  <2> QED
    BY <1>1, <2>3, <2>4, <2>5, <2>11 DEF VcsBounds
<1>5. CASE \E opens \in BOOLEAN : CollectorAborts(opens)
  <2>1. git' = [at |-> "idle", unended |-> git.unended, read |-> git.read, aborted |-> git.aborted]
    BY <1>5, VcsFields DEF CollectorAborts
  <2>2. /\ diff' = diff
        /\ collector' = [inline |-> collector.inline, seen |-> collector.seen, prefix |-> <<>>,
                         truncated |-> collector.truncated, writer |-> NoWriter]
    <3>1. collector' = [collector EXCEPT !.writer = NoWriter, !.prefix = <<>>] /\ diff' = diff
      BY <1>5 DEF CollectorAborts
    <3>2. collector = [inline |-> collector.inline, seen |-> collector.seen, prefix |-> collector.prefix,
                       truncated |-> collector.truncated, writer |-> collector.writer]
      BY <1>1, CollectsFields DEF Bounded
    <3> QED
      BY <3>1, <3>2
  <2>3. collector.inline \in Seq(Nat) /\ collector.seen \in Nat /\ collector.truncated \in BOOLEAN
    BY <1>1, CollectsFields DEF Bounded
  <2>4. collector' \in Collectors /\ collector'.inline = collector.inline /\ collector'.seen = collector.seen
        /\ collector'.prefix = <<>>
    BY <2>2, <2>3, EmptySeq DEF Collectors, NoWriter
  <2>5. InlineBytes \in Nat
    BY VcsAssumption
  <2>6. Bounded(collector)'
    BY <1>1, <2>2, <2>4, <2>5, EmptySeq DEF Bounded
  <2> QED
    BY <1>1, <2>1, <2>2, <2>6 DEF VcsBounds, Output
<1>6. CASE Finish
  <2>1. /\ git' = [git EXCEPT !.at = "idle"] /\ diff' = diff
        /\ collector' = [Finished EXCEPT !.writer = NoWriter]
    BY <1>6 DEF Finish
  <2>2. git' = [at |-> "idle", unended |-> git.unended, read |-> git.read, aborted |-> git.aborted]
    BY <2>1, VcsFields
  <2> DEFINE c == Consumed(collector, Len(diff))
             f == Finished
  <2>3. Len(diff) \in 0..Len(diff)
    BY <1>1
  <2>4. Bounded(c)
    BY <1>1, <2>3, BoundedConsumed
  <2>5. f = IF c.truncated THEN StartWriter(c) ELSE c
    BY DEF Finished
  <2> HIDE DEF c
  <2>6. Bounded(f)
    BY <2>4, <2>5, BoundedClosed
  <2>7. collector' = [f EXCEPT !.writer = NoWriter]
    BY <2>1
  <2> HIDE DEF f
  <2>8. /\ f = [inline |-> f.inline, seen |-> f.seen, prefix |-> f.prefix, truncated |-> f.truncated,
                writer |-> f.writer]
        /\ f.inline \in Seq(Nat) /\ f.seen \in Nat /\ f.prefix \in Seq(Nat) /\ f.truncated \in BOOLEAN
    BY <2>6, CollectsFields DEF Bounded
  <2>9. collector' = [inline |-> f.inline, seen |-> f.seen, prefix |-> f.prefix, truncated |-> f.truncated,
                      writer |-> NoWriter]
    BY <2>7, <2>8
  <2>10. collector' \in Collectors /\ collector'.inline = f.inline /\ collector'.seen = f.seen
         /\ collector'.prefix = f.prefix
    BY <2>8, <2>9 DEF Collectors, NoWriter
  <2>11. Bounded(collector)'
    BY <2>1, <2>6, <2>10 DEF Bounded
  <2> QED
    BY <1>1, <2>1, <2>2, <2>11 DEF VcsBounds, Output
<1>7. CASE OpenStore
  BY <1>2, <1>7 DEF OpenStore
<1>8. CASE Abort
  <2>1. git' = [git EXCEPT !.aborted = TRUE] /\ diff' = diff /\ collector' = collector
    BY <1>8 DEF Abort
  <2>2. git' = [at |-> git.at, unended |-> git.unended, read |-> git.read, aborted |-> TRUE]
    BY <2>1, VcsFields
  <2> QED
    BY <1>2, <2>1, <2>2
<1>9. CASE GitCloses
  <2>1. git' = [git EXCEPT !.at = "ended"] /\ diff' = diff /\ collector' = collector
    BY <1>9 DEF GitCloses
  <2>2. git' = [at |-> "ended", unended |-> git.unended, read |-> git.read, aborted |-> git.aborted]
    BY <2>1, VcsFields
  <2> QED
    BY <1>2, <2>1, <2>2
<1>10. CASE \E n \in 1..MaxDiffs : ExpireArtifact(n)
  BY <1>2, <1>10 DEF ExpireArtifact
<1>11. CASE UNCHANGED vcsVars
  BY <1>2, <1>11 DEF vcsVars
<1>12. ChunkFails \/ GitFails \/ FinishFails => \E opens \in BOOLEAN : CollectorAborts(opens)
  <2>1. GitFails => CollectorAborts(FALSE)
    BY DEF GitFails
  <2>2. ChunkFails => \E opens \in BOOLEAN : CollectorAborts(opens)
    BY DEF ChunkFails
  <2>3. FinishFails => \E opens \in BOOLEAN : CollectorAborts(opens)
    <3>1. CASE Finished.writer.open
      BY <3>1 DEF FinishFails, CollectorAborts
    <3>2. CASE ~Finished.writer.open
      BY <3>2 DEF FinishFails, CollectorAborts
    <3> QED
      BY <3>1, <3>2
  <2> QED
    BY <2>1, <2>2, <2>3
<1> QED
  BY <1>3, <1>4, <1>5, <1>6, <1>7, <1>8, <1>9, <1>10, <1>11, <1>12 DEF VcsNext

LEMMA ArtifactsHold ==
    ASSUME VcsInv, ArtifactBounds, [VcsNext]_vcsVars
    PROVE  ArtifactBounds'
<1>1. /\ MaxArtifact \in Nat /\ Len(<<>>) = 0
      /\ store = [at |-> store.at, left |-> store.left, artifacts |-> store.artifacts]
      /\ store.artifacts \in Seq(Seq(Nat))
  BY VcsAssumption, VcsFields
<1>2. ASSUME Storable(collector)', store'.artifacts = store.artifacts
      PROVE  ArtifactBounds'
  BY <1>2 DEF ArtifactBounds
<1>3. ASSUME collector'.writer = NoWriter
      PROVE  Storable(collector)'
  BY <1>1, <1>3 DEF Storable, NoWriter
<1>4. CASE OpenStore
  <2>1. PICK at \in {"ready", "broken"} : store' = [store EXCEPT !.at = at]
    BY <1>4 DEF OpenStore
  <2>2. store' = [at |-> at, left |-> store.left, artifacts |-> store.artifacts]
    BY <1>1, <2>1
  <2> QED
    BY <1>2, <1>4, <2>2 DEF OpenStore, ArtifactBounds, Storable
<1>5. CASE AskForNames
  <2>1. collector'.writer = NoWriter /\ store' = store
    BY <1>5 DEF AskForNames, NewCollector
  <2> QED
    BY <1>2, <1>3, <2>1
<1>6. CASE Abort \/ GitCloses \/ UNCHANGED vcsVars
  BY <1>2, <1>6 DEF Abort, GitCloses, vcsVars, ArtifactBounds, Storable
<1>7. CASE ChunkFails \/ GitFails \/ FinishFails
  <2>1. /\ collector' = [collector EXCEPT !.writer = NoWriter, !.prefix = <<>>]
        /\ store' = store \/ store' = [store EXCEPT !.left = @ + 1]
    BY <1>7 DEF ChunkFails, GitFails, FinishFails, CollectorAborts
  <2>2. collector'.writer = NoWriter
    <3>1. collector = [inline |-> collector.inline, seen |-> collector.seen, prefix |-> collector.prefix,
                       truncated |-> collector.truncated, writer |-> collector.writer]
      BY CollectsFields DEF VcsInv
    <3> QED
      BY <2>1, <3>1
  <2>3. store'.artifacts = store.artifacts
    BY <1>1, <2>1
  <2> QED
    BY <1>2, <1>3, <2>2, <2>3
<1>8. CASE \E size \in 1..(MaxLines * MaxLine) : ReadChunk(size)
  BY <1>2, <1>8 DEF ReadChunk, Accepts, Storable
<1>9. CASE Finish
  <2> DEFINE f == Finished
             artifacts == Append(store.artifacts, f.writer.bytes)
  <2>1. /\ Len(f.writer.bytes) <= MaxArtifact /\ collector' = [f EXCEPT !.writer = NoWriter]
        /\ store' = store \/ store' = [store EXCEPT !.artifacts = artifacts]
        /\ git.at = "ended"
    BY <1>9 DEF Finish, Storable
  <2>2. f \in Collectors
    <3>1. Collects(collector, git.read) /\ diff \in Seq(Nat)
      BY <2>1 DEF VcsInv
    <3> QED
      BY <3>1, VcsFields, CollectorFinishes DEF Collects
  <2> HIDE DEF f
  <2>3. collector'.writer = NoWriter
    <3>1. f = [inline |-> f.inline, seen |-> f.seen, prefix |-> f.prefix, truncated |-> f.truncated,
               writer |-> f.writer]
      BY <2>2, CollectsFields
    <3> QED
      BY <2>1, <3>1
  <2>4. Storable(collector)'
    BY <1>3, <2>3
  <2>5. CASE store' = store
    BY <1>2, <2>4, <2>5
  <2>6. CASE store' = [store EXCEPT !.artifacts = artifacts]
    <3>1. f.writer.bytes \in Seq(Nat)
      BY <2>2, CollectsFields
    <3>2. \A n \in DOMAIN artifacts : \/ n \in DOMAIN store.artifacts /\ artifacts[n] = store.artifacts[n]
                                     \/ artifacts[n] = f.writer.bytes
      BY <1>1, <3>1
    <3> HIDE DEF artifacts
    <3>3. store' = [at |-> store.at, left |-> store.left, artifacts |-> artifacts]
      BY <1>1, <2>6
    <3>4. store'.artifacts = artifacts
      BY <3>3
    <3> QED
      BY <2>1, <2>4, <3>2, <3>4 DEF ArtifactBounds
  <2> QED
    BY <2>1, <2>5, <2>6
<1>10. CASE \E n \in 1..MaxDiffs : ExpireArtifact(n)
  <2>1. PICK n \in 1..MaxDiffs : ExpireArtifact(n)
    BY <1>10
  <2> DEFINE artifacts == [store.artifacts EXCEPT ![n] = <<>>]
  <2>2. store' = [store EXCEPT !.artifacts = artifacts] /\ collector' = collector
    BY <2>1 DEF ExpireArtifact
  <2>3. \A m \in DOMAIN artifacts : m \in DOMAIN store.artifacts
                                     /\ (artifacts[m] = store.artifacts[m] \/ artifacts[m] = <<>>)
    BY <1>1
  <2> HIDE DEF artifacts
  <2>4. store' = [at |-> store.at, left |-> store.left, artifacts |-> artifacts]
    BY <1>1, <2>2
  <2>5. store'.artifacts = artifacts
    BY <2>4
  <2> QED
    BY <1>1, <2>2, <2>3, <2>5 DEF ArtifactBounds, Storable
<1> QED
  BY <1>4, <1>5, <1>6, <1>7, <1>8, <1>9, <1>10 DEF VcsNext

(* The types of the call, its collector and the store: no more is read than git prints, the     *)
(* lines that are shown are lines of its diff, what is kept inline and what is in the artifacts  *)
(* and their writer stays within the limits.                                         *)
THEOREM VcsTypes == VcsSpec => []VcsTypeOK
<1>1. VcsInit => VcsBounds
  <2> SUFFICES ASSUME VcsInit
               PROVE  VcsBounds
    OBVIOUS
  <2>1. diff = <<>> /\ git = Idle /\ collector = NewCollector
    BY DEF VcsInit
  <2>2. Output = 0 /\ git.read = 0
    BY <2>1, NoBytes DEF Output, Idle
  <2>3. NewCollector \in Collectors
    BY EmptySeq DEF NewCollector, NoWriter, Collectors
  <2>4. /\ NewCollector.inline = <<>> /\ NewCollector.seen = 0 /\ NewCollector.prefix = <<>>
        /\ InlineBytes \in Nat /\ Len(diff) = 0
    BY <2>1, VcsAssumption DEF NewCollector
  <2>5. Bounded(collector)
    BY <2>1, <2>3, <2>4, EmptySeq DEF Bounded
  <2> QED
    BY <2>2, <2>5 DEF VcsBounds
<1>2. VcsInv /\ VcsBounds /\ [VcsNext]_vcsVars => VcsBounds'
  BY BoundsHold
<1>4. VcsInit => ArtifactBounds
  <2> SUFFICES ASSUME VcsInit
               PROVE  ArtifactBounds
    OBVIOUS
  <2>1. collector.writer = NoWriter /\ store.artifacts = <<>>
    BY DEF VcsInit, NewCollector
  <2>2. Len(<<>>) <= MaxArtifact /\ DOMAIN store.artifacts = {}
    BY <2>1, VcsAssumption
  <2> QED
    BY <2>1, <2>2 DEF ArtifactBounds, Storable, NoWriter
<1>5. VcsInv /\ ArtifactBounds /\ [VcsNext]_vcsVars => ArtifactBounds'
  BY ArtifactsHold
<1>3. VcsInv /\ VcsBounds /\ ArtifactBounds => VcsTypeOK
  <2> SUFFICES ASSUME VcsInv, VcsBounds, ArtifactBounds
               PROVE  VcsTypeOK
    OBVIOUS
  <2>1. /\ diff \in Seq(Nat) /\ collector.inline \in Seq(1..Len(diff))
        /\ collector.seen \in 0..Len(diff) /\ Len(collector.prefix) <= InlineBytes
        /\ collector.truncated \in BOOLEAN /\ git.read \in 0..Output
    BY CollectsFields DEF VcsInv, VcsBounds, Bounded
  <2>2. Range(collector.inline) \subseteq DOMAIN diff
    <3>1. DOMAIN diff = 1..Len(diff)
      BY <2>1
    <3> DEFINE S == 1..Len(diff)
               s == collector.inline
    <3>2. s \in Seq(S)
      BY <2>1
    <3> HIDE DEF S, s
    <3>3. \A i \in DOMAIN s : s[i] \in S
      BY <3>2
    <3> QED
      BY <3>1, <3>3 DEF Range, S, s
  <2> QED
    BY <2>1, <2>2, VcsFields DEF VcsTypeOK, ArtifactBounds
<1> QED
  BY <1>1, <1>2, <1>3, <1>4, <1>5, VcsAlways, PTL DEF VcsSpec
=============================================================================
