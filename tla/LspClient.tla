----------------------------- MODULE LspClient -----------------------------
(***************************************************************************)
(* The language-server clients of packages/lsp for one registry key: the   *)
(* registry hands a client to each call of an LSP capability, the client    *)
(* starts a server process, opens documents in it, numbers its requests,    *)
(* restarts the process when it closes and shuts it down when it is idle.   *)
(* Data of the protocol are abstract: an answer names the call it is for.   *)
(* Timers may fire at any time after they are set.                          *)
(***************************************************************************)
EXTENDS Naturals, FiniteSets, FiniteSetsExt

CONSTANTS
    Queries,          \* the calls of LSP capabilities
    Document,       \* the document each call is about, as a function
    Diagnosing,     \* the calls of lsp_diagnostics; the others navigate
    MaxClients,     \* bound: the clients the registry may create for the key
    MaxServers,     \* bound: the processes that may be spawned
    MaxRestarts     \* LSP_MAX_RESTARTS

ASSUME LspAssumption ==
    /\ IsFiniteSet(Queries) /\ Diagnosing \subseteq Queries
    /\ Document \in [Queries -> {Document[k] : k \in Queries}]
    /\ {MaxClients, MaxServers, MaxRestarts} \subseteq Nat \ {0}

VARIABLES
    client,     \* the LspClient objects made for the key
    server,     \* the processes spawned for them
    current,    \* registry.clients: the client under the key, or 0
    starting,   \* registry.starting: the client whose start is awaited, or 0
    call        \* what each call is waiting for, and the answer it was given

lspVars == <<client, server, current, starting, call>>

Docs == {Document[k] : k \in Queries}
Clients == 1..MaxClients
Servers == 1..MaxServers
LspState == {"STOPPED", "STARTING", "READY", "DEGRADED", "RESTARTING", "STOPPING"}

NewClient == [state |-> "STOPPED", proc |-> 0, killed |-> FALSE, restarts |-> 0,
              timer |-> FALSE, byTimer |-> FALSE, nextId |-> 1, pending |-> {},
              opened |-> {}, pushed |-> {}, waiters |-> {}, residue |-> FALSE]
NewServer == [life |-> "unused", owner |-> 0, known |-> {}, requests |-> {}]

LspInit ==
    /\ client = [c \in Clients |-> NewClient]
    /\ server = [p \in Servers |-> NewServer]
    /\ current = 0 /\ starting = 0
    /\ call = [k \in Queries |-> [pc |-> "idle", client |-> 0, got |-> {}]]

-----------------------------------------------------------------------------
(* LspClient.running, for a client r among the processes s.                 *)
Running(r, s) == r.proc # 0 /\ ~r.killed /\ s[r.proc].life = "running"

(* The number of a request; the mistake counts the open ones. *)
UsedAgain(r) == Cardinality(r.pending) + 1
RequestId(r) == r.nextId

(* request(): the request is numbered, remembered and written, if the server runs. *)
Asking(r, s, kind, who) ==
    LET q == [id |-> RequestId(r), kind |-> kind, who |-> who]
    IN  IF Running(r, s)
        THEN <<[r EXCEPT !.nextId = @ + 1, !.pending = @ \union {q}],
               [s EXCEPT ![r.proc].requests = @ \union {q}]>>
        ELSE <<[r EXCEPT !.nextId = @ + 1], s>>

(* forceKill: the process is killed and forgotten. *)
Killed(r) == [r EXCEPT !.killed = TRUE, !.state = "STOPPED", !.proc = 0]
AfterKill(r, s) ==
    IF r.proc # 0 /\ s[r.proc].life = "running"
    THEN [s EXCEPT ![r.proc].life = "exited"] ELSE s

(* The end of start() when initialize is rejected; the timer's catch follows. *)
StartFailed(r) == [Killed(r) EXCEPT !.state = IF r.byTimer THEN "DEGRADED" ELSE @]

Kinds(r) == {q.kind : q \in r.pending}

(* What rejecting the requests qs makes of the client, once the handler that
   rejects them has left it as r. *)
Rejecting(r, qs) ==
    LET left == [r EXCEPT !.pending = @ \ qs]
        kinds == {q.kind : q \in qs}
    IN  IF "init" \in kinds THEN StartFailed(left)
        ELSE IF "stop" \in kinds THEN [left EXCEPT !.state = "STOPPED"]
        ELSE left
ProcsAfter(r, s, qs) == IF \E q \in qs : q.kind = "init" THEN AfterKill(r, s) ELSE s

StartEnds(c, qs) == starting = c /\ \E q \in qs : q.kind = "init"
Starters == {k \in Queries : call[k].pc = "starting"}

OnlyItsQueries(c, qs) == {q.who : q \in {x \in qs : x.kind = "query"}}
(* The calls that fail when the requests qs of client c are rejected. *)
Failing(c, qs) == {q.who : q \in {x \in qs : x.kind = "query"}}
                  \union (IF StartEnds(c, qs) THEN Starters ELSE {})

CallsFail(ks) == call' = [k \in Queries |-> IF k \in ks THEN [call[k] EXCEPT !.pc = "failed"] ELSE call[k]]

(* The requests qs of client c are rejected, after a handler that leaves it as r. *)
Reject(c, r, qs, s) ==
    /\ client' = [client EXCEPT ![c] = Rejecting(r, qs)]
    /\ server' = ProcsAfter(r, s, qs)
    /\ starting' = IF StartEnds(c, qs) THEN 0 ELSE starting
    /\ CallsFail(Failing(c, qs))
    /\ UNCHANGED current

-----------------------------------------------------------------------------
Unused == {p \in Servers : server[p].life = "unused"}

(* start() up to its first await: spawn a process and ask it to initialize. *)
Started(c, r, byTimer) ==
    LET p == Min(Unused)
    IN  Asking([r EXCEPT !.state = "STARTING", !.killed = FALSE, !.proc = p, !.byTimer = byTimer],
               [server EXCEPT ![p].life = "running", ![p].owner = c], "init", 0)

Goes(k, pc, c) == call' = [call EXCEPT ![k].pc = pc, ![k].client = c]

(* getClient: a running client is used, a pending start is joined... *)
UseClient(k) ==
    /\ call[k].pc = "idle" /\ current # 0
    /\ Running(client[current], server)
    /\ Goes(k, "entering", current)
    /\ UNCHANGED <<client, server, current, starting>>

JoinStart(k) ==
    /\ call[k].pc = "idle" /\ starting # 0
    /\ ~Running(client[current], server)
    /\ Goes(k, "starting", starting)
    /\ UNCHANGED <<client, server, current, starting>>

NeedsClient(k) ==
    /\ call[k].pc = "idle" /\ starting = 0 /\ current < MaxClients
    /\ current # 0 => ~Running(client[current], server)

(* ... and otherwise a new client replaces the one under the key. *)
CreateClient(k) ==
    /\ NeedsClient(k) /\ Unused # {}
    /\ LET c == current + 1
           started == Started(c, client[c], FALSE)
       IN  /\ client' = [client EXCEPT ![c] = started[1]]
           /\ server' = started[2]
           /\ current' = c /\ starting' = c
           /\ Goes(k, "starting", c)

SpawnFails(k) ==
    /\ NeedsClient(k)
    /\ current' = current + 1
    /\ Goes(k, "failed", current + 1)
    /\ UNCHANGED <<client, server, starting>>

-----------------------------------------------------------------------------
(* What follows openDocument: a query is sent, or diagnostics are waited for. *)
Proceed(k, r, s) ==
    LET c == call[k].client
        asked == Asking(r, s, "query", k)
    IN  IF k \in Diagnosing
        THEN /\ client' = [client EXCEPT ![c] = IF Document[k] \in r.pushed THEN r
                                                ELSE [r EXCEPT !.waiters = @ \union {k}]]
             /\ server' = s
             /\ Goes(k, IF Document[k] \in r.pushed THEN "done" ELSE "waiting", c)
        ELSE /\ client' = [client EXCEPT ![c] = asked[1]]
             /\ server' = asked[2]
             /\ Goes(k, IF Running(r, s) THEN "asked" ELSE "failed", c)

(* openDocument: a document not yet opened is read first, and not marked before. *)
MarkedAtOnce(r, d) == [r EXCEPT !.opened = @ \union {d}]
MarkedOpen(r, d) == r

OpenDocument(k) ==
    LET c == call[k].client
    IN  /\ call[k].pc = "entering"
        /\ IF Document[k] \in client[c].opened
           THEN Proceed(k, client[c], server)
           ELSE /\ client' = [client EXCEPT ![c] = MarkedOpen(client[c], Document[k])]
                /\ Goes(k, "reading", c)
                /\ UNCHANGED server
        /\ UNCHANGED <<current, starting>>

(* The text is read: didOpen is sent (to a server that runs), and the document marked. *)
FileRead(k) ==
    LET c == call[k].client
        d == Document[k]
        r == client[c]
    IN  /\ call[k].pc = "reading"
        /\ Proceed(k, [r EXCEPT !.opened = @ \union {d}],
                   IF Running(r, server) THEN [server EXCEPT ![r.proc].known = @ \union {d}] ELSE server)
        /\ UNCHANGED <<current, starting>>

(* One waiter's timer drops every waiter of its document; the others keep their timers. *)
WaitTimesOut(k) ==
    LET c == call[k].client
    IN  /\ call[k].pc = "waiting"
        /\ client' = [client EXCEPT ![c].waiters = {w \in @ : Document[w] # Document[k]}]
        /\ Goes(k, "done", c)
        /\ UNCHANGED <<server, current, starting>>

-----------------------------------------------------------------------------
Speaking(p) == server[p].life \in {"running", "exited"}

(* handleMessage of an answer: the pending request of that number is resolved. *)
Resolve(c, r, q, e, s) ==
    /\ client' = [client EXCEPT ![c] =
                    CASE e.kind = "init" -> [r EXCEPT !.pending = @ \ {e}, !.state = "READY"]
                      [] e.kind = "stop" -> [r EXCEPT !.pending = @ \ {e}, !.state = "STOPPED"]
                      [] OTHER -> [r EXCEPT !.pending = @ \ {e}]]
    /\ server' = s
    /\ starting' = IF StartEnds(c, {e}) THEN 0 ELSE starting
    /\ call' = [k \in Queries |->
                  IF e.kind = "query" /\ e.who = k THEN [call[k] EXCEPT !.pc = "done", !.got = {q.who}]
                  ELSE IF StartEnds(c, {e}) /\ k \in Starters THEN [call[k] EXCEPT !.pc = "entering"]
                  ELSE call[k]]
    /\ UNCHANGED current

(* A frame that cannot be decoded: everything pending is rejected, the server killed. *)
FrameError(c, r, s) ==
    Reject(c, [Killed(r) EXCEPT !.state = "DEGRADED"], r.pending, AfterKill(r, s))

(* onData with a whole answer. Behind a partial frame of an earlier process the
   bytes are taken for the rest of it: the answer is lost, or the decoder fails. *)
Answer(p, q, ok) ==
    LET c == server[p].owner
        r == client[c]
        s == [server EXCEPT ![p].requests = @ \ {q}]
        es == {e \in r.pending : e.id = q.id}
    IN  /\ Speaking(p) /\ q \in server[p].requests
        /\ \/ /\ r.residue
              /\ \/ FrameError(c, r, s)
                 \/ \E rest \in BOOLEAN : client' = [client EXCEPT ![c].residue = rest]
                    /\ server' = s /\ UNCHANGED <<current, starting, call>>
           \/ /\ ~r.residue /\ es = {}
              /\ server' = s /\ UNCHANGED <<client, current, starting, call>>
           \/ /\ ~r.residue
              /\ \E e \in es : IF ok THEN Resolve(c, r, q, e, s) ELSE Reject(c, r, {e}, s)

(* publishDiagnostics of a document the server was told of: its waiters go on. *)
PublishDiagnostics(p, d) ==
    LET c == server[p].owner
        told == {k \in client[c].waiters : Document[k] = d}
    IN  /\ Speaking(p) /\ d \in server[p].known /\ ~client[c].residue
        /\ d \notin client[c].pushed
        /\ client' = [client EXCEPT ![c].pushed = @ \union {d}, ![c].waiters = @ \ told]
        /\ call' = [k \in Queries |-> IF k \in told THEN [call[k] EXCEPT !.pc = "done"] ELSE call[k]]
        /\ UNCHANGED <<server, current, starting>>

BadFrame(p) ==
    /\ Speaking(p) /\ ~client[server[p].owner].killed
    /\ FrameError(server[p].owner, client[server[p].owner], server)

(* The process ends, perhaps in the middle of a frame; its pipes close later. *)
Exit(p) ==
    /\ server[p].life = "running"
    /\ server' = [server EXCEPT ![p].life = "exited"]
    /\ \E cut \in BOOLEAN : client' = [client EXCEPT ![server[p].owner].residue = @ \/ cut]
    /\ UNCHANGED <<current, starting, call>>

(* handleProcessExit, on "close": it does not ask which process has closed. *)
AfterClose(r) ==
    IF r.state = "STOPPING" \/ r.killed THEN [r EXCEPT !.state = "STOPPED"]
    ELSE IF r.state \in {"READY", "STARTING"} /\ r.restarts < MaxRestarts
    THEN [r EXCEPT !.state = "RESTARTING", !.restarts = @ + 1, !.timer = TRUE]
    ELSE [r EXCEPT !.state = IF r.restarts >= MaxRestarts THEN "DEGRADED" ELSE "STOPPED"]

Close(p) ==
    LET c == server[p].owner
    IN  /\ server[p].life = "exited"
        /\ Reject(c, AfterClose(client[c]), client[c].pending,
                  [server EXCEPT ![p].life = "closed", ![p].known = {}, ![p].requests = {}])

-----------------------------------------------------------------------------
RequestTimesOut(c, q) ==
    /\ q \in client[c].pending
    /\ Reject(c, client[c], {q}, server)

(* The timer set by handleProcessExit calls start(), whatever has happened since. *)
Restart(c) ==
    /\ client[c].timer
    /\ LET r == [client[c] EXCEPT !.timer = FALSE]
           started == Started(c, r, TRUE)
       IN  \/ /\ Unused # {}
              /\ client' = [client EXCEPT ![c] = started[1]]
              /\ server' = started[2]
           \/ client' = [client EXCEPT ![c] = [r EXCEPT !.state = "DEGRADED", !.killed = FALSE]]
              /\ UNCHANGED server
    /\ UNCHANGED <<current, starting, call>>

(* shutdownAndExit, from the idle timer: nothing has been asked for 30 s. *)
IdleShutdown(c) ==
    LET r == [client[c] EXCEPT !.state = "STOPPING"]
        asked == Asking(r, server, "stop", 0)
    IN  /\ client[c].state = "READY" /\ client[c].pending = {} /\ client[c].waiters = {}
        /\ client' = [client EXCEPT ![c] = IF Running(r, server) THEN asked[1]
                                           ELSE [asked[1] EXCEPT !.state = "STOPPED"]]
        /\ server' = asked[2]
        /\ UNCHANGED <<current, starting, call>>

LspNext ==
    \/ \E k \in Queries : \/ UseClient(k) \/ JoinStart(k) \/ CreateClient(k) \/ SpawnFails(k)
                        \/ OpenDocument(k) \/ FileRead(k) \/ WaitTimesOut(k)
    \/ \E p \in Servers : \/ \E q \in server[p].requests, ok \in BOOLEAN : Answer(p, q, ok)
                          \/ \E d \in Docs : PublishDiagnostics(p, d)
                          \/ BadFrame(p) \/ Exit(p) \/ Close(p)
    \/ \E c \in Clients : \/ \E q \in client[c].pending : RequestTimesOut(c, q)
                          \/ Restart(c) \/ IdleShutdown(c)

LspSpec == LspInit /\ [][LspNext]_lspVars

(* Timers fire and files are read; nothing is assumed of a server. *)
LspTimers == \/ \E k \in Queries : OpenDocument(k) \/ FileRead(k) \/ WaitTimesOut(k)
             \/ \E c \in Clients : \E q \in client[c].pending : RequestTimesOut(c, q)
LspFairSpec == LspSpec /\ WF_lspVars(LspTimers)

-----------------------------------------------------------------------------
Request == [id : Nat, kind : {"init", "query", "stop"}, who : Queries \union {0}]

ClientRecords ==
    [state : LspState, proc : Servers \union {0}, killed : BOOLEAN, restarts : 0..MaxRestarts,
     timer : BOOLEAN, byTimer : BOOLEAN, nextId : Nat, pending : SUBSET Request, opened : SUBSET Docs,
     pushed : SUBSET Docs, waiters : SUBSET Queries, residue : BOOLEAN]
ServerRecords ==
    [life : {"unused", "running", "exited", "closed"}, owner : Clients \union {0},
     known : SUBSET Docs, requests : SUBSET Request]
CallRecords ==
    [pc : {"idle", "starting", "entering", "reading", "asked", "waiting", "done", "failed"},
     client : Clients \union {0}, got : SUBSET (Queries \union {0})]

(* The types of clients, processes and calls. *)
LspTypeOK ==
    /\ client \in [Clients -> ClientRecords] /\ server \in [Servers -> ServerRecords]
    /\ current \in Clients \union {0} /\ starting \in {0, current}
    /\ call \in [Queries -> CallRecords]

(* A call is never given the answer to another request, also when answers come
   out of order, after a timeout, or from a process that has been replaced
   (client.ts: the ids of request and the table of handleMessage). *)
AnswersAreOwn == \A k \in Queries : call[k].got \subseteq {k}

(* A query reaches a server only behind the didOpen of its document, unless its
   client has replaced its process: openDocument marks a document when the
   notification is written and not while the file is being read. *)
QueriesFollowOpen ==
    \A p \in Servers : \A q \in server[p].requests :
        q.kind = "query" /\ client[server[p].owner].restarts = 0
            => Document[q.who] \in server[p].known

(* Every call that was begun ends, with an answer or an error, whatever the
   server does: each await of the client has a timer or a rejection. *)
CallsSettle ==
    \A k \in Queries : call[k].pc # "idle" ~> call[k].pc \in {"done", "failed"}
=============================================================================
