------------------------------ MODULE SyncFeed ------------------------------
(***************************************************************************)
(* coord_sync: an agent reads the event log of its project from a cursor,   *)
(* page by page.  The store bounds a page by number and by bytes, the       *)
(* context router picks from it what concerns the agent, within a budget of *)
(* its own, and says how far the agent has read.  Events are about a work   *)
(* item; a context artifact may supersede an earlier one.                   *)
(***************************************************************************)
EXTENDS Naturals, Sequences, FiniteSets, SequencesExt, FiniteSetsExt, Ascending

CONSTANTS
    WorkItems, DependsOn,   \* the work items, and the pairs of the work_dependency rows
    PageEvents, PageBytes,  \* maxEvents and maxBytes of the request
    MaxEvents,              \* bound: events appended
    Sizes                   \* bound: bytes an artifact may have

ASSUME SyncAssumption ==
    /\ IsFiniteSet(WorkItems) /\ DependsOn \subseteq WorkItems \X WorkItems
    /\ PageEvents \in 1..1000 /\ ({PageBytes, MaxEvents} \union Sizes) \subseteq Nat \ {0}

VARIABLES
    log,        \* event_log
    assignee,   \* of each work item
    cursor,     \* sinceSequence of the agent's next request
    got,        \* the sequences of the events the agent was given
    answer,     \* the answer of coord_sync on its way
    due         \* history: the events that concern the agent since they were appended

syncVars == <<log, assignee, cursor, got, answer, due>>

People == {"agent", "other"}
NoAnswer == [at |-> "none", mine |-> {}, through |-> 0, routed |-> {}, more |-> FALSE]

SyncInit ==
    /\ log = <<>>
    /\ assignee = [i \in WorkItems |-> "nobody"]
    /\ cursor = 0 /\ got = {} /\ answer = NoAnswer /\ due = {}

-----------------------------------------------------------------------------
Mine == {i \in WorkItems : assignee[i] = "agent"}
Needed(mine) == {d[2] : d \in {e \in DependsOn : e[1] \in mine}}

(* routeEvent and route: by the agent, about its work, or about what its work needs. *)
Concerns(e, mine) == e.by = "agent" \/ e.item \in mine \union Needed(mine)

(* What concerns the agent stays due while it does.  An event that comes between the two
   reads of a sync is due if it also concerns the rows that the sync has read. *)
Due(e, mine) ==
    {n \in due : Concerns(log[n], mine)}
      \union (IF Concerns(e, mine) /\ (answer.at = "reading" => Concerns(e, answer.mine))
              THEN {Len(log) + 1} ELSE {})

(* appendEventInTransaction with applyEventProjection: the next sequence, and the row. *)
AppendEvent(e, rows) ==
    /\ Len(log) < MaxEvents
    /\ log' = Append(log, e)
    /\ assignee' = rows
    /\ due' = Due(e, {i \in WorkItems : rows[i] = "agent"})
    /\ UNCHANGED <<cursor, got, answer>>

(* A claim that writes: also of an item of somebody else, which a shared claim takes over,
   and one of a blocked item before it is refused. *)
ClaimItem(i, by) ==
    AppendEvent([kind |-> "claimed", by |-> by, item |-> i, size |-> 1, supersedes |-> 0],
                [assignee EXCEPT ![i] = by])

(* publish: an artifact about an item that is the author's or nobody's. *)
PublishArtifact(i, by, size, old) ==
    /\ assignee[i] \in {"nobody", by}
    /\ old = 0 \/ (old \in DOMAIN log /\ log[old].kind = "artifact")
    /\ AppendEvent([kind |-> "artifact", by |-> by, item |-> i, size |-> size, supersedes |-> old], assignee)

(* emitImpact: an intent of another agent affects an item. *)
DetectImpact(i) ==
    AppendEvent([kind |-> "impact", by |-> "other", item |-> i, size |-> 1, supersedes |-> 0], assignee)

-----------------------------------------------------------------------------
(* How many of the sizes, from the first, fit into the budget. *)
Fitting(sizes, budget) ==
    LET total == [n \in 0..Len(sizes) |-> FoldLeft(+, 0, SubSeq(sizes, 1, n))]
    IN  Max({n \in 0..Len(sizes) : total[n] <= budget})

SizesOf(from, to) == [n \in 1..(to - from) |-> log[from + n].size]
Least(a, b) == IF a < b THEN a ELSE b

(* listEvents: the last sequence of the page after the cursor. *)
PageEnd == cursor + Fitting(SizesOf(cursor, Least(Len(log), cursor + PageEvents)), PageBytes)

(* A first event larger than a page makes the request fail, every time. *)
TooLarge == cursor < Len(log) /\ log[cursor + 1].size > PageBytes

Superseded(from, to) == {log[n].supersedes : n \in (from + 1)..to} \ {0}
Picked == {n \in (cursor + 1)..PageEnd :
             /\ Concerns(log[n], answer.mine)
             /\ ~(log[n].kind = "artifact" /\ n \in Superseded(cursor, PageEnd))}

(* route: events are taken in order as long as they fit; the first that does not
   fit ends the answer before it. *)
RouteBytes == PageBytes
Routed == LET order == InOrder(Picked)
          IN  {order[n] : n \in 1..Fitting([n \in DOMAIN order |-> log[order[n]].size], RouteBytes)}
(* The mistake reads past the event that did not fit. *)
ReadAhead == IF PageEnd < Len(log) THEN PageEnd + 1 ELSE PageEnd
ReadThrough == LET left == Picked \ Routed IN IF left = {} THEN PageEnd ELSE Min(left) - 1

(* The daemon's side of coord_sync: what is the agent's is read first, ... *)
ReadRows ==
    /\ answer.at = "none"
    /\ answer' = [NoAnswer EXCEPT !.at = "reading", !.mine = Mine]
    /\ UNCHANGED <<log, assignee, cursor, got, due>>

(* ... and the page of events, which is routed by it, after another await. *)
ReadPage ==
    /\ answer.at = "reading"
    /\ answer' = IF TooLarge THEN [NoAnswer EXCEPT !.at = "failed"]
                 ELSE [NoAnswer EXCEPT !.at = "sent", !.through = ReadThrough, !.routed = Routed,
                                       !.more = PageEnd < Len(log)]
    /\ UNCHANGED <<log, assignee, cursor, got, due>>

ReceiveAnswer ==
    /\ answer.at = "sent"
    /\ got' = got \union answer.routed
    /\ cursor' = answer.through
    /\ answer' = NoAnswer
    /\ UNCHANGED <<log, assignee, due>>

(* The request or its answer is lost, or an error: the agent asks again from the same
   cursor. *)
LoseAnswer ==
    /\ answer.at # "none"
    /\ answer' = NoAnswer
    /\ UNCHANGED <<log, assignee, cursor, got, due>>

SyncNext ==
    \/ \E i \in WorkItems, by \in People :
         \/ ClaimItem(i, by)
         \/ \E size \in Sizes, old \in 0..Len(log) : PublishArtifact(i, by, size, old)
    \/ \E i \in WorkItems : DetectImpact(i)
    \/ ReadRows \/ ReadPage \/ ReceiveAnswer \/ LoseAnswer

SyncSpec == SyncInit /\ [][SyncNext]_syncVars

-----------------------------------------------------------------------------
(* The types of the log, the reader and the answer. *)
SyncTypeOK ==
    /\ \A n \in DOMAIN log : /\ log[n].kind \in {"claimed", "artifact", "impact"}
                             /\ log[n].by \in People /\ log[n].item \in WorkItems
                             /\ log[n].size \in Sizes \union {1} /\ log[n].supersedes \in 0..(n - 1)
    /\ assignee \in [WorkItems -> People \union {"nobody"}]
    /\ cursor \in 0..Len(log) /\ got \subseteq DOMAIN log /\ due \subseteq DOMAIN log
    /\ answer.at \in {"none", "reading", "sent", "failed"} /\ answer.routed \subseteq DOMAIN log
    /\ answer.mine \subseteq WorkItems

(* What concerns the agent from when it was appended on is given to it before its cursor
   passes it, over any pages, budgets and lost answers, unless an artifact of the log
   supersedes it; and the cursor never names an event that is not there yet.  An event
   about an item that is claimed away before the agent has read so far may be passed
   unread, and so may one that a sync finds which had read the rows before the item
   became the agent's. *)
NothingIsSkipped ==
    /\ cursor <= Len(log)
    /\ \A n \in due : n <= cursor => n \in got \/ \E m \in DOMAIN log : log[m].supersedes = n
=============================================================================
