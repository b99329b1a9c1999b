---------------------------- MODULE TheaterFeed ----------------------------
(***************************************************************************)
(* The live view of a project: the event log, the daemon's pages of it, the *)
(* portal that renders the theater and streams events to it, and the page   *)
(* in the browser with its cursor, its list of events and its graph.        *)
(*                                                                          *)
(* An event is told apart by the graph it belongs to and by what the page   *)
(* does on it; a graph by its kind and by the length of the log when it was *)
(* read.  The portal was started before the first event.  Every event fits  *)
(* into a page.                                                             *)
(***************************************************************************)
EXTENDS Naturals, Sequences, FiniteSets

CONSTANTS
    MaxLog,       \* bound: the length of the event log
    PageLength,   \* how many events the limits in number and in bytes let into
                  \* the page that starts after each sequence number
    MaxMoves,     \* bound: the events and what the user does, together
    MaxBreaks     \* bound: how often a stream is lost

Sequence == 1 .. MaxLog
Cursor == 0 .. MaxLog

ASSUME FeedAssumption ==
    /\ MaxLog \in Nat /\ MaxMoves \in Nat /\ MaxBreaks \in Nat
    /\ PageLength \in [Cursor -> Nat \ {0}]

VARIABLES
    log,          \* the event of each sequence number
    head,         \* the last sequence number given
    phase,        \* reading or rendering in the portal, then live or replay
    kind,         \* the kind of graph the page is about
    cursor,       \* the page's lastSequence
    since,        \* history: the cursor when the page turned to this kind
    listed,       \* how often each event is in the page's list
    graph,        \* the graph on display
    persisted,    \* the cursor in the session storage of the browser
    source,       \* whether the page has an event source
    timer,        \* whether the page has a reconnection pending
    after,        \* the stream's cursor in the portal
    channel,      \* the messages of the stream on their way to the page
    fetches,      \* the graph requests of the page that are not settled
    disturbed,    \* history: a graph request has failed or was overtaken
    clicks, breaks

log_vars == <<log, head>>
stream_vars == <<source, timer, after, channel>>
page_vars == <<phase, kind, cursor, since, listed, graph>>
vars == <<log_vars, stream_vars, page_vars, persisted, fetches, disturbed, clicks, breaks>>

Kinds == {"work", "code"}

(* A change of the work graph's structure, another work event, a code event of *)
(* the portal's worktree and one of another worktree.                          *)
Events == {"change", "cue", "code", "foreign"}
KindOf(e) == IF e \in {"change", "cue"} THEN "work" ELSE "code"
Structural(e) == e = "change"

(* A request of the page, and once the daemon has read the graph, its version. *)
Request == [why : {"refresh", "switch"}, id : Nat, kind : Kinds, read : BOOLEAN,
            version : Cursor]
Asked(w, i, k) == [why |-> w, id |-> i, kind |-> k, read |-> FALSE, version |-> 0]

(* The graph the portal read when it started.                              *)
InitialGraph == [kind |-> "code", version |-> 0]

Init ==
    /\ log = [n \in Sequence |-> "none"] /\ head = 0
    /\ phase = "reading"
    /\ kind = "work" /\ cursor = 0 /\ since = 0
    /\ listed = [n \in Sequence |-> 0]
    /\ graph = InitialGraph
    /\ persisted = 0
    /\ source = FALSE /\ timer = FALSE /\ after = 0 /\ channel = <<>>
    /\ fetches = {} /\ disturbed = FALSE
    /\ clicks = 0 /\ breaks = 0

WithinMoves == head + clicks < MaxMoves

(***************************************************************************)
(* The log and its pages.                                                  *)
(***************************************************************************)
AppendEvent(e) ==
    /\ head < MaxLog /\ WithinMoves
    /\ head' = head + 1
    /\ log' = [log EXCEPT ![head + 1] = e]
    /\ UNCHANGED <<stream_vars, page_vars, persisted, fetches, disturbed, clicks, breaks>>

(* What a query by kind finds after a cursor, and the part of it one page holds. *)
Found(k, a) == {n \in Sequence : a < n /\ n <= head /\ KindOf(log[n]) = k}
Page(k, a) ==
    {n \in Found(k, a) : Cardinality({m \in Found(k, a) : m <= n}) <= PageLength[a]}

LastOf(S) == CHOOSE n \in S : \A m \in S : m <= n

(* The page ends at its last event; and the mistake of naming the next one.    *)
OneFurther(k, a) == IF Page(k, a) = {} THEN a ELSE LastOf(Page(k, a)) + 1
Through(k, a) == IF Page(k, a) = {} THEN a ELSE LastOf(Page(k, a))

(* The daemon takes the events of other worktrees out of the page it has read. *)
Kept(k, a) == {n \in Page(k, a) : log[n] # "foreign"}

HasMore(k, a) == Page(k, a) # Found(k, a)

(***************************************************************************)
(* The portal renders the page: first the events, page by page, then the   *)
(* graph.  Either read may fail.                                           *)
(***************************************************************************)
ReadEvents ==
    /\ phase = "reading"
    /\ listed' = [n \in Sequence |-> IF n \in Kept("work", cursor) THEN 1 ELSE 0]
    /\ cursor' = Through("work", cursor)
    /\ phase' = IF HasMore("work", cursor) THEN "reading" ELSE "rendering"
    /\ UNCHANGED <<log_vars, stream_vars, kind, since, graph, persisted, fetches, disturbed,
                   clicks, breaks>>

ReadEventsFails ==
    /\ phase = "reading"
    /\ phase' = "rendering"
    /\ UNCHANGED <<log_vars, stream_vars, kind, cursor, since, listed, graph, persisted,
                   fetches, disturbed, clicks, breaks>>

(* A source that is closed delivers nothing, whatever is still on its way; or  *)
(* what is on its way is handled all the same.                                 *)
LateMessages == channel
NoMessages == <<>>

Connect(c) ==
    /\ source' = TRUE
    /\ timer' = FALSE
    /\ after' = c
    /\ channel' = NoMessages

Disconnect(reconnect) ==
    /\ source' = FALSE
    /\ timer' = reconnect
    /\ channel' = NoMessages
    /\ UNCHANGED after

(* The page resumes from the stored cursor if that is further; or from the     *)
(* cursor it came with.                                                        *)
FrameCursor == cursor
Restored == IF persisted > cursor THEN persisted ELSE cursor

(* The page opens with the graph it came with and connects.                *)
Open(g) ==
    /\ phase = "rendering"
    /\ phase' = "live"
    /\ graph' = g
    /\ cursor' = Restored
    /\ since' = Restored
    /\ Connect(Restored)
    /\ UNCHANGED <<log_vars, kind, listed, persisted, fetches, clicks, breaks>>

OpenPage == Open([kind |-> "work", version |-> head]) /\ UNCHANGED disturbed

(* Without a graph of the work the page gets the one the portal started with. *)
OpenPageWithInitialGraph ==
    /\ Open(InitialGraph)
    /\ disturbed' = TRUE

(***************************************************************************)
(* The stream.  The portal polls from its own cursor and sends what a poll  *)
(* has brought; a poll that brings nothing moves nothing.  A stream is      *)
(* opened again whenever the page turns to another kind, so that its kind   *)
(* is the page's.                                                           *)
(***************************************************************************)
Poll ==
    /\ source
    /\ Kept(kind, after) # {}
    /\ channel' = Append(channel, [events |-> Kept(kind, after), through |-> Through(kind, after)])
    /\ after' = Through(kind, after)
    /\ UNCHANGED <<log_vars, page_vars, source, timer, persisted, fetches, disturbed, clicks,
                   breaks>>

(* A batch with any structural event asks for a new graph; or one that ends    *)
(* with one.                                                                   *)
EndsStructural(batch) == Structural(log[LastOf(batch)])
HasStructural(batch) == \E n \in batch : Structural(log[n])

Receive ==
    /\ phase = "live"
    /\ channel # <<>>
    /\ LET m == Head(channel) IN
          /\ listed' = [n \in Sequence |->
                            IF n \in m.events THEN listed[n] + 1 ELSE listed[n]]
          /\ cursor' = m.through
          /\ persisted' = m.through
          /\ fetches' =
                IF HasStructural(m.events)
                THEN fetches \cup {Asked("refresh", m.through, kind)}
                ELSE fetches
    /\ channel' = Tail(channel)
    /\ UNCHANGED <<log_vars, phase, kind, since, graph, source, timer, after, disturbed,
                   clicks, breaks>>

(* On an error the page closes the source and sets a timer; or leaves it at that. *)
GivesUp == Disconnect(FALSE)
TriesAgain == Disconnect(TRUE)

StreamBreaks ==
    /\ source
    /\ breaks < MaxBreaks
    /\ breaks' = breaks + 1
    /\ TriesAgain
    /\ UNCHANGED <<log_vars, page_vars, persisted, fetches, disturbed, clicks>>

Reconnect ==
    /\ timer
    /\ Connect(cursor)
    /\ UNCHANGED <<log_vars, page_vars, persisted, fetches, disturbed, clicks, breaks>>

(***************************************************************************)
(* Graph requests of the page.                                             *)
(***************************************************************************)
ReadGraph(f) ==
    /\ ~f.read
    /\ fetches' = (fetches \ {f}) \cup {[f EXCEPT !.read = TRUE, !.version = head]}
    /\ UNCHANGED <<log_vars, stream_vars, page_vars, persisted, disturbed, clicks, breaks>>

(* An answer that takes the graph back, or to a kind the page has left.    *)
Overtaken(f) == f.version < graph.version \/ (f.why = "refresh" /\ f.kind # kind)

Show(f) ==
    /\ f.read
    /\ fetches' = fetches \ {f}
    /\ graph' = [kind |-> f.kind, version |-> f.version]
    /\ disturbed' = (disturbed \/ Overtaken(f))

ShowRefresh(f) ==
    /\ f.why = "refresh"
    /\ Show(f)
    /\ UNCHANGED <<log_vars, stream_vars, phase, kind, cursor, since, listed, persisted, clicks,
                   breaks>>

(* The answer to a click on a kind turns the page to it: the stream is opened  *)
(* again, unless the page replays.                                             *)
ShowKind(f) ==
    /\ f.why = "switch"
    /\ Show(f)
    /\ kind' = f.kind
    /\ since' = cursor
    /\ IF phase = "live" THEN Connect(cursor) ELSE Disconnect(FALSE)
    /\ UNCHANGED <<log_vars, phase, cursor, listed, persisted, clicks, breaks>>

(* A failed request is forgotten.                                          *)
FetchFails(f) ==
    /\ fetches' = fetches \ {f}
    /\ disturbed' = (disturbed \/ f.why = "refresh")
    /\ UNCHANGED <<log_vars, stream_vars, page_vars, persisted, clicks, breaks>>

(***************************************************************************)
(* The user.                                                               *)
(***************************************************************************)
Click == WithinMoves /\ clicks' = clicks + 1

ClickKind(k) ==
    /\ phase \in {"live", "replay"}
    /\ Click
    /\ fetches' = fetches \cup {Asked("switch", clicks, k)}
    /\ UNCHANGED <<log_vars, stream_vars, page_vars, persisted, disturbed, breaks>>

EnterReplay ==
    /\ phase = "live"
    /\ Click
    /\ phase' = "replay"
    /\ Disconnect(FALSE)
    /\ UNCHANGED <<log_vars, kind, cursor, since, listed, graph, persisted, fetches, disturbed,
                   breaks>>

ExitReplay ==
    /\ phase = "replay"
    /\ phase' = "live"
    /\ Connect(cursor)
    /\ UNCHANGED <<log_vars, kind, cursor, since, listed, graph, persisted, fetches, disturbed,
                   clicks, breaks>>

(* The page is loaded anew in the same tab: the session storage is all it keeps. *)
Reload ==
    /\ phase \in {"live", "replay"}
    /\ Click
    /\ phase' = "reading"
    /\ kind' = "work" /\ cursor' = 0 /\ since' = 0
    /\ listed' = [n \in Sequence |-> 0]
    /\ fetches' = {}
    /\ disturbed' = FALSE
    /\ graph' = InitialGraph
    /\ Disconnect(FALSE)
    /\ UNCHANGED <<log_vars, persisted, breaks>>

(***************************************************************************)
(* The specification.                                                      *)
(***************************************************************************)
Render == ReadEvents \/ ReadEventsFails \/ OpenPage \/ OpenPageWithInitialGraph

Settle(f) == ReadGraph(f) \/ ShowRefresh(f) \/ ShowKind(f) \/ FetchFails(f)

Next ==
    \/ \E e \in Events : AppendEvent(e)
    \/ Render
    \/ Poll \/ Receive \/ StreamBreaks \/ Reconnect
    \/ \E f \in fetches : Settle(f)
    \/ \E k \in Kinds : ClickKind(k)
    \/ EnterReplay \/ ExitReplay \/ Reload

Spec == Init /\ [][Next]_vars

(* The portal answers, polls every 750 ms, and what it sends arrives; the timer  *)
(* of a reconnection fires; a request is answered or fails.                      *)
FairSpec ==
    /\ Spec
    /\ WF_vars(Render) /\ WF_vars(Poll) /\ WF_vars(Receive) /\ WF_vars(Reconnect)
    /\ WF_vars(\E f \in fetches : Settle(f))

(***************************************************************************)
(* Properties.                                                             *)
(***************************************************************************)
Message == [events : SUBSET Sequence, through : Cursor]

TypeOK ==
    /\ log \in [Sequence -> Events \cup {"none"}] /\ head \in Cursor
    /\ phase \in {"reading", "rendering", "live", "replay"}
    /\ kind \in Kinds /\ cursor \in Cursor /\ since \in Cursor
    /\ listed \in [Sequence -> Nat]
    /\ graph \in [kind : Kinds, version : Cursor]
    /\ persisted \in Cursor
    /\ source \in BOOLEAN /\ timer \in BOOLEAN
    /\ after \in Cursor /\ channel \in Seq(Message)
    /\ fetches \subseteq Request /\ disturbed \in BOOLEAN
    /\ clicks \in Nat /\ breaks \in Nat

(* The events of one kind a page shows that has read the log up to a cursor. *)
InScope(k) == {n \in Sequence : n <= head /\ KindOf(log[n]) = k /\ log[n] # "foreign"}

(* No event is listed twice, none the cursor has not passed, and every event   *)
(* the cursor has passed since the page turned to its kind is listed: whatever *)
(* streams were lost, closed for a replay, and opened again from the cursor    *)
(* (my-pi-ui theater-client.ts connectLiveStream, processLiveEvents).          *)
TimelineIsExact ==
    /\ \A n \in Sequence : listed[n] > 0 => listed[n] = 1 /\ n <= cursor
    /\ phase \in {"live", "replay"} =>
          \A n \in InScope(kind) : since < n /\ n <= cursor => listed[n] = 1

(* "Cursor persistence only moves forward" (theater-client-net.test.ts), over  *)
(* reloads and failed reads of the history too.                                *)
PersistedMovesForward == [][persisted' >= persisted]_vars

(* Unless a request for a graph has failed or was overtaken, the graph shows   *)
(* every structural event the page lists, or is going to: a request that was   *)
(* made no earlier is not settled yet (refreshGraph).                          *)
GraphCatchesUp ==
    phase \in {"live", "replay"} /\ ~disturbed =>
        \A n \in Sequence : listed[n] > 0 /\ Structural(log[n]) =>
            \/ n <= graph.version
            \/ \E f \in fetches : f.why = "refresh" /\ f.id >= n

(* The stream does not get past a full page of events of other worktrees.  *)
Starved ==
    /\ Cardinality(Page(kind, cursor)) = PageLength[cursor]
    /\ Kept(kind, cursor) = {}

(* An event of the kind a live page is about is listed in the end, unless the  *)
(* user turns elsewhere or the stream is starved.                              *)
EventsReachTheater ==
    \A n \in Sequence :
        (phase = "live" /\ n \in InScope(kind))
            ~> (cursor >= n \/ phase = "replay" \/ n \notin InScope(kind) \/ Starved)

(* quality.stale: computed without the option that would set it, and never     *)
(* set after.                                                                  *)
StaleBadge == FALSE

(* "Honest data states: degraded, truncated, stale, and empty are always       *)
(* surfaced" (README.md): a page that awaits no graph, and whose graph of the  *)
(* work lacks a structural event it lists, says that it is stale.              *)
StaleIsSurfaced ==
    /\ phase = "live" /\ kind = "work" /\ graph.kind = "work" /\ fetches = {}
    /\ \E n \in Sequence : listed[n] > 0 /\ Structural(log[n]) /\ n > graph.version
    => StaleBadge
=============================================================================
