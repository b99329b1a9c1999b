------------------------- MODULE TheaterFeedProofs -------------------------
(***************************************************************************)
(* Theorems about the live view: its types, the list of events it shows,    *)
(* the cursor it stores, and the graph that catches up.                     *)
(***************************************************************************)
EXTENDS TheaterFeed, FiniteSetTheorems, WellFoundedInduction, TLAPS

(* A set of sequence numbers that is not empty has a last one.             *)
LEMMA LastExists ==
    ASSUME NEW S \in SUBSET Sequence, S # {}
    PROVE  LastOf(S) \in S /\ \A m \in S : m <= LastOf(S)
<1> DEFINE T == {MaxLog - n : n \in S}
           R == OpToRel(<, Nat)
<1> USE FeedAssumption
<1>1. T \subseteq Nat /\ T # {}
  BY DEF Sequence
<1>2. IsWellFoundedOn(R, Nat)
  BY NatLessThanWellFounded
<1>3. PICK x \in T : \A y \in T : <<y, x>> \notin R
  <2> HIDE DEF T, R
  <2> QED
    BY <1>1, <1>2, WFMin
<1>4. \A y \in T : ~(y < x)
  BY <1>1, <1>3 DEF OpToRel
<1>5. PICK n \in S : x = MaxLog - n
  BY <1>3
<1> HIDE DEF R
<1>6. \A m \in S : m <= n
  <2> SUFFICES ASSUME NEW m \in S PROVE m <= n
    OBVIOUS
  <2>1. MaxLog - m \in T /\ ~(MaxLog - m < MaxLog - n)
    BY <1>4, <1>5
  <2> QED
    BY <2>1 DEF Sequence
<1> QED
  BY <1>6 DEF LastOf

(* A page is the first events a query finds, and the portal shows of them those *)
(* of its own worktree: the events in scope up to the page's end.               *)
LEMMA PageIsFirst ==
    ASSUME TypeOK, NEW k \in Kinds, NEW a \in Cursor
    PROVE  /\ Through(k, a) \in Cursor
           /\ a <= Through(k, a)
           /\ a < Through(k, a) => Through(k, a) <= head
           /\ Kept(k, a) = {n \in InScope(k) : a < n /\ n <= Through(k, a)}
           /\ Kept(k, a) # {} => a < Through(k, a)
<1> USE FeedAssumption
<1> DEFINE P == Page(k, a)
           UpTo(n) == {m \in Found(k, a) : m <= n}
<1>1. P \subseteq Found(k, a) /\ Found(k, a) \subseteq Sequence
  BY DEF Page, Found
<1>2. CASE P = {}
  <2>1. Through(k, a) = a /\ Kept(k, a) = {}
    BY <1>2 DEF Through, Kept
  <2> QED
    BY <2>1 DEF InScope, Sequence, Cursor
<1>3. CASE P # {}
  <2> DEFINE last == LastOf(P)
  <2>1. last \in P /\ \A m \in P : m <= last
    BY <1>1, <1>3, LastExists
  <2>2. Through(k, a) = last
    BY <1>3 DEF Through
  <2>3. ASSUME NEW m \in Found(k, a), m <= last
        PROVE  m \in P
    <3> DEFINE A == UpTo(m)
               B == UpTo(last)
    <3>1. IsFiniteSet(B)
      <4>1. B \in SUBSET Nat /\ \A s \in B : s <= MaxLog
        BY <1>1 DEF Sequence
      <4> QED
        BY <4>1, FS_BoundedSetOfNaturals
    <3>2. A \subseteq B
      BY <1>1, <2>1, <2>3 DEF Sequence
    <3>3. IsFiniteSet(A) /\ Cardinality(A) <= Cardinality(B)
      BY <3>1, <3>2, FS_Subset
    <3>4. Cardinality(A) \in Nat /\ Cardinality(B) \in Nat
      BY <3>1, <3>3, FS_CardinalityType
    <3>5. Cardinality(B) <= PageLength[a]
      BY <2>1 DEF Page
    <3>6. PageLength[a] \in Nat
      OBVIOUS
    <3>7. Cardinality(A) <= PageLength[a]
      <4> HIDE DEF A, B
      <4> QED
        BY <3>3, <3>4, <3>5, <3>6
    <3> QED
      BY <3>7 DEF Page
  <2>4. last \in Sequence /\ a < last /\ last <= head
    BY <2>1 DEF Page, Found
  <2>5. \A n \in Sequence : n \in P <=> n \in Found(k, a) /\ n <= last
    BY <1>1, <2>1, <2>3
  <2>6. Kept(k, a) = {n \in InScope(k) : a < n /\ n <= last}
    <3> HIDE DEF last
    <3> QED
      BY <1>1, <2>5 DEF Kept, InScope, Found
  <2> QED
    BY <2>2, <2>4, <2>6 DEF Sequence, Cursor
<1> QED
  BY <1>2, <1>3

(***************************************************************************)
(* The inductive invariant.                                                *)
(***************************************************************************)

(* Where the page is before a message of the channel, or after the last.   *)
Upto(i) == IF i = 0 THEN cursor ELSE channel[i].through

(* A stream follows its page: the messages under way continue the page's list  *)
(* without a gap, up to where the portal is.                                   *)
StreamFollows ==
    /\ source \/ timer => phase = "live"
    /\ ~source => channel = <<>>
    /\ source => after = Upto(Len(channel))
    /\ \A i \in 1 .. Len(channel) :
          /\ Upto(i - 1) < channel[i].through
          /\ channel[i].events =
                {n \in InScope(kind) : Upto(i - 1) < n /\ n <= channel[i].through}

(* No cursor is ahead of the log, and the stored one not ahead of the page. *)
CursorsBounded ==
    /\ cursor <= head /\ persisted <= head
    /\ \A i \in 1 .. Len(channel) : channel[i].through <= head
    /\ phase \in {"live", "replay"} => persisted <= cursor

(* The answer to a refresh is read after the event that asked for it.      *)
RequestsFollow ==
    \A f \in fetches : f.why = "refresh" =>
        f.id <= head /\ (f.read => f.id <= f.version)

IInv == TypeOK /\ StreamFollows /\ CursorsBounded /\ RequestsFollow /\ TimelineIsExact
        /\ GraphCatchesUp

(* Every step keeps the types.                                             *)
LEMMA TypeStep == TypeOK /\ StreamFollows /\ [Next]_vars => TypeOK'
<1> SUFFICES ASSUME TypeOK, StreamFollows, [Next]_vars
             PROVE  TypeOK'
  OBVIOUS
<1> USE FeedAssumption
<1>0. <<>> \in Seq(Message)
  OBVIOUS
<1>1. ASSUME NEW e \in Events, AppendEvent(e)
      PROVE  TypeOK'
  BY <1>1 DEF AppendEvent, WithinMoves, TypeOK, stream_vars, page_vars, Cursor, Sequence
<1>2. CASE ReadEvents
  <2>1. Through("work", cursor) \in Cursor
    BY PageIsFirst DEF TypeOK, Kinds
  <2> QED
    BY <1>2, <2>1 DEF ReadEvents, TypeOK, stream_vars, log_vars
<1>3. CASE ReadEventsFails
  BY <1>3 DEF ReadEventsFails, TypeOK, stream_vars, log_vars
<1>4. CASE OpenPage \/ OpenPageWithInitialGraph
  <2>1. Restored \in Cursor
    BY DEF Restored, TypeOK
  <2>2. ASSUME NEW g \in [kind : Kinds, version : Cursor], Open(g), disturbed' \in BOOLEAN
        PROVE  TypeOK'
    <3>1. /\ UNCHANGED log_vars /\ phase' = "live" /\ graph' = g
          /\ cursor' = Restored /\ since' = Restored
          /\ UNCHANGED <<kind, listed, persisted, fetches, clicks, breaks>>
          /\ source' = TRUE /\ timer' = FALSE /\ after' = Restored /\ channel' = <<>>
      BY <2>2 DEF Open, Connect, NoMessages
    <3> QED
      BY <1>0, <2>1, <2>2, <3>1 DEF TypeOK, log_vars
  <2>3. CASE OpenPage
    <3>1. [kind |-> "work", version |-> head] \in [kind : Kinds, version : Cursor]
      BY DEF TypeOK, Kinds
    <3>2. Open([kind |-> "work", version |-> head]) /\ disturbed' \in BOOLEAN
      BY <2>3 DEF OpenPage, TypeOK
    <3> QED
      BY <2>2, <3>1, <3>2
  <2>4. CASE OpenPageWithInitialGraph
    <3>1. InitialGraph \in [kind : Kinds, version : Cursor]
      BY DEF InitialGraph, Kinds, Cursor
    <3>2. Open(InitialGraph) /\ disturbed' \in BOOLEAN
      BY <2>4 DEF OpenPageWithInitialGraph
    <3> QED
      BY <2>2, <3>1, <3>2
  <2> QED
    BY <1>4, <2>3, <2>4
<1>5. CASE Poll
  <2>1. Through(kind, after) \in Cursor /\ Kept(kind, after) \in SUBSET Sequence
    <3>1. kind \in Kinds /\ after \in Cursor
      BY DEF TypeOK
    <3> QED
      BY <3>1, PageIsFirst DEF Kept, Page, Found
  <2>2. [events |-> Kept(kind, after), through |-> Through(kind, after)] \in Message
    BY <2>1 DEF Message
  <2>3. channel' \in Seq(Message)
    BY <1>5, <2>2 DEF Poll, TypeOK
  <2> QED
    BY <1>5, <2>1, <2>3 DEF Poll, TypeOK, log_vars, page_vars
<1>6. CASE Receive
  <2>1. Head(channel) \in Message /\ Tail(channel) \in Seq(Message)
    BY <1>6 DEF Receive, TypeOK
  <2>2. Head(channel).through \in Cursor
    BY <2>1 DEF Message
  <2>3. Asked("refresh", Head(channel).through, kind) \in Request
    BY <2>2 DEF Asked, Request, TypeOK, Cursor
  <2>4. cursor' \in Cursor /\ persisted' \in Cursor /\ fetches' \subseteq Request
        /\ channel' \in Seq(Message)
    BY <1>6, <2>1, <2>2, <2>3 DEF Receive, TypeOK
  <2>5. listed' \in [Sequence -> Nat]
    BY <1>6 DEF Receive, TypeOK
  <2> QED
    BY <1>6, <2>4, <2>5 DEF Receive, TypeOK, log_vars
<1>7. CASE StreamBreaks
  <2>1. UNCHANGED <<log_vars, page_vars, persisted, fetches, disturbed, clicks, after>>
        /\ source' = FALSE /\ timer' = TRUE /\ channel' = <<>> /\ breaks' = breaks + 1
    BY <1>7 DEF StreamBreaks, TriesAgain, Disconnect, NoMessages
  <2>2. breaks' \in Nat
    BY <2>1 DEF TypeOK
  <2>3. channel' \in Seq(Message) /\ source' \in BOOLEAN /\ timer' \in BOOLEAN
    BY <1>0, <2>1
  <2> QED
    BY <2>1, <2>2, <2>3 DEF TypeOK, log_vars, page_vars
<1>8. CASE Reconnect
  <2>1. UNCHANGED <<log_vars, page_vars, persisted, fetches, disturbed, clicks, breaks>>
        /\ source' = TRUE /\ timer' = FALSE /\ channel' = <<>> /\ after' = cursor
    BY <1>8 DEF Reconnect, Connect, NoMessages
  <2> QED
    BY <1>0, <2>1 DEF TypeOK, log_vars, page_vars
<1>9. ASSUME NEW f \in fetches, Settle(f)
      PROVE  TypeOK'
  <2>1. f \in Request
    BY DEF TypeOK
  <2>2. fetches \ {f} \subseteq Request
    BY DEF TypeOK
  <2>3. CASE ReadGraph(f)
    <3>1. [f EXCEPT !.read = TRUE, !.version = head] \in Request
      BY <2>1 DEF Request, TypeOK
    <3> QED
      BY <2>3, <2>2, <3>1 DEF ReadGraph, TypeOK, log_vars, stream_vars, page_vars
  <2>4. CASE ShowRefresh(f)
    <3>1. graph' \in [kind : Kinds, version : Cursor] /\ fetches' \subseteq Request
          /\ disturbed' \in BOOLEAN
      BY <2>4, <2>1, <2>2 DEF ShowRefresh, Show, Overtaken, Request, TypeOK
    <3> QED
      BY <2>4, <3>1 DEF ShowRefresh, TypeOK, log_vars, stream_vars
  <2>5. CASE ShowKind(f)
    <3>1. graph' \in [kind : Kinds, version : Cursor] /\ fetches' \subseteq Request
          /\ disturbed' \in BOOLEAN /\ kind' \in Kinds
      BY <2>5, <2>1, <2>2 DEF ShowKind, Show, Overtaken, Request, TypeOK
    <3>2. /\ UNCHANGED <<log_vars, phase, cursor, listed, persisted, clicks, breaks>>
          /\ since' = cursor
          /\ source' \in BOOLEAN /\ timer' \in BOOLEAN /\ channel' = <<>>
          /\ after' = cursor \/ after' = after
      BY <2>5 DEF ShowKind, Connect, Disconnect, NoMessages
    <3> QED
      BY <1>0, <3>1, <3>2 DEF TypeOK, log_vars
  <2>6. CASE FetchFails(f)
    BY <2>6, <2>2 DEF FetchFails, TypeOK, log_vars, stream_vars, page_vars
  <2> QED
    BY <1>9, <2>3, <2>4, <2>5, <2>6 DEF Settle
<1>10. ASSUME NEW k \in Kinds, ClickKind(k)
       PROVE  TypeOK'
  <2>1. Asked("switch", clicks, k) \in Request
    BY DEF Asked, Request, TypeOK, Cursor
  <2> QED
    BY <1>10, <2>1 DEF ClickKind, Click, TypeOK, log_vars, stream_vars, page_vars
<1>11. CASE EnterReplay \/ ExitReplay
  <2>1. /\ UNCHANGED <<log_vars, kind, cursor, since, listed, graph, persisted, fetches,
                        disturbed, breaks>>
        /\ phase' = "replay" \/ phase' = "live"
        /\ source' \in BOOLEAN /\ timer' \in BOOLEAN /\ channel' = <<>>
        /\ after' = cursor \/ after' = after
        /\ clicks' = clicks + 1 \/ clicks' = clicks
    BY <1>11 DEF EnterReplay, ExitReplay, Click, Connect, Disconnect, NoMessages
  <2> QED
    BY <1>0, <2>1 DEF TypeOK, log_vars
<1>12. CASE Reload
  <2>1. /\ UNCHANGED <<log_vars, persisted, breaks, after>>
        /\ phase' = "reading" /\ kind' = "work" /\ cursor' = 0 /\ since' = 0
        /\ listed' = [n \in Sequence |-> 0] /\ fetches' = {} /\ disturbed' = FALSE
        /\ graph' = InitialGraph
        /\ source' = FALSE /\ timer' = FALSE /\ channel' = <<>>
        /\ clicks' = clicks + 1
    BY <1>12 DEF Reload, Click, Disconnect, NoMessages
  <2>2. InitialGraph \in [kind : Kinds, version : Cursor] /\ 0 \in Cursor /\ "work" \in Kinds
    BY DEF InitialGraph, Kinds, Cursor
  <2>3. clicks' \in Nat /\ listed' \in [Sequence -> Nat]
    BY <2>1 DEF TypeOK
  <2>4. channel' \in Seq(Message) /\ fetches' \subseteq Request /\ disturbed' \in BOOLEAN
        /\ source' \in BOOLEAN /\ timer' \in BOOLEAN
    BY <1>0, <2>1
  <2> QED
    BY <2>1, <2>2, <2>3, <2>4 DEF TypeOK, log_vars
<1>13. CASE UNCHANGED vars
  BY <1>13 DEF vars, log_vars, stream_vars, page_vars, TypeOK
<1> QED
  BY <1>1, <1>2, <1>3, <1>4, <1>5, <1>6, <1>7, <1>8, <1>9, <1>10, <1>11, <1>12, <1>13
     DEF Next, Render
(* What is in scope up to a cursor is not changed by the events that follow. *)
LEMMA ScopeIsStable ==
    ASSUME TypeOK, NEW e \in Events, AppendEvent(e)
    PROVE  /\ \A n \in Sequence : n <= head => log'[n] = log[n]
           /\ \A k \in Kinds, c \in Cursor : c <= head =>
                \A a \in Cursor :
                  {n \in InScope(k)' : a < n /\ n <= c} = {n \in InScope(k) : a < n /\ n <= c}
<1> USE FeedAssumption
<1>1. head' = head + 1 /\ head \in Nat /\ head < MaxLog
  BY DEF AppendEvent, TypeOK, Cursor
<1>2. ASSUME NEW n \in Sequence, n <= head
      PROVE  log'[n] = log[n]
  BY <1>1, <1>2 DEF AppendEvent, TypeOK, Sequence
<1>3. ASSUME NEW k \in Kinds, NEW c \in Cursor, c <= head, NEW n \in Sequence, n <= c
      PROVE  n \in InScope(k)' <=> n \in InScope(k)
  <2>1. n <= head /\ n <= head'
    BY <1>1, <1>3 DEF Sequence, Cursor
  <2>2. log'[n] = log[n]
    BY <1>2, <2>1
  <2> QED
    BY <2>1, <2>2 DEF InScope
<1>4. \A k \in Kinds : InScope(k) \subseteq Sequence /\ InScope(k)' \subseteq Sequence
  BY DEF InScope
<1> QED
  BY <1>2, <1>3, <1>4

(* A stream that starts anew at the page's cursor follows the page.         *)
LEMMA NewStreamFollows ==
    ASSUME channel' = <<>>, source' => after' = cursor',
           source' \/ timer' => phase' = "live"
    PROVE  StreamFollows'
BY DEF StreamFollows, Upto

(* Every step keeps the stream where its page is.                           *)
LEMMA StreamStep ==
    TypeOK /\ StreamFollows /\ CursorsBounded /\ [Next]_vars => StreamFollows'
<1> SUFFICES ASSUME TypeOK, StreamFollows, CursorsBounded, [Next]_vars
             PROVE  StreamFollows'
  OBVIOUS
<1> USE FeedAssumption
<1>0. phase = "reading" \/ phase = "rendering" => ~source /\ ~timer /\ channel = <<>>
  BY DEF StreamFollows
<1>1. ASSUME NEW e \in Events, AppendEvent(e)
      PROVE  StreamFollows'
  <2>1. UNCHANGED <<source, timer, after, channel, phase, kind, cursor>>
    BY <1>1 DEF AppendEvent, stream_vars, page_vars
  <2>2. \A i \in 0 .. Len(channel) : Upto(i)' = Upto(i)
    BY <2>1 DEF Upto
  <2>3. \A i \in 1 .. Len(channel) :
          i - 1 \in 0 .. Len(channel) /\ Upto(i - 1) \in Cursor /\ channel[i].through \in Cursor
    <3>1. ASSUME NEW j \in 1 .. Len(channel)
          PROVE  channel[j].through \in Cursor
      <4>1. channel[j] \in Message
        BY DEF TypeOK
      <4> QED
        BY <4>1 DEF Message
    <3>2. Len(channel) \in Nat /\ cursor \in Cursor
      BY DEF TypeOK
    <3> QED
      BY <3>1, <3>2 DEF Upto
  <2>4. ASSUME NEW i \in 1 .. Len(channel)
        PROVE  /\ Upto(i - 1)' < channel'[i].through
               /\ channel'[i].events =
                    {n \in InScope(kind)' : Upto(i - 1)' < n /\ n <= channel'[i].through}
    <3>1. kind \in Kinds /\ channel[i].through <= head
      BY DEF TypeOK, CursorsBounded
    <3>2. {n \in InScope(kind)' : Upto(i - 1) < n /\ n <= channel[i].through}
             = {n \in InScope(kind) : Upto(i - 1) < n /\ n <= channel[i].through}
      BY <1>1, <2>1, <2>3, <3>1, ScopeIsStable
    <3>3. /\ Upto(i - 1) < channel[i].through
          /\ channel[i].events =
                {n \in InScope(kind) : Upto(i - 1) < n /\ n <= channel[i].through}
      BY DEF StreamFollows
    <3> QED
      BY <2>1, <2>2, <2>3, <3>2, <3>3
  <2>5. source' => after' = Upto(Len(channel))'
    <3>1. Len(channel) \in 0 .. Len(channel)
      BY DEF TypeOK
    <3> QED
      BY <2>1, <2>2, <3>1 DEF StreamFollows, Upto
  <2> QED
    BY <2>1, <2>4, <2>5 DEF StreamFollows
<1>2. CASE ReadEvents
  BY <1>0, <1>2, NewStreamFollows DEF ReadEvents, stream_vars
<1>3. CASE ReadEventsFails
  BY <1>0, <1>3, NewStreamFollows DEF ReadEventsFails, stream_vars
<1>4. CASE OpenPage \/ OpenPageWithInitialGraph
  BY <1>4, NewStreamFollows
     DEF OpenPage, OpenPageWithInitialGraph, Open, Connect, NoMessages
<1>5. CASE Poll
  <2> DEFINE m == [events |-> Kept(kind, after), through |-> Through(kind, after)]
  <2>0. PICK L \in Nat : L = Len(channel)
    BY DEF TypeOK
  <2>1. /\ source /\ Kept(kind, after) # {} /\ channel' = Append(channel, m)
        /\ after' = Through(kind, after)
        /\ UNCHANGED <<log, head, source, timer, phase, kind, cursor>>
    BY <1>5 DEF Poll, log_vars, page_vars
  <2>2. Len(channel') = L + 1 /\ channel'[L + 1] = m
        /\ \A i \in 1 .. L : channel'[i] = channel[i]
    BY <2>0, <2>1 DEF TypeOK
  <2>3. /\ after < Through(kind, after)
        /\ Kept(kind, after) = {n \in InScope(kind) : after < n /\ n <= Through(kind, after)}
    <3>1. kind \in Kinds /\ after \in Cursor
      BY DEF TypeOK
    <3> QED
      BY <2>1, <3>1, PageIsFirst
  <2>4. \A i \in 0 .. L : Upto(i)' = Upto(i)
    BY <2>1, <2>2 DEF Upto
  <2>5. Upto(L)' = after /\ Upto(L + 1)' = m.through
    <3>1. L \in 0 .. L /\ L + 1 # 0
      OBVIOUS
    <3>2. Upto(L)' = Upto(L) /\ Upto(L) = after
      BY <2>0, <2>1, <2>4, <3>1 DEF StreamFollows
    <3>3. Upto(L + 1)' = channel'[L + 1].through
      BY <3>1 DEF Upto
    <3> QED
      BY <2>2, <3>2, <3>3
  <2>6. InScope(kind)' = InScope(kind)
    BY <2>1 DEF InScope
  <2>7. ASSUME NEW i \in 1 .. L + 1
        PROVE  /\ Upto(i - 1)' < channel'[i].through
               /\ channel'[i].events =
                    {n \in InScope(kind)' : Upto(i - 1)' < n /\ n <= channel'[i].through}
    <3>1. CASE i = L + 1
      <4>1. i - 1 = L
        BY <2>2, <3>1
      <4>2. Upto(i - 1)' = after /\ channel'[i] = m
        BY <2>2, <2>5, <3>1, <4>1
      <4> QED
        BY <2>3, <2>6, <4>2
    <3>2. CASE i \in 1 .. L
      <4>1. i - 1 \in 0 .. L
        BY <2>2, <3>2
      <4>2. Upto(i - 1)' = Upto(i - 1) /\ channel'[i] = channel[i]
        BY <2>2, <2>4, <3>2, <4>1
      <4>3. /\ Upto(i - 1) < channel[i].through
            /\ channel[i].events =
                  {n \in InScope(kind) : Upto(i - 1) < n /\ n <= channel[i].through}
        BY <2>0, <3>2 DEF StreamFollows
      <4> QED
        BY <2>6, <4>2, <4>3
    <3> QED
      BY <2>2, <3>1, <3>2
  <2>8. after' = Upto(Len(channel))'
    <3>1. Upto(Len(channel))' = Upto(L + 1)'
      BY <2>2 DEF Upto
    <3> QED
      BY <2>1, <2>5, <3>1
  <2> QED
    BY <2>1, <2>2, <2>7, <2>8 DEF StreamFollows
<1>6. CASE Receive
  <2>0. PICK L \in Nat : L = Len(channel)
    BY DEF TypeOK
  <2>1. /\ channel # <<>> /\ channel' = Tail(channel) /\ cursor' = Head(channel).through
        /\ UNCHANGED <<log, head, phase, kind, source, timer, after>>
    BY <1>6 DEF Receive, log_vars
  <2>2. L \in Nat \ {0} /\ Len(channel') = L - 1 /\ Head(channel) = channel[1]
        /\ \A i \in 1 .. L - 1 : channel'[i] = channel[i + 1]
    BY <2>0, <2>1 DEF TypeOK
  <2>3. source
    BY <2>1 DEF StreamFollows
  <2>4. \A i \in 0 .. L - 1 : Upto(i)' = Upto(i + 1)
    BY <2>1, <2>2 DEF Upto
  <2>5. InScope(kind)' = InScope(kind)
    BY <2>1 DEF InScope
  <2>6. ASSUME NEW i \in 1 .. L - 1
        PROVE  /\ Upto(i - 1)' < channel'[i].through
               /\ channel'[i].events =
                    {n \in InScope(kind)' : Upto(i - 1)' < n /\ n <= channel'[i].through}
    <3>1. i + 1 \in 1 .. L /\ i - 1 \in 0 .. L - 1 /\ (i + 1) - 1 = i /\ (i - 1) + 1 = i
      BY <2>2
    <3>2. Upto(i - 1)' = Upto(i) /\ channel'[i] = channel[i + 1]
      <4> QED
        BY <2>2, <2>4, <3>1
    <3>3. /\ Upto(i) < channel[i + 1].through
          /\ channel[i + 1].events =
                {n \in InScope(kind) : Upto(i) < n /\ n <= channel[i + 1].through}
      BY <2>0, <3>1 DEF StreamFollows
    <3> QED
      BY <2>5, <3>2, <3>3
  <2>7. after' = Upto(Len(channel))'
    <3>1. Upto(L - 1)' = Upto(L)
      <4>1. L - 1 \in 0 .. L - 1 /\ (L - 1) + 1 = L
        BY <2>2
      <4> QED
        BY <2>4, <4>1
    <3>2. after = Upto(L)
      BY <2>0, <2>3 DEF StreamFollows
    <3>3. Upto(Len(channel))' = Upto(L - 1)'
      BY <2>2 DEF Upto
    <3> QED
      BY <2>1, <3>1, <3>2, <3>3
  <2> QED
    BY <2>1, <2>2, <2>3, <2>6, <2>7 DEF StreamFollows
<1>7. CASE StreamBreaks
  <2>1. phase = "live"
    BY <1>7 DEF StreamBreaks, StreamFollows
  <2> QED
    BY <1>7, <2>1, NewStreamFollows
       DEF StreamBreaks, TriesAgain, Disconnect, NoMessages, page_vars
<1>8. CASE Reconnect
  <2>1. phase = "live"
    BY <1>8 DEF Reconnect, StreamFollows
  <2> QED
    BY <1>8, <2>1, NewStreamFollows DEF Reconnect, Connect, NoMessages, page_vars
<1>9. ASSUME NEW f \in fetches, Settle(f)
      PROVE  StreamFollows'
  <2>1. CASE ReadGraph(f)
    BY <2>1 DEF ReadGraph, StreamFollows, Upto, InScope, log_vars, stream_vars, page_vars
  <2>2. CASE ShowRefresh(f)
    BY <2>2 DEF ShowRefresh, StreamFollows, Upto, InScope, log_vars, stream_vars
  <2>3. CASE ShowKind(f)
    BY <2>3, NewStreamFollows DEF ShowKind, Connect, Disconnect, NoMessages
  <2>4. CASE FetchFails(f)
    BY <2>4 DEF FetchFails, StreamFollows, Upto, InScope, log_vars, stream_vars, page_vars
  <2> QED
    BY <1>9, <2>1, <2>2, <2>3, <2>4 DEF Settle
<1>10. ASSUME NEW k \in Kinds, ClickKind(k)
       PROVE  StreamFollows'
  BY <1>10 DEF ClickKind, StreamFollows, Upto, InScope, log_vars, stream_vars, page_vars
<1>11. CASE EnterReplay
  BY <1>11, NewStreamFollows DEF EnterReplay, Disconnect, NoMessages
<1>12. CASE ExitReplay
  BY <1>12, NewStreamFollows DEF ExitReplay, Connect, NoMessages
<1>13. CASE Reload
  BY <1>13, NewStreamFollows DEF Reload, Disconnect, NoMessages
<1>14. CASE UNCHANGED vars
  BY <1>14 DEF vars, log_vars, stream_vars, page_vars, StreamFollows, Upto, InScope
<1> QED
  BY <1>1, <1>2, <1>3, <1>4, <1>5, <1>6, <1>7, <1>8, <1>9, <1>10, <1>11, <1>12, <1>13, <1>14
     DEF Next, Render
(* What a message of the stream that is handled first brings.               *)
LEMMA FirstMessage ==
    ASSUME TypeOK, StreamFollows, CursorsBounded, Receive
    PROVE  /\ phase = "live" /\ cursor \in Cursor
           /\ cursor' = Head(channel).through /\ persisted' = cursor'
           /\ cursor < cursor' /\ cursor' <= head /\ cursor' \in Cursor
           /\ Head(channel).events = {n \in InScope(kind) : cursor < n /\ n <= cursor'}
<1>1. /\ phase = "live" /\ channel # <<>>
      /\ cursor' = Head(channel).through /\ persisted' = Head(channel).through
  BY DEF Receive
<1>2. 1 \in 1 .. Len(channel) /\ Head(channel) = channel[1] /\ channel[1] \in Message
  BY <1>1 DEF TypeOK
<1>3. Upto(1 - 1) = cursor
  BY DEF Upto
<1>4. /\ cursor < channel[1].through
      /\ channel[1].events = {n \in InScope(kind) : cursor < n /\ n <= channel[1].through}
  BY <1>2, <1>3 DEF StreamFollows
<1>5. channel[1].through <= head /\ channel[1].through \in Cursor
  BY <1>2 DEF CursorsBounded, Message
<1> QED
  BY <1>1, <1>2, <1>4, <1>5 DEF TypeOK

(* Every step keeps the cursors behind the log, and the stored one behind the page. *)
LEMMA CursorStep ==
    TypeOK /\ StreamFollows /\ CursorsBounded /\ [Next]_vars => CursorsBounded'
<1> SUFFICES ASSUME TypeOK, StreamFollows, CursorsBounded, [Next]_vars
             PROVE  CursorsBounded'
  OBVIOUS
<1> USE FeedAssumption
<1>0. /\ head \in Nat /\ cursor \in Nat /\ persisted \in Nat
      /\ cursor <= head /\ persisted <= head
  BY DEF TypeOK, Cursor, CursorsBounded
<1>a. ASSUME channel' = <<>>, head' = head, cursor' <= head', persisted' = persisted,
             phase' \in {"live", "replay"} => persisted' <= cursor'
      PROVE  CursorsBounded'
  BY <1>0, <1>a DEF CursorsBounded
<1>1. ASSUME NEW e \in Events, AppendEvent(e)
      PROVE  CursorsBounded'
  <2>1. /\ UNCHANGED <<cursor, persisted, channel, phase>>
        /\ head' = head + 1
    BY <1>1 DEF AppendEvent, stream_vars, page_vars
  <2>2. ASSUME NEW i \in 1 .. Len(channel)
        PROVE  channel[i].through <= head + 1
    <3>1. channel[i] \in Message
      BY DEF TypeOK
    <3>2. channel[i].through \in Nat /\ channel[i].through <= head
      BY <3>1 DEF Message, Cursor, CursorsBounded
    <3> QED
      BY <1>0, <3>2
  <2> QED
    BY <1>0, <2>1, <2>2 DEF CursorsBounded
<1>2. CASE ReadEvents
  <2>1. channel = <<>>
    BY <1>2 DEF ReadEvents, StreamFollows
  <2>2. Through("work", cursor) <= head
    <3>1. cursor \in Cursor /\ "work" \in Kinds
      BY DEF TypeOK, Kinds
    <3>2. /\ Through("work", cursor) \in Cursor
          /\ cursor <= Through("work", cursor)
          /\ cursor < Through("work", cursor) => Through("work", cursor) <= head
      BY <3>1, PageIsFirst
    <3> QED
      BY <1>0, <3>2 DEF Cursor
  <2> QED
    BY <1>2, <1>a, <2>1, <2>2 DEF ReadEvents, stream_vars, log_vars
<1>3. CASE ReadEventsFails
  <2>1. channel = <<>>
    BY <1>3 DEF ReadEventsFails, StreamFollows
  <2> QED
    BY <1>0, <1>3, <1>a, <2>1 DEF ReadEventsFails, stream_vars, log_vars
<1>4. CASE OpenPage \/ OpenPageWithInitialGraph
  <2>1. /\ channel' = <<>> /\ head' = head /\ cursor' = Restored
        /\ persisted' = persisted
    BY <1>4 DEF OpenPage, OpenPageWithInitialGraph, Open, Connect, NoMessages, log_vars
  <2>2. Restored <= head /\ persisted <= Restored
    BY <1>0 DEF Restored
  <2> QED
    BY <1>a, <2>1, <2>2
<1>5. CASE Poll
  <2>1. /\ UNCHANGED <<head, cursor, persisted, phase>>
        /\ channel' = Append(channel, [events |-> Kept(kind, after),
                                       through |-> Through(kind, after)])
    BY <1>5 DEF Poll, log_vars, page_vars
  <2>2. Through(kind, after) <= head
    <3>1. kind \in Kinds /\ after \in Cursor
      BY DEF TypeOK
    <3> QED
      BY <1>5, <3>1, PageIsFirst DEF Poll
  <2>3. ASSUME NEW i \in 1 .. Len(channel')
        PROVE  channel'[i].through <= head
    <3>1. CASE i \in 1 .. Len(channel)
      BY <2>1, <3>1 DEF CursorsBounded, TypeOK
    <3>2. CASE i = Len(channel) + 1
      BY <2>1, <2>2, <3>2 DEF TypeOK
    <3> QED
      BY <2>1, <3>1, <3>2 DEF TypeOK
  <2> QED
    BY <2>1, <2>3 DEF CursorsBounded
<1>6. CASE Receive
  <2>1. /\ persisted' = cursor' /\ cursor' <= head /\ cursor' \in Cursor
    BY <1>6, FirstMessage
  <2>2. head' = head /\ channel # <<>> /\ channel' = Tail(channel)
    BY <1>6 DEF Receive, log_vars
  <2>3. ASSUME NEW i \in 1 .. Len(channel')
        PROVE  channel'[i].through <= head
    <3>1. i + 1 \in 1 .. Len(channel) /\ channel'[i] = channel[i + 1]
      BY <2>2 DEF TypeOK
    <3> QED
      BY <3>1 DEF CursorsBounded
  <2> QED
    BY <1>0, <2>1, <2>2, <2>3 DEF CursorsBounded, Cursor
<1>7. CASE StreamBreaks
  BY <1>7, <1>a DEF StreamBreaks, TriesAgain, Disconnect, NoMessages, page_vars, log_vars,
                    CursorsBounded
<1>8. CASE Reconnect
  BY <1>8, <1>a DEF Reconnect, Connect, NoMessages, page_vars, log_vars, CursorsBounded
<1>9. ASSUME NEW f \in fetches, Settle(f)
      PROVE  CursorsBounded'
  <2>1. CASE ReadGraph(f)
    BY <2>1 DEF ReadGraph, CursorsBounded, log_vars, stream_vars, page_vars
  <2>2. CASE ShowRefresh(f)
    BY <2>2 DEF ShowRefresh, CursorsBounded, log_vars, stream_vars
  <2>3. CASE ShowKind(f)
    BY <1>a, <2>3 DEF ShowKind, Connect, Disconnect, NoMessages, log_vars, CursorsBounded
  <2>4. CASE FetchFails(f)
    BY <2>4 DEF FetchFails, CursorsBounded, log_vars, stream_vars, page_vars
  <2> QED
    BY <1>9, <2>1, <2>2, <2>3, <2>4 DEF Settle
<1>10. ASSUME NEW k \in Kinds, ClickKind(k)
       PROVE  CursorsBounded'
  BY <1>10 DEF ClickKind, CursorsBounded, log_vars, stream_vars, page_vars
<1>11. CASE EnterReplay \/ ExitReplay
  BY <1>11, <1>a
     DEF EnterReplay, ExitReplay, Connect, Disconnect, NoMessages, log_vars, CursorsBounded
<1>12. CASE Reload
  BY <1>0, <1>12, <1>a DEF Reload, Disconnect, NoMessages, log_vars
<1>13. CASE UNCHANGED vars
  BY <1>13 DEF vars, log_vars, stream_vars, page_vars, CursorsBounded
<1> QED
  BY <1>1, <1>2, <1>3, <1>4, <1>5, <1>6, <1>7, <1>8, <1>9, <1>10, <1>11, <1>12, <1>13
     DEF Next, Render

(* Every step keeps the answers younger than what asked for them.           *)
LEMMA RequestStep ==
    TypeOK /\ StreamFollows /\ CursorsBounded /\ RequestsFollow /\ [Next]_vars
        => RequestsFollow'
<1> SUFFICES ASSUME TypeOK, StreamFollows, CursorsBounded, RequestsFollow, [Next]_vars
             PROVE  RequestsFollow'
  OBVIOUS
<1>0. head \in Nat /\ \A f \in fetches : f \in Request /\ f.id \in Nat
  BY FeedAssumption DEF TypeOK, Request, Cursor
<1>a. ASSUME fetches' \subseteq fetches, head' = head
      PROVE  RequestsFollow'
  BY <1>a DEF RequestsFollow
<1>1. ASSUME NEW e \in Events, AppendEvent(e)
      PROVE  RequestsFollow'
  <2>1. head' = head + 1 /\ fetches' = fetches
    BY <1>1 DEF AppendEvent
  <2> QED
    BY <1>0, <2>1 DEF RequestsFollow
<1>2. CASE Render
  BY <1>2, <1>a
     DEF Render, ReadEvents, ReadEventsFails, OpenPage, OpenPageWithInitialGraph, Open, log_vars
<1>3. CASE Poll
  BY <1>3, <1>a DEF Poll, log_vars
<1>4. CASE Receive
  <2>1. cursor' <= head /\ cursor' = Head(channel).through
    BY <1>4, FirstMessage
  <2>2. /\ head' = head
        /\ \A f \in fetches' : f \in fetches \/ f = Asked("refresh", Head(channel).through, kind)
    BY <1>4 DEF Receive, log_vars
  <2> QED
    BY <2>1, <2>2 DEF RequestsFollow, Asked
<1>5. CASE StreamBreaks \/ Reconnect
  BY <1>5, <1>a DEF StreamBreaks, Reconnect, log_vars
<1>6. ASSUME NEW f \in fetches, Settle(f)
      PROVE  RequestsFollow'
  <2>1. CASE ReadGraph(f)
    <3> DEFINE g == [f EXCEPT !.read = TRUE, !.version = head]
    <3>1. fetches' = (fetches \ {f}) \cup {g} /\ head' = head
      BY <2>1 DEF ReadGraph, log_vars
    <3>2. g.why = f.why /\ g.id = f.id /\ g.version = head
      BY <1>0 DEF Request
    <3> QED
      BY <3>1, <3>2 DEF RequestsFollow
  <2>2. CASE ShowRefresh(f)
    BY <1>a, <2>2 DEF ShowRefresh, Show, log_vars
  <2>3. CASE ShowKind(f)
    BY <1>a, <2>3 DEF ShowKind, Show, log_vars
  <2>4. CASE FetchFails(f)
    BY <1>a, <2>4 DEF FetchFails, log_vars
  <2> QED
    BY <1>6, <2>1, <2>2, <2>3, <2>4 DEF Settle
<1>7. ASSUME NEW k \in Kinds, ClickKind(k)
      PROVE  RequestsFollow'
  BY <1>7 DEF ClickKind, Asked, RequestsFollow, log_vars
<1>8. CASE EnterReplay \/ ExitReplay \/ Reload
  BY <1>8, <1>a DEF EnterReplay, ExitReplay, Reload, log_vars
<1>9. CASE UNCHANGED vars
  BY <1>9, <1>a DEF vars, log_vars
<1> QED
  BY <1>1, <1>2, <1>3, <1>4, <1>5, <1>6, <1>7, <1>8, <1>9 DEF Next
(* Every step keeps the list of events exact.                               *)
LEMMA TimelineStep ==
    TypeOK /\ StreamFollows /\ CursorsBounded /\ TimelineIsExact /\ [Next]_vars
        => TimelineIsExact'
<1> SUFFICES ASSUME TypeOK, StreamFollows, CursorsBounded, TimelineIsExact, [Next]_vars
             PROVE  TimelineIsExact'
  OBVIOUS
<1> USE FeedAssumption
<1>0. /\ head \in Nat /\ cursor \in Nat /\ since \in Nat /\ cursor <= head
      /\ \A n \in Sequence : n \in Nat /\ listed[n] \in Nat
  BY DEF TypeOK, Cursor, CursorsBounded, Sequence
<1>b. InScope(kind) \subseteq Sequence
  BY DEF InScope
(* The page stays where it is, or leaves.                                   *)
<1>a. ASSUME UNCHANGED <<log, head, kind, cursor, since, listed>>,
             phase' \in {"live", "replay"} => phase \in {"live", "replay"}
      PROVE  TimelineIsExact'
  <2>1. InScope(kind)' = InScope(kind)
    BY <1>a DEF InScope
  <2> QED
    BY <1>a, <2>1 DEF TimelineIsExact
(* The page turns to a kind: nothing is promised of what came before.       *)
<1>c. ASSUME listed' = listed, cursor \leq cursor', cursor' \in Nat, since' = cursor'
      PROVE  TimelineIsExact'
  <2>1. ASSUME NEW n \in Sequence, listed[n] > 0
        PROVE  listed[n] = 1 /\ n <= cursor'
    <3>1. listed[n] = 1 /\ n <= cursor
      BY <2>1 DEF TimelineIsExact
    <3> QED
      BY <1>0, <1>c, <3>1
  <2>2. \A n \in InScope(kind)' : ~(since' < n /\ n <= cursor')
    <3>1. \A n \in InScope(kind)' : n \in Nat
      BY DEF InScope, Sequence
    <3> QED
      BY <1>c, <3>1
  <2> QED
    BY <1>c, <2>1, <2>2 DEF TimelineIsExact
<1>1. ASSUME NEW e \in Events, AppendEvent(e)
      PROVE  TimelineIsExact'
  <2>1. UNCHANGED <<phase, kind, cursor, since, listed>> /\ kind \in Kinds /\ cursor \in Cursor
    BY <1>1 DEF AppendEvent, page_vars, TypeOK
  <2>2. \A n \in InScope(kind)' : since < n /\ n <= cursor => n \in InScope(kind)
    <3>1. since \in Cursor
      BY DEF TypeOK
    <3>2. {n \in InScope(kind)' : since < n /\ n <= cursor}
             = {n \in InScope(kind) : since < n /\ n <= cursor}
      BY <1>0, <1>1, <2>1, <3>1, ScopeIsStable
    <3> QED
      BY <3>2
  <2> QED
    BY <2>1, <2>2 DEF TimelineIsExact
<1>2. CASE ReadEvents
  <2>1. "work" \in Kinds /\ cursor \in Cursor
    BY DEF TypeOK, Kinds
  <2>2. /\ Through("work", cursor) \in Nat
        /\ Kept("work", cursor) =
              {n \in InScope("work") : cursor < n /\ n <= Through("work", cursor)}
    BY <2>1, PageIsFirst DEF Cursor
  <2>3. /\ listed' = [n \in Sequence |-> IF n \in Kept("work", cursor) THEN 1 ELSE 0]
        /\ cursor' = Through("work", cursor)
        /\ phase' \notin {"live", "replay"}
    BY <1>2 DEF ReadEvents
  <2>4. ASSUME NEW n \in Sequence, listed'[n] > 0
        PROVE  listed'[n] = 1 /\ n <= cursor'
    <3>1. n \in Kept("work", cursor)
      BY <2>3, <2>4
    <3> QED
      BY <2>2, <2>3, <3>1
  <2> QED
    BY <2>3, <2>4 DEF TimelineIsExact
<1>3. CASE ReadEventsFails
  BY <1>3, <1>a DEF ReadEventsFails, log_vars
<1>4. CASE OpenPage \/ OpenPageWithInitialGraph
  <2>1. listed' = listed /\ cursor' = Restored /\ since' = Restored
    BY <1>4 DEF OpenPage, OpenPageWithInitialGraph, Open
  <2>2. Restored \in Nat /\ cursor <= Restored
    BY DEF Restored, TypeOK, Cursor
  <2> QED
    BY <1>c, <2>1, <2>2
<1>5. CASE Poll
  BY <1>5, <1>a DEF Poll, log_vars, page_vars
<1>6. CASE Receive
  <2>1. /\ phase = "live" /\ cursor < cursor' /\ cursor' \in Nat
        /\ Head(channel).events = {n \in InScope(kind) : cursor < n /\ n <= cursor'}
    BY <1>6, FirstMessage DEF Cursor
  <2>2. /\ UNCHANGED <<log, head, phase, kind, since>>
        /\ \A n \in Sequence :
              listed'[n] = IF n \in Head(channel).events THEN listed[n] + 1 ELSE listed[n]
    BY <1>6 DEF Receive, log_vars
  <2>3. ASSUME NEW n \in Sequence
        PROVE  /\ listed'[n] > 0 => listed'[n] = 1 /\ n <= cursor'
               /\ n \in InScope(kind) /\ since < n /\ n <= cursor' => listed'[n] = 1
    <3>1. listed[n] > 0 => listed[n] = 1 /\ n <= cursor
      BY DEF TimelineIsExact
    <3>2. n \in InScope(kind) /\ since < n /\ n <= cursor => listed[n] = 1
      BY <2>1 DEF TimelineIsExact
    <3>3. CASE n <= cursor
      <4>1. n \notin Head(channel).events
        BY <1>0, <2>1, <3>3
      <4>2. listed'[n] = listed[n]
        BY <2>2, <4>1
      <4> QED
        BY <1>0, <2>1, <3>1, <3>2, <3>3, <4>2
    <3>4. CASE cursor < n
      <4>1. listed[n] = 0
        BY <1>0, <3>1, <3>4
      <4>2. CASE n \in Head(channel).events
        BY <2>1, <2>2, <4>1, <4>2
      <4>3. CASE n \notin Head(channel).events
        <5>1. listed'[n] = 0
          BY <2>2, <4>1, <4>3
        <5>2. ~(n \in InScope(kind) /\ n <= cursor')
          BY <2>1, <3>4, <4>3
        <5> QED
          BY <5>1, <5>2
      <4> QED
        BY <4>2, <4>3
    <3> QED
      BY <1>0, <3>3, <3>4
  <2>4. InScope(kind)' = InScope(kind)
    BY <2>2 DEF InScope
  <2> QED
    BY <1>b, <2>2, <2>3, <2>4 DEF TimelineIsExact
<1>7. CASE StreamBreaks \/ Reconnect
  BY <1>7, <1>a DEF StreamBreaks, Reconnect, log_vars, page_vars
<1>8. ASSUME NEW f \in fetches, Settle(f)
      PROVE  TimelineIsExact'
  <2>1. CASE ReadGraph(f)
    BY <1>a, <2>1 DEF ReadGraph, log_vars, page_vars
  <2>2. CASE ShowRefresh(f)
    BY <1>a, <2>2 DEF ShowRefresh, log_vars
  <2>3. CASE ShowKind(f)
    BY <1>0, <1>c, <2>3 DEF ShowKind
  <2>4. CASE FetchFails(f)
    BY <1>a, <2>4 DEF FetchFails, log_vars, page_vars
  <2> QED
    BY <1>8, <2>1, <2>2, <2>3, <2>4 DEF Settle
<1>9. ASSUME NEW k \in Kinds, ClickKind(k)
      PROVE  TimelineIsExact'
  BY <1>9, <1>a DEF ClickKind, log_vars, page_vars
<1>10. CASE EnterReplay \/ ExitReplay
  BY <1>10, <1>a DEF EnterReplay, ExitReplay, log_vars
<1>11. CASE Reload
  BY <1>11 DEF Reload, TimelineIsExact
<1>12. CASE UNCHANGED vars
  BY <1>12, <1>a DEF vars, log_vars, page_vars
<1> QED
  BY <1>1, <1>2, <1>3, <1>4, <1>5, <1>6, <1>7, <1>8, <1>9, <1>10, <1>11, <1>12
     DEF Next, Render

(* Every step keeps the promise of the graph.                               *)
LEMMA GraphStep ==
    IInv /\ [Next]_vars => GraphCatchesUp'
<1> SUFFICES ASSUME IInv, [Next]_vars
             PROVE  GraphCatchesUp'
  OBVIOUS
<1> USE FeedAssumption
<1>0. /\ TypeOK /\ StreamFollows /\ CursorsBounded /\ RequestsFollow /\ TimelineIsExact
      /\ GraphCatchesUp
  BY DEF IInv
<1>b. /\ head \in Nat /\ cursor \in Nat /\ cursor <= head /\ graph.version \in Nat
      /\ \A n \in Sequence : n \in Nat /\ listed[n] \in Nat
      /\ \A f \in fetches : f \in Request /\ f.id \in Nat /\ f.version \in Nat
  <2>1. /\ head \in Nat /\ cursor \in Nat /\ cursor <= head /\ graph.version \in Nat
        /\ \A n \in Sequence : n \in Nat /\ listed[n] \in Nat
    BY <1>0 DEF TypeOK, Cursor, CursorsBounded, Sequence
  <2>2. fetches \subseteq Request
    BY <1>0 DEF TypeOK
  <2>3. \A f \in Request : f.id \in Nat /\ f.version \in Nat
    BY DEF Request, Cursor
  <2> QED
    BY <2>1, <2>2, <2>3
<1>c. \A n \in Sequence : listed[n] > 0 => n <= cursor /\ n <= head
  BY <1>0, <1>b DEF TimelineIsExact
(* Nothing listed anew, and no request settled.                             *)
<1>a. ASSUME \A n \in Sequence : n <= head => log'[n] = log[n],
             UNCHANGED <<listed, graph, disturbed>>, fetches \subseteq fetches',
             phase' \in {"live", "replay"} => phase \in {"live", "replay"}
      PROVE  GraphCatchesUp'
  BY <1>0, <1>a, <1>c DEF GraphCatchesUp, Structural
(* An answer not overtaken is shown.                                        *)
<1>d. ASSUME NEW f \in fetches, Show(f), UNCHANGED <<log, listed, phase>>
      PROVE  GraphCatchesUp'
  <2> SUFFICES ASSUME phase \in {"live", "replay"}, ~disturbed',
                      NEW n \in Sequence, listed[n] > 0, Structural(log[n])
               PROVE  n <= graph'.version
                      \/ \E g \in fetches' : g.why = "refresh" /\ g.id >= n
    BY <1>d DEF GraphCatchesUp
  <2>1. /\ f.read /\ fetches' = fetches \ {f} /\ graph'.version = f.version
        /\ ~disturbed /\ ~(f.version < graph.version)
    BY <1>d DEF Show, Overtaken
  <2>2. CASE n <= graph.version
    BY <1>b, <2>1, <2>2
  <2>3. CASE \E g \in fetches : g.why = "refresh" /\ g.id >= n
    <3>1. PICK g \in fetches : g.why = "refresh" /\ g.id >= n
      BY <2>3
    <3>2. CASE g = f
      <4>1. f.id <= f.version
        BY <1>0, <2>1, <3>1, <3>2 DEF RequestsFollow
      <4> QED
        BY <1>b, <2>1, <3>1, <3>2, <4>1
    <3>3. CASE g # f
      BY <2>1, <3>1, <3>3
    <3> QED
      BY <3>2, <3>3
  <2> QED
    BY <1>0, <2>1, <2>2, <2>3 DEF GraphCatchesUp
<1>1. ASSUME NEW e \in Events, AppendEvent(e)
      PROVE  GraphCatchesUp'
  <2>1. \A n \in Sequence : n <= head => log'[n] = log[n]
    BY <1>0, <1>1, ScopeIsStable
  <2> QED
    BY <1>1, <1>a, <2>1 DEF AppendEvent, page_vars
<1>2. CASE ReadEvents \/ ReadEventsFails
  BY <1>2 DEF ReadEvents, ReadEventsFails, GraphCatchesUp
<1>3. CASE OpenPage
  <2>1. listed' = listed /\ graph'.version = head
    BY <1>3 DEF OpenPage, Open
  <2> QED
    BY <1>c, <2>1 DEF GraphCatchesUp
<1>4. CASE OpenPageWithInitialGraph
  BY <1>4 DEF OpenPageWithInitialGraph, GraphCatchesUp
<1>5. CASE Poll
  BY <1>5, <1>a DEF Poll, log_vars, page_vars
<1>6. CASE Receive
  <2> DEFINE batch == Head(channel).events
  <2>1. /\ phase = "live" /\ cursor' = Head(channel).through
        /\ batch = {n \in InScope(kind) : cursor < n /\ n <= cursor'}
    BY <1>0, <1>6, FirstMessage
  <2>2. /\ UNCHANGED <<log, phase, graph, disturbed>>
        /\ \A n \in Sequence : listed'[n] = IF n \in batch THEN listed[n] + 1 ELSE listed[n]
        /\ fetches' = IF HasStructural(batch)
                      THEN fetches \cup {Asked("refresh", Head(channel).through, kind)}
                      ELSE fetches
    BY <1>6 DEF Receive, log_vars
  <2> HIDE DEF batch
  <2> SUFFICES ASSUME ~disturbed, NEW n \in Sequence, listed'[n] > 0, Structural(log[n])
               PROVE  n <= graph.version
                      \/ \E g \in fetches' : g.why = "refresh" /\ g.id >= n
    BY <2>2 DEF GraphCatchesUp
  <2>3. CASE n \in batch
    <3> DEFINE g == Asked("refresh", Head(channel).through, kind)
    <3>1. g \in fetches'
      BY <2>2, <2>3 DEF HasStructural
    <3>2. g.why = "refresh" /\ g.id = cursor'
      BY <2>1 DEF Asked
    <3>3. n <= cursor'
      BY <2>1, <2>3
    <3>4. cursor' \in Nat
      BY <1>0, <1>6, FirstMessage DEF Cursor
    <3> HIDE DEF g
    <3>5. g.id >= n
      BY <1>b, <3>2, <3>3, <3>4
    <3> QED
      BY <3>1, <3>2, <3>5
  <2>4. CASE n \notin batch
    <3>1. listed[n] > 0 /\ fetches \subseteq fetches'
      BY <2>2, <2>4
    <3>2. n <= graph.version \/ \E g \in fetches : g.why = "refresh" /\ g.id >= n
      BY <1>0, <2>1, <3>1 DEF GraphCatchesUp
    <3> QED
      BY <3>1, <3>2
  <2> QED
    BY <2>3, <2>4
<1>7. CASE StreamBreaks \/ Reconnect
  BY <1>7, <1>a DEF StreamBreaks, Reconnect, log_vars, page_vars
<1>8. ASSUME NEW f \in fetches, Settle(f)
      PROVE  GraphCatchesUp'
  <2>1. CASE ReadGraph(f)
    <3> DEFINE h == [f EXCEPT !.read = TRUE, !.version = head]
    <3>1. fetches' = (fetches \ {f}) \cup {h}
          /\ UNCHANGED <<log, listed, graph, phase, disturbed>>
      BY <2>1 DEF ReadGraph, log_vars, page_vars
    <3>2. h.why = f.why /\ h.id = f.id
      BY <1>b DEF Request
    <3>3. \A n \in Sequence :
            (\E g \in fetches : g.why = "refresh" /\ g.id >= n)
               => \E g \in fetches' : g.why = "refresh" /\ g.id >= n
      <4> HIDE DEF h
      <4> QED
        BY <3>1, <3>2
    <3> QED
      BY <1>0, <3>1, <3>3 DEF GraphCatchesUp
  <2>2. CASE ShowRefresh(f)
    BY <1>d, <2>2 DEF ShowRefresh, log_vars
  <2>3. CASE ShowKind(f)
    BY <1>d, <2>3 DEF ShowKind, log_vars
  <2>4. CASE FetchFails(f)
    <3>1. fetches' = fetches \ {f} /\ (~disturbed' => ~disturbed /\ f.why # "refresh")
          /\ UNCHANGED <<log, listed, graph, phase>>
      BY <2>4 DEF FetchFails, log_vars, page_vars
    <3> QED
      BY <1>0, <3>1 DEF GraphCatchesUp
  <2> QED
    BY <1>8, <2>1, <2>2, <2>3, <2>4 DEF Settle
<1>9. ASSUME NEW k \in Kinds, ClickKind(k)
      PROVE  GraphCatchesUp'
  BY <1>9, <1>a DEF ClickKind, log_vars, page_vars
<1>10. CASE EnterReplay \/ ExitReplay
  BY <1>10, <1>a DEF EnterReplay, ExitReplay, log_vars
<1>11. CASE Reload
  BY <1>11 DEF Reload, GraphCatchesUp
<1>12. CASE UNCHANGED vars
  BY <1>12, <1>a DEF vars, log_vars, page_vars
<1> QED
  BY <1>1, <1>2, <1>3, <1>4, <1>5, <1>6, <1>7, <1>8, <1>9, <1>10, <1>11, <1>12
     DEF Next, Render

(***************************************************************************)
(* The theorems.                                                           *)
(***************************************************************************)

(* The invariant holds when the portal starts.                             *)
LEMMA InitIInv == Init => IInv
<1> SUFFICES ASSUME Init PROVE IInv
  OBVIOUS
<1> USE FeedAssumption
<1>1. <<>> \in Seq(Message) /\ InitialGraph \in [kind : Kinds, version : Cursor]
      /\ 0 \in Cursor
  BY DEF InitialGraph, Kinds, Cursor
<1>2. TypeOK
  <2>1. channel \in Seq(Message) /\ graph \in [kind : Kinds, version : Cursor]
    BY <1>1 DEF Init
  <2> QED
    BY <1>1, <2>1 DEF Init, TypeOK, Kinds
<1>3. StreamFollows /\ CursorsBounded /\ RequestsFollow
  BY DEF Init, StreamFollows, CursorsBounded, RequestsFollow
<1>4. TimelineIsExact /\ GraphCatchesUp
  BY DEF Init, TimelineIsExact, GraphCatchesUp
<1> QED
  BY <1>2, <1>3, <1>4 DEF IInv

LEMMA IInvStep == IInv /\ [Next]_vars => IInv'
BY TypeStep, StreamStep, CursorStep, RequestStep, TimelineStep, GraphStep DEF IInv

LEMMA Invariance == Spec => []IInv
BY InitIInv, IInvStep, PTL DEF Spec

(* All variables keep their types, whatever the log and the pages' lengths. *)
THEOREM TypeCorrect == Spec => []TypeOK
<1>1. IInv => TypeOK
  BY DEF IInv
<1> QED
  BY <1>1, Invariance, PTL

(* No event is listed twice, and none that a live page's cursor has passed is *)
(* missing, over reconnections, replays, switches of kind and reloads.        *)
THEOREM TimelineExact == Spec => []TimelineIsExact
<1>1. IInv => TimelineIsExact
  BY DEF IInv
<1> QED
  BY <1>1, Invariance, PTL

(* The graph shows the structural events listed, or a request that will show  *)
(* them is not settled, or one has failed or was overtaken.                   *)
THEOREM GraphFollows == Spec => []GraphCatchesUp
<1>1. IInv => GraphCatchesUp
  BY DEF IInv
<1> QED
  BY <1>1, Invariance, PTL

(* The cursor in the session storage never moves back.                        *)
THEOREM StoredCursorForward == Spec => PersistedMovesForward
<1>1. ASSUME IInv, [Next]_vars
      PROVE  [persisted' >= persisted]_vars
  <2>0. TypeOK /\ StreamFollows /\ CursorsBounded /\ persisted \in Nat
    BY <1>1, FeedAssumption DEF IInv, TypeOK, Cursor
  <2>1. CASE Receive
    <3>1. /\ phase = "live" /\ cursor \in Nat /\ cursor' \in Nat /\ persisted' = cursor'
          /\ cursor < cursor'
      BY <2>0, <2>1, FirstMessage, FeedAssumption DEF Cursor
    <3>2. persisted <= cursor
      BY <2>0, <3>1 DEF CursorsBounded
    <3> QED
      BY <2>0, <3>1, <3>2
  <2>2. CASE ~Receive
    <3>1. persisted' = persisted
      <4>1. CASE \E e \in Events : AppendEvent(e)
        BY <4>1 DEF AppendEvent
      <4>2. CASE Render
        BY <4>2 DEF Render, ReadEvents, ReadEventsFails, OpenPage, OpenPageWithInitialGraph, Open
      <4>3. CASE Poll \/ StreamBreaks \/ Reconnect
        BY <4>3 DEF Poll, StreamBreaks, Reconnect
      <4>4. CASE \E f \in fetches : Settle(f)
        BY <4>4 DEF Settle, ReadGraph, ShowRefresh, ShowKind, FetchFails
      <4>5. CASE \E k \in Kinds : ClickKind(k)
        BY <4>5 DEF ClickKind
      <4>6. CASE EnterReplay \/ ExitReplay \/ Reload
        BY <4>6 DEF EnterReplay, ExitReplay, Reload
      <4>7. CASE UNCHANGED vars
        BY <4>7 DEF vars
      <4> QED
        BY <1>1, <2>2, <4>1, <4>2, <4>3, <4>4, <4>5, <4>6, <4>7 DEF Next
    <3> QED
      BY <2>0, <3>1
  <2> QED
    BY <2>1, <2>2
<1> QED
  BY <1>1, Invariance, PTL DEF Spec, PersistedMovesForward
=============================================================================
