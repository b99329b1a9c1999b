----------------------------- MODULE GraphViews -----------------------------
(***************************************************************************)
(* The work graph of a project as the daemon shows it: the rows of the      *)
(* store become nodes and edges, the first of them in the order of their    *)
(* names make a snapshot, and a request traces a way through it or expands   *)
(* it around a node.  A session that an intent names is shown as missing,   *)
(* whether it has a row or not: placeholders come before sessions.          *)
(***************************************************************************)
EXTENDS Naturals, Sequences, FiniteSets, SequencesExt, FiniteSetsExt, Ascending

CONSTANTS
    Agents, Intents, Items,     \* the rows there may be, as sequences of names
    Pairs,                      \* the dependencies there may be, as pairs of items
    AllNodes, AllEdges,         \* the bounds of the snapshots that are searched
    MaxNodes, MaxEdges,         \* the bounds of the answer
    MaxDepth                    \* bound: the depth of a request

ASSUME GraphAssumption ==
    /\ {AllNodes, AllEdges, MaxNodes, MaxEdges, MaxDepth} \subseteq Nat \ {0}
    /\ Pairs \subseteq Range(Items) \X Range(Items)
    /\ Agents \in Seq(Range(Agents)) /\ Intents \in Seq(Range(Intents)) /\ Items \in Seq(Range(Items))

VARIABLES
    rows,       \* the projections of the work graph
    query,      \* the request: trace or expand, its nodes and depth
    walk,       \* the search: depth and parent of the nodes reached, and the queue
    shown       \* the answer

graphVars == <<rows, query, walk, shown>>

(* Names in their order: agent: before intent: before work:. *)
Names == Agents \o Intents \o Items
Rank(n) == CHOOSE k \in DOMAIN Names : Names[k] = n
Listed(nodes) == LET ranks == InOrder({Rank(n) : n \in nodes}) IN [k \in DOMAIN ranks |-> Names[ranks[k]]]

-----------------------------------------------------------------------------
(* projectWorkGraph: an intent need not have an item; an edge has its kind, in the order of the names of edges. *)
NoItem == ""
Edge(kind, source, target) == [kind |-> kind, source |-> source, target |-> target]
Edges ==
    {Edge(1, d[1], d[2]) : d \in rows.dependencies}
    \union {Edge(2, i.intent, i.agent) : i \in rows.intents}
    \union {Edge(3, i.intent, i.item) : i \in {j \in rows.intents : j.item # NoItem}}
Nodes ==
    rows.items \union rows.sessions \union {i.intent : i \in rows.intents}
    \union UNION {{e.source, e.target} : e \in Edges}

EdgesBefore(e, f) ==
    \/ e.kind < f.kind
    \/ e.kind = f.kind /\ Rank(e.source) < Rank(f.source)
    \/ e.kind = f.kind /\ e.source = f.source /\ Rank(e.target) < Rank(f.target)

EdgesInOrder(edges) ==
    [i \in 1..Cardinality(edges) |-> CHOOSE e \in edges : Cardinality({f \in edges : EdgesBefore(f, e)}) = i - 1]

(* normalizeGraphSnapshot, of all there is or of a part already chosen. *)
Upto(s, n) == SubSeq(s, 1, IF Len(s) < n THEN Len(s) ELSE n)
Snapshot(nodes, edges, maxNodes, maxEdges, truncated) ==
    LET chosen == Range(Upto(Listed(nodes), maxNodes))
        connected == {e \in edges : {e.source, e.target} \subseteq chosen}
        kept == Range(Upto(EdgesInOrder(connected), maxEdges))
    IN  [nodes |-> chosen, edges |-> kept, truncated |-> truncated \/ chosen # nodes \/ kept # edges]

Whole == Snapshot(Nodes, Edges, AllNodes, AllEdges, FALSE)

NoQuery == [at |-> "none", from |-> "", to |-> "", depth |-> 0]
NoWalk == [depth |-> <<>>, parent |-> <<>>, queue |-> <<>>]
NothingShown == [found |-> FALSE, nodes |-> {}, edges |-> {}, truncated |-> FALSE]

Rows ==
    [items : SUBSET Range(Items), dependencies : SUBSET Pairs,
     intents : SUBSET [intent : Range(Intents), agent : Range(Agents), item : Range(Items) \union {NoItem}],
     sessions : SUBSET Range(Agents)]

GraphInit ==
    /\ rows \in Rows
    /\ \A i \in rows.intents, j \in rows.intents : i.intent = j.intent => i = j
    /\ query = NoQuery /\ walk = NoWalk /\ shown = NothingShown

-----------------------------------------------------------------------------
(* graph_trace: nothing is reached when the snapshot lacks the first node. *)
AskTrace(from, to, depth) ==
    /\ query.at = "none"
    /\ query' = [at |-> "trace", from |-> from, to |-> to, depth |-> depth]
    /\ walk' = IF from \in Whole.nodes
               THEN [depth |-> [n \in {from} |-> 0], parent |-> <<>>, queue |-> <<from>>]
               ELSE NoWalk
    /\ UNCHANGED <<rows, shown>>

Leaving(n) == {e \in Whole.edges : e.source = n}

(* One neighbour after the other, until the second node is reached. *)
Reach(w, e) ==
    IF e.target \in DOMAIN w.depth \/ query.to \in DOMAIN w.depth THEN w
    ELSE [depth  |-> [n \in DOMAIN w.depth \union {e.target} |->
                        IF n = e.target THEN w.depth[e.source] + 1 ELSE w.depth[n]],
          parent |-> [n \in DOMAIN w.parent \union {e.target} |->
                        IF n = e.target THEN e ELSE w.parent[n]],
          queue  |-> Append(w.queue, e.target)]

VisitNode ==
    /\ query.at = "trace" /\ walk.queue # <<>> /\ query.to \notin DOMAIN walk.depth
    /\ LET n == Head(walk.queue)
           rest == [walk EXCEPT !.queue = Tail(@)]
       IN  walk' = IF walk.depth[n] >= query.depth THEN rest
                   ELSE FoldLeft(Reach, rest, EdgesInOrder(Leaving(n)))
    /\ UNCHANGED <<rows, query, shown>>

(* The way back from the second node, over the parents. *)
WayTo ==
    LET way[n \in DOMAIN walk.depth] ==
          IF n = query.from THEN {} ELSE {walk.parent[n]} \union way[walk.parent[n].source]
    IN  way[query.to]

(* A node at the depth bound has edges left; the mistake does not tell. *)
NoBound == FALSE
AtBound == \E n \in DOMAIN walk.depth : walk.depth[n] >= query.depth /\ Leaving(n) # {}

AnswerTrace ==
    /\ query.at = "trace" /\ (walk.queue = <<>> \/ query.to \in DOMAIN walk.depth)
    /\ LET found == query.to \in DOMAIN walk.depth
           way == IF found THEN WayTo ELSE {}
           ends == {query.from, query.to} \intersect Whole.nodes
           part == Snapshot(ends \union UNION {{e.source, e.target} : e \in way}, way,
                            MaxNodes, MaxEdges, Whole.truncated)
       IN  shown' = [found |-> found, nodes |-> part.nodes, edges |-> part.edges,
                     truncated |-> part.truncated \/ (~found /\ AtBound)]
    /\ query' = [query EXCEPT !.at = "traced"]
    /\ UNCHANGED <<rows, walk>>

-----------------------------------------------------------------------------
(* graph_expand: level by level, along edges in both directions; a node that the
   snapshot lacks gives the degraded graph, which is empty and not truncated. *)
AskExpand(from, depth) ==
    /\ query.at = "none"
    /\ query' = [at |-> IF from \in Whole.nodes THEN "expand" ELSE "degraded",
                 from |-> from, to |-> from, depth |-> depth]
    /\ walk' = IF from \in Whole.nodes
               THEN [depth |-> [n \in {from} |-> 0], parent |-> <<>>, queue |-> <<from>>]
               ELSE NoWalk
    /\ UNCHANGED <<rows, shown>>

Level == Max({walk.depth[n] : n \in DOMAIN walk.depth})
Beside(frontier) ==
    {e.target : e \in {f \in Whole.edges : f.source \in frontier}}
    \union {e.source : e \in {f \in Whole.edges : f.target \in frontier}}

ExpandLevel ==
    /\ query.at = "expand" /\ walk.queue # <<>> /\ Level < query.depth
    /\ LET next == Beside(Range(walk.queue)) \ DOMAIN walk.depth
       IN  walk' = [walk EXCEPT
                      !.depth = [n \in DOMAIN walk.depth \union next |->
                                   IF n \in next THEN Level + 1 ELSE walk.depth[n]],
                      !.queue = Listed(next)]
    /\ UNCHANGED <<rows, query, shown>>

(* What the expansion did not reach, or the snapshot lacks; the mistake asks only of the
   snapshot. *)
OnlyOfSnapshot(nodes, edges) == Whole.truncated
NotReached(nodes, edges) == Whole.truncated \/ nodes # Whole.nodes \/ edges # Whole.edges

AnswerExpand ==
    /\ query.at = "expand" /\ (walk.queue = <<>> \/ Level = query.depth)
    /\ LET nodes == DOMAIN walk.depth
           edges == {e \in Whole.edges : {e.source, e.target} \subseteq nodes}
           part == Snapshot(nodes, edges, MaxNodes, MaxEdges, NotReached(nodes, edges))
       IN  shown' = [found |-> TRUE, nodes |-> part.nodes, edges |-> part.edges, truncated |-> part.truncated]
    /\ query' = [query EXCEPT !.at = "expanded"]
    /\ UNCHANGED <<rows, walk>>

GraphNext ==
    \/ \E from, to \in Range(Names), depth \in 1..MaxDepth :
         AskTrace(from, to, depth) \/ (from = to /\ AskExpand(from, depth))
    \/ VisitNode \/ AnswerTrace \/ ExpandLevel \/ AnswerExpand

GraphSpec == GraphInit /\ [][GraphNext]_graphVars

-----------------------------------------------------------------------------
(* The nodes of the rows at most so many edges away, and at any distance. *)
Around(from, steps) ==
    LET f[k \in 0..steps] ==
          IF k = 0 THEN {from} ELSE f[k - 1] \union {e.target : e \in {g \in Edges : g.source \in f[k - 1]}}
    IN  f[steps]

(* The types of the request, the search and the answer. *)
GraphTypeOK ==
    /\ rows \in Rows
    /\ query \in [at : {"none", "trace", "traced", "expand", "expanded", "degraded"},
                  from : Range(Names) \union {""}, to : Range(Names) \union {""}, depth : 0..MaxDepth]
    /\ DOMAIN walk.depth \subseteq Nodes /\ walk.depth \in [DOMAIN walk.depth -> 0..query.depth]
    /\ DOMAIN walk.parent \subseteq DOMAIN walk.depth /\ Range(walk.parent) \subseteq Edges
    /\ walk.queue \in Seq(DOMAIN walk.depth)
    /\ shown.nodes \subseteq Nodes /\ shown.edges \subseteq Edges
    /\ \A e \in shown.edges : {e.source, e.target} \subseteq shown.nodes

(* An answer to graph_trace can be believed: one that is not truncated and found
   nothing says that the rows have no way from the one node to the other, of any
   length; one that is not truncated and found a way shows a shortest one. *)
TraceIsHonest ==
    (query.at = "traced" /\ ~shown.truncated) =>
        IF shown.found
        THEN /\ query.to \in Around(query.from, Cardinality(shown.edges))
             /\ Cardinality(shown.edges) > 0 =>
                  query.to \notin Around(query.from, Cardinality(shown.edges) - 1)
             /\ \A n \in shown.nodes \ {query.from} : \E e \in shown.edges : e.target = n
        ELSE query.from \notin Nodes \/ query.to \notin Around(query.from, Len(Names))

(* An expansion that is not truncated shows the whole graph. One that is degraded is empty and not
   truncated either: the rows may have no such node, but they may also have it beyond the bounds
   of the snapshot, and only when the snapshot leaves something out. *)
ExpansionIsHonest ==
    /\ (query.at = "expanded" /\ ~shown.truncated) => shown.nodes = Nodes /\ shown.edges = Edges
    /\ query.at = "degraded" => query.from \notin Nodes \/ Whole.truncated
=============================================================================
