----------------------------- MODULE ViewsProofs ----------------------------
(***************************************************************************)
(* Proofs about what is derived from files and graphs: the traces and the    *)
(* expansions of the work graph, the impact of an intent, the windows of a   *)
(* text that is read, the matches of a search; and about all tools at once.  *)
(***************************************************************************)
EXTENDS MCTools, ToolsProofs

(***************************************************************************)
(* The views of the work graph.                                             *)
(***************************************************************************)
(* The names are few, and so are the edges between them.                           *)
EdgeSpace == [kind : 1..3, source : Range(Names), target : Range(Names)]

LEMMA NamesAre ==
    /\ Names \in Seq(Range(Names)) /\ IsFiniteSet(Range(Names))
    /\ Range(Agents) \subseteq Range(Names) /\ Range(Intents) \subseteq Range(Names)
    /\ Range(Items) \subseteq Range(Names)
<1> DEFINE A == Range(Agents) \union Range(Intents) \union Range(Items)
           a == Len(Agents)
           b == Len(Intents)
           c == Len(Items)
<1>1. Agents \in Seq(A) /\ Intents \in Seq(A) /\ Items \in Seq(A)
  <2>1. /\ Agents \in Seq(Range(Agents)) /\ Intents \in Seq(Range(Intents)) /\ Items \in Seq(Range(Items))
        /\ Range(Agents) \subseteq A /\ Range(Intents) \subseteq A /\ Range(Items) \subseteq A
    BY GraphAssumption
  <2> HIDE DEF A
  <2> QED
    BY <2>1
<1>2. a \in Nat /\ b \in Nat /\ c \in Nat
  BY <1>1
<1>3. Agents \o Intents \in Seq(A) /\ Names \in Seq(A) /\ Len(Agents \o Intents) = a + b /\ Len(Names) = a + b + c
  <2> HIDE DEF A
  <2> QED
    BY <1>1 DEF Names
<1>4. /\ \A i \in 1..a : Names[i] = Agents[i]
      /\ \A i \in 1..b : Names[a + i] = Intents[i]
      /\ \A i \in 1..c : Names[(a + b) + i] = Items[i]
  <2>1. \A i \in 1..a : (Agents \o Intents)[i] = Agents[i] /\ Names[i] = (Agents \o Intents)[i]
    BY <1>1, <1>2, <1>3 DEF Names
  <2>2. \A i \in 1..b : (Agents \o Intents)[a + i] = Intents[i] /\ Names[a + i] = (Agents \o Intents)[a + i]
    <3> SUFFICES ASSUME NEW i \in 1..b
                 PROVE  (Agents \o Intents)[a + i] = Intents[i] /\ Names[a + i] = (Agents \o Intents)[a + i]
      OBVIOUS
    <3>1. a + i \in 1..(a + b) /\ a + i > a /\ (a + i) - a = i
      BY <1>2
    <3> QED
      BY <1>1, <1>2, <1>3, <3>1 DEF Names
  <2>3. \A i \in 1..c : Names[(a + b) + i] = Items[i]
    <3> SUFFICES ASSUME NEW i \in 1..c
                 PROVE  Names[(a + b) + i] = Items[i]
      OBVIOUS
    <3>1. (a + b) + i \in 1..(a + b + c) /\ (a + b) + i > a + b /\ ((a + b) + i) - (a + b) = i
      BY <1>2
    <3> QED
      BY <1>1, <1>2, <1>3, <3>1 DEF Names
  <2> QED
    BY <2>1, <2>2, <2>3
<1> DEFINE k == Len(Names)
<1>5. k \in Nat /\ DOMAIN Names = 1..k /\ k = a + b + c
  BY <1>2, <1>3
<1>6. \A i \in 1..k : Names[i] \in Range(Names)
  BY <1>5 DEF Range
<1>7. Names \in Seq(Range(Names))
  <2>1. Names = [i \in 1..k |-> Names[i]]
    <3> HIDE DEF A
    <3> QED
      BY <1>3
  <2> QED
    BY <1>5, <1>6, <2>1
<1>8. IsFiniteSet(Range(Names))
  <2>1. IsFiniteSet(1..k)
    BY <1>5, FS_Interval
  <2>2. Names \in Surjection(1..k, Range(Names))
    BY <1>5, <1>6, <1>7 DEF Surjection, Range
  <2> QED
    BY <2>1, <2>2, FS_Surjection
<1>9. Range(Agents) \subseteq Range(Names) /\ Range(Intents) \subseteq Range(Names) /\ Range(Items) \subseteq Range(Names)
  <2>1. DOMAIN Agents = 1..a /\ DOMAIN Intents = 1..b /\ DOMAIN Items = 1..c
    BY <1>1
  <2>2. ASSUME NEW i \in 1..a PROVE Agents[i] \in Range(Names)
    <3>1. i \in 1..k
      BY <1>2, <1>5
    <3> QED
      BY <1>4, <1>6, <3>1
  <2>3. ASSUME NEW i \in 1..b PROVE Intents[i] \in Range(Names)
    <3>1. a + i \in 1..k
      BY <1>2, <1>5
    <3> QED
      BY <1>4, <1>6, <3>1
  <2>4. ASSUME NEW i \in 1..c PROVE Items[i] \in Range(Names)
    <3>1. (a + b) + i \in 1..k
      BY <1>2, <1>5
    <3> QED
      BY <1>4, <1>6, <3>1
  <2>5. \A x \in Range(Agents) : \E i \in 1..a : x = Agents[i]
    BY <2>1 DEF Range
  <2>6. \A x \in Range(Intents) : \E i \in 1..b : x = Intents[i]
    BY <2>1 DEF Range
  <2>7. \A x \in Range(Items) : \E i \in 1..c : x = Items[i]
    BY <2>1 DEF Range
  <2> QED
    BY <2>2, <2>3, <2>4, <2>5, <2>6, <2>7
<1> QED
  BY <1>7, <1>8, <1>9

LEMMA RanksDiffer ==
    /\ \A n \in Range(Names) : Rank(n) \in Nat
    /\ \A m, n \in Range(Names) : Rank(m) = Rank(n) => m = n
<1>1. \A n \in Range(Names) : \E k \in DOMAIN Names : Names[k] = n
  BY DEF Range
<1>2. \A n \in Range(Names) : Rank(n) \in DOMAIN Names /\ Names[Rank(n)] = n
  BY <1>1 DEF Rank
<1>3. DOMAIN Names \subseteq Nat
  BY NamesAre
<1> QED
  BY <1>2, <1>3

LEMMA EdgeSpaceIsFinite == IsFiniteSet(EdgeSpace)
<1> DEFINE Triples == (Range(Names) \X Range(Names)) \X (1..3)
           f == [t \in Triples |-> [kind |-> t[2], source |-> t[1][1], target |-> t[1][2]]]
<1>1. IsFiniteSet(Triples)
  <2>1. IsFiniteSet(Range(Names))
    BY NamesAre
  <2>2. IsFiniteSet(1..3)
    <3>1. 1 \in Int /\ 3 \in Int
      OBVIOUS
    <3> QED
      BY <3>1, FS_Interval, Zenon
  <2>3. IsFiniteSet(Range(Names) \X Range(Names))
    BY <2>1, FS_Product
  <2> QED
    BY <2>2, <2>3, FS_Product
<1>2. f \in Surjection(Triples, EdgeSpace)
  <2>1. f \in [Triples -> EdgeSpace]
    BY DEF EdgeSpace
  <2>2. ASSUME NEW e \in EdgeSpace
        PROVE  \E t \in Triples : f[t] = e
    <3>1. <<<<e.source, e.target>>, e.kind>> \in Triples
      BY DEF EdgeSpace
    <3>2. f[<<<<e.source, e.target>>, e.kind>>] = e
      BY <3>1 DEF EdgeSpace
    <3> QED
      BY <3>1, <3>2
  <2> QED
    BY <2>1, <2>2 DEF Surjection
<1> QED
  BY <1>1, <1>2, FS_Surjection

LEMMA EdgesAreOrdered ==
    ASSUME NEW e \in EdgeSpace, NEW f \in EdgeSpace
    PROVE  /\ ~EdgesBefore(e, e)
           /\ e # f => EdgesBefore(e, f) \/ EdgesBefore(f, e)
           /\ \A g \in EdgeSpace : EdgesBefore(e, f) /\ EdgesBefore(f, g) => EdgesBefore(e, g)
<1>1. \A x \in EdgeSpace : x.kind \in Nat /\ Rank(x.source) \in Nat /\ Rank(x.target) \in Nat
  BY RanksDiffer DEF EdgeSpace
<1>2. e.source = f.source <=> Rank(e.source) = Rank(f.source)
  BY RanksDiffer DEF EdgeSpace
<1>3. e.target = f.target <=> Rank(e.target) = Rank(f.target)
  BY RanksDiffer DEF EdgeSpace
<1>4. e.kind = f.kind /\ e.source = f.source /\ e.target = f.target => e = f
  BY DEF EdgeSpace
<1>5. ~EdgesBefore(e, e)
  BY <1>1 DEF EdgesBefore
<1>6. e # f => EdgesBefore(e, f) \/ EdgesBefore(f, e)
  BY <1>1, <1>2, <1>3, <1>4 DEF EdgesBefore
<1>7. ASSUME NEW g \in EdgeSpace, EdgesBefore(e, f), EdgesBefore(f, g)
      PROVE  EdgesBefore(e, g)
  BY <1>1, <1>2, <1>7 DEF EdgesBefore
<1> QED
  BY <1>5, <1>6, <1>7

(* The edges of a set in their order are those of the set, each of them once.          *)
Before(S, e) == {f \in S : EdgesBefore(f, e)}

LEMMA EdgesListed ==
    ASSUME NEW S, S \subseteq EdgeSpace
    PROVE  /\ EdgesInOrder(S) \in Seq(S) /\ Cardinality(S) \in Nat /\ Len(EdgesInOrder(S)) = Cardinality(S)
           /\ \A e \in S : \E k \in 1..Cardinality(S) : EdgesInOrder(S)[k] = e
<1> DEFINE n == Cardinality(S)
           place == [e \in S |-> Cardinality(Before(S, e)) + 1]
<1>1. IsFiniteSet(S) /\ n \in Nat
  BY EdgeSpaceIsFinite, FS_Subset, FS_CardinalityType
<1>2. ASSUME NEW e \in S
      PROVE  /\ IsFiniteSet(Before(S, e)) /\ Cardinality(Before(S, e)) \in Nat /\ Cardinality(Before(S, e)) < n
  <2>1. Before(S, e) \in SUBSET S /\ e \notin Before(S, e)
    BY EdgesAreOrdered DEF Before
  <2>2. IsFiniteSet(Before(S, e)) /\ Cardinality(Before(S, e)) <= n /\ Before(S, e) # S
        /\ (n = Cardinality(Before(S, e)) => S = Before(S, e))
    BY <1>1, <2>1, FS_Subset
  <2>3. Cardinality(Before(S, e)) \in Nat
    BY <2>2, FS_CardinalityType
  <2> QED
    BY <1>1, <2>2, <2>3
<1>3. ASSUME NEW e \in S, NEW f \in S, EdgesBefore(e, f)
      PROVE  Cardinality(Before(S, e)) < Cardinality(Before(S, f))
  <2>1. Before(S, e) \in SUBSET Before(S, f) /\ e \in Before(S, f) /\ e \notin Before(S, e)
    <3>1. ASSUME NEW x \in S, EdgesBefore(x, e)
          PROVE  EdgesBefore(x, f)
      BY <1>3, <3>1, EdgesAreOrdered
    <3> QED
      BY <1>3, <3>1, EdgesAreOrdered DEF Before
  <2>2. /\ Cardinality(Before(S, e)) <= Cardinality(Before(S, f))
        /\ (Cardinality(Before(S, f)) = Cardinality(Before(S, e)) => Before(S, f) = Before(S, e))
    BY <1>2, <2>1, FS_Subset
  <2> QED
    BY <1>2, <2>1, <2>2
<1>4. place \in [S -> 1..n]
  BY <1>1, <1>2
<1>5. \A e, f \in S : place[e] = place[f] => e = f
  <2> SUFFICES ASSUME NEW e \in S, NEW f \in S, e # f
               PROVE  place[e] # place[f]
    OBVIOUS
  <2>1. EdgesBefore(e, f) \/ EdgesBefore(f, e)
    BY EdgesAreOrdered
  <2>2. Cardinality(Before(S, e)) # Cardinality(Before(S, f))
    BY <1>2, <1>3, <2>1
  <2> QED
    BY <1>2, <2>2
<1>6. place \in Surjection(S, 1..n)
  <2>1. place \in Injection(S, 1..n)
    BY <1>4, <1>5 DEF Injection, IsInjective
  <2>2. IsFiniteSet(1..n) /\ Cardinality(1..n) = n
    BY <1>1, FS_Interval
  <2> QED
    BY <2>1, <2>2, FS_Injection
<1>7. \A i \in 1..n : \E e \in S : place[e] = i
  BY <1>6 DEF Surjection
<1>8. \A i \in 1..n : EdgesInOrder(S)[i] = CHOOSE e \in S : Cardinality(Before(S, e)) = i - 1
  BY DEF EdgesInOrder, Before
<1>9. ASSUME NEW i \in 1..n
      PROVE  EdgesInOrder(S)[i] \in S /\ place[EdgesInOrder(S)[i]] = i
  <2>1. \E e \in S : Cardinality(Before(S, e)) = i - 1
    BY <1>1, <1>2, <1>7
  <2>2. EdgesInOrder(S)[i] \in S /\ Cardinality(Before(S, EdgesInOrder(S)[i])) = i - 1
    BY <1>8, <2>1
  <2> QED
    BY <1>1, <2>2
<1> HIDE DEF place, n
<1>10. EdgesInOrder(S) = [i \in 1..n |-> EdgesInOrder(S)[i]]
  <2> DEFINE at(i) == CHOOSE e \in S : Cardinality({f \in S : EdgesBefore(f, e)}) = i - 1
  <2>1. EdgesInOrder(S) = [i \in 1..n |-> at(i)]
    BY DEF EdgesInOrder, n
  <2> HIDE DEF at
  <2> QED
    BY <2>1
<1>11. EdgesInOrder(S) \in Seq(S) /\ Len(EdgesInOrder(S)) = n
  BY <1>1, <1>9, <1>10
<1>12. ASSUME NEW e \in S
       PROVE  \E k \in 1..n : EdgesInOrder(S)[k] = e
  <2>1. place[e] \in 1..n
    BY <1>4
  <2>2. EdgesInOrder(S)[place[e]] \in S /\ place[EdgesInOrder(S)[place[e]]] = place[e]
    BY <1>9, <2>1
  <2> QED
    BY <1>5, <2>1, <2>2
<1> QED
  BY <1>1, <1>11, <1>12 DEF n

LEMMA ListedAre ==
    ASSUME NEW S, S \subseteq Range(Names)
    PROVE  Listed(S) \in Seq(S)
<1> DEFINE R == {Rank(n) : n \in S}
           ranks == InOrder(R)
           k == Cardinality(R)
<1>0. \A n \in Range(Names) : Rank(n) \in DOMAIN Names /\ Names[Rank(n)] = n
  <2>1. \A n \in Range(Names) : \E i \in DOMAIN Names : Names[i] = n
    BY DEF Range
  <2> QED
    BY <2>1 DEF Rank
<1>1. R \in SUBSET Nat /\ IsFiniteSet(R) /\ \A r \in R : Names[r] \in S
  <2> DEFINE l == Len(Names)
  <2>1. DOMAIN Names = 1..l /\ l \in Nat
    BY NamesAre
  <2>2. R \in SUBSET (1..l)
    BY <1>0, <2>1
  <2>3. IsFiniteSet(1..l)
    BY <2>1, FS_Interval
  <2>4. \A r \in R : Names[r] \in S
    BY <1>0
  <2> QED
    BY <2>1, <2>2, <2>3, <2>4, FS_Subset
<1> HIDE DEF R
<1>2. ranks \in Seq(R) /\ Len(ranks) = k /\ k \in Nat
  BY <1>1, InOrderIsSeq
<1> HIDE DEF ranks, k
<1>3. \A i \in 1..k : Names[ranks[i]] \in S
  <2>1. \A i \in 1..k : ranks[i] \in R
    BY <1>2
  <2> QED
    BY <1>1, <2>1, Zenon
<1>4. Listed(S) = [i \in 1..k |-> Names[ranks[i]]]
  <2>1. DOMAIN ranks = 1..k
    BY <1>2
  <2>2. Listed(S) = [i \in DOMAIN ranks |-> Names[ranks[i]]]
    BY Zenon DEF Listed, ranks, R
  <2> QED
    BY <2>1, <2>2
<1> QED
  BY <1>2, <1>3, <1>4

LEMMA UptoIsOfThem ==
    ASSUME NEW S, NEW s \in Seq(S), NEW n \in Nat
    PROVE  Range(Upto(s, n)) \subseteq S
<1> DEFINE m == IF Len(s) < n THEN Len(s) ELSE n
<1>1. m \in 0..Len(s) /\ Len(s) \in Nat
  OBVIOUS
<1>2. Upto(s, n) = SubSeq(s, 1, m)
  BY DEF Upto
<1> HIDE DEF m
<1>3. SubSeq(s, 1, m) \in Seq(S)
  <2>1. 1 \in 1..(Len(s) + 1) /\ m \in Nat /\ m <= Len(s)
    BY <1>1
  <2>2. \A i \in 1..m : s[i] \in S
    BY <1>1
  <2> QED
    BY <2>1, <2>2
<1> QED
  BY <1>2, <1>3 DEF Range

(* What a snapshot holds when it is not truncated is all it was made from.         *)
LEMMA SnapshotIsAll ==
    ASSUME NEW nodes, NEW edges, NEW maxNodes, NEW maxEdges, NEW truncated,
           ~Snapshot(nodes, edges, maxNodes, maxEdges, truncated).truncated
    PROVE  /\ Snapshot(nodes, edges, maxNodes, maxEdges, truncated).nodes = nodes
           /\ Snapshot(nodes, edges, maxNodes, maxEdges, truncated).edges = edges
           /\ ~truncated
<1> DEFINE chosen == Range(Upto(Listed(nodes), maxNodes))
           connected == {e \in edges : {e.source, e.target} \subseteq chosen}
           kept == Range(Upto(EdgesInOrder(connected), maxEdges))
<1>1. Snapshot(nodes, edges, maxNodes, maxEdges, truncated) =
        [nodes |-> chosen, edges |-> kept, truncated |-> truncated \/ chosen # nodes \/ kept # edges]
  BY DEF Snapshot
<1> DEFINE cut == truncated \/ chosen # nodes \/ kept # edges
           cutGraph == Snapshot(nodes, edges, maxNodes, maxEdges, truncated)
<1>2. cutGraph.nodes = chosen /\ cutGraph.edges = kept /\ cutGraph.truncated = cut
  <2> HIDE DEF cut, chosen, kept, cutGraph
  <2>1. cutGraph = [nodes |-> chosen, edges |-> kept, truncated |-> cut]
    BY <1>1, Zenon DEF cut, cutGraph
  <2> QED
    BY <2>1
<1>3. ~cut
  BY <1>2, Zenon
<1>4. ~truncated /\ chosen = nodes /\ kept = edges
  BY <1>3, Zenon
<1> QED
  BY <1>2, <1>4, Zenon

EndsWithin(nodes) == {e \in EdgeSpace : e.source \in nodes /\ e.target \in nodes}

(* What a snapshot shows are nodes and edges of those given; an edge is shown with     *)
(* both of its nodes.                                                      *)
LEMMA SnapshotShows ==
    ASSUME NEW nodes, nodes \subseteq Range(Names), NEW edges, edges \subseteq EdgeSpace,
           NEW maxNodes, NEW maxEdges, {maxNodes, maxEdges} \subseteq Nat, NEW truncated,
           NEW s, s = Snapshot(nodes, edges, maxNodes, maxEdges, truncated)
    PROVE  s.nodes \subseteq nodes /\ s.edges \subseteq edges /\ s.edges \subseteq EndsWithin(s.nodes)
<1> DEFINE chosen == Range(Upto(Listed(nodes), maxNodes))
           connected == {e \in edges : {e.source, e.target} \subseteq chosen}
           kept == Range(Upto(EdgesInOrder(connected), maxEdges))
           cut == truncated \/ chosen # nodes \/ kept # edges
<1>1. s = [nodes |-> chosen, edges |-> kept, truncated |-> cut]
  BY DEF Snapshot
<1>2. chosen \subseteq nodes
  BY ListedAre, UptoIsOfThem
<1> HIDE DEF chosen
<1>3. kept \subseteq connected
  <2>1. EdgesInOrder(connected) \in Seq(connected)
    BY EdgesListed
  <2> QED
    BY <2>1, UptoIsOfThem
<1>4. kept \subseteq edges /\ \A e \in kept : e.source \in chosen /\ e.target \in chosen
  BY <1>3
<1> HIDE DEF kept, connected
<1> HIDE DEF cut
<1>6. s.nodes = chosen /\ s.edges = kept /\ s.truncated = cut
  BY <1>1
<1> QED
  BY <1>2, <1>4, <1>6 DEF EndsWithin

LEMMA RowsAreNamed ==
    ASSUME rows \in Rows
    PROVE  /\ Nodes \subseteq Range(Names) /\ Edges \subseteq EdgeSpace
           /\ Whole.nodes \subseteq Nodes /\ Whole.edges \subseteq Edges
           /\ \A e \in Edges : e.source \in Nodes /\ e.target \in Nodes
           /\ \A e \in Whole.edges : e.source \in Whole.nodes /\ e.target \in Whole.nodes
           /\ ~Whole.truncated => Whole.nodes = Nodes /\ Whole.edges = Edges
<1>1. /\ rows.items \subseteq Range(Items) /\ rows.dependencies \subseteq Pairs
      /\ rows.intents \subseteq [intent : Range(Intents), agent : Range(Agents), item : Range(Items) \union {NoItem}]
      /\ rows.sessions \subseteq Range(Agents)
  BY DEF Rows
<1>2. /\ Range(Agents) \subseteq Range(Names) /\ Range(Intents) \subseteq Range(Names)
      /\ Range(Items) \subseteq Range(Names)
  BY NamesAre
<1>3. Edges \subseteq EdgeSpace
  <2>1. \A d \in rows.dependencies : d[1] \in Range(Names) /\ d[2] \in Range(Names)
    BY <1>1, <1>2, GraphAssumption
  <2>2. \A i \in rows.intents : i.intent \in Range(Names) /\ i.agent \in Range(Names)
                              /\ (i.item # NoItem => i.item \in Range(Names))
    BY <1>1, <1>2
  <2>3. \A k \in 1..3, x, y \in Range(Names) : Edge(k, x, y) \in EdgeSpace
    BY DEF Edge, EdgeSpace
  <2>4. \A d \in rows.dependencies : Edge(1, d[1], d[2]) \in EdgeSpace
    BY <2>1, <2>3
  <2>5. \A i \in rows.intents : Edge(2, i.intent, i.agent) \in EdgeSpace
                              /\ (i.item # NoItem => Edge(3, i.intent, i.item) \in EdgeSpace)
    BY <2>2, <2>3
  <2> QED
    BY <2>4, <2>5 DEF Edges
<1>4. \A e \in Edges : e.source \in Range(Names) /\ e.target \in Range(Names)
  BY <1>3 DEF EdgeSpace
<1>5. \A e \in Edges : e.source \in Nodes /\ e.target \in Nodes
  BY DEF Nodes
<1>6. Nodes \subseteq Range(Names)
  <2>1. \A i \in rows.intents : i.intent \in Range(Names)
    BY <1>1, <1>2
  <2> QED
    BY <1>1, <1>2, <1>4, <2>1 DEF Nodes
<1>7. {AllNodes, AllEdges} \subseteq Nat
  BY GraphAssumption
<1> DEFINE already == FALSE
<1>8. Whole = Snapshot(Nodes, Edges, AllNodes, AllEdges, already)
  BY DEF Whole
<1> HIDE DEF already
<1>9. Whole.nodes \subseteq Nodes
  BY <1>3, <1>6, <1>7, <1>8, SnapshotShows
<1>10. Whole.edges \subseteq Edges /\ Whole.edges \subseteq EndsWithin(Whole.nodes)
  BY <1>3, <1>6, <1>7, <1>8, SnapshotShows
<1>13. \A e \in Whole.edges : e.source \in Whole.nodes /\ e.target \in Whole.nodes
  BY <1>10 DEF EndsWithin
<1>11. ~Whole.truncated => Whole.nodes = Nodes /\ Whole.edges = Edges
  <2> SUFFICES ASSUME ~Whole.truncated
               PROVE  Whole.nodes = Nodes /\ Whole.edges = Edges
    OBVIOUS
  <2>1. ~Snapshot(Nodes, Edges, AllNodes, AllEdges, already).truncated
    BY <1>8, Zenon
  <2> QED
    BY <1>8, <2>1, SnapshotIsAll
<1>12. \A e \in Edges : e.source \in Nodes /\ e.target \in Nodes
  BY <1>5
<1> QED
  BY <1>3, <1>6, <1>9, <1>10, <1>11, <1>12, <1>13, Zenon

(* The nodes so many edges away, or fewer.                                       *)
Led(E, S) == {e.target : e \in {g \in E : g.source \in S}}
NearSteps(g, E, from, m) == [k \in 0..m |-> IF k = 0 THEN {from} ELSE g[k - 1] \union Led(E, g[k - 1])]
NearUpto(E, from, m) == CHOOSE g : g = NearSteps(g, E, from, m)
Near(E, from, m) == NearUpto(E, from, m)[m]

LEMMA NearExists ==
    ASSUME NEW E, NEW from, NEW m \in Nat
    PROVE  NearUpto(E, from, m) = NearSteps(NearUpto(E, from, m), E, from, m)
<1> DEFINE None == {k \in Nat : ~ \E g : g = NearSteps(g, E, from, k)}
<1>1. SUFFICES ASSUME None # {}
               PROVE  FALSE
  BY DEF NearUpto
<1>2. PICK k \in None : \A l \in None : k <= l
  BY <1>1, LeastNumber
<1>3. k \in Nat /\ ~ \E g : g = NearSteps(g, E, from, k)
  OBVIOUS
<1>4. k # 0
  <2> SUFFICES \E g : g = NearSteps(g, E, from, 0)
    BY <1>3
  <2> WITNESS [j \in 0..0 |-> {from}]
  <2> QED
    BY DEF NearSteps
<1>5. k - 1 \in Nat /\ k - 1 \notin None
  BY <1>2, <1>3, <1>4
<1>6. PICK g : g = NearSteps(g, E, from, k - 1)
  BY <1>5
<1> HIDE DEF None
<1> DEFINE h == [j \in 0..k |-> IF j = 0 THEN {from} ELSE g[j - 1] \union Led(E, g[j - 1])]
<1>7. ASSUME NEW j \in 0..k, j # 0
      PROVE  h[j - 1] = g[j - 1]
  <2>1. j - 1 \in 0..(k - 1) /\ j - 1 \in 0..k
    BY <1>3, <1>7
  <2>2. g[j - 1] = IF j - 1 = 0 THEN {from} ELSE g[(j - 1) - 1] \union Led(E, g[(j - 1) - 1])
    BY <1>6, <2>1 DEF NearSteps
  <2> QED
    BY <2>1, <2>2
<1>8. h = NearSteps(h, E, from, k)
  BY <1>7 DEF NearSteps
<1> QED
  BY <1>3, <1>8

LEMMA NearIs ==
    ASSUME NEW E, NEW from
    PROVE  /\ Near(E, from, 0) = {from}
           /\ \A k \in Nat : Near(E, from, k + 1) = Near(E, from, k) \union Led(E, Near(E, from, k))
<1> DEFINE G(m) == NearUpto(E, from, m)
           Apart(k) == \E l, m \in Nat : k <= l /\ k <= m /\ G(l)[k] # G(m)[k]
           Bad == {k \in Nat : Apart(k)}
<1>1. \A m \in Nat : \A k \in 0..m :
        G(m)[k] = IF k = 0 THEN {from} ELSE G(m)[k - 1] \union Led(E, G(m)[k - 1])
  <2> SUFFICES ASSUME NEW m \in Nat, NEW k \in 0..m
               PROVE  G(m)[k] = IF k = 0 THEN {from} ELSE G(m)[k - 1] \union Led(E, G(m)[k - 1])
    OBVIOUS
  <2>1. G(m) = NearSteps(G(m), E, from, m)
    BY NearExists
  <2>2. NearSteps(G(m), E, from, m)[k] =
          IF k = 0 THEN {from} ELSE G(m)[k - 1] \union Led(E, G(m)[k - 1])
    BY DEF NearSteps
  <2> HIDE DEF G
  <2> QED
    BY <2>1, <2>2, Zenon
<1> HIDE DEF G
<1>2. Bad = {}
  <2> SUFFICES ASSUME Bad # {}
               PROVE  FALSE
    OBVIOUS
  <2>1. Bad \subseteq Nat
    OBVIOUS
  <2>2. PICK k \in Bad : \A j \in Bad : k <= j
    BY <2>1, LeastNumber
  <2>3. PICK l \in Nat, m \in Nat : k <= l /\ k <= m /\ G(l)[k] # G(m)[k]
    OBVIOUS
  <2>4. k \in Nat /\ k \in 0..l /\ k \in 0..m
    BY <2>3
  <2>5. k # 0
    BY <1>1, <2>3, <2>4
  <2>6. k - 1 \in Nat /\ k - 1 \notin Bad /\ k - 1 <= l /\ k - 1 <= m
    BY <2>2, <2>4, <2>5
  <2>7. G(l)[k - 1] = G(m)[k - 1]
    BY <2>6
  <2>8. /\ G(l)[k] = G(l)[k - 1] \union Led(E, G(l)[k - 1])
        /\ G(m)[k] = G(m)[k - 1] \union Led(E, G(m)[k - 1])
    BY <1>1, <2>4, <2>5
  <2> QED
    BY <2>3, <2>7, <2>8
<1>3. ASSUME NEW k \in Nat
      PROVE  G(k + 1)[k] = G(k)[k]
  <2>1. k + 1 \in Nat /\ k <= k + 1 /\ k <= k /\ k \notin Bad
    BY <1>2
  <2> QED
    BY <2>1
<1>4. G(0)[0] = {from}
  <2>1. 0 \in Nat /\ 0 \in 0..0
    OBVIOUS
  <2> QED
    BY <1>1, <2>1, Zenon
<1>5. ASSUME NEW k \in Nat
      PROVE  G(k + 1)[k + 1] = G(k)[k] \union Led(E, G(k)[k])
  <2>1. k + 1 \in Nat /\ k + 1 \in 0..(k + 1) /\ k + 1 # 0 /\ (k + 1) - 1 = k
    OBVIOUS
  <2>2. G(k + 1)[k + 1] = G(k + 1)[(k + 1) - 1] \union Led(E, G(k + 1)[(k + 1) - 1])
    BY <1>1, <2>1, Zenon
  <2>3. G(k + 1)[k + 1] = G(k + 1)[k] \union Led(E, G(k + 1)[k])
    BY <2>1, <2>2, Zenon
  <2> QED
    BY <1>3, <2>3
<1> QED
  BY <1>4, <1>5 DEF Near, G

LEMMA AroundIsNear ==
    ASSUME NEW from, NEW m
    PROVE  Around(from, m) = Near(Edges, from, m)
  BY DEF Around, Near, NearUpto, NearSteps, Led

(***************************************************************************)
(* A search that is at nodes so many edges away.                             *)
(***************************************************************************)
TrekTypes(w, E, from, deep) ==
    /\ w = [depth |-> w.depth, parent |-> w.parent, queue |-> w.queue]
    /\ w.depth \in [DOMAIN w.depth -> 0..deep]
    /\ w.parent \in [DOMAIN w.depth \ {from} -> E]
    /\ w.queue \in Seq(DOMAIN w.depth)
    /\ from \in DOMAIN w.depth /\ w.depth[from] = 0

Parented(w, from) ==
    \A n \in DOMAIN w.depth \ {from} :
        /\ w.parent[n].target = n /\ w.parent[n].source \in DOMAIN w.depth
        /\ w.depth[n] = w.depth[w.parent[n].source] + 1

(* The depth of a node is its distance.                                            *)
Nearest(w, E, from) ==
    \A n \in DOMAIN w.depth :
        /\ n \in Near(E, from, w.depth[n])
        /\ \A k \in Nat : k < w.depth[n] => n \notin Near(E, from, k)

InStep(w, d) ==
    /\ \A k \in DOMAIN w.queue : d <= w.depth[w.queue[k]]
    /\ \A j, k \in DOMAIN w.queue : j <= k => w.depth[w.queue[j]] <= w.depth[w.queue[k]]
    /\ \A n \in DOMAIN w.depth : w.depth[n] <= d + 1

Waiting(w) == {w.queue[k] : k \in DOMAIN w.queue}

(* While the second node is not reached, what an edge leads to from a node that was     *)
(* visited is; one node that is being visited is excepted.                          *)
Closed(w, E, to, deep, except) ==
    to \notin DOMAIN w.depth =>
        \A n \in DOMAIN w.depth : n \notin except /\ n \notin Waiting(w) /\ w.depth[n] < deep =>
            \A e \in E : e.source = n => e.target \in DOMAIN w.depth /\ w.depth[e.target] <= w.depth[n] + 1

Trek(w, E, from, to, deep, d, except) ==
    /\ TrekTypes(w, E, from, deep) /\ Parented(w, from) /\ Nearest(w, E, from)
    /\ InStep(w, d) /\ Closed(w, E, to, deep, except)

(* Everything nearer than the level that is searched is reached.                       *)
LEMMA NearIsReached ==
    ASSUME NEW w, NEW E, NEW from, NEW to, NEW deep \in Nat, NEW d \in Nat, d < deep, NEW n,
           Trek(w, E, from, to, deep, d, {n}), n \in DOMAIN w.depth, w.depth[n] = d,
           to \notin DOMAIN w.depth
    PROVE  \A k \in 0..d : Near(E, from, k) \subseteq DOMAIN w.depth
<1> DEFINE There(j) == \A m \in Near(E, from, j) : m \in DOMAIN w.depth /\ w.depth[m] <= j
           Bad == {j \in 0..d : ~There(j)}
<1>1. SUFFICES ASSUME Bad # {}
               PROVE  FALSE
  OBVIOUS
<1>2. Bad \subseteq Nat
  OBVIOUS
<1>3. PICK j \in Bad : \A i \in Bad : j <= i
  BY <1>1, <1>2, LeastNumber
<1>4. j \in Nat /\ j <= d /\ ~There(j)
  OBVIOUS
<1>5. j # 0
  <2>1. Near(E, from, 0) = {from}
    BY NearIs
  <2>2. There(0)
    BY <2>1 DEF Trek, TrekTypes
  <2> QED
    BY <1>4, <2>2
<1>6. j - 1 \in Nat /\ j - 1 \in 0..d /\ There(j - 1)
  <2>1. j - 1 \in Nat /\ j - 1 \in 0..d /\ ~(j <= j - 1)
    BY <1>4, <1>5
  <2>2. j - 1 \notin Bad
    BY <1>3, <2>1
  <2> QED
    BY <2>1, <2>2
<1>7. Near(E, from, j) = Near(E, from, j - 1) \union Led(E, Near(E, from, j - 1))
  <2>1. (j - 1) + 1 = j
    BY <1>4
  <2>2. Near(E, from, (j - 1) + 1) = Near(E, from, j - 1) \union Led(E, Near(E, from, j - 1))
    BY <1>6, NearIs, Zenon
  <2> QED
    BY <2>1, <2>2, Zenon
<1>8. ASSUME NEW m \in Near(E, from, j)
      PROVE  m \in DOMAIN w.depth /\ w.depth[m] <= j
  <2>0. w.depth \in [DOMAIN w.depth -> 0..deep]
    BY DEF Trek, TrekTypes
  <2>1. CASE m \in Near(E, from, j - 1)
    <3>1. m \in DOMAIN w.depth /\ w.depth[m] <= j - 1
      BY <1>6, <2>1
    <3> QED
      BY <1>4, <2>0, <3>1
  <2>2. ASSUME NEW e \in E, e.source \in Near(E, from, j - 1), m = e.target
        PROVE  m \in DOMAIN w.depth /\ w.depth[m] <= j
    <3> DEFINE s == e.source
    <3>1. s \in DOMAIN w.depth /\ w.depth[s] <= j - 1 /\ w.depth[s] \in 0..deep
      BY <1>6, <2>0, <2>2
    <3>2. w.depth[s] < d /\ w.depth[s] < deep
      BY <1>4, <3>1
    <3>3. s \notin {n}
      BY <3>2
    <3>4. s \notin Waiting(w)
      BY <3>1, <3>2 DEF Waiting, Trek, InStep
    <3>5. e.target \in DOMAIN w.depth /\ w.depth[e.target] <= w.depth[s] + 1
      BY <3>1, <3>2, <3>3, <3>4 DEF Trek, Closed
    <3> QED
      BY <1>4, <2>0, <2>2, <3>1, <3>5
  <2>3. CASE m \in Led(E, Near(E, from, j - 1))
    BY <2>2, <2>3 DEF Led
  <2> QED
    BY <1>7, <2>1, <2>3
<1> QED
  BY <1>4, <1>8

(* Following one edge of the node that is being visited.                             *)
ReachesTo(w, v, E, from, to, deep, d, n, e) ==
    /\ Trek(v, E, from, to, deep, d, {n}) /\ n \in DOMAIN v.depth /\ v.depth[n] = d
    /\ DOMAIN w.depth \subseteq DOMAIN v.depth
    /\ to \notin DOMAIN v.depth => e.target \in DOMAIN v.depth

LEMMA ReachNew ==
    ASSUME NEW w, NEW E, NEW from, NEW to, NEW deep \in Nat, NEW d \in Nat, d < deep, NEW n,
           Trek(w, E, from, to, deep, d, {n}), n \in DOMAIN w.depth, w.depth[n] = d, query.to = to,
           NEW e \in E, e.source = n, e.target \notin DOMAIN w.depth, to \notin DOMAIN w.depth
    PROVE  ReachesTo(w, Reach(w, e), E, from, to, deep, d, n, e)
<1> DEFINE t == e.target
           D == DOMAIN w.depth
           P == DOMAIN w.parent
           all == D \union {t}
           depth == [m \in all |-> IF m = t THEN w.depth[e.source] + 1 ELSE w.depth[m]]
           parent == [m \in P \union {t} |-> IF m = t THEN e ELSE w.parent[m]]
           queue == Append(w.queue, t)
           v == Reach(w, e)
<1>1. /\ w.depth \in [D -> 0..deep] /\ w.parent \in [D \ {from} -> E] /\ w.queue \in Seq(D)
      /\ from \in D /\ w.depth[from] = 0 /\ P = D \ {from}
  BY DEF Trek, TrekTypes
<1>2. v = [depth |-> depth, parent |-> parent, queue |-> queue]
  BY DEF Reach
<1>3. t \notin D /\ n \in D /\ t # n /\ t # from /\ e.source = n /\ w.depth[n] = d /\ d + 1 \in 0..deep
  BY <1>1
<1>4. /\ DOMAIN depth = all /\ depth[t] = d + 1 /\ \A m \in D : depth[m] = w.depth[m]
      /\ depth \in [all -> 0..deep]
  BY <1>1, <1>3
<1>5. /\ parent \in [all \ {from} -> E] /\ parent[t] = e /\ \A m \in D \ {from} : parent[m] = w.parent[m]
  BY <1>1, <1>3
<1>6. /\ queue \in Seq(all) /\ Len(queue) = Len(w.queue) + 1 /\ queue[Len(w.queue) + 1] = t
      /\ \A k \in 1..Len(w.queue) : queue[k] = w.queue[k] /\ w.queue[k] \in D
  <2>1. w.queue \in Seq(all) /\ t \in all
    BY <1>1
  <2> HIDE DEF t, all, D
  <2> QED
    BY <1>1, <2>1
<1>7. t \notin all \ {t} /\ t \in all /\ D \subseteq all /\ \A m \in all : m = t \/ m \in D
  OBVIOUS
<1> HIDE DEF v, depth, parent, queue
<1>8. v.depth = depth /\ v.parent = parent /\ v.queue = queue
  BY <1>2
<1>9. DOMAIN w.depth = D
  OBVIOUS
<1> HIDE DEF t, all, D, P
<1>10. TrekTypes(v, E, from, deep)
  <2>1. v = [depth |-> v.depth, parent |-> v.parent, queue |-> v.queue]
    BY <1>2, <1>8
  <2>2. from \in all /\ depth[from] = 0
    BY <1>1, <1>4, <1>7
  <2> QED
    BY <1>4, <1>5, <1>6, <1>8, <2>1, <2>2 DEF TrekTypes
<1>11. Parented(v, from)
  <2> SUFFICES ASSUME NEW m \in all \ {from}
               PROVE  parent[m].target = m /\ parent[m].source \in all /\ depth[m] = depth[parent[m].source] + 1
    BY <1>4, <1>8 DEF Parented
  <2>1. CASE m = t
    <3>1. parent[m] = e /\ e.target = m /\ e.source = n /\ depth[m] = d + 1 /\ depth[n] = d
      BY <1>3, <1>4, <1>5, <2>1 DEF t
    <3> QED
      BY <1>3, <1>7, <3>1
  <2>2. CASE m \in D
    <3>1. w.parent[m].target = m /\ w.parent[m].source \in D /\ w.depth[m] = w.depth[w.parent[m].source] + 1
      BY <1>9, <2>2 DEF Trek, Parented
    <3>2. parent[m] = w.parent[m] /\ depth[m] = w.depth[m] /\ depth[w.parent[m].source] = w.depth[w.parent[m].source]
      BY <1>4, <1>5, <2>2, <3>1
    <3> QED
      BY <1>7, <3>1, <3>2
  <2> QED
    BY <1>7, <2>1, <2>2
<1>12. Nearest(v, E, from)
  <2> SUFFICES ASSUME NEW m \in all
               PROVE  /\ m \in Near(E, from, depth[m])
                      /\ \A k \in Nat : k < depth[m] => m \notin Near(E, from, k)
    BY <1>4, <1>8 DEF Nearest
  <2>1. CASE m = t
    <3>1. n \in Near(E, from, d)
      BY <1>3, <1>9 DEF Trek, Nearest
    <3>2. t \in Led(E, Near(E, from, d))
      BY <1>3, <3>1 DEF Led, t
    <3>3. Near(E, from, d + 1) = Near(E, from, d) \union Led(E, Near(E, from, d))
      <4>1. d \in Nat
        OBVIOUS
      <4>2. \A k \in Nat : Near(E, from, k + 1) = Near(E, from, k) \union Led(E, Near(E, from, k))
        BY NearIs
      <4> QED
        BY <4>1, <4>2, Zenon
    <3>4. t \in Near(E, from, d + 1)
      BY <3>2, <3>3, Zenon
    <3>5. ASSUME NEW k \in Nat, k < d + 1
          PROVE  t \notin Near(E, from, k)
      <4>1. k \in 0..d
        BY <3>5
      <4>2. \A j \in 0..d : Near(E, from, j) \subseteq DOMAIN w.depth
        BY NearIsReached
      <4>3. Near(E, from, k) \subseteq D
        BY <1>9, <4>1, <4>2, Zenon
      <4> QED
        BY <1>3, <4>3
    <3>6. depth[m] = d + 1
      BY <1>4, <2>1
    <3> QED
      BY <2>1, <3>4, <3>5, <3>6
  <2>2. CASE m \in D
    <3>1. depth[m] = w.depth[m]
      BY <1>4, <2>2
    <3> QED
      BY <1>9, <2>2, <3>1 DEF Trek, Nearest
  <2> QED
    BY <1>7, <2>1, <2>2
<1> DEFINE l == Len(w.queue)
<1>13. l \in Nat /\ DOMAIN w.queue = 1..l /\ DOMAIN queue = 1..(l + 1)
  BY <1>1, <1>6
<1>14. InStep(v, d)
  <2>1. /\ \A k \in 1..l : d <= w.depth[w.queue[k]]
        /\ \A j, k \in 1..l : j <= k => w.depth[w.queue[j]] <= w.depth[w.queue[k]]
        /\ \A m \in D : w.depth[m] <= d + 1
    BY <1>9, <1>13 DEF Trek, InStep
  <2>2. \A m \in all : depth[m] <= d + 1
    BY <1>4, <1>7, <2>1
  <2>3. \A k \in 1..l : queue[k] \in D /\ queue[k] = w.queue[k] /\ depth[queue[k]] = w.depth[w.queue[k]]
    BY <1>4, <1>6
  <2>4. queue[l + 1] = t /\ depth[t] = d + 1
    BY <1>4, <1>6
  <2>5. ASSUME NEW k \in 1..(l + 1)
        PROVE  d <= depth[queue[k]] /\ queue[k] \in all
    <3>1. CASE k = l + 1
      BY <1>7, <2>4, <3>1
    <3>2. CASE k \in 1..l
      BY <1>7, <2>1, <2>3, <3>2
    <3> QED
      BY <1>13, <3>1, <3>2
  <2>6. ASSUME NEW j \in 1..(l + 1), NEW k \in 1..(l + 1), j <= k
        PROVE  depth[queue[j]] <= depth[queue[k]]
    <3>1. CASE k = l + 1
      BY <2>2, <2>4, <2>5, <3>1
    <3>2. CASE k \in 1..l
      <4>1. j \in 1..l
        BY <1>13, <2>6, <3>2
      <4> QED
        BY <2>1, <2>3, <2>6, <3>2, <4>1
    <3> QED
      BY <1>13, <3>1, <3>2
  <2> QED
    BY <1>4, <1>8, <1>13, <2>2, <2>5, <2>6 DEF InStep
<1>15. Closed(v, E, to, deep, {n})
  <2> SUFFICES ASSUME NEW m \in all, m # n, m \notin Waiting(v), depth[m] < deep, NEW f \in E, f.source = m
               PROVE  f.target \in all /\ depth[f.target] <= depth[m] + 1
    BY <1>4, <1>8 DEF Closed
  <2>1. t \in Waiting(v) /\ Waiting(w) \subseteq Waiting(v)
    <3>1. l + 1 \in 1..(l + 1) /\ \A k \in 1..l : k \in 1..(l + 1)
      BY <1>13
    <3> QED
      BY <1>6, <1>8, <1>13, <3>1 DEF Waiting
  <2>2. m \in D /\ m \notin Waiting(w) /\ w.depth[m] < deep
    BY <1>4, <1>7, <2>1
  <2>3. f.target \in D /\ w.depth[f.target] <= w.depth[m] + 1
    BY <1>9, <2>2 DEF Trek, Closed
  <2> QED
    BY <1>4, <1>7, <2>2, <2>3
<1>16. n \in all /\ depth[n] = d
  BY <1>3, <1>4, <1>7
<1> QED
  BY <1>4, <1>7, <1>8, <1>9, <1>10, <1>11, <1>12, <1>14, <1>15, <1>16 DEF ReachesTo, Trek, v, t

LEMMA ReachStep ==
    ASSUME NEW w, NEW E, NEW from, NEW to, NEW deep \in Nat, NEW d \in Nat, d < deep, NEW n,
           Trek(w, E, from, to, deep, d, {n}), n \in DOMAIN w.depth, w.depth[n] = d, query.to = to,
           NEW e \in E, e.source = n
    PROVE  ReachesTo(w, Reach(w, e), E, from, to, deep, d, n, e)
<1>1. CASE e.target \in DOMAIN w.depth \/ to \in DOMAIN w.depth
  <2>1. Reach(w, e) = w
    BY <1>1 DEF Reach
  <2> QED
    BY <1>1, <2>1 DEF ReachesTo
<1>2. CASE e.target \notin DOMAIN w.depth /\ to \notin DOMAIN w.depth
  BY <1>2, ReachNew
<1> QED
  BY <1>1, <1>2

(* The fold over the edges that leave the node, as the function that takes the last off. *)
ReachSteps(g, base, edges, k) ==
    [s \in SUBSET (1..k) |-> IF s = {} THEN base ELSE Reach(g[s \ {Max(s)}], edges[Max(s)])]

LEMMA ReachExists ==
    ASSUME NEW base, NEW edges, NEW k \in Nat
    PROVE  \E g : g = ReachSteps(g, base, edges, k)
<1> DEFINE None == {m \in Nat : ~ \E g : g = ReachSteps(g, base, edges, m)}
<1>1. SUFFICES ASSUME None # {}
               PROVE  FALSE
  OBVIOUS
<1>2. PICK m \in None : \A l \in None : m <= l
  BY <1>1, LeastNumber
<1>3. m \in Nat /\ ~ \E g : g = ReachSteps(g, base, edges, m)
  OBVIOUS
<1>4. m # 0
  <2> SUFFICES \E g : g = ReachSteps(g, base, edges, 0)
    BY <1>3
  <2> WITNESS [s \in SUBSET (1..0) |-> base]
  <2> QED
    BY DEF ReachSteps
<1>5. m - 1 \in Nat /\ m - 1 \notin None
  BY <1>2, <1>3, <1>4
<1>6. PICK g : g = ReachSteps(g, base, edges, m - 1)
  BY <1>5
<1> HIDE DEF None
<1> DEFINE h == [s \in SUBSET (1..m) |->
                   IF s = {} THEN base ELSE Reach(g[s \ {Max(s)}], edges[Max(s)])]
<1>7. ASSUME NEW s \in SUBSET (1..m), s # {}
      PROVE  h[s \ {Max(s)}] = g[s \ {Max(s)}]
  <2> DEFINE t == s \ {Max(s)}
  <2>1. s \subseteq 0..m
    BY <1>3
  <2>2. Max(s) \in s /\ \A l \in s : Max(s) >= l
    BY <1>3, <1>7, <2>1, GreatestNumber
  <2>3. t \subseteq 1..(m - 1) /\ t \subseteq 1..m
    <3> SUFFICES ASSUME NEW l \in s, l # Max(s)
                 PROVE  l \in 1..(m - 1) /\ l \in 1..m
      OBVIOUS
    <3>1. l \in 1..m /\ Max(s) \in 1..m /\ l <= Max(s)
      BY <2>2
    <3> QED
      BY <1>3, <3>1
  <2> HIDE DEF t
  <2>4. h[t] = IF t = {} THEN base ELSE Reach(g[t \ {Max(t)}], edges[Max(t)])
    BY <2>3
  <2>5. g[t] = IF t = {} THEN base ELSE Reach(g[t \ {Max(t)}], edges[Max(t)])
    BY <1>6, <2>3 DEF ReachSteps
  <2> QED
    BY <2>4, <2>5 DEF t
<1>8. h = ReachSteps(h, base, edges, m)
  BY <1>7 DEF ReachSteps
<1> QED
  BY <1>3, <1>8

LEMMA ReachFold ==
    ASSUME NEW base, NEW k \in Nat, NEW edges, DOMAIN edges = 1..k
    PROVE  \E g : /\ g = ReachSteps(g, base, edges, k)
                  /\ FoldLeft(Reach, base, edges) = g[1..k]
<1> DEFINE iter == CHOOSE g : g = [s \in SUBSET (DOMAIN edges) |->
                     IF s = {} THEN base ELSE Reach(g[s \ {Max(s)}], edges[Max(s)])]
<1>1. FoldLeft(Reach, base, edges) = iter[DOMAIN edges]
  BY DEF FoldLeft, MapThenFoldSet
<1>2. iter = CHOOSE g : g = ReachSteps(g, base, edges, k)
  BY DEF ReachSteps
<1>3. iter = ReachSteps(iter, base, edges, k)
  BY <1>2, ReachExists
<1> HIDE DEF iter
<1> QED
  BY <1>1, <1>3

(* Some of the edges that leave the node, in any order.                              *)
Tried(v, E, from, to, deep, d, n, edges, k) ==
    /\ Trek(v, E, from, to, deep, d, {n}) /\ n \in DOMAIN v.depth /\ v.depth[n] = d
    /\ to \notin DOMAIN v.depth => \A l \in 1..k : edges[l].target \in DOMAIN v.depth

LEMMA TryFurther ==
    ASSUME NEW w, NEW E, NEW from, NEW to, NEW deep \in Nat, NEW d \in Nat, d < deep, NEW n,
           query.to = to, NEW edges, NEW k \in Nat, Tried(w, E, from, to, deep, d, n, edges, k),
           edges[k + 1] \in E, edges[k + 1].source = n
    PROVE  Tried(Reach(w, edges[k + 1]), E, from, to, deep, d, n, edges, k + 1)
<1> DEFINE e == edges[k + 1]
           v == Reach(w, e)
<1>1. ReachesTo(w, v, E, from, to, deep, d, n, e)
  BY ReachStep DEF Tried
<1> HIDE DEF v
<1>2. ASSUME to \notin DOMAIN v.depth, NEW l \in 1..(k + 1)
      PROVE  edges[l].target \in DOMAIN v.depth
  <2>1. CASE l = k + 1
    BY <1>1, <1>2, <2>1 DEF ReachesTo
  <2>2. CASE l \in 1..k
    <3>1. edges[l].target \in DOMAIN w.depth
      BY <1>1, <1>2, <2>2 DEF ReachesTo, Tried
    <3> QED
      BY <1>1, <3>1 DEF ReachesTo
  <2> QED
    BY <2>1, <2>2
<1>3. Trek(v, E, from, to, deep, d, {n}) /\ n \in DOMAIN v.depth /\ v.depth[n] = d
  BY <1>1 DEF ReachesTo
<1> QED
  BY <1>2, <1>3 DEF Tried, v

LEMMA TryAll ==
    ASSUME NEW base, NEW E, NEW from, NEW to, NEW deep \in Nat, NEW d \in Nat, d < deep, NEW n,
           query.to = to, Trek(base, E, from, to, deep, d, {n}), n \in DOMAIN base.depth, base.depth[n] = d,
           NEW edges \in Seq({e \in E : e.source = n})
    PROVE  Tried(FoldLeft(Reach, base, edges), E, from, to, deep, d, n, edges, Len(edges))
<1> DEFINE Done(v, k) == Tried(v, E, from, to, deep, d, n, edges, k)
           tried == FoldLeft(Reach, base, edges)
<1>1. Len(edges) \in Nat /\ DOMAIN edges = 1..Len(edges)
      /\ \A k \in 1..Len(edges) : edges[k] \in E /\ edges[k].source = n
  OBVIOUS
<1>2. PICK g : g = ReachSteps(g, base, edges, Len(edges)) /\ tried = g[1..Len(edges)]
  BY <1>1, ReachFold
<1>3. Done(base, 0)
  BY DEF Tried
<1>4. ASSUME NEW w, NEW k \in Nat, k + 1 \in 1..Len(edges), Done(w, k)
      PROVE  Done(Reach(w, edges[k + 1]), k + 1)
  BY <1>1, <1>4, TryFurther
<1> HIDE DEF Done, tried
<1> DEFINE Wrong == {k \in 0..Len(edges) : ~Done(g[1..k], k)}
<1>5. SUFFICES ASSUME Wrong # {}
               PROVE  FALSE
  <2>1. Len(edges) \in 0..Len(edges) /\ Len(edges) \notin Wrong
    BY <1>1, <1>5
  <2>2. Done(tried, Len(edges))
    BY <1>2, <2>1
  <2> QED
    BY <2>2 DEF Done, tried
<1>6. PICK k \in Wrong : \A m \in Wrong : k <= m
  <2>1. Wrong \subseteq Nat
    OBVIOUS
  <2> HIDE DEF Wrong
  <2> QED
    BY <1>5, <2>1, LeastNumber
<1>7. k \in 0..Len(edges) /\ ~Done(g[1..k], k)
  OBVIOUS
<1>8. k # 0
  <2>1. g[{}] = base
    BY <1>2 DEF ReachSteps
  <2>2. 1..0 = {}
    OBVIOUS
  <2> QED
    BY <1>3, <1>7, <2>1, <2>2
<1>9. k - 1 \in 0..Len(edges) /\ k - 1 \notin Wrong
  BY <1>6, <1>7, <1>8
<1>10. Done(g[1..(k - 1)], k - 1)
  BY <1>9
<1> HIDE DEF Wrong
<1>11. Max(1..k) = k
  <2>1. k \in 1..k /\ k \in Nat /\ 1..k \subseteq 0..k /\ 1..k # {}
    <3>1. k \in Nat /\ k >= 1
      BY <1>1, <1>7, <1>8
    <3>2. k \in 1..k
      BY <3>1
    <3>3. 1..k \subseteq 0..k
      BY <3>1
    <3> QED
      BY <3>1, <3>2, <3>3
  <2>2. Max(1..k) \in 1..k /\ \A m \in 1..k : Max(1..k) >= m
    BY <2>1, GreatestNumber
  <2> QED
    BY <1>7, <2>1, <2>2
<1>12. g[1..k] = Reach(g[1..(k - 1)], edges[k])
  <2>1. 1..k \in SUBSET (1..Len(edges)) /\ 1..k # {} /\ (1..k) \ {k} = 1..(k - 1)
    <3>1. k \in Nat /\ k <= Len(edges) /\ k \in 1..k
      BY <1>7, <1>8
    <3>2. 1..k \subseteq 1..Len(edges)
      BY <3>1
    <3>3. (1..k) \ {k} = 1..(k - 1)
      BY <3>1
    <3> QED
      BY <3>1, <3>2, <3>3
  <2>2. g[1..k] = Reach(g[(1..k) \ {k}], edges[k])
    BY <1>2, <1>11, <2>1 DEF ReachSteps
  <2> QED
    BY <2>1, <2>2
<1>13. k - 1 \in Nat /\ (k - 1) + 1 = k /\ k \in 1..Len(edges)
  BY <1>1, <1>7, <1>8, <1>9
<1>14. Done(Reach(g[1..(k - 1)], edges[(k - 1) + 1]), (k - 1) + 1)
  BY <1>4, <1>10, <1>13
<1> QED
  BY <1>7, <1>12, <1>13, <1>14

(* Taking the first node off the queue.                                             *)
LEMMA TakeFirst ==
    ASSUME NEW w, NEW E, NEW from, NEW to, NEW deep \in Nat, NEW d \in Nat,
           Trek(w, E, from, to, deep, d, {}), w.queue # <<>>
    PROVE  LET n == Head(w.queue)
               rest == [w EXCEPT !.queue = Tail(@)]
           IN  /\ n \in DOMAIN w.depth /\ w.depth[n] \in 0..deep
               /\ Trek(rest, E, from, to, deep, w.depth[n], {n})
               /\ rest.depth = w.depth
<1> DEFINE n == Head(w.queue)
           rest == [w EXCEPT !.queue = Tail(@)]
           D == DOMAIN w.depth
           queue == Tail(w.queue)
           l == Len(queue)
<1>1. /\ w.depth \in [D -> 0..deep] /\ w.parent \in [D \ {from} -> E] /\ w.queue \in Seq(D)
      /\ from \in D /\ w.depth[from] = 0 /\ w = [depth |-> w.depth, parent |-> w.parent, queue |-> w.queue]
  BY DEF Trek, TrekTypes
<1>2. /\ n = w.queue[1] /\ n \in D /\ queue \in Seq(D) /\ l \in Nat /\ Len(w.queue) = l + 1
      /\ \A k \in 1..l : queue[k] = w.queue[k + 1]
      /\ DOMAIN w.queue = 1..(l + 1) /\ DOMAIN queue = 1..l
  <2> HIDE DEF D
  <2>1. Len(w.queue) \in Nat \ {0}
    BY <1>1
  <2> QED
    BY <1>1, <2>1
<1>3. rest = [depth |-> w.depth, parent |-> w.parent, queue |-> queue]
  <2>1. rest = [w EXCEPT !.queue = queue]
    OBVIOUS
  <2> HIDE DEF rest, queue
  <2> QED
    BY <1>1, <2>1
<1> HIDE DEF rest, queue, l, n
<1>4. rest.depth = w.depth /\ rest.parent = w.parent /\ rest.queue = queue
  BY <1>3
<1>5. w.depth[n] \in 0..deep /\ w.depth[n] \in Nat
  BY <1>1, <1>2
<1>6. TrekTypes(rest, E, from, deep)
  BY <1>1, <1>2, <1>3, <1>4 DEF TrekTypes
<1>7. Parented(rest, from) /\ Nearest(rest, E, from)
  BY <1>4 DEF Trek, Parented, Nearest
<1>8. InStep(rest, w.depth[n])
  <2>1. /\ \A k \in 1..(l + 1) : d <= w.depth[w.queue[k]]
        /\ \A j, k \in 1..(l + 1) : j <= k => w.depth[w.queue[j]] <= w.depth[w.queue[k]]
        /\ \A m \in D : w.depth[m] <= d + 1
    BY <1>2 DEF Trek, InStep
  <2>2. 1 \in 1..(l + 1) /\ \A k \in 1..l : k + 1 \in 1..(l + 1) /\ 1 <= k + 1
    BY <1>2
  <2>3. d <= w.depth[n]
    BY <1>2, <2>1, <2>2
  <2>4. \A k \in 1..l : w.depth[n] <= w.depth[queue[k]]
    BY <1>2, <2>1, <2>2
  <2>5. \A j, k \in 1..l : j <= k => w.depth[queue[j]] <= w.depth[queue[k]]
    <3> SUFFICES ASSUME NEW j \in 1..l, NEW k \in 1..l, j <= k
                 PROVE  w.depth[queue[j]] <= w.depth[queue[k]]
      OBVIOUS
    <3>1. j + 1 \in 1..(l + 1) /\ k + 1 \in 1..(l + 1) /\ j + 1 <= k + 1
      BY <1>2
    <3> QED
      BY <1>2, <2>1, <3>1
  <2>6. \A m \in D : w.depth[m] <= w.depth[n] + 1
    BY <1>1, <1>5, <2>1, <2>3
  <2> QED
    BY <1>2, <1>4, <2>4, <2>5, <2>6 DEF InStep
<1>9. Closed(rest, E, to, deep, {n})
  <2>1. \A m \in Waiting(w) : m = n \/ m \in Waiting(rest)
    <3> SUFFICES ASSUME NEW k \in 1..(l + 1)
                 PROVE  w.queue[k] = n \/ w.queue[k] \in Waiting(rest)
      BY <1>2 DEF Waiting
    <3>1. CASE k = 1
      BY <1>2, <3>1
    <3>2. CASE k # 1
      <4>1. k - 1 \in 1..l /\ (k - 1) + 1 = k
        BY <1>2, <3>2
      <4>2. queue[k - 1] = w.queue[k]
        BY <1>2, <4>1
      <4> QED
        BY <1>2, <1>4, <4>1, <4>2 DEF Waiting
    <3> QED
      BY <3>1, <3>2
  <2> QED
    BY <1>4, <2>1 DEF Trek, Closed
<1> QED
  BY <1>2, <1>4, <1>5, <1>6, <1>7, <1>8, <1>9 DEF Trek, n, rest, queue

(* A visit of the first node keeps all of this.                                       *)
Onward(w, E) ==
    LET n == Head(w.queue)
        rest == [w EXCEPT !.queue = Tail(@)]
    IN  IF w.depth[n] >= query.depth THEN rest
        ELSE FoldLeft(Reach, rest, EdgesInOrder({e \in E : e.source = n}))

LEMMA VisitKeeps ==
    ASSUME NEW w, NEW E, E \subseteq EdgeSpace, NEW from, NEW to, query.to = to, NEW deep \in Nat,
           query.depth = deep, NEW d \in Nat, Trek(w, E, from, to, deep, d, {}), w.queue # <<>>
    PROVE  \E c \in Nat : Trek(Onward(w, E), E, from, to, deep, c, {})
<1> DEFINE n == Head(w.queue)
           rest == [w EXCEPT !.queue = Tail(@)]
           leaving == {e \in E : e.source = n}
           edges == EdgesInOrder(leaving)
           c == w.depth[n]
<1>1. n \in DOMAIN w.depth /\ c \in 0..deep /\ Trek(rest, E, from, to, deep, c, {n}) /\ rest.depth = w.depth
  BY TakeFirst
<1>2. c \in Nat
  BY <1>1
<1> HIDE DEF rest, n
<1>3. CASE c >= deep
  <2>1. Onward(w, E) = rest
    BY <1>3 DEF Onward, rest, n
  <2>2. Closed(rest, E, to, deep, {})
    <3> SUFFICES ASSUME to \notin DOMAIN rest.depth,
                        NEW m \in DOMAIN rest.depth, m \notin Waiting(rest), rest.depth[m] < deep,
                        NEW e \in E, e.source = m
                 PROVE  e.target \in DOMAIN rest.depth /\ rest.depth[e.target] <= rest.depth[m] + 1
      BY DEF Closed
    <3>1. m # n
      BY <1>1, <1>2, <1>3
    <3> QED
      BY <1>1, <3>1 DEF Trek, Closed
  <2>3. Trek(rest, E, from, to, deep, c, {})
    BY <1>1, <2>2 DEF Trek
  <2> QED
    BY <1>2, <2>1, <2>3
<1>4. CASE c < deep
  <2> DEFINE v == FoldLeft(Reach, rest, edges)
  <2>1. Onward(w, E) = v
    <3>1. ~(c >= deep)
      BY <1>2, <1>4
    <3> QED
      BY <3>1 DEF Onward, rest, n
  <2>2. leaving \subseteq EdgeSpace
    OBVIOUS
  <2>3. edges \in Seq(leaving) /\ \A e \in leaving : \E k \in 1..Len(edges) : edges[k] = e
    <3> HIDE DEF leaving
    <3> QED
      BY <2>2, EdgesListed
  <2>4. Tried(v, E, from, to, deep, c, n, edges, Len(edges))
    <3> HIDE DEF edges, v, c
    <3>1. n \in DOMAIN rest.depth /\ rest.depth[n] = c
      BY <1>1 DEF c
    <3> QED
      BY <1>1, <1>2, <1>4, <2>3, <3>1, TryAll DEF v
  <2> HIDE DEF edges, v, c
  <2>5. Closed(v, E, to, deep, {})
    <3> SUFFICES ASSUME to \notin DOMAIN v.depth,
                        NEW m \in DOMAIN v.depth, m \notin Waiting(v), v.depth[m] < deep,
                        NEW e \in E, e.source = m
                 PROVE  e.target \in DOMAIN v.depth /\ v.depth[e.target] <= v.depth[m] + 1
      BY DEF Closed
    <3>1. CASE m = n
      <4>1. e \in leaving
        BY <3>1
      <4>2. PICK k \in 1..Len(edges) : edges[k] = e
        BY <2>3, <4>1
      <4>3. e.target \in DOMAIN v.depth
        BY <2>4, <4>2 DEF Tried
      <4>4. v.depth[e.target] <= c + 1 /\ v.depth[m] = c
        BY <2>4, <3>1, <4>3 DEF Tried, Trek, InStep
      <4> QED
        BY <4>3, <4>4
    <3>2. CASE m # n
      BY <2>4, <3>2 DEF Tried, Trek, Closed
    <3> QED
      BY <3>1, <3>2
  <2>6. Trek(v, E, from, to, deep, c, {})
    BY <2>4, <2>5 DEF Tried, Trek
  <2> QED
    BY <1>2, <2>1, <2>6
<1> QED
  BY <1>2, <1>3, <1>4

LEMMA TrekStarts ==
    ASSUME NEW E, NEW from, NEW to, NEW deep \in Nat, NEW w,
           w = [depth |-> [n \in {from} |-> 0], parent |-> <<>>, queue |-> <<from>>]
    PROVE  Trek(w, E, from, to, deep, 0, {})
<1>1. /\ w.depth = [n \in {from} |-> 0] /\ w.parent = <<>> /\ w.queue = <<from>>
      /\ w = [depth |-> w.depth, parent |-> w.parent, queue |-> w.queue]
  OBVIOUS
<1>2. DOMAIN w.depth = {from} /\ w.depth[from] = 0 /\ w.depth \in [{from} -> 0..deep]
  BY <1>1
<1>3. w.parent \in [DOMAIN w.depth \ {from} -> E]
  <2>1. DOMAIN w.depth \ {from} = {}
    BY <1>2
  <2>2. <<>> \in [{} -> E]
    OBVIOUS
  <2> QED
    BY <1>1, <2>1, <2>2
<1>4. w.queue \in Seq({from}) /\ DOMAIN w.queue = {1} /\ w.queue[1] = from
  BY <1>1
<1>5. TrekTypes(w, E, from, deep)
  BY <1>1, <1>2, <1>3, <1>4 DEF TrekTypes
<1>6. Parented(w, from)
  BY <1>2 DEF Parented
<1>7. Nearest(w, E, from)
  <2>1. Near(E, from, 0) = {from}
    BY NearIs
  <2>2. from \in Near(E, from, w.depth[from])
    BY <1>2, <2>1
  <2>3. \A k \in Nat : ~(k < w.depth[from])
    BY <1>2
  <2> QED
    BY <1>2, <2>2, <2>3 DEF Nearest
<1>8. InStep(w, 0)
  BY <1>2, <1>4 DEF InStep
<1>9. Closed(w, E, to, deep, {})
  <2>1. from \in Waiting(w)
    BY <1>4 DEF Waiting
  <2> QED
    BY <1>2, <2>1 DEF Closed
<1> QED
  BY <1>5, <1>6, <1>7, <1>8, <1>9 DEF Trek

(* The way back over the parents, as the function of the nodes that are reached.       *)
WaySteps(g, w, from, S) == [n \in S |-> IF n = from THEN {} ELSE {w.parent[n]} \union g[w.parent[n].source]]
WayOf(w, from) == CHOOSE g : g = WaySteps(g, w, from, DOMAIN w.depth)

LEMMA WayExists ==
    ASSUME NEW w, NEW E, NEW from, NEW to, NEW deep \in Nat, NEW d \in Nat, Trek(w, E, from, to, deep, d, {})
    PROVE  WayOf(w, from) = WaySteps(WayOf(w, from), w, from, DOMAIN w.depth)
<1> DEFINE D == DOMAIN w.depth
           S(k) == {n \in D : w.depth[n] <= k}
           None == {k \in 0..deep : ~ \E g : g = WaySteps(g, w, from, S(k))}
<1>1. /\ w.depth \in [D -> 0..deep] /\ \A n \in D \ {from} :
            w.parent[n].source \in D /\ w.depth[n] = w.depth[w.parent[n].source] + 1
  BY DEF Trek, TrekTypes, Parented
<1>2. S(deep) = D
  BY <1>1
<1>3. SUFFICES ASSUME None # {}
               PROVE  FALSE
  <2>1. deep \in 0..deep /\ deep \notin None
    BY <1>3
  <2>2. PICK g : g = WaySteps(g, w, from, S(deep))
    BY <2>1
  <2> QED
    BY <1>2, <2>2 DEF WayOf
<1>4. PICK k \in None : \A l \in None : k <= l
  <2>1. None \subseteq Nat
    OBVIOUS
  <2> HIDE DEF None
  <2> QED
    BY <1>3, <2>1, LeastNumber
<1>5. k \in 0..deep /\ ~ \E g : g = WaySteps(g, w, from, S(k))
  OBVIOUS
<1>6. k # 0
  <2> SUFFICES \E g : g = WaySteps(g, w, from, S(0))
    BY <1>5
  <2> DEFINE z == [n \in S(0) |-> {}]
  <2>1. \A n \in S(0) : n = from
    BY <1>1
  <2>2. z = WaySteps(z, w, from, S(0))
    <3>1. \A n \in S(0) : (IF n = from THEN {} ELSE {w.parent[n]} \union z[w.parent[n].source]) = {}
      BY <2>1
    <3> HIDE DEF S
    <3> QED
      BY <3>1 DEF WaySteps
  <2> QED
    BY <2>2
<1>7. k - 1 \in 0..deep /\ k - 1 \notin None
  BY <1>4, <1>5, <1>6
<1>8. PICK g : g = WaySteps(g, w, from, S(k - 1))
  BY <1>7
<1> HIDE DEF None
<1> DEFINE h == [n \in S(k) |-> IF n = from THEN {} ELSE {w.parent[n]} \union g[w.parent[n].source]]
<1>9. ASSUME NEW n \in S(k), n # from
      PROVE  h[w.parent[n].source] = g[w.parent[n].source]
  <2> DEFINE s == w.parent[n].source
  <2>1. s \in D /\ w.depth[n] = w.depth[s] + 1 /\ w.depth[s] \in 0..deep /\ w.depth[n] <= k
    BY <1>1, <1>9
  <2>2. s \in S(k - 1) /\ s \in S(k)
    BY <1>5, <2>1
  <2> HIDE DEF s, S
  <2>3. h[s] = IF s = from THEN {} ELSE {w.parent[s]} \union g[w.parent[s].source]
    BY <2>2
  <2>4. WaySteps(g, w, from, S(k - 1))[s] = IF s = from THEN {} ELSE {w.parent[s]} \union g[w.parent[s].source]
    BY <2>2 DEF WaySteps
  <2>5. g[s] = WaySteps(g, w, from, S(k - 1))[s]
    BY <1>8, Zenon
  <2> QED
    BY <2>3, <2>4, <2>5 DEF s
<1> HIDE DEF S
<1>10. h = WaySteps(h, w, from, S(k))
  BY <1>9 DEF WaySteps
<1> QED
  BY <1>5, <1>10

(* The way to a node has as many edges as the node is away, and every node on it but     *)
(* the first is the target of one of them.                                          *)
WayLeads(way, w, E, from, n) ==
    /\ way \subseteq E /\ IsFiniteSet(way) /\ Cardinality(way) = w.depth[n]
    /\ \A e \in way : /\ e.target \in DOMAIN w.depth /\ w.depth[e.target] <= w.depth[n]
                      /\ e.source = from \/ \E f \in way : f.target = e.source
    /\ n = from \/ \E f \in way : f.target = n

LEMMA WayFurther ==
    ASSUME NEW w, NEW E, NEW from, NEW deep \in Nat, w.depth \in [DOMAIN w.depth -> 0..deep],
           NEW n \in DOMAIN w.depth, NEW p \in E, p.target = n, p.source \in DOMAIN w.depth,
           w.depth[n] = w.depth[p.source] + 1, NEW way, WayLeads(way, w, E, from, p.source)
    PROVE  WayLeads({p} \union way, w, E, from, n)
<1> DEFINE s == p.source
           more == {p} \union way
<1>1. w.depth[s] \in Nat /\ w.depth[n] \in Nat /\ w.depth[n] = w.depth[s] + 1
  OBVIOUS
<1>2. /\ way \subseteq E /\ IsFiniteSet(way) /\ Cardinality(way) = w.depth[s]
      /\ \A e \in way : /\ e.target \in DOMAIN w.depth /\ w.depth[e.target] <= w.depth[s]
                        /\ e.source = from \/ \E f \in way : f.target = e.source
      /\ s = from \/ \E f \in way : f.target = s
  BY DEF WayLeads
<1>3. p \notin way
  <2> SUFFICES ASSUME p \in way
               PROVE  FALSE
    OBVIOUS
  <2>1. w.depth[n] <= w.depth[s]
    BY <1>2
  <2> QED
    BY <1>1, <2>1
<1>4. IsFiniteSet(more) /\ Cardinality(more) = w.depth[n]
  <2>1. more = way \union {p}
    OBVIOUS
  <2>2. IsFiniteSet(way \union {p}) /\ Cardinality(way \union {p}) = Cardinality(way) + 1
    <3>1. /\ IsFiniteSet(way \union {p})
          /\ Cardinality(way \union {p}) = IF p \in way THEN Cardinality(way) ELSE Cardinality(way) + 1
      BY <1>2, FS_AddElement, Zenon
    <3> QED
      BY <1>3, <3>1
  <2> HIDE DEF more
  <2> QED
    BY <1>1, <1>2, <2>1, <2>2
<1>5. ASSUME NEW e \in way
      PROVE  /\ e.target \in DOMAIN w.depth /\ w.depth[e.target] <= w.depth[n]
             /\ e.source = from \/ \E f \in more : f.target = e.source
  <2>1. e.target \in DOMAIN w.depth /\ w.depth[e.target] <= w.depth[s] /\ w.depth[e.target] \in Nat
    BY <1>2
  <2>2. e.source = from \/ \E f \in more : f.target = e.source
    BY <1>2
  <2> QED
    BY <1>1, <2>1, <2>2
<1>6. /\ p.target \in DOMAIN w.depth /\ w.depth[p.target] <= w.depth[n]
      /\ p.source = from \/ \E f \in more : f.target = p.source
  BY <1>1, <1>2
<1>7. \E f \in more : f.target = n
  OBVIOUS
<1> QED
  BY <1>2, <1>4, <1>5, <1>6, <1>7 DEF WayLeads

LEMMA WaysLead ==
    ASSUME NEW w, NEW E, NEW from, NEW to, NEW deep \in Nat, NEW d \in Nat, Trek(w, E, from, to, deep, d, {}),
           to \in DOMAIN w.depth
    PROVE  WayLeads(WayOf(w, from)[to], w, E, from, to)
<1> DEFINE D == DOMAIN w.depth
           g == WayOf(w, from)
           Good(n) == WayLeads(g[n], w, E, from, n)
           Wrong == {k \in Nat : \E n \in D : w.depth[n] = k /\ ~Good(n)}
<1>1. /\ w.depth \in [D -> 0..deep] /\ \A n \in D \ {from} :
            /\ w.parent[n] \in E /\ w.parent[n].target = n /\ w.parent[n].source \in D
            /\ w.depth[n] = w.depth[w.parent[n].source] + 1
      /\ from \in D /\ w.depth[from] = 0
  BY DEF Trek, TrekTypes, Parented
<1>2. \A n \in D : g[n] = IF n = from THEN {} ELSE {w.parent[n]} \union g[w.parent[n].source]
  <2> SUFFICES ASSUME NEW n \in D
               PROVE  g[n] = IF n = from THEN {} ELSE {w.parent[n]} \union g[w.parent[n].source]
    OBVIOUS
  <2>1. g = WaySteps(g, w, from, D)
    BY WayExists
  <2> HIDE DEF g
  <2>2. WaySteps(g, w, from, D)[n] = IF n = from THEN {} ELSE {w.parent[n]} \union g[w.parent[n].source]
    BY DEF WaySteps
  <2> QED
    BY <2>1, <2>2, Zenon
<1> HIDE DEF g
<1>3. Good(from)
  <2>1. g[from] = {} /\ IsFiniteSet({}) /\ Cardinality({}) = 0
    BY <1>1, <1>2, FS_EmptySet
  <2> QED
    BY <1>1, <2>1 DEF WayLeads
<1>4. ASSUME NEW n \in D \ {from}, Good(w.parent[n].source)
      PROVE  Good(n)
  <2>1. g[n] = {w.parent[n]} \union g[w.parent[n].source]
    BY <1>2
  <2> DEFINE p == w.parent[n]
             rest == g[p.source]
  <2>2. /\ p \in E /\ p.target = n /\ p.source \in DOMAIN w.depth /\ w.depth[n] = w.depth[p.source] + 1
        /\ n \in DOMAIN w.depth /\ w.depth \in [DOMAIN w.depth -> 0..deep]
    BY <1>1
  <2>3. WayLeads(rest, w, E, from, p.source)
    BY <1>4
  <2> HIDE DEF p, rest
  <2>4. WayLeads({p} \union rest, w, E, from, n)
    BY <2>2, <2>3, WayFurther
  <2> QED
    BY <2>1, <2>4 DEF p, rest
<1>5. \A n \in D : w.depth[n] \in Nat
  BY <1>1
<1> HIDE DEF Good
<1>6. SUFFICES ASSUME Wrong # {}
               PROVE  FALSE
  <2>1. Good(to)
    BY <1>5, <1>6
  <2> QED
    BY <2>1 DEF Good, g
<1>7. PICK k \in Wrong : \A l \in Wrong : k <= l
  <2>1. Wrong \subseteq Nat
    OBVIOUS
  <2> HIDE DEF Wrong
  <2> QED
    BY <1>6, <2>1, LeastNumber
<1>8. PICK n \in D : w.depth[n] = k /\ ~Good(n)
  OBVIOUS
<1>9. n # from
  BY <1>3, <1>8
<1> DEFINE s == w.parent[n].source
<1>10. s \in D /\ w.depth[s] \in Nat /\ w.depth[s] = k - 1 /\ k \in Nat
  BY <1>1, <1>5, <1>8, <1>9
<1>11. Good(s)
  <2>1. w.depth[s] \notin Wrong
    BY <1>7, <1>10
  <2> QED
    BY <1>10, <2>1
<1> QED
  BY <1>4, <1>8, <1>9, <1>11

(* A search that ended without the second node, and without nodes at the bound that have  *)
(* edges left, has reached all there is to reach.                                    *)
LEMMA AllIsReached ==
    ASSUME NEW w, NEW E, NEW from, NEW to, NEW deep \in Nat, NEW d \in Nat, Trek(w, E, from, to, deep, d, {}),
           to \notin DOMAIN w.depth, w.queue = <<>>,
           \A n \in DOMAIN w.depth : w.depth[n] >= deep => {e \in E : e.source = n} = {}
    PROVE  \A k \in Nat : Near(E, from, k) \subseteq DOMAIN w.depth
<1> DEFINE D == DOMAIN w.depth
           Bad == {k \in Nat : ~(Near(E, from, k) \subseteq D)}
<1>1. SUFFICES ASSUME Bad # {}
               PROVE  FALSE
  OBVIOUS
<1>2. PICK k \in Bad : \A j \in Bad : k <= j
  <2>1. Bad \subseteq Nat
    OBVIOUS
  <2> HIDE DEF Bad
  <2> QED
    BY <1>1, <2>1, LeastNumber
<1>3. k \in Nat /\ ~(Near(E, from, k) \subseteq D)
  OBVIOUS
<1>4. k # 0
  <2>1. Near(E, from, 0) = {from}
    BY NearIs
  <2> QED
    BY <1>3, <2>1 DEF Trek, TrekTypes
<1>5. k - 1 \in Nat /\ k - 1 \notin Bad
  BY <1>2, <1>3, <1>4
<1>6. Near(E, from, k - 1) \subseteq D
  BY <1>5
<1>7. Near(E, from, k) = Near(E, from, k - 1) \union Led(E, Near(E, from, k - 1))
  <2>1. (k - 1) + 1 = k
    BY <1>3
  <2>2. \A j \in Nat : Near(E, from, j + 1) = Near(E, from, j) \union Led(E, Near(E, from, j))
    BY NearIs
  <2>3. Near(E, from, (k - 1) + 1) = Near(E, from, k - 1) \union Led(E, Near(E, from, k - 1))
    BY <1>5, <2>2, Zenon
  <2> QED
    BY <2>1, <2>3, Zenon
<1>8. \A e \in E : e.source \in D => e.target \in D
  <2> SUFFICES ASSUME NEW e \in E, e.source \in D
               PROVE  e.target \in D
    OBVIOUS
  <2>1. w.depth[e.source] \in 0..deep
    BY DEF Trek, TrekTypes
  <2>2. ~(w.depth[e.source] >= deep)
    OBVIOUS
  <2>3. e.source \notin Waiting(w)
    BY DEF Waiting
  <2> QED
    BY <2>1, <2>2, <2>3 DEF Trek, Closed
<1>9. Led(E, Near(E, from, k - 1)) \subseteq D
  BY <1>6, <1>8 DEF Led
<1> QED
  BY <1>3, <1>6, <1>7, <1>9

(* What the promise of a trace says, of any request, answer and rows.                    *)
TraceHolds(q, s, N, E) ==
    (q.at = "traced" /\ ~s.truncated) =>
        IF s.found
        THEN /\ q.to \in Near(E, q.from, Cardinality(s.edges))
             /\ Cardinality(s.edges) > 0 => q.to \notin Near(E, q.from, Cardinality(s.edges) - 1)
             /\ \A n \in s.nodes \ {q.from} : \E e \in s.edges : e.target = n
        ELSE q.from \notin N \/ q.to \notin Near(E, q.from, Len(Names))

LEMMA TracePromise ==
    /\ TraceIsHonest <=> TraceHolds(query, shown, Nodes, Edges)
    /\ TraceIsHonest' <=> TraceHolds(query', shown', Nodes', Edges')
  BY Zenon DEF TraceIsHonest, TraceHolds, Around, Near, NearUpto, NearSteps, Led

LEMMA RowsStay == rows' = rows => Nodes' = Nodes /\ Edges' = Edges /\ Whole' = Whole
<1> SUFFICES ASSUME rows' = rows
             PROVE  Nodes' = Nodes /\ Edges' = Edges /\ Whole' = Whole
  OBVIOUS
<1>1. Edges' = Edges
  BY DEF Edges
<1>2. Nodes' = Nodes
  BY <1>1 DEF Nodes
<1>3. Whole' = Whole
  BY <1>1, <1>2, Zenon DEF Whole
<1> QED
  BY <1>1, <1>2, <1>3

(* An expansion that is not marked truncated shows all there is.                        *)
ExpandedIsWhole == (query.at = "expanded" /\ ~shown.truncated) => shown.nodes = Nodes /\ shown.edges = Edges

GraphInv ==
    /\ GraphTypeOK
    /\ walk = [depth |-> walk.depth, parent |-> walk.parent, queue |-> walk.queue]
    /\ query.at = "trace" =>
          \/ walk = NoWalk /\ query.from \notin Whole.nodes
          \/ \E d \in Nat : Trek(walk, Whole.edges, query.from, query.to, query.depth, d, {})
    /\ query.at = "expand" => DOMAIN walk.depth # {}
    /\ query.at = "degraded" => query.from \notin Whole.nodes
    /\ TraceIsHonest /\ ExpandedIsWhole

(* The types of a search that is on its way.                                         *)
SearchTyped(w, N, E, deep) ==
    /\ DOMAIN w.depth \subseteq N /\ w.depth \in [DOMAIN w.depth -> 0..deep]
    /\ DOMAIN w.parent \subseteq DOMAIN w.depth /\ Range(w.parent) \subseteq E
    /\ w.queue \in Seq(DOMAIN w.depth)

AnswerTyped(s, N, E) ==
    /\ s.nodes \subseteq N /\ s.edges \subseteq E
    /\ \A e \in s.edges : {e.source, e.target} \subseteq s.nodes

QueryTyped(q) ==
    q \in [at : {"none", "trace", "traced", "expand", "expanded", "degraded"},
           from : Range(Names) \union {""}, to : Range(Names) \union {""}, depth : 0..MaxDepth]

LEMMA GraphTypesAre ==
    /\ GraphTypeOK <=> /\ rows \in Rows /\ QueryTyped(query) /\ SearchTyped(walk, Nodes, Edges, query.depth)
                       /\ AnswerTyped(shown, Nodes, Edges)
    /\ GraphTypeOK' <=> /\ rows' \in Rows /\ QueryTyped(query')
                        /\ SearchTyped(walk', Nodes', Edges', query'.depth) /\ AnswerTyped(shown', Nodes', Edges')
<1>1. GraphTypeOK <=> /\ rows \in Rows /\ QueryTyped(query) /\ SearchTyped(walk, Nodes, Edges, query.depth)
                      /\ AnswerTyped(shown, Nodes, Edges)
  BY Zenon DEF GraphTypeOK, QueryTyped, SearchTyped, AnswerTyped
<1>2. GraphTypeOK' <=> /\ rows' \in Rows /\ QueryTyped(query')
                       /\ SearchTyped(walk', Nodes', Edges', query'.depth) /\ AnswerTyped(shown', Nodes', Edges')
  <2>1. Rows' = Rows
    BY DEF Rows
  <2> QED
    BY Zenon DEF GraphTypeOK, QueryTyped, SearchTyped, AnswerTyped, Rows
<1> QED
  BY <1>1, <1>2, Zenon

LEMMA TrekTyped ==
    ASSUME rows \in Rows, NEW w, NEW from \in Nodes, NEW to, NEW deep, NEW d,
           Trek(w, Whole.edges, from, to, deep, d, {})
    PROVE  SearchTyped(w, Nodes, Edges, deep)
<1>1. /\ w.depth \in [DOMAIN w.depth -> 0..deep]
      /\ w.parent \in [DOMAIN w.depth \ {from} -> Whole.edges]
      /\ w.queue \in Seq(DOMAIN w.depth) /\ from \in DOMAIN w.depth
      /\ \A n \in DOMAIN w.depth \ {from} : w.parent[n].target = n
  BY DEF Trek, TrekTypes, Parented
<1>2. Whole.edges \subseteq Edges /\ \A e \in Edges : e.target \in Nodes
  BY RowsAreNamed
<1>3. DOMAIN w.depth \subseteq Nodes
  <2> SUFFICES ASSUME NEW n \in DOMAIN w.depth, n # from
               PROVE  n \in Nodes
    OBVIOUS
  <2>1. w.parent[n] \in Edges /\ w.parent[n].target = n
    BY <1>1, <1>2
  <2> QED
    BY <1>2, <2>1
<1>4. Range(w.parent) \subseteq Edges
  BY <1>1, <1>2 DEF Range
<1>5. DOMAIN w.parent \subseteq DOMAIN w.depth
  BY <1>1
<1> QED
  BY <1>1, <1>3, <1>4, <1>5, Zenon DEF SearchTyped

WalkOf(q, w, nodes, E) ==
    /\ w = [depth |-> w.depth, parent |-> w.parent, queue |-> w.queue]
    /\ q.at = "trace" =>
          \/ w = NoWalk /\ q.from \notin nodes
          \/ \E d \in Nat : Trek(w, E, q.from, q.to, q.depth, d, {})
    /\ q.at = "expand" => DOMAIN w.depth # {}
    /\ q.at = "degraded" => q.from \notin nodes

LEMMA GraphInvIs ==
    /\ GraphInv <=> GraphTypeOK /\ WalkOf(query, walk, Whole.nodes, Whole.edges) /\ TraceIsHonest /\ ExpandedIsWhole
    /\ GraphInv' <=> /\ GraphTypeOK' /\ WalkOf(query', walk', Whole'.nodes, Whole'.edges)
                     /\ TraceIsHonest' /\ ExpandedIsWhole'
  BY Zenon DEF GraphInv, WalkOf

LEMMA NoWalkTyped ==
    ASSUME NEW N, NEW E, NEW deep \in Nat
    PROVE  SearchTyped(NoWalk, N, E, deep) /\ NoWalk = [depth |-> NoWalk.depth, parent |-> NoWalk.parent, queue |-> NoWalk.queue]
           /\ DOMAIN NoWalk.depth = {} /\ NoWalk.queue = <<>>
<1>1. NoWalk.depth = <<>> /\ NoWalk.parent = <<>> /\ NoWalk.queue = <<>>
      /\ NoWalk = [depth |-> NoWalk.depth, parent |-> NoWalk.parent, queue |-> NoWalk.queue]
  BY DEF NoWalk
<1>2. <<>> \in [{} -> 0..deep] /\ DOMAIN <<>> = {} /\ <<>> \in Seq({}) /\ Range(<<>>) = {}
  BY DEF Range
<1> QED
  BY <1>1, <1>2 DEF SearchTyped

LEMMA TraceStarts ==
    ASSUME GraphInv, NEW from \in Range(Names), NEW to \in Range(Names), NEW depth \in 1..MaxDepth,
           AskTrace(from, to, depth)
    PROVE  GraphInv'
<1>1. /\ query' = [at |-> "trace", from |-> from, to |-> to, depth |-> depth] /\ rows' = rows /\ shown' = shown
      /\ walk' = IF from \in Whole.nodes
                 THEN [depth |-> [n \in {from} |-> 0], parent |-> <<>>, queue |-> <<from>>]
                 ELSE NoWalk
  BY DEF AskTrace
<1>2. Nodes' = Nodes /\ Edges' = Edges /\ Whole' = Whole
  BY <1>1, RowsStay
<1>3. depth \in Nat /\ depth \in 0..MaxDepth
  BY GraphAssumption
<1>4. rows \in Rows /\ AnswerTyped(shown, Nodes, Edges)
  BY GraphTypesAre DEF GraphInv
<1>5. /\ query'.at = "trace" /\ query'.from = from /\ query'.to = to /\ query'.depth = depth
      /\ QueryTyped(query')
  BY <1>1, <1>3 DEF QueryTyped
<1>6. SearchTyped(walk', Nodes, Edges, depth) /\ WalkOf(query', walk', Whole.nodes, Whole.edges)
  <2>1. CASE from \in Whole.nodes
    <3>1. walk' = [depth |-> [n \in {from} |-> 0], parent |-> <<>>, queue |-> <<from>>]
      BY <1>1, <2>1
    <3>2. Trek(walk', Whole.edges, from, to, depth, 0, {})
      BY <1>3, <3>1, TrekStarts
    <3>3. from \in Nodes
      BY <1>4, <2>1, RowsAreNamed
    <3>4. SearchTyped(walk', Nodes, Edges, depth)
      BY <1>4, <3>2, <3>3, TrekTyped
    <3>5. walk' = [depth |-> walk'.depth, parent |-> walk'.parent, queue |-> walk'.queue]
      BY <3>2 DEF Trek, TrekTypes
    <3>6. 0 \in Nat
      OBVIOUS
    <3> QED
      BY <1>5, <3>2, <3>4, <3>5, <3>6 DEF WalkOf
  <2>2. CASE from \notin Whole.nodes
    <3>1. walk' = NoWalk
      BY <1>1, <2>2
    <3> QED
      BY <1>3, <1>5, <2>2, <3>1, NoWalkTyped DEF WalkOf
  <2> QED
    BY <2>1, <2>2
<1>7. TraceIsHonest' /\ ExpandedIsWhole'
  <2>1. TraceHolds(query', shown', Nodes', Edges')
    BY <1>5 DEF TraceHolds
  <2> QED
    BY <1>5, <2>1, TracePromise DEF ExpandedIsWhole
<1>8. GraphTypeOK'
  BY <1>1, <1>2, <1>4, <1>5, <1>6, GraphTypesAre
<1> QED
  BY <1>2, <1>6, <1>7, <1>8, GraphInvIs

LEMMA ExpansionStarts ==
    ASSUME GraphInv, NEW from \in Range(Names), NEW depth \in 1..MaxDepth, AskExpand(from, depth)
    PROVE  GraphInv'
<1>1. /\ query' = [at |-> IF from \in Whole.nodes THEN "expand" ELSE "degraded",
                   from |-> from, to |-> from, depth |-> depth]
      /\ rows' = rows /\ shown' = shown
      /\ walk' = IF from \in Whole.nodes
                 THEN [depth |-> [n \in {from} |-> 0], parent |-> <<>>, queue |-> <<from>>]
                 ELSE NoWalk
  BY DEF AskExpand
<1>2. Nodes' = Nodes /\ Edges' = Edges /\ Whole' = Whole
  BY <1>1, RowsStay
<1>3. depth \in Nat /\ depth \in 0..MaxDepth
  BY GraphAssumption
<1>4. rows \in Rows /\ AnswerTyped(shown, Nodes, Edges)
  BY GraphTypesAre DEF GraphInv
<1>5. /\ query'.at = (IF from \in Whole.nodes THEN "expand" ELSE "degraded") /\ query'.from = from
      /\ query'.depth = depth /\ QueryTyped(query')
  BY <1>1, <1>3 DEF QueryTyped
<1>6. SearchTyped(walk', Nodes, Edges, depth) /\ WalkOf(query', walk', Whole.nodes, Whole.edges)
  <2>1. CASE from \in Whole.nodes
    <3>1. walk' = [depth |-> [n \in {from} |-> 0], parent |-> <<>>, queue |-> <<from>>]
      BY <1>1, <2>1
    <3>2. Trek(walk', Whole.edges, from, from, depth, 0, {})
      BY <1>3, <3>1, TrekStarts
    <3>3. from \in Nodes
      BY <1>4, <2>1, RowsAreNamed
    <3>4. SearchTyped(walk', Nodes, Edges, depth)
      BY <1>4, <3>2, <3>3, TrekTyped
    <3>5. walk' = [depth |-> walk'.depth, parent |-> walk'.parent, queue |-> walk'.queue] /\ DOMAIN walk'.depth # {}
      BY <3>2 DEF Trek, TrekTypes
    <3>6. query'.at = "expand"
      BY <1>5, <2>1
    <3> QED
      BY <3>4, <3>5, <3>6 DEF WalkOf
  <2>2. CASE from \notin Whole.nodes
    <3>1. walk' = NoWalk /\ query'.at = "degraded"
      BY <1>1, <1>5, <2>2
    <3> QED
      BY <1>3, <1>5, <2>2, <3>1, NoWalkTyped DEF WalkOf
  <2> QED
    BY <2>1, <2>2
<1>7. TraceIsHonest' /\ ExpandedIsWhole'
  <2>1. query'.at \in {"expand", "degraded"}
    BY <1>5
  <2>2. TraceHolds(query', shown', Nodes', Edges')
    BY <2>1 DEF TraceHolds
  <2> QED
    BY <2>1, <2>2, TracePromise DEF ExpandedIsWhole
<1>8. GraphTypeOK'
  BY <1>1, <1>2, <1>4, <1>5, <1>6, GraphTypesAre
<1> QED
  BY <1>2, <1>6, <1>7, <1>8, GraphInvIs

LEMMA VisitNodeStep ==
    ASSUME GraphInv, VisitNode
    PROVE  GraphInv'
<1> DEFINE from == query.from
           to == query.to
           E == Whole.edges
<1>1. /\ query.at = "trace" /\ walk.queue # <<>> /\ rows' = rows /\ query' = query /\ shown' = shown
      /\ walk' = Onward(walk, E)
  BY DEF VisitNode, Onward, Leaving
<1>2. Nodes' = Nodes /\ Edges' = Edges /\ Whole' = Whole
  BY <1>1, RowsStay
<1>3. rows \in Rows /\ AnswerTyped(shown, Nodes, Edges) /\ QueryTyped(query) /\ SearchTyped(walk, Nodes, Edges, query.depth)
  BY GraphTypesAre DEF GraphInv
<1>4. query.depth \in Nat
  <2>1. query.depth \in 0..MaxDepth
    BY <1>3 DEF QueryTyped
  <2>2. MaxDepth \in Nat
    BY GraphAssumption
  <2> QED
    BY <2>1, <2>2
<1>5. E \subseteq EdgeSpace
  BY <1>3, RowsAreNamed
<1>6. walk # NoWalk
  <2>1. NoWalk.queue = <<>>
    BY DEF NoWalk
  <2> QED
    BY <1>1, <2>1, Zenon
<1>7. PICK d \in Nat : Trek(walk, E, from, to, query.depth, d, {})
  BY <1>1, <1>6 DEF GraphInv
<1>8. from \in Nodes
  BY <1>3, <1>7 DEF Trek, TrekTypes, SearchTyped
<1> HIDE DEF E, from, to
<1>9. PICK c \in Nat : Trek(walk', E, from, to, query.depth, c, {})
  BY <1>1, <1>4, <1>5, <1>7, VisitKeeps DEF to
<1>10. SearchTyped(walk', Nodes, Edges, query.depth)
  BY <1>3, <1>8, <1>9, TrekTyped DEF E
<1>11. walk' = [depth |-> walk'.depth, parent |-> walk'.parent, queue |-> walk'.queue]
  BY <1>9 DEF Trek, TrekTypes
<1>12. WalkOf(query', walk', Whole.nodes, Whole.edges)
  BY <1>1, <1>9, <1>11 DEF WalkOf, E, from, to
<1>13. TraceIsHonest' /\ ExpandedIsWhole'
  <2>1. TraceHolds(query', shown', Nodes', Edges')
    BY <1>1 DEF TraceHolds
  <2> QED
    BY <1>1, <2>1, TracePromise DEF ExpandedIsWhole
<1>14. GraphTypeOK'
  BY <1>1, <1>2, <1>3, <1>10, GraphTypesAre
<1> QED
  BY <1>2, <1>12, <1>13, <1>14, GraphInvIs

(* The nodes of a way, and of what is asked for.                                       *)
WayNodes(way) == UNION {{e.source, e.target} : e \in way}

LEMMA AnswerTraceStep ==
    ASSUME GraphInv, AnswerTrace
    PROVE  GraphInv'
<1> DEFINE from == query.from
           to == query.to
           reached == to \in DOMAIN walk.depth
           way == IF reached THEN WayTo ELSE {}
           ends == {from, to} \intersect Whole.nodes
           nodes == ends \union UNION {{e.source, e.target} : e \in way}
           already == Whole.truncated
           cutGraph == Snapshot(nodes, way, MaxNodes, MaxEdges, already)
<1>1. /\ query.at = "trace" /\ (walk.queue = <<>> \/ reached)
      /\ shown' = [found |-> reached, nodes |-> cutGraph.nodes, edges |-> cutGraph.edges,
                   truncated |-> cutGraph.truncated \/ (~reached /\ AtBound)]
      /\ query' = [query EXCEPT !.at = "traced"] /\ rows' = rows /\ walk' = walk
  BY DEF AnswerTrace
<1>2. Nodes' = Nodes /\ Edges' = Edges /\ Whole' = Whole
  BY <1>1, RowsStay
<1>3. rows \in Rows /\ QueryTyped(query) /\ SearchTyped(walk, Nodes, Edges, query.depth)
  BY GraphTypesAre DEF GraphInv
<1>4. /\ QueryTyped(query') /\ query'.at = "traced" /\ query'.from = from /\ query'.to = to
      /\ query'.depth = query.depth
  <2>1. query' = [at |-> "traced", from |-> query.from, to |-> query.to, depth |-> query.depth]
    BY <1>1, <1>3 DEF QueryTyped
  <2> QED
    BY <1>3, <2>1 DEF QueryTyped
<1>5. query.depth \in Nat
  <2>1. query.depth \in 0..MaxDepth
    BY <1>3 DEF QueryTyped
  <2>2. MaxDepth \in Nat
    BY GraphAssumption
  <2> QED
    BY <2>1, <2>2
<1>6. query.at = "trace"
  BY <1>1
<1>7. /\ Nodes \subseteq Range(Names) /\ Edges \subseteq EdgeSpace
      /\ Whole.nodes \subseteq Nodes /\ Whole.edges \subseteq Edges
      /\ \A e \in Edges : e.source \in Nodes /\ e.target \in Nodes
      /\ ~Whole.truncated => Whole.nodes = Nodes /\ Whole.edges = Edges
  BY <1>3, RowsAreNamed
<1>8. ASSUME reached
      PROVE  \E d \in Nat : Trek(walk, Whole.edges, from, to, query.depth, d, {})
  <2>1. DOMAIN NoWalk.depth = {}
    BY <1>5, NoWalkTyped
  <2>2. walk # NoWalk
    BY <1>8, <2>1
  <2> QED
    BY <1>6, <2>2 DEF GraphInv
<1>9. ASSUME reached
      PROVE  WayLeads(way, walk, Whole.edges, from, to)
  <2>1. PICK d \in Nat : Trek(walk, Whole.edges, from, to, query.depth, d, {})
    BY <1>8, <1>9
  <2>2. way = WayOf(walk, from)[to]
    BY <1>9 DEF WayTo, WayOf, WaySteps
  <2> HIDE DEF way, from, to
  <2>3. to \in DOMAIN walk.depth
    BY <1>9 DEF to
  <2>4. WayLeads(WayOf(walk, from)[to], walk, Whole.edges, from, to)
    BY <1>5, <2>1, <2>3, WaysLead
  <2> QED
    BY <2>2, <2>4
<1>10. way \subseteq Edges
  <2>1. CASE reached
    <3>1. way \subseteq Whole.edges
      BY <1>9, <2>1 DEF WayLeads
    <3> QED
      BY <1>7, <3>1
  <2>2. CASE ~reached
    BY <2>2
  <2> QED
    BY <2>1, <2>2
<1> HIDE DEF way
<1>11. nodes \subseteq Nodes
  <2>1. ends \subseteq Nodes
    BY <1>7
  <2>2. \A e \in way : e.source \in Nodes /\ e.target \in Nodes
    BY <1>7, <1>10
  <2> QED
    BY <2>1, <2>2
<1> DEFINE cut == cutGraph.truncated \/ (~reached /\ AtBound)
<1>12. shown' = [found |-> reached, nodes |-> cutGraph.nodes, edges |-> cutGraph.edges, truncated |-> cut]
  BY <1>1
<1> HIDE DEF cut, cutGraph, nodes, reached
<1>13. /\ shown'.found = reached /\ shown'.nodes = cutGraph.nodes /\ shown'.edges = cutGraph.edges
       /\ shown'.truncated = cut
  BY <1>12
<1>14. AnswerTyped(shown', Nodes, Edges)
  <2>1. {MaxNodes, MaxEdges} \subseteq Nat
    BY GraphAssumption
  <2>2. nodes \subseteq Range(Names) /\ way \subseteq EdgeSpace
    BY <1>7, <1>10, <1>11
  <2> HIDE DEF already
  <2>3. cutGraph = Snapshot(nodes, way, MaxNodes, MaxEdges, already)
    BY DEF cutGraph
  <2>4. cutGraph.nodes \subseteq nodes /\ cutGraph.edges \subseteq way /\ cutGraph.edges \subseteq EndsWithin(cutGraph.nodes)
    BY <2>1, <2>2, <2>3, SnapshotShows
  <2> QED
    BY <1>10, <1>11, <1>13, <2>4 DEF AnswerTyped, EndsWithin
<1>15. ASSUME ~shown'.truncated
       PROVE  /\ shown'.nodes = nodes /\ shown'.edges = way /\ (~reached => ~AtBound)
              /\ Whole.nodes = Nodes /\ Whole.edges = Edges
  <2>1. ~cutGraph.truncated /\ (~reached => ~AtBound)
    BY <1>13, <1>15, Zenon DEF cut
  <2>2. cutGraph.nodes = nodes /\ cutGraph.edges = way /\ ~already
    BY <2>1, SnapshotIsAll DEF cutGraph
  <2> QED
    BY <1>7, <1>13, <2>1, <2>2
<1>16. TraceHolds(query', shown', Nodes, Edges)
  <2> SUFFICES ASSUME ~shown'.truncated
               PROVE  IF shown'.found
                      THEN /\ to \in Near(Edges, from, Cardinality(shown'.edges))
                           /\ Cardinality(shown'.edges) > 0 =>
                                to \notin Near(Edges, from, Cardinality(shown'.edges) - 1)
                           /\ \A n \in shown'.nodes \ {from} : \E e \in shown'.edges : e.target = n
                      ELSE from \notin Nodes \/ to \notin Near(Edges, from, Len(Names))
    BY <1>4 DEF TraceHolds
  <2>1. CASE reached
    <3>1. PICK d \in Nat : Trek(walk, Edges, from, to, query.depth, d, {})
      BY <1>8, <1>15, <2>1
    <3>2. WayLeads(way, walk, Edges, from, to)
      BY <1>9, <1>15, <2>1
    <3>3. shown'.edges = way /\ Cardinality(way) = walk.depth[to] /\ to \in DOMAIN walk.depth
      BY <1>15, <2>1, <3>2 DEF WayLeads, reached
    <3>4. walk.depth[to] \in Nat
      BY <3>1, <3>3 DEF Trek, TrekTypes
    <3>5. to \in Near(Edges, from, walk.depth[to])
          /\ \A k \in Nat : k < walk.depth[to] => to \notin Near(Edges, from, k)
      BY <3>1, <3>3 DEF Trek, Nearest
    <3>6. ASSUME walk.depth[to] > 0
          PROVE  to \notin Near(Edges, from, walk.depth[to] - 1)
      <4>1. walk.depth[to] - 1 \in Nat /\ walk.depth[to] - 1 < walk.depth[to]
        BY <3>4, <3>6
      <4> QED
        BY <3>5, <4>1, Zenon
    <3>7. ASSUME NEW n \in nodes, n # from
          PROVE  \E e \in way : e.target = n
      <4>1. n = to \/ \E e \in way : n = e.source \/ n = e.target
        BY <3>7 DEF nodes
      <4>2. CASE n = to
        BY <3>2, <3>7, <4>2 DEF WayLeads
      <4>3. ASSUME NEW e \in way, n = e.source
            PROVE  \E f \in way : f.target = n
        BY <3>2, <3>7, <4>3 DEF WayLeads
      <4> QED
        BY <4>1, <4>2, <4>3
    <3> QED
      BY <1>13, <1>15, <2>1, <3>3, <3>5, <3>6, <3>7, Zenon
  <2>2. CASE ~reached
    <3>1. from \notin Nodes \/ to \notin Near(Edges, from, Len(Names))
      <4>1. CASE walk = NoWalk /\ from \notin Whole.nodes
        BY <1>15, <4>1
      <4>2. ASSUME NEW d \in Nat, Trek(walk, Whole.edges, from, to, query.depth, d, {})
            PROVE  to \notin Near(Edges, from, Len(Names))
        <5>1. Trek(walk, Edges, from, to, query.depth, d, {})
          BY <1>15, <4>2
        <5>2. to \notin DOMAIN walk.depth
          BY <2>2 DEF reached
        <5>3. walk.queue = <<>>
          BY <1>1, <2>2 DEF reached
        <5>4. \A n \in DOMAIN walk.depth : walk.depth[n] >= query.depth => {e \in Edges : e.source = n} = {}
          BY <1>15, <2>2 DEF AtBound, Leaving
        <5> HIDE DEF from, to
        <5>5. \A k \in Nat : Near(Edges, from, k) \subseteq DOMAIN walk.depth
          BY <1>5, <5>1, <5>2, <5>3, <5>4, AllIsReached
        <5>6. Len(Names) \in Nat
          BY NamesAre
        <5>7. Near(Edges, from, Len(Names)) \subseteq DOMAIN walk.depth
          BY <5>5, <5>6, Zenon
        <5> QED
          BY <5>2, <5>7
      <4> QED
        BY <1>6, <4>1, <4>2 DEF GraphInv
    <3> QED
      BY <1>13, <2>2, <3>1
  <2> QED
    BY <2>1, <2>2
<1>17. TraceIsHonest' /\ ExpandedIsWhole'
  BY <1>2, <1>4, <1>16, TracePromise DEF ExpandedIsWhole
<1>18. GraphTypeOK'
  BY <1>1, <1>2, <1>3, <1>4, <1>14, GraphTypesAre
<1>19. WalkOf(query', walk', Whole.nodes, Whole.edges)
  <2>1. walk = [depth |-> walk.depth, parent |-> walk.parent, queue |-> walk.queue]
    BY DEF GraphInv
  <2> QED
    BY <1>1, <1>4, <2>1 DEF WalkOf
<1> QED
  BY <1>2, <1>17, <1>18, <1>19, GraphInvIs

LEMMA LevelIs ==
    ASSUME NEW w, NEW deep \in Nat, w.depth \in [DOMAIN w.depth -> 0..deep], DOMAIN w.depth # {}
    PROVE  Max({w.depth[n] : n \in DOMAIN w.depth}) \in 0..deep
<1> DEFINE S == {w.depth[n] : n \in DOMAIN w.depth}
<1>1. S \subseteq 0..deep /\ S # {}
  OBVIOUS
<1> HIDE DEF S
<1>2. Max(S) \in S
  BY <1>1, GreatestNumber
<1> QED
  BY <1>1, <1>2 DEF S

LEMMA ExpandLevelStep ==
    ASSUME GraphInv, ExpandLevel
    PROVE  GraphInv'
<1> DEFINE next == Beside(Range(walk.queue)) \ DOMAIN walk.depth
           deep == query.depth
           all == DOMAIN walk.depth \union next
           depth == [n \in all |-> IF n \in next THEN Level + 1 ELSE walk.depth[n]]
           queue == Listed(next)
<1>1. /\ query.at = "expand" /\ Level < deep
      /\ walk' = [walk EXCEPT !.depth = depth, !.queue = queue]
      /\ rows' = rows /\ query' = query /\ shown' = shown
  BY DEF ExpandLevel
<1>2. Nodes' = Nodes /\ Edges' = Edges /\ Whole' = Whole
  BY <1>1, RowsStay
<1>3. rows \in Rows /\ AnswerTyped(shown, Nodes, Edges) /\ QueryTyped(query) /\ SearchTyped(walk, Nodes, Edges, deep)
  BY GraphTypesAre DEF GraphInv
<1>4. deep \in Nat
  <2>1. query.depth \in 0..MaxDepth
    BY <1>3 DEF QueryTyped
  <2>2. MaxDepth \in Nat
    BY GraphAssumption
  <2> QED
    BY <2>1, <2>2
<1>5. DOMAIN walk.depth # {} /\ walk = [depth |-> walk.depth, parent |-> walk.parent, queue |-> walk.queue]
  BY <1>1 DEF GraphInv
<1>6. Level \in 0..deep
  <2> DEFINE w == walk
  <2>1. w.depth \in [DOMAIN w.depth -> 0..deep] /\ DOMAIN w.depth # {}
    BY <1>3, <1>5 DEF SearchTyped
  <2>2. Level = Max({w.depth[n] : n \in DOMAIN w.depth})
    BY DEF Level
  <2> HIDE DEF w, deep
  <2>3. Max({w.depth[n] : n \in DOMAIN w.depth}) \in 0..deep
    BY <1>4, <2>1, LevelIs
  <2> QED
    BY <2>2, <2>3
<1>7. Beside(Range(walk.queue)) \subseteq Nodes /\ Nodes \subseteq Range(Names)
  <2>1. /\ Nodes \subseteq Range(Names) /\ Whole.edges \subseteq Edges
        /\ \A e \in Edges : e.source \in Nodes /\ e.target \in Nodes
    BY <1>3, RowsAreNamed
  <2> QED
    BY <2>1 DEF Beside
<1>8. next \subseteq Nodes /\ next \subseteq all
  BY <1>7
<1> HIDE DEF next
<1>9. queue \in Seq(all)
  <2>1. queue \in Seq(next)
    BY <1>7, <1>8, ListedAre
  <2> HIDE DEF all, queue
  <2> QED
    BY <1>8, <2>1
<1>10. depth \in [all -> 0..deep] /\ all \subseteq Nodes
  <2>1. Level + 1 \in 0..deep
    BY <1>1, <1>4, <1>6
  <2>2. walk.depth \in [DOMAIN walk.depth -> 0..deep] /\ DOMAIN walk.depth \subseteq Nodes
    BY <1>3 DEF SearchTyped
  <2> HIDE DEF deep
  <2> QED
    BY <1>8, <2>1, <2>2
<1> HIDE DEF depth, queue, deep
<1>11. walk' = [depth |-> depth, parent |-> walk.parent, queue |-> queue]
  BY <1>1, <1>5
<1>12. walk'.depth = depth /\ walk'.parent = walk.parent /\ walk'.queue = queue /\ DOMAIN depth = all
       /\ walk' = [depth |-> walk'.depth, parent |-> walk'.parent, queue |-> walk'.queue]
  BY <1>10, <1>11
<1>13. SearchTyped(walk', Nodes, Edges, deep)
  <2>1. DOMAIN walk.parent \subseteq all /\ Range(walk.parent) \subseteq Edges
    BY <1>3 DEF SearchTyped
  <2> HIDE DEF all
  <2> QED
    BY <1>9, <1>10, <1>12, <2>1, Zenon DEF SearchTyped
<1>14. WalkOf(query', walk', Whole.nodes, Whole.edges)
  <2>1. DOMAIN walk'.depth # {}
    BY <1>5, <1>12
  <2> QED
    BY <1>1, <1>12, <2>1 DEF WalkOf
<1>15. TraceIsHonest' /\ ExpandedIsWhole'
  <2>1. TraceHolds(query', shown', Nodes', Edges')
    BY <1>1 DEF TraceHolds
  <2> QED
    BY <1>1, <2>1, TracePromise DEF ExpandedIsWhole
<1>16. GraphTypeOK'
  BY <1>1, <1>2, <1>3, <1>13, GraphTypesAre DEF deep
<1> QED
  BY <1>2, <1>14, <1>15, <1>16, GraphInvIs

LEMMA AnswerExpandStep ==
    ASSUME GraphInv, AnswerExpand
    PROVE  GraphInv'
<1> DEFINE nodes == DOMAIN walk.depth
           edges == {e \in Whole.edges : {e.source, e.target} \subseteq nodes}
           missed == NotReached(nodes, edges)
           cutGraph == Snapshot(nodes, edges, MaxNodes, MaxEdges, missed)
<1>1. /\ shown' = [found |-> TRUE, nodes |-> cutGraph.nodes, edges |-> cutGraph.edges, truncated |-> cutGraph.truncated]
      /\ query' = [query EXCEPT !.at = "expanded"] /\ rows' = rows /\ walk' = walk
  BY DEF AnswerExpand
<1>2. Nodes' = Nodes /\ Edges' = Edges /\ Whole' = Whole
  BY <1>1, RowsStay
<1>3. rows \in Rows /\ QueryTyped(query) /\ SearchTyped(walk, Nodes, Edges, query.depth)
  BY GraphTypesAre DEF GraphInv
<1>4. QueryTyped(query') /\ query'.at = "expanded" /\ query'.depth = query.depth
  <2>1. query' = [at |-> "expanded", from |-> query.from, to |-> query.to, depth |-> query.depth]
    BY <1>1, <1>3 DEF QueryTyped
  <2> QED
    BY <1>3, <2>1 DEF QueryTyped
<1>5. /\ Nodes \subseteq Range(Names) /\ Edges \subseteq EdgeSpace /\ Whole.edges \subseteq Edges
      /\ ~Whole.truncated => Whole.nodes = Nodes /\ Whole.edges = Edges
  BY <1>3, RowsAreNamed
<1>6. nodes \subseteq Nodes /\ edges \subseteq Edges
  BY <1>3, <1>5 DEF SearchTyped
<1>7. missed \/ (~Whole.truncated /\ nodes = Whole.nodes /\ edges = Whole.edges)
  BY DEF NotReached
<1> HIDE DEF nodes, edges, missed
<1>8. /\ cutGraph.nodes \subseteq nodes /\ cutGraph.edges \subseteq edges /\ cutGraph.edges \subseteq EndsWithin(cutGraph.nodes)
  <2>1. {MaxNodes, MaxEdges} \subseteq Nat
    BY GraphAssumption
  <2>2. nodes \subseteq Range(Names) /\ edges \subseteq EdgeSpace
    BY <1>5, <1>6
  <2> QED
    BY <2>1, <2>2, SnapshotShows
<1>9. ASSUME ~cutGraph.truncated
      PROVE  cutGraph.nodes = Nodes /\ cutGraph.edges = Edges
  <2>1. cutGraph.nodes = nodes /\ cutGraph.edges = edges /\ ~missed
    BY <1>9, SnapshotIsAll
  <2> QED
    BY <1>5, <1>7, <2>1
<1> HIDE DEF cutGraph
<1>10. shown'.nodes = cutGraph.nodes /\ shown'.edges = cutGraph.edges /\ shown'.truncated = cutGraph.truncated
  BY <1>1
<1>11. AnswerTyped(shown', Nodes, Edges)
  BY <1>6, <1>8, <1>10 DEF AnswerTyped, EndsWithin
<1>12. ExpandedIsWhole'
  BY <1>2, <1>9, <1>10, Zenon DEF ExpandedIsWhole
<1>13. TraceIsHonest'
  <2>1. TraceHolds(query', shown', Nodes', Edges')
    BY <1>4 DEF TraceHolds
  <2> QED
    BY <2>1, TracePromise
<1>14. GraphTypeOK'
  BY <1>1, <1>2, <1>3, <1>4, <1>11, GraphTypesAre
<1>15. WalkOf(query', walk', Whole.nodes, Whole.edges)
  <2>1. walk = [depth |-> walk.depth, parent |-> walk.parent, queue |-> walk.queue]
    BY DEF GraphInv
  <2> QED
    BY <1>1, <1>4, <2>1 DEF WalkOf
<1> QED
  BY <1>2, <1>12, <1>13, <1>14, <1>15, GraphInvIs

LEMMA GraphStarts == GraphInit => GraphInv
<1> SUFFICES ASSUME GraphInit
             PROVE  GraphInv
  OBVIOUS
<1>1. rows \in Rows /\ query = NoQuery /\ walk = NoWalk /\ shown = NothingShown
  BY DEF GraphInit
<1>2. query.at = "none" /\ query.depth = 0 /\ QueryTyped(query)
  <2>1. 0 \in 0..MaxDepth
    BY GraphAssumption
  <2> QED
    BY <1>1, <2>1 DEF NoQuery, QueryTyped
<1>3. SearchTyped(walk, Nodes, Edges, query.depth)
      /\ walk = [depth |-> walk.depth, parent |-> walk.parent, queue |-> walk.queue]
  <2>1. 0 \in Nat
    OBVIOUS
  <2>2. SearchTyped(NoWalk, Nodes, Edges, 0)
        /\ NoWalk = [depth |-> NoWalk.depth, parent |-> NoWalk.parent, queue |-> NoWalk.queue]
    BY <2>1, NoWalkTyped
  <2> QED
    BY <1>1, <1>2, <2>2
<1>4. AnswerTyped(shown, Nodes, Edges)
  BY <1>1 DEF AnswerTyped, NothingShown
<1>5. TraceHolds(query, shown, Nodes, Edges) /\ ExpandedIsWhole
  BY <1>2 DEF TraceHolds, ExpandedIsWhole
<1>6. GraphTypeOK /\ TraceIsHonest
  BY <1>1, <1>2, <1>3, <1>4, <1>5, GraphTypesAre, TracePromise
<1>7. WalkOf(query, walk, Whole.nodes, Whole.edges)
  BY <1>2, <1>3 DEF WalkOf
<1> QED
  BY <1>5, <1>6, <1>7, GraphInvIs

LEMMA GraphViewStays ==
    ASSUME GraphInv, UNCHANGED graphVars
    PROVE  GraphInv'
<1>1. rows' = rows /\ query' = query /\ walk' = walk /\ shown' = shown
  BY DEF graphVars
<1>2. Nodes' = Nodes /\ Edges' = Edges /\ Whole' = Whole
  BY <1>1, RowsStay
<1>3. GraphTypeOK' /\ TraceIsHonest'
  BY <1>1, <1>2, GraphTypesAre, TracePromise DEF GraphInv
<1>4. ExpandedIsWhole'
  BY <1>1, <1>2 DEF GraphInv, ExpandedIsWhole
<1>5. WalkOf(query', walk', Whole'.nodes, Whole'.edges)
  BY <1>1, <1>2, GraphInvIs
<1> QED
  BY <1>3, <1>4, <1>5, GraphInvIs

LEMMA GraphInvariant == GraphSpec => []GraphInv
<1>1. GraphInit => GraphInv
  BY GraphStarts
<1>2. GraphInv /\ [GraphNext]_graphVars => GraphInv'
  <2> SUFFICES ASSUME GraphInv, [GraphNext]_graphVars
               PROVE  GraphInv'
    OBVIOUS
  <2>1. ASSUME NEW from \in Range(Names), NEW to \in Range(Names), NEW depth \in 1..MaxDepth,
               AskTrace(from, to, depth)
        PROVE  GraphInv'
    BY <2>1, TraceStarts
  <2>2. ASSUME NEW from \in Range(Names), NEW depth \in 1..MaxDepth, AskExpand(from, depth)
        PROVE  GraphInv'
    BY <2>2, ExpansionStarts
  <2>3. CASE VisitNode
    BY <2>3, VisitNodeStep
  <2>4. CASE AnswerTrace
    BY <2>4, AnswerTraceStep
  <2>5. CASE ExpandLevel
    BY <2>5, ExpandLevelStep
  <2>6. CASE AnswerExpand
    BY <2>6, AnswerExpandStep
  <2>7. CASE UNCHANGED graphVars
    BY <2>7, GraphViewStays
  <2> QED
    BY <2>1, <2>2, <2>3, <2>4, <2>5, <2>6, <2>7 DEF GraphNext
<1> QED
  BY <1>1, <1>2, PTL DEF GraphSpec

(* The request, the search and the answer have their types, and what is shown are nodes  *)
(* and edges of the rows, each edge with both of its nodes.                           *)
THEOREM GraphViewTypes == GraphSpec => []GraphTypeOK
  BY GraphInvariant, PTL DEF GraphInv

(* A trace that is not marked truncated is right: what it did not find cannot be reached  *)
(* by a way of any length, and what it shows is a shortest way.                        *)
THEOREM TracesAreHonest == GraphSpec => []TraceIsHonest
  BY GraphInvariant, PTL DEF GraphInv

(* An expansion that is not marked truncated shows every node and every edge of the     *)
(* rows, whatever the bounds of the snapshot, of the answer and of the depth; and a      *)
(* degraded one, which is empty, is about a node that the rows do not have, or that the  *)
(* bounds of the snapshot left out.                                                   *)
THEOREM ExpansionsAreHonest == GraphSpec => []ExpansionIsHonest
<1>1. GraphInv => ExpansionIsHonest
  <2> SUFFICES ASSUME GraphInv
               PROVE  ExpansionIsHonest
    OBVIOUS
  <2>1. rows \in Rows
    BY DEF GraphInv, GraphTypeOK
  <2>2. ~Whole.truncated => Whole.nodes = Nodes
    BY <2>1, RowsAreNamed
  <2> QED
    BY <2>2 DEF GraphInv, ExpandedIsWhole, ExpansionIsHonest
<1> QED
  BY <1>1, GraphInvariant, PTL

(***************************************************************************)
(* The impact of an intent.                                                *)
(***************************************************************************)
(* An enumeration of a finite set has every element of it.                        *)
LEMMA Enumerated ==
    ASSUME NEW S, IsFiniteSet(S), NEW f \in SetToSeqs(S)
    PROVE  f \in Seq(S) /\ \A x \in S : \E k \in DOMAIN f : f[k] = x
<1>1. Cardinality(S) \in Nat
  BY FS_CardinalityType
<1>2. f \in [1..Cardinality(S) -> S] /\ \A i, j \in 1..Cardinality(S) : i # j => f[i] # f[j]
  BY DEF SetToSeqs
<1>3. f \in Injection(1..Cardinality(S), S)
  BY <1>2 DEF Injection, IsInjective
<1>4. Cardinality(1..Cardinality(S)) = Cardinality(S)
  BY <1>1, FS_Interval
<1>5. f \in Surjection(1..Cardinality(S), S)
  BY <1>3, <1>4, FS_Injection
<1> QED
  BY <1>1, <1>2, <1>5 DEF Surjection

(* The fold over the edges of an entity, as the function that takes the last off.  *)
Followed(n, base, edges) == FoldLeft(LAMBDA i, e : Follow(n, i, e), base, edges)
FollowSteps(g, n, base, edges, k) ==
    [s \in SUBSET (1..k) |-> IF s = {} THEN base ELSE Follow(n, g[s \ {Max(s)}], edges[Max(s)])]

LEMMA FollowExists ==
    ASSUME NEW n, NEW base, NEW edges, NEW k \in Nat
    PROVE  \E g : g = FollowSteps(g, n, base, edges, k)
<1> DEFINE None == {m \in Nat : ~ \E g : g = FollowSteps(g, n, base, edges, m)}
<1>1. SUFFICES ASSUME None # {}
               PROVE  FALSE
  OBVIOUS
<1>2. PICK m \in None : \A l \in None : m <= l
  BY <1>1, LeastNumber
<1>3. m \in Nat /\ ~ \E g : g = FollowSteps(g, n, base, edges, m)
  OBVIOUS
<1>4. m # 0
  <2> SUFFICES \E g : g = FollowSteps(g, n, base, edges, 0)
    BY <1>3
  <2> WITNESS [s \in SUBSET (1..0) |-> base]
  <2> QED
    BY DEF FollowSteps
<1>5. m - 1 \in Nat /\ m - 1 \notin None
  BY <1>2, <1>3, <1>4
<1>6. PICK g : g = FollowSteps(g, n, base, edges, m - 1)
  BY <1>5
<1> HIDE DEF None
<1> DEFINE h == [s \in SUBSET (1..m) |->
                   IF s = {} THEN base ELSE Follow(n, g[s \ {Max(s)}], edges[Max(s)])]
<1>7. ASSUME NEW s \in SUBSET (1..m), s # {}
      PROVE  h[s \ {Max(s)}] = g[s \ {Max(s)}]
  <2> DEFINE t == s \ {Max(s)}
  <2>1. s \subseteq 0..m
    BY <1>3
  <2>2. Max(s) \in s /\ \A l \in s : Max(s) >= l
    BY <1>3, <1>7, <2>1, GreatestNumber
  <2>3. t \subseteq 1..(m - 1) /\ t \subseteq 1..m
    <3> SUFFICES ASSUME NEW l \in s, l # Max(s)
                 PROVE  l \in 1..(m - 1) /\ l \in 1..m
      OBVIOUS
    <3>1. l \in 1..m /\ Max(s) \in 1..m /\ l <= Max(s)
      BY <2>2
    <3> QED
      BY <1>3, <3>1
  <2> HIDE DEF t
  <2>4. h[t] = IF t = {} THEN base ELSE Follow(n, g[t \ {Max(t)}], edges[Max(t)])
    BY <2>3
  <2>5. g[t] = IF t = {} THEN base ELSE Follow(n, g[t \ {Max(t)}], edges[Max(t)])
    BY <1>6, <2>3 DEF FollowSteps
  <2> QED
    BY <2>4, <2>5 DEF t
<1>8. h = FollowSteps(h, n, base, edges, m)
  BY <1>7 DEF FollowSteps
<1> QED
  BY <1>3, <1>8

LEMMA FollowFold ==
    ASSUME NEW n, NEW base, NEW k \in Nat, NEW edges, DOMAIN edges = 1..k
    PROVE  \E g : /\ g = FollowSteps(g, n, base, edges, k)
                  /\ Followed(n, base, edges) = g[1..k]
<1> DEFINE iter == CHOOSE g : g = [s \in SUBSET (DOMAIN edges) |->
                     IF s = {} THEN base ELSE Follow(n, g[s \ {Max(s)}], edges[Max(s)])]
<1>1. Followed(n, base, edges) = iter[DOMAIN edges]
  BY DEF Followed, FoldLeft, MapThenFoldSet
<1>2. iter = CHOOSE g : g = FollowSteps(g, n, base, edges, k)
  BY DEF FollowSteps
<1>3. iter = FollowSteps(iter, n, base, edges, k)
  BY <1>2, FollowExists
<1> HIDE DEF iter
<1> QED
  BY <1>1, <1>3

(* The entities within so many steps of the targets: a ring holds the ones before it   *)
(* and what they lead to.                                                  *)
Beyond(S) == UNION {{OtherEnd(n, e) : e \in Adjacent(n)} : n \in S}
RingSteps(g, m) == [k \in 0..m |-> IF k = 0 THEN graph.targets ELSE g[k - 1] \union Beyond(g[k - 1])]
Rings == CHOOSE g : g = RingSteps(g, MaxImpactDepth)

LEMMA RingsExist ==
    ASSUME NEW m \in Nat
    PROVE  \E g : g = RingSteps(g, m)
<1> DEFINE None == {k \in Nat : ~ \E g : g = RingSteps(g, k)}
<1>1. SUFFICES ASSUME None # {}
               PROVE  FALSE
  OBVIOUS
<1>2. PICK k \in None : \A l \in None : k <= l
  BY <1>1, LeastNumber
<1>3. k \in Nat /\ ~ \E g : g = RingSteps(g, k)
  OBVIOUS
<1>4. k # 0
  <2> SUFFICES \E g : g = RingSteps(g, 0)
    BY <1>3
  <2> WITNESS [j \in 0..0 |-> graph.targets]
  <2> QED
    BY DEF RingSteps
<1>5. k - 1 \in Nat /\ k - 1 \notin None
  BY <1>2, <1>3, <1>4
<1>6. PICK g : g = RingSteps(g, k - 1)
  BY <1>5
<1> HIDE DEF None
<1> DEFINE h == [j \in 0..k |-> IF j = 0 THEN graph.targets ELSE g[j - 1] \union Beyond(g[j - 1])]
<1>7. ASSUME NEW j \in 0..k, j # 0
      PROVE  h[j - 1] = g[j - 1]
  <2>1. j - 1 \in 0..(k - 1) /\ j - 1 \in 0..k
    BY <1>3, <1>7
  <2>2. g[j - 1] = IF j - 1 = 0 THEN graph.targets ELSE g[(j - 1) - 1] \union Beyond(g[(j - 1) - 1])
    BY <1>6, <2>1 DEF RingSteps
  <2> QED
    BY <2>1, <2>2
<1>8. h = RingSteps(h, k)
  BY <1>7 DEF RingSteps
<1> QED
  BY <1>3, <1>8

LEMMA RingsAre ==
    /\ Rings[0] = graph.targets
    /\ \A k \in 1..MaxImpactDepth : Rings[k] = Rings[k - 1] \union Beyond(Rings[k - 1])
    /\ Affected(MaxImpactDepth) = Rings[MaxImpactDepth]
<1>1. MaxImpactDepth \in Nat
  BY ImpactAssumption
<1>2. Rings = RingSteps(Rings, MaxImpactDepth)
  BY <1>1, RingsExist DEF Rings
<1>3. Affected(MaxImpactDepth) = Rings[MaxImpactDepth]
  BY DEF Affected, Rings, RingSteps, Beyond
<1>4. \A k \in 0..MaxImpactDepth :
        Rings[k] = IF k = 0 THEN graph.targets ELSE Rings[k - 1] \union Beyond(Rings[k - 1])
  <2> SUFFICES ASSUME NEW k \in 0..MaxImpactDepth
               PROVE  Rings[k] = IF k = 0 THEN graph.targets ELSE Rings[k - 1] \union Beyond(Rings[k - 1])
    OBVIOUS
  <2>1. RingSteps(Rings, MaxImpactDepth)[k] =
          IF k = 0 THEN graph.targets ELSE Rings[k - 1] \union Beyond(Rings[k - 1])
    BY DEF RingSteps
  <2>2. Rings[k] = RingSteps(Rings, MaxImpactDepth)[k]
    BY <1>2, Zenon
  <2> QED
    BY <2>1, <2>2, Zenon
<1>5. Rings[0] = graph.targets
  <2>1. 0 \in 0..MaxImpactDepth
    BY <1>1
  <2> QED
    BY <1>4, <2>1, Zenon
<1>6. ASSUME NEW k \in 1..MaxImpactDepth
      PROVE  Rings[k] = Rings[k - 1] \union Beyond(Rings[k - 1])
  <2>1. k \in 0..MaxImpactDepth /\ k # 0
    BY <1>1
  <2> QED
    BY <1>4, <2>1, Zenon
<1> QED
  BY <1>3, <1>5, <1>6

LEMMA RingsGrow ==
    ASSUME NEW k \in 0..MaxImpactDepth, NEW j \in 0..k
    PROVE  Rings[j] \subseteq Rings[k]
<1> SUFFICES ASSUME NEW x \in Rings[j]
             PROVE  x \in Rings[k]
  OBVIOUS
<1> DEFINE Out == {l \in j..k : x \notin Rings[l]}
<1>1. MaxImpactDepth \in Nat
  BY ImpactAssumption
<1>2. SUFFICES ASSUME Out # {}
               PROVE  FALSE
  BY <1>1
<1>3. Out \subseteq Nat
  BY <1>1
<1>4. PICK l \in Out : \A m \in Out : l <= m
  BY <1>2, <1>3, LeastNumber
<1>5. l \in j..k /\ l # j /\ x \notin Rings[l]
  OBVIOUS
<1>6. l - 1 \in j..k /\ l - 1 \notin Out /\ l \in 1..MaxImpactDepth
  BY <1>1, <1>4, <1>5
<1>7. x \in Rings[l - 1]
  BY <1>6
<1> QED
  BY <1>5, <1>6, <1>7, RingsAre

LEMMA BeyondThem ==
    ASSUME NEW k \in 0..MaxImpactDepth, k < MaxImpactDepth, NEW n \in Rings[k], NEW e \in Adjacent(n)
    PROVE  OtherEnd(n, e) \in Rings[k + 1]
<1>1. OtherEnd(n, e) \in Beyond(Rings[k])
  BY DEF Beyond
<1>2. k + 1 \in 1..MaxImpactDepth /\ (k + 1) - 1 = k
  BY ImpactAssumption
<1> QED
  BY <1>1, <1>2, RingsAre

(***************************************************************************)
(* A walk that is at entities so many steps away.                            *)
(***************************************************************************)
Low(d) == IF d = 0 THEN 95 ELSE Greatest(1, 85 - 15 * d)
High(d) == IF d = 0 THEN 95 ELSE Greatest(1, 95 - 15 * d)

WalkTypes(i) ==
    /\ i = [score |-> i.score, depth |-> i.depth, queue |-> i.queue, truncated |-> i.truncated,
            at |-> i.at, items |-> i.items]
    /\ DOMAIN i.score \subseteq Entities
    /\ i.score \in [DOMAIN i.score -> 1..95] /\ i.depth \in [DOMAIN i.score -> 0..MaxImpactDepth]
    /\ i.queue \in Seq(DOMAIN i.score) /\ i.truncated \in BOOLEAN

(* What is reached lies in the ring of its depth, with a score that depth allows.    *)
Placed(i) ==
    \A e \in DOMAIN i.score : e \in Rings[i.depth[e]] /\ Low(i.depth[e]) <= i.score[e] /\ i.score[e] <= High(i.depth[e])

FromTargets(i) == \A e \in graph.targets : e \in DOMAIN i.score /\ i.depth[e] = 0

(* The queue is in the order of depths, which differ by one at most.                  *)
Levelled(i, d) ==
    /\ \A k \in DOMAIN i.queue : d <= i.depth[i.queue[k]]
    /\ \A j, k \in DOMAIN i.queue : j <= k => i.depth[i.queue[j]] <= i.depth[i.queue[k]]
    /\ \A e \in DOMAIN i.score : i.depth[e] <= d + 1

(* Unless some were left out, the neighbours of what was visited are reached, a step   *)
(* further at most; one entity that is being visited is excepted.                    *)
InQueue(i) == {i.queue[k] : k \in DOMAIN i.queue}
Passed(i, except) ==
    ~i.truncated =>
        \A e \in DOMAIN i.score : e \notin except /\ e \notin InQueue(i) /\ i.depth[e] < MaxImpactDepth =>
            \A a \in Adjacent(e) : OtherEnd(e, a) \in DOMAIN i.score /\ i.depth[OtherEnd(e, a)] <= i.depth[e] + 1

Walk(i, d, except) ==
    WalkTypes(i) /\ Placed(i) /\ FromTargets(i) /\ Levelled(i, d) /\ Passed(i, except)

LEMMA LevelScores ==
    ASSUME NEW d \in Nat
    PROVE  /\ Low(d) \in 1..95 /\ High(d) \in 1..95 /\ Low(d) <= High(d)
           /\ \A c \in Nat : c < d => Low(c) >= High(d)
           /\ \A c \in Nat : c <= d + 1 => High(d + 1) <= High(c)
           /\ Low(d + 1) = Greatest(1, 70 - 15 * d) /\ High(d + 1) = Greatest(1, 80 - 15 * d)
  BY DEF Low, High, Greatest

(* Following one edge of the entity that is being visited.                          *)
FollowsTo(i, j, d, n, e) ==
    /\ Walk(j, d, {n}) /\ n \in DOMAIN j.score /\ j.depth[n] = d
    /\ DOMAIN i.score \subseteq DOMAIN j.score /\ (i.truncated => j.truncated)
    /\ ~j.truncated => OtherEnd(n, e) \in DOMAIN j.score
    /\ j.at = i.at /\ j.items = i.items

LEMMA ScoreFits ==
    ASSUME NEW d \in Nat, NEW n, impact.depth[n] = d, NEW e
    PROVE  Score(n, e) \in 1..95 /\ Low(d + 1) <= Score(n, e) /\ Score(n, e) <= High(d + 1)
<1>1. Low(d + 1) = Greatest(1, 70 - 15 * d) /\ High(d + 1) = Greatest(1, 80 - 15 * d)
  BY LevelScores
<1>2. Score(n, e) = Greatest(1, 80 - 15 * d - 10) \/ Score(n, e) = Greatest(1, 80 - 15 * d - 0)
  BY DEF Score
<1> QED
  BY <1>1, <1>2 DEF Greatest

LEMMA FollowReached ==
    ASSUME NEW i, NEW d \in Nat, NEW n, Walk(i, d, {n}), n \in DOMAIN i.score, i.depth[n] = d,
           impact.depth[n] = d, NEW e, OtherEnd(n, e) \in DOMAIN i.score
    PROVE  FollowsTo(i, Follow(n, i, e), d, n, e)
<1> DEFINE next == OtherEnd(n, e)
           better == Greatest(i.score[next], Score(n, e))
           score == [i.score EXCEPT ![next] = better]
           j == Follow(n, i, e)
<1>1. /\ i.score \in [DOMAIN i.score -> 1..95] /\ i.depth \in [DOMAIN i.score -> 0..MaxImpactDepth]
      /\ i.queue \in Seq(DOMAIN i.score) /\ i.truncated \in BOOLEAN
      /\ i = [score |-> i.score, depth |-> i.depth, queue |-> i.queue, truncated |-> i.truncated,
              at |-> i.at, items |-> i.items]
  BY DEF Walk, WalkTypes
<1>2. j = [i EXCEPT !.score = score]
  BY DEF Follow
<1>3. Score(n, e) \in 1..95 /\ Low(d + 1) <= Score(n, e) /\ Score(n, e) <= High(d + 1)
  BY ScoreFits
<1>4. i.depth[next] \in Nat /\ i.depth[next] <= d + 1 /\ i.score[next] \in 1..95
  BY <1>1 DEF Walk, Levelled
<1>5. Low(i.depth[next]) <= i.score[next] /\ i.score[next] <= High(i.depth[next])
  BY DEF Walk, Placed
<1>6. better \in 1..95 /\ Low(i.depth[next]) <= better /\ better <= High(i.depth[next])
  <2>1. High(d + 1) <= High(i.depth[next])
    BY <1>4, LevelScores
  <2>2. /\ Low(i.depth[next]) \in Int /\ High(i.depth[next]) \in Int /\ High(d + 1) \in Int
    BY <1>4, LevelScores
  <2>3. better = i.score[next] \/ (better = Score(n, e) /\ i.score[next] <= Score(n, e))
    BY <1>3, <1>4 DEF Greatest
  <2> HIDE DEF better, next
  <2> QED
    BY <1>3, <1>4, <1>5, <2>1, <2>2, <2>3
<1> HIDE DEF better
<1>7. /\ score \in [DOMAIN i.score -> 1..95] /\ score[next] = better
      /\ \A x \in DOMAIN i.score : x # next => score[x] = i.score[x]
  BY <1>1, <1>6
<1> HIDE DEF j, score, next
<1>8. j = [score |-> score, depth |-> i.depth, queue |-> i.queue, truncated |-> i.truncated,
           at |-> i.at, items |-> i.items]
  BY <1>1, <1>2
<1>9. /\ j.score = score /\ j.depth = i.depth /\ j.queue = i.queue /\ j.truncated = i.truncated
      /\ j.at = i.at /\ j.items = i.items /\ DOMAIN j.score = DOMAIN i.score
  BY <1>7, <1>8
<1>10. WalkTypes(j)
  BY <1>1, <1>7, <1>8, <1>9 DEF Walk, WalkTypes
<1>11. Placed(j)
  <2> SUFFICES ASSUME NEW x \in DOMAIN i.score
               PROVE  x \in Rings[i.depth[x]] /\ Low(i.depth[x]) <= score[x] /\ score[x] <= High(i.depth[x])
    BY <1>9 DEF Placed
  <2>1. x \in Rings[i.depth[x]] /\ Low(i.depth[x]) <= i.score[x] /\ i.score[x] <= High(i.depth[x])
    BY DEF Walk, Placed
  <2>2. CASE x = next
    BY <1>6, <1>7, <2>1, <2>2
  <2>3. CASE x # next
    BY <1>7, <2>1, <2>3
  <2> QED
    BY <2>2, <2>3
<1>12. FromTargets(j) /\ Levelled(j, d) /\ Passed(j, {n})
  BY <1>9 DEF Walk, FromTargets, Levelled, Passed, InQueue
<1> QED
  BY <1>9, <1>10, <1>11, <1>12 DEF FollowsTo, Walk, j, next

LEMMA FollowNew ==
    ASSUME NEW i, NEW d \in Nat, d < MaxImpactDepth, NEW n, Walk(i, d, {n}), n \in DOMAIN i.score,
           i.depth[n] = d, impact.depth[n] = d, NEW e \in Adjacent(n), OtherEnd(n, e) \in Entities,
           OtherEnd(n, e) \notin DOMAIN i.score, ~(Cardinality(DOMAIN i.score) >= MaxEntities)
    PROVE  FollowsTo(i, Follow(n, i, e), d, n, e)
<1> DEFINE next == OtherEnd(n, e)
           all == DOMAIN i.score \union {next}
           score == [x \in all |-> IF x = next THEN Score(n, e) ELSE i.score[x]]
           depth == [x \in all |-> IF x = next THEN d + 1 ELSE i.depth[x]]
           queue == Append(i.queue, next)
           j == Follow(n, i, e)
<1>1. /\ i.score \in [DOMAIN i.score -> 1..95] /\ i.depth \in [DOMAIN i.score -> 0..MaxImpactDepth]
      /\ i.queue \in Seq(DOMAIN i.score) /\ i.truncated \in BOOLEAN /\ DOMAIN i.score \subseteq Entities
      /\ i = [score |-> i.score, depth |-> i.depth, queue |-> i.queue, truncated |-> i.truncated,
              at |-> i.at, items |-> i.items]
  BY DEF Walk, WalkTypes
<1>2. j = [i EXCEPT !.score = score, !.depth = depth, !.queue = queue]
  BY DEF Follow
<1>3. Score(n, e) \in 1..95 /\ Low(d + 1) <= Score(n, e) /\ Score(n, e) <= High(d + 1)
  BY ScoreFits
<1>4. d + 1 \in 0..MaxImpactDepth /\ MaxImpactDepth \in Nat
  BY ImpactAssumption
<1>5. next \in Rings[d + 1]
  <2>1. n \in Rings[d]
    BY DEF Walk, Placed
  <2>2. d \in 0..MaxImpactDepth
    BY <1>4
  <2> QED
    BY <2>1, <2>2, BeyondThem
<1>6. next \notin DOMAIN i.score /\ next \in Entities
  OBVIOUS
<1>7. /\ DOMAIN score = all /\ DOMAIN depth = all
      /\ score[next] = Score(n, e) /\ depth[next] = d + 1
      /\ \A x \in DOMAIN i.score : score[x] = i.score[x] /\ depth[x] = i.depth[x]
  BY <1>6
<1>8. score \in [all -> 1..95] /\ depth \in [all -> 0..MaxImpactDepth]
  BY <1>1, <1>3, <1>4
<1>9. /\ queue \in Seq(all) /\ Len(queue) = Len(i.queue) + 1
      /\ queue[Len(i.queue) + 1] = next
      /\ \A k \in 1..Len(i.queue) : queue[k] = i.queue[k] /\ i.queue[k] \in DOMAIN i.score
  <2>1. i.queue \in Seq(all) /\ next \in all
    BY <1>1
  <2> HIDE DEF next, all
  <2> QED
    BY <1>1, <2>1
<1> HIDE DEF j, score, depth, queue, next, all
<1>10. j = [score |-> score, depth |-> depth, queue |-> queue, truncated |-> i.truncated,
            at |-> i.at, items |-> i.items]
  BY <1>1, <1>2
<1>11. /\ j.score = score /\ j.depth = depth /\ j.queue = queue /\ j.truncated = i.truncated
       /\ j.at = i.at /\ j.items = i.items /\ DOMAIN j.score = all
  BY <1>7, <1>10
<1>12. all \subseteq Entities /\ next \in all /\ DOMAIN i.score \subseteq all
       /\ \A x \in all : x = next \/ x \in DOMAIN i.score
  BY <1>1, <1>6 DEF all
<1>13. WalkTypes(j)
  BY <1>1, <1>8, <1>9, <1>10, <1>11, <1>12 DEF WalkTypes
<1>14. Placed(j)
  <2> SUFFICES ASSUME NEW x \in all
               PROVE  x \in Rings[depth[x]] /\ Low(depth[x]) <= score[x] /\ score[x] <= High(depth[x])
    BY <1>11 DEF Placed
  <2>1. CASE x = next
    BY <1>3, <1>5, <1>7, <2>1
  <2>2. CASE x \in DOMAIN i.score
    <3>1. x \in Rings[i.depth[x]] /\ Low(i.depth[x]) <= i.score[x] /\ i.score[x] <= High(i.depth[x])
      BY <2>2 DEF Walk, Placed
    <3> QED
      BY <1>7, <2>2, <3>1
  <2> QED
    BY <1>12, <2>1, <2>2
<1>15. FromTargets(j)
  BY <1>7, <1>11, <1>12 DEF Walk, FromTargets
<1>16. Levelled(j, d)
  <2>1. /\ \A k \in DOMAIN i.queue : d <= i.depth[i.queue[k]]
        /\ \A k, l \in DOMAIN i.queue : k <= l => i.depth[i.queue[k]] <= i.depth[i.queue[l]]
        /\ \A x \in DOMAIN i.score : i.depth[x] <= d + 1
    BY DEF Walk, Levelled
  <2>2. DOMAIN i.queue = 1..Len(i.queue) /\ Len(i.queue) \in Nat /\ DOMAIN queue = 1..(Len(i.queue) + 1)
    BY <1>1, <1>9
  <2>3. \A x \in all : depth[x] <= d + 1
    BY <1>7, <1>12, <2>1
  <2>4. ASSUME NEW k \in 1..(Len(i.queue) + 1)
        PROVE  d <= depth[queue[k]] /\ queue[k] \in all
    <3>1. CASE k = Len(i.queue) + 1
      BY <1>7, <1>9, <1>12, <3>1
    <3>2. CASE k \in 1..Len(i.queue)
      BY <1>7, <1>9, <1>12, <2>1, <2>2, <3>2
    <3> QED
      BY <2>2, <3>1, <3>2
  <2>5. ASSUME NEW k \in 1..(Len(i.queue) + 1), NEW l \in 1..(Len(i.queue) + 1), k <= l
        PROVE  depth[queue[k]] <= depth[queue[l]]
    <3>1. CASE l = Len(i.queue) + 1
      BY <1>7, <1>9, <2>3, <2>4, <3>1
    <3>2. CASE l \in 1..Len(i.queue)
      <4>1. k \in 1..Len(i.queue)
        BY <2>2, <2>5, <3>2
      <4>2. /\ queue[k] = i.queue[k] /\ i.queue[k] \in DOMAIN i.score
            /\ queue[l] = i.queue[l] /\ i.queue[l] \in DOMAIN i.score
        BY <1>9, <3>2, <4>1
      <4>3. i.depth[i.queue[k]] <= i.depth[i.queue[l]]
        BY <2>1, <2>2, <2>5, <3>2, <4>1
      <4>4. depth[queue[k]] = i.depth[i.queue[k]] /\ depth[queue[l]] = i.depth[i.queue[l]]
        BY <1>7, <4>2
      <4> QED
        BY <4>3, <4>4
    <3> QED
      BY <2>2, <3>1, <3>2
  <2> QED
    BY <1>11, <2>2, <2>3, <2>4, <2>5 DEF Levelled
<1>17. Passed(j, {n})
  <2> SUFFICES ASSUME ~i.truncated, NEW x \in all, x # n, x \notin InQueue(j), depth[x] < MaxImpactDepth,
                      NEW a \in Adjacent(x)
               PROVE  OtherEnd(x, a) \in all /\ depth[OtherEnd(x, a)] <= depth[x] + 1
    BY <1>11 DEF Passed
  <2>1. DOMAIN i.queue = 1..Len(i.queue) /\ Len(i.queue) \in Nat /\ DOMAIN queue = 1..(Len(i.queue) + 1)
    BY <1>1, <1>9
  <2>2. next \in InQueue(j) /\ InQueue(i) \subseteq InQueue(j)
    BY <1>9, <1>11, <2>1 DEF InQueue
  <2>3. x \in DOMAIN i.score /\ x \notin InQueue(i) /\ i.depth[x] < MaxImpactDepth
    BY <1>7, <1>12, <2>2
  <2>4. OtherEnd(x, a) \in DOMAIN i.score /\ i.depth[OtherEnd(x, a)] <= i.depth[x] + 1
    BY <2>3 DEF Walk, Passed
  <2> QED
    BY <1>7, <1>12, <2>3, <2>4
<1>18. n \in all /\ depth[n] = d
  BY <1>7, <1>12
<1> QED
  BY <1>11, <1>12, <1>13, <1>14, <1>15, <1>16, <1>17, <1>18 DEF FollowsTo, Walk, j, next

LEMMA FollowCut ==
    ASSUME NEW i, NEW d \in Nat, NEW n, Walk(i, d, {n}), n \in DOMAIN i.score, i.depth[n] = d,
           NEW e, OtherEnd(n, e) \notin DOMAIN i.score, Cardinality(DOMAIN i.score) >= MaxEntities
    PROVE  FollowsTo(i, Follow(n, i, e), d, n, e)
<1> DEFINE j == Follow(n, i, e)
<1>1. i = [score |-> i.score, depth |-> i.depth, queue |-> i.queue, truncated |-> i.truncated,
           at |-> i.at, items |-> i.items]
  BY DEF Walk, WalkTypes
<1>2. j = [i EXCEPT !.truncated = TRUE]
  BY DEF Follow, Cut
<1> HIDE DEF j
<1>3. j = [score |-> i.score, depth |-> i.depth, queue |-> i.queue, truncated |-> TRUE,
           at |-> i.at, items |-> i.items]
  BY <1>1, <1>2
<1>4. /\ j.score = i.score /\ j.depth = i.depth /\ j.queue = i.queue /\ j.truncated = TRUE
      /\ j.at = i.at /\ j.items = i.items
  BY <1>3
<1>5. Walk(j, d, {n})
  BY <1>3, <1>4 DEF Walk, WalkTypes, Placed, FromTargets, Levelled, Passed
<1> QED
  BY <1>4, <1>5 DEF FollowsTo, j

(* Entities are few, so the edges between them are.                               *)
LEMMA FewEdges == IsFiniteSet(EdgeChoices)
<1> DEFINE EdgeKinds == {"contains", "imports", "calls"}
           Triples == (Entities \X Entities) \X EdgeKinds
           All == [from : Entities, to : Entities, kind : EdgeKinds]
           f == [t \in Triples |-> [from |-> t[1][1], to |-> t[1][2], kind |-> t[2]]]
<1>1. IsFiniteSet(Triples)
  <2>1. IsFiniteSet(Entities)
    BY ImpactAssumption
  <2>2. IsFiniteSet({"contains"})
    BY FS_Singleton
  <2>3. IsFiniteSet({"contains"} \union {"imports"})
    BY <2>2, FS_AddElement
  <2>4. IsFiniteSet(({"contains"} \union {"imports"}) \union {"calls"})
    BY <2>3, FS_AddElement
  <2>5. EdgeKinds = ({"contains"} \union {"imports"}) \union {"calls"}
    OBVIOUS
  <2>6. IsFiniteSet(EdgeKinds)
    BY <2>4, <2>5, Zenon
  <2> QED
    BY <2>1, <2>6, FS_Product
<1>2. f \in Surjection(Triples, All)
  <2>1. f \in [Triples -> All]
    OBVIOUS
  <2>2. ASSUME NEW e \in All
        PROVE  \E t \in Triples : f[t] = e
    <3>1. <<<<e.from, e.to>>, e.kind>> \in Triples
      OBVIOUS
    <3>2. f[<<<<e.from, e.to>>, e.kind>>] = e
      BY <3>1
    <3> QED
      BY <3>1, <3>2
  <2> QED
    BY <2>1, <2>2 DEF Surjection
<1>3. IsFiniteSet(All)
  BY <1>1, <1>2, FS_Surjection
<1> QED
  BY <1>3, ImpactAssumption, FS_Subset

GraphTypes ==
    graph \in [edges : SUBSET EdgeChoices, targets : SUBSET Entities, others : SUBSET Entities]

LEMMA FollowStep ==
    ASSUME NEW i, NEW d \in Nat, d < MaxImpactDepth, NEW n, Walk(i, d, {n}), n \in DOMAIN i.score,
           i.depth[n] = d, impact.depth[n] = d, NEW e \in Adjacent(n), GraphTypes
    PROVE  FollowsTo(i, Follow(n, i, e), d, n, e)
<1>1. OtherEnd(n, e) \in Entities
  <2>1. e \in EdgeChoices
    BY DEF Adjacent, GraphTypes
  <2>2. e \in [from : Entities, to : Entities, kind : {"contains", "imports", "calls"}]
    BY <2>1, ImpactAssumption
  <2> QED
    BY <2>2 DEF OtherEnd
<1>2. CASE OtherEnd(n, e) \in DOMAIN i.score
  BY <1>2, FollowReached
<1>3. CASE OtherEnd(n, e) \notin DOMAIN i.score /\ Cardinality(DOMAIN i.score) >= MaxEntities
  BY <1>3, FollowCut
<1>4. CASE OtherEnd(n, e) \notin DOMAIN i.score /\ ~(Cardinality(DOMAIN i.score) >= MaxEntities)
  BY <1>1, <1>4, FollowNew
<1> QED
  BY <1>2, <1>3, <1>4

(* All the edges of an entity, in any order.                                      *)
Looked(base, j, d, n, edges, k) ==
    /\ Walk(j, d, {n}) /\ n \in DOMAIN j.score /\ j.depth[n] = d
    /\ ~j.truncated => \A l \in 1..k : OtherEnd(n, edges[l]) \in DOMAIN j.score
    /\ j.at = base.at /\ j.items = base.items

LEMMA LookFurther ==
    ASSUME NEW base, NEW i, NEW d \in Nat, d < MaxImpactDepth, NEW n, impact.depth[n] = d, GraphTypes,
           NEW edges, NEW k \in Nat, Looked(base, i, d, n, edges, k), edges[k + 1] \in Adjacent(n)
    PROVE  Looked(base, Follow(n, i, edges[k + 1]), d, n, edges, k + 1)
<1> DEFINE e == edges[k + 1]
           j == Follow(n, i, e)
<1>1. FollowsTo(i, j, d, n, e)
  BY FollowStep DEF Looked
<1> HIDE DEF j
<1>2. ASSUME ~j.truncated, NEW l \in 1..(k + 1)
      PROVE  OtherEnd(n, edges[l]) \in DOMAIN j.score
  <2>1. CASE l = k + 1
    BY <1>1, <1>2, <2>1 DEF FollowsTo
  <2>2. CASE l \in 1..k
    <3>1. OtherEnd(n, edges[l]) \in DOMAIN i.score
      BY <1>1, <1>2, <2>2 DEF FollowsTo, Looked
    <3> QED
      BY <1>1, <3>1 DEF FollowsTo
  <2> QED
    BY <1>2, <2>1, <2>2
<1>3. /\ Walk(j, d, {n}) /\ n \in DOMAIN j.score /\ j.depth[n] = d
      /\ j.at = base.at /\ j.items = base.items
  BY <1>1 DEF FollowsTo, Looked
<1> QED
  BY <1>2, <1>3 DEF Looked, j

LEMMA FollowAll ==
    ASSUME NEW base, NEW d \in Nat, d < MaxImpactDepth, NEW n, impact.depth[n] = d, GraphTypes,
           Walk(base, d, {n}), n \in DOMAIN base.score, base.depth[n] = d,
           NEW edges \in Seq(Adjacent(n))
    PROVE  Looked(base, Followed(n, base, edges), d, n, edges, Len(edges))
<1>1. Len(edges) \in Nat /\ DOMAIN edges = 1..Len(edges)
  OBVIOUS
<1>2. PICK g : /\ g = FollowSteps(g, n, base, edges, Len(edges))
               /\ Followed(n, base, edges) = g[1..Len(edges)]
  BY <1>1, FollowFold
<1> DEFINE Wrong == {k \in 0..Len(edges) : ~Looked(base, g[1..k], d, n, edges, k)}
<1>3. SUFFICES ASSUME Wrong # {}
               PROVE  FALSE
  <2>1. Len(edges) \in 0..Len(edges) /\ Len(edges) \notin Wrong
    BY <1>1, <1>3
  <2> QED
    BY <1>2, <2>1
<1>4. PICK k \in Wrong : \A m \in Wrong : k <= m
  <2>1. Wrong \subseteq Nat
    OBVIOUS
  <2> HIDE DEF Wrong
  <2> QED
    BY <1>3, <2>1, LeastNumber
<1>5. k \in 0..Len(edges) /\ ~Looked(base, g[1..k], d, n, edges, k)
  OBVIOUS
<1>6. k # 0
  <2>1. g[{}] = base
    BY <1>2 DEF FollowSteps
  <2>2. 1..0 = {}
    OBVIOUS
  <2>3. Looked(base, base, d, n, edges, 0)
    BY DEF Looked
  <2> QED
    BY <1>5, <2>1, <2>2, <2>3
<1>7. k - 1 \in 0..Len(edges) /\ k - 1 \notin Wrong
  BY <1>4, <1>5, <1>6
<1>8. Looked(base, g[1..(k - 1)], d, n, edges, k - 1)
  BY <1>7
<1> HIDE DEF Wrong
<1>9. Max(1..k) = k
  <2>1. k \in 1..k /\ k \in Nat /\ 1..k \subseteq 0..k /\ 1..k # {}
    <3>1. k \in Nat /\ k >= 1
      BY <1>1, <1>5, <1>6
    <3>2. k \in 1..k
      BY <3>1
    <3>3. 1..k \subseteq 0..k
      BY <3>1
    <3> QED
      BY <3>1, <3>2, <3>3
  <2>2. Max(1..k) \in 1..k /\ \A m \in 1..k : Max(1..k) >= m
    BY <2>1, GreatestNumber
  <2> QED
    BY <1>5, <2>1, <2>2
<1>10. g[1..k] = Follow(n, g[1..(k - 1)], edges[k])
  <2>1. 1..k \in SUBSET (1..Len(edges)) /\ 1..k # {} /\ (1..k) \ {k} = 1..(k - 1)
    <3>1. k \in Nat /\ k <= Len(edges) /\ k \in 1..k
      BY <1>5, <1>6
    <3>2. 1..k \subseteq 1..Len(edges)
      BY <3>1
    <3>3. (1..k) \ {k} = 1..(k - 1)
      BY <3>1
    <3> QED
      BY <3>1, <3>2, <3>3
  <2>2. g[1..k] = Follow(n, g[(1..k) \ {k}], edges[k])
    BY <1>2, <1>9, <2>1 DEF FollowSteps
  <2> QED
    BY <2>1, <2>2
<1>11. edges[k] \in Adjacent(n) /\ k - 1 \in Nat /\ (k - 1) + 1 = k
  BY <1>1, <1>5, <1>6, <1>7
<1>12. Looked(base, Follow(n, g[1..(k - 1)], edges[(k - 1) + 1]), d, n, edges, (k - 1) + 1)
  BY <1>8, <1>11, LookFurther
<1> QED
  BY <1>5, <1>10, <1>11, <1>12

-----------------------------------------------------------------------------
ImpactInv ==
    /\ GraphTypes
    /\ \E d \in Nat : Walk(impact, d, {})
    /\ impact.at \in {"walking", "done"} /\ impact.items \subseteq {"own", "dependent", "other"}
    /\ impact.at = "done" =>
          /\ impact.queue = <<>>
          /\ graph.others \intersect DOMAIN impact.score # {} => "other" \in impact.items

LEMMA ImpactStarts == ImpactInit => ImpactInv
<1> SUFFICES ASSUME ImpactInit
             PROVE  ImpactInv
  OBVIOUS
<1>1. graph \in [edges : SUBSET EdgeChoices, targets : SUBSET Entities,
                 others : {{}} \union {{e} : e \in Entities}]
  BY DEF ImpactInit
<1>2. GraphTypes
  <2>1. {{}} \union {{e} : e \in Entities} \subseteq SUBSET Entities
    OBVIOUS
  <2>2. /\ graph = [edges |-> graph.edges, targets |-> graph.targets, others |-> graph.others]
        /\ graph.edges \in SUBSET EdgeChoices /\ graph.targets \in SUBSET Entities
        /\ graph.others \in SUBSET Entities
    BY <1>1, <2>1
  <2> QED
    BY <2>2 DEF GraphTypes
<1>3. PICK queue \in SetToSeqs(graph.targets) :
         impact = [score |-> [e \in graph.targets |-> 95], depth |-> [e \in graph.targets |-> 0],
                   queue |-> queue, truncated |-> FALSE, at |-> "walking", items |-> {}]
  BY DEF ImpactInit
<1>4. graph.targets \subseteq Entities /\ IsFiniteSet(graph.targets)
  BY <1>2, ImpactAssumption, FS_Subset DEF GraphTypes
<1>5. queue \in Seq(graph.targets) /\ \A e \in graph.targets : \E k \in DOMAIN queue : queue[k] = e
  BY <1>3, <1>4, Enumerated
<1> DEFINE score == [e \in graph.targets |-> 95]
           depth == [e \in graph.targets |-> 0]
<1>6. /\ impact.score = score /\ impact.depth = depth /\ impact.queue = queue
      /\ impact.truncated = FALSE /\ impact.at = "walking" /\ impact.items = {}
      /\ impact = [score |-> impact.score, depth |-> impact.depth, queue |-> impact.queue,
                   truncated |-> impact.truncated, at |-> impact.at, items |-> impact.items]
  BY <1>3
<1>7. /\ DOMAIN score = graph.targets /\ \A e \in graph.targets : score[e] = 95 /\ depth[e] = 0
      /\ score \in [graph.targets -> 1..95] /\ depth \in [graph.targets -> 0..MaxImpactDepth]
  BY ImpactAssumption
<1> HIDE DEF score, depth
<1>8. WalkTypes(impact)
  BY <1>4, <1>5, <1>6, <1>7 DEF WalkTypes
<1>9. Placed(impact) /\ FromTargets(impact)
  <2>1. Low(0) = 95 /\ High(0) = 95 /\ Rings[0] = graph.targets
    BY RingsAre DEF Low, High
  <2> QED
    BY <1>6, <1>7, <2>1 DEF Placed, FromTargets
<1>10. Levelled(impact, 0)
  <2>1. \A k \in DOMAIN queue : queue[k] \in graph.targets
    BY <1>5
  <2> QED
    BY <1>6, <1>7, <2>1 DEF Levelled
<1>11. Passed(impact, {})
  <2>1. InQueue(impact) = graph.targets
    BY <1>5, <1>6 DEF InQueue
  <2> QED
    BY <1>6, <1>7, <2>1 DEF Passed
<1> QED
  BY <1>2, <1>6, <1>8, <1>9, <1>10, <1>11 DEF ImpactInv, Walk

(* The head of the queue is taken off: it is the entity being visited.               *)
LEMMA HeadTaken ==
    ASSUME NEW c \in Nat, Walk(impact, c, {}), impact.queue # <<>>
    PROVE  LET n == Head(impact.queue)
               d == impact.depth[n]
               rest == [impact EXCEPT !.queue = Tail(@)]
           IN  /\ n \in DOMAIN impact.score /\ d \in 0..MaxImpactDepth
               /\ Walk(rest, d, {n})
               /\ d >= MaxImpactDepth => Walk(rest, d, {})
               /\ rest.score = impact.score /\ rest.depth = impact.depth
               /\ rest.at = impact.at /\ rest.items = impact.items
<1> DEFINE n == Head(impact.queue)
           d == impact.depth[n]
           rest == [impact EXCEPT !.queue = Tail(@)]
           tail == Tail(impact.queue)
<1>1. /\ impact.score \in [DOMAIN impact.score -> 1..95]
      /\ impact.depth \in [DOMAIN impact.score -> 0..MaxImpactDepth]
      /\ impact.queue \in Seq(DOMAIN impact.score) /\ impact.truncated \in BOOLEAN
      /\ DOMAIN impact.score \subseteq Entities
      /\ impact = [score |-> impact.score, depth |-> impact.depth, queue |-> impact.queue,
                   truncated |-> impact.truncated, at |-> impact.at, items |-> impact.items]
  BY DEF Walk, WalkTypes
<1>2. /\ Len(impact.queue) \in Nat \ {0} /\ DOMAIN impact.queue = 1..Len(impact.queue)
      /\ tail \in Seq(DOMAIN impact.score) /\ Len(tail) = Len(impact.queue) - 1
      /\ \A k \in 1..Len(tail) : tail[k] = impact.queue[k + 1]
      /\ n = impact.queue[1] /\ n \in DOMAIN impact.score
  BY <1>1, HeadTailProperties
<1>3. MaxImpactDepth \in Nat
  BY ImpactAssumption
<1>4. d \in 0..MaxImpactDepth
  BY <1>1, <1>2
<1>13. rest = [impact EXCEPT !.queue = tail]
  OBVIOUS
<1> HIDE DEF n, d, tail, rest
<1>5. rest = [score |-> impact.score, depth |-> impact.depth, queue |-> tail,
              truncated |-> impact.truncated, at |-> impact.at, items |-> impact.items]
  BY <1>1, <1>13
<1>6. /\ rest.score = impact.score /\ rest.depth = impact.depth /\ rest.queue = tail
      /\ rest.truncated = impact.truncated /\ rest.at = impact.at /\ rest.items = impact.items
  BY <1>5
<1>7. WalkTypes(rest)
  BY <1>1, <1>2, <1>5, <1>6 DEF WalkTypes
<1>8. Placed(rest) /\ FromTargets(rest)
  BY <1>6 DEF Walk, Placed, FromTargets
<1>9. Levelled(rest, d)
  <2>1. /\ \A k \in DOMAIN impact.queue : c <= impact.depth[impact.queue[k]]
        /\ \A j, k \in DOMAIN impact.queue :
              j <= k => impact.depth[impact.queue[j]] <= impact.depth[impact.queue[k]]
        /\ \A e \in DOMAIN impact.score : impact.depth[e] <= c + 1
    BY DEF Walk, Levelled
  <2>2. DOMAIN tail = 1..Len(tail) /\ Len(tail) \in Nat
    BY <1>2
  <2>3. 1 \in DOMAIN impact.queue /\ d = impact.depth[impact.queue[1]]
    BY <1>2 DEF d
  <2>4. \A k \in DOMAIN tail : k + 1 \in DOMAIN impact.queue /\ tail[k] = impact.queue[k + 1] /\ 1 <= k + 1
    BY <1>2, <2>2
  <2>5. \A k \in DOMAIN tail : d <= impact.depth[tail[k]]
    BY <2>1, <2>3, <2>4
  <2>6. ASSUME NEW j \in DOMAIN tail, NEW k \in DOMAIN tail, j <= k
        PROVE  impact.depth[tail[j]] <= impact.depth[tail[k]]
    <3>1. j + 1 <= k + 1
      BY <2>2, <2>6
    <3> QED
      BY <2>1, <2>4, <3>1
  <2>7. ASSUME NEW e \in DOMAIN impact.score
        PROVE  impact.depth[e] <= d + 1
    <3>1. impact.depth[e] <= c + 1 /\ c <= d /\ impact.depth[e] \in Nat
      BY <1>1, <2>1, <2>3
    <3> QED
      BY <1>4, <3>1
  <2> QED
    BY <1>6, <2>5, <2>6, <2>7 DEF Levelled
<1>10. \A e \in DOMAIN impact.score : e # n /\ e \notin InQueue(rest) => e \notin InQueue(impact)
  <2> SUFFICES ASSUME NEW e \in InQueue(impact), e # n
               PROVE  e \in InQueue(rest)
    OBVIOUS
  <2>1. PICK k \in DOMAIN impact.queue : e = impact.queue[k]
    BY DEF InQueue
  <2>2. k - 1 \in 1..Len(tail) /\ tail[k - 1] = e /\ DOMAIN tail = 1..Len(tail)
    BY <1>2, <2>1
  <2> QED
    BY <1>6, <2>2 DEF InQueue
<1>11. Passed(rest, {n})
  BY <1>6, <1>10 DEF Walk, Passed
<1>12. d >= MaxImpactDepth => Passed(rest, {})
  <2> SUFFICES ASSUME d >= MaxImpactDepth, ~impact.truncated,
                      NEW e \in DOMAIN impact.score, e \notin InQueue(rest),
                      impact.depth[e] < MaxImpactDepth, NEW a \in Adjacent(e)
               PROVE  /\ OtherEnd(e, a) \in DOMAIN impact.score
                      /\ impact.depth[OtherEnd(e, a)] <= impact.depth[e] + 1
    BY <1>6 DEF Passed
  <2>1. e # n
    BY <1>1, <1>3, <1>4 DEF d
  <2> QED
    BY <1>6, <1>11, <2>1 DEF Passed
<1> QED
  BY <1>2, <1>4, <1>6, <1>7, <1>8, <1>9, <1>11, <1>12 DEF Walk, rest, n, d

(* The graph of a walk does not change, so neither do its rings.                    *)
LEMMA GraphStays ==
    ASSUME graph' = graph, NEW d, Walk(impact', d, {})
    PROVE  Walk(impact, d, {})'
<1>1. \A n : Adjacent(n)' = Adjacent(n)
  BY DEF Adjacent
<1>2. Rings' = Rings
  BY DEF Rings, RingSteps, Beyond, Adjacent
<1>3. Placed(impact)' = Placed(impact')
  BY <1>2 DEF Placed
<1>4. FromTargets(impact)' = FromTargets(impact')
  BY DEF FromTargets
<1>5. Passed(impact, {})' = Passed(impact', {})
  BY DEF Passed, Adjacent, InQueue
<1>6. WalkTypes(impact)' = WalkTypes(impact') /\ Levelled(impact, d)' = Levelled(impact', d)
  BY DEF WalkTypes, Levelled
<1> QED
  BY <1>3, <1>4, <1>5, <1>6 DEF Walk

LEMMA Visits ==
    ASSUME ImpactInv, VisitEntity
    PROVE  ImpactInv'
<1> DEFINE n == Head(impact.queue)
           d == impact.depth[n]
           rest == [impact EXCEPT !.queue = Tail(@)]
<1>1. /\ impact.at = "walking" /\ impact.queue # <<>> /\ graph' = graph
      /\ IF d >= MaxImpactDepth THEN impact' = rest
         ELSE \E edges \in SetToSeqs(Adjacent(n)) : impact' = Followed(n, rest, edges)
  BY Zenon DEF VisitEntity, Followed
<1>2. PICK c \in Nat : Walk(impact, c, {})
  BY DEF ImpactInv
<1>3. /\ n \in DOMAIN impact.score /\ d \in 0..MaxImpactDepth
      /\ Walk(rest, d, {n})
      /\ d >= MaxImpactDepth => Walk(rest, d, {})
      /\ rest.score = impact.score /\ rest.depth = impact.depth
      /\ rest.at = impact.at /\ rest.items = impact.items
  BY <1>1, <1>2, HeadTaken
<1>4. GraphTypes /\ impact.items \subseteq {"own", "dependent", "other"}
  BY DEF ImpactInv
<1>5. GraphTypes' /\ d \in Nat /\ MaxImpactDepth \in Nat
  <2>1. GraphTypes'
    BY <1>1, <1>4 DEF GraphTypes
  <2>2. MaxImpactDepth \in Nat
    BY ImpactAssumption
  <2>3. d \in 0..MaxImpactDepth
    BY <1>3
  <2> HIDE DEF d
  <2> QED
    BY <2>1, <2>2, <2>3
<1>6. impact.depth[n] = d
  OBVIOUS
<1> HIDE DEF n, d, rest
<1>7. Walk(impact', d, {}) /\ impact'.at = impact.at /\ impact'.items = impact.items
  <2>1. CASE d >= MaxImpactDepth
    BY <1>1, <1>3, <2>1
  <2>2. CASE ~(d >= MaxImpactDepth)
    <3>1. PICK edges \in SetToSeqs(Adjacent(n)) : impact' = Followed(n, rest, edges)
      BY <1>1, <2>2
    <3>2. IsFiniteSet(Adjacent(n))
      <4>1. Adjacent(n) \subseteq EdgeChoices
        BY <1>4 DEF Adjacent, GraphTypes
      <4> QED
        BY <4>1, FewEdges, FS_Subset
    <3>3. edges \in Seq(Adjacent(n)) /\ \A a \in Adjacent(n) : \E k \in DOMAIN edges : edges[k] = a
      BY <3>2, Enumerated
    <3>4. n \in DOMAIN rest.score /\ rest.depth[n] = d /\ d < MaxImpactDepth
      BY <1>3, <1>5, <1>6, <2>2
    <3>5. Looked(rest, impact', d, n, edges, Len(edges))
      BY <1>3, <1>4, <1>5, <1>6, <3>1, <3>3, <3>4, FollowAll
    <3>6. Passed(impact', {})
      <4> SUFFICES ASSUME ~impact'.truncated, NEW e \in DOMAIN impact'.score, e \notin InQueue(impact'),
                          impact'.depth[e] < MaxImpactDepth, NEW a \in Adjacent(e)
                   PROVE  /\ OtherEnd(e, a) \in DOMAIN impact'.score
                          /\ impact'.depth[OtherEnd(e, a)] <= impact'.depth[e] + 1
        BY DEF Passed
      <4>1. CASE e = n
        <5>1. PICK k \in DOMAIN edges : edges[k] = a
          BY <3>3, <4>1
        <5>2. k \in 1..Len(edges)
          BY <3>3
        <5>3. OtherEnd(n, a) \in DOMAIN impact'.score /\ impact'.depth[n] = d
          BY <3>5, <5>1, <5>2 DEF Looked
        <5>4. impact'.depth[OtherEnd(n, a)] <= d + 1
          BY <3>5, <5>3 DEF Looked, Walk, Levelled
        <5> QED
          BY <4>1, <5>3, <5>4
      <4>2. CASE e # n
        <5>1. Passed(impact', {n})
          BY <3>5 DEF Looked, Walk
        <5> QED
          BY <4>2, <5>1 DEF Passed
      <4> QED
        BY <4>1, <4>2
    <3> QED
      BY <1>3, <3>5, <3>6 DEF Looked, Walk
  <2> QED
    BY <2>1, <2>2
<1>9. PICK l \in Nat : Walk(impact', l, {})
  BY <1>5, <1>7
<1>8. Walk(impact, l, {})'
  BY <1>1, <1>9, GraphStays
<1> QED
  BY <1>1, <1>4, <1>5, <1>7, <1>8 DEF ImpactInv

LEMMA NamesThem ==
    ASSUME ImpactInv, NameItems
    PROVE  ImpactInv'
<1> DEFINE items == {"own", "dependent"}
                    \union (IF graph.others \intersect DOMAIN impact.score # {} THEN {"other"} ELSE {})
<1>1. /\ impact.at = "walking" /\ impact.queue = <<>> /\ graph' = graph
      /\ impact' = [impact EXCEPT !.at = "done", !.items = items]
  BY DEF NameItems
<1>2. PICK c \in Nat : Walk(impact, c, {})
  BY DEF ImpactInv
<1>3. /\ items \subseteq {"own", "dependent", "other"}
      /\ graph.others \intersect DOMAIN impact.score # {} => "other" \in items
  OBVIOUS
<1> HIDE DEF items
<1>4. impact = [score |-> impact.score, depth |-> impact.depth, queue |-> impact.queue,
                truncated |-> impact.truncated, at |-> impact.at, items |-> impact.items]
  BY <1>2 DEF Walk, WalkTypes
<1>5. impact' = [score |-> impact.score, depth |-> impact.depth, queue |-> impact.queue,
                 truncated |-> impact.truncated, at |-> "done", items |-> items]
  BY <1>1, <1>4
<1>6. /\ impact'.score = impact.score /\ impact'.depth = impact.depth /\ impact'.queue = impact.queue
      /\ impact'.truncated = impact.truncated /\ impact'.at = "done" /\ impact'.items = items
  BY <1>5
<1>7. Walk(impact', c, {})
  BY <1>2, <1>5, <1>6 DEF Walk, WalkTypes, Placed, FromTargets, Levelled, Passed, InQueue
<1>8. Walk(impact, c, {})'
  BY <1>1, <1>7, GraphStays
<1>9. GraphTypes'
  BY <1>1 DEF ImpactInv, GraphTypes
<1> QED
  BY <1>1, <1>3, <1>6, <1>8, <1>9 DEF ImpactInv

LEMMA ImpactInvariant == ImpactSpec => []ImpactInv
<1>1. ImpactInit => ImpactInv
  BY ImpactStarts
<1>2. ImpactInv /\ [ImpactNext]_impactVars => ImpactInv'
  <2> SUFFICES ASSUME ImpactInv, [ImpactNext]_impactVars
               PROVE  ImpactInv'
    OBVIOUS
  <2>1. CASE VisitEntity
    BY <2>1, Visits
  <2>2. CASE NameItems
    BY <2>2, NamesThem
  <2>3. CASE UNCHANGED impactVars
    <3>1. graph' = graph /\ impact' = impact
      BY <2>3 DEF impactVars
    <3>2. PICK l \in Nat : Walk(impact, l, {})
      BY DEF ImpactInv
    <3>3. Walk(impact, l, {})'
      BY <3>1, <3>2, GraphStays
    <3> QED
      BY <3>1, <3>3 DEF ImpactInv, GraphTypes
  <2> QED
    BY <2>1, <2>2, <2>3 DEF ImpactNext
<1> QED
  BY <1>1, <1>2, PTL DEF ImpactSpec

(* When the queue is empty and nothing was left out, a ring is reached at its depth.   *)
LEMMA RingsReached ==
    ASSUME NEW d, Walk(impact, d, {}), impact.queue = <<>>, ~impact.truncated,
           NEW k \in 0..MaxImpactDepth, NEW e \in Rings[k]
    PROVE  e \in DOMAIN impact.score /\ impact.depth[e] <= k
<1> DEFINE Reached(x, m) == x \in DOMAIN impact.score /\ impact.depth[x] <= m
           Far == {m \in 0..MaxImpactDepth : \E x \in Rings[m] : ~Reached(x, m)}
<1>1. MaxImpactDepth \in Nat
  BY ImpactAssumption
<1>2. SUFFICES ASSUME Far # {}
               PROVE  FALSE
  OBVIOUS
<1>3. PICK m \in Far : \A l \in Far : m <= l
  <2>1. Far \subseteq Nat
    OBVIOUS
  <2> HIDE DEF Far
  <2> QED
    BY <1>2, <2>1, LeastNumber
<1>4. m \in 0..MaxImpactDepth
  OBVIOUS
<1>5. PICK x \in Rings[m] : ~Reached(x, m)
  OBVIOUS
<1>6. m # 0
  <2>1. \A y \in Rings[0] : y \in DOMAIN impact.score /\ impact.depth[y] = 0
    BY RingsAre DEF Walk, FromTargets
  <2> QED
    BY <1>5, <2>1
<1>7. m \in 1..MaxImpactDepth /\ m - 1 \in 0..MaxImpactDepth /\ m - 1 \notin Far
  BY <1>1, <1>3, <1>4, <1>6
<1>8. \A y \in Rings[m - 1] : Reached(y, m - 1)
  BY <1>7
<1> HIDE DEF Far
<1>9. impact.depth \in [DOMAIN impact.score -> 0..MaxImpactDepth]
  BY DEF Walk, WalkTypes
<1>10. CASE x \in Rings[m - 1]
  BY <1>1, <1>5, <1>7, <1>8, <1>9, <1>10
<1>11. CASE x \in Beyond(Rings[m - 1])
  <2>1. PICK n \in Rings[m - 1] : \E a \in Adjacent(n) : x = OtherEnd(n, a)
    BY <1>11 DEF Beyond
  <2>2. PICK a \in Adjacent(n) : x = OtherEnd(n, a)
    BY <2>1
  <2>3. n \in DOMAIN impact.score /\ impact.depth[n] <= m - 1 /\ impact.depth[n] \in Nat
    BY <1>8, <1>9
  <2>4. n \notin InQueue(impact) /\ impact.depth[n] < MaxImpactDepth
    BY <1>1, <1>7, <2>3 DEF InQueue
  <2>5. x \in DOMAIN impact.score /\ impact.depth[x] <= impact.depth[n] + 1
    BY <2>2, <2>3, <2>4 DEF Walk, Passed
  <2>6. impact.depth[x] \in Nat
    BY <1>9, <2>5
  <2> QED
    BY <1>5, <1>7, <2>3, <2>5, <2>6
<1> QED
  BY <1>5, <1>7, <1>10, <1>11, RingsAre

(* The walk keeps its types; its depths and scores keep their bounds.               *)
THEOREM ImpactTypes == ImpactSpec => []ImpactTypeOK
<1>1. ImpactInv => ImpactTypeOK
  <2> SUFFICES ASSUME ImpactInv
               PROVE  ImpactTypeOK
    OBVIOUS
  <2>1. PICK d \in Nat : Walk(impact, d, {})
    BY DEF ImpactInv
  <2>2. /\ DOMAIN impact.score \subseteq Entities
        /\ impact.score \in [DOMAIN impact.score -> 1..95]
        /\ impact.depth \in [DOMAIN impact.score -> 0..MaxImpactDepth]
        /\ impact.queue \in Seq(DOMAIN impact.score)
    BY <2>1 DEF Walk, WalkTypes
  <2>3. Range(impact.queue) \subseteq DOMAIN impact.score
    BY <2>2 DEF Range
  <2> QED
    BY <2>2, <2>3 DEF ImpactInv, ImpactTypeOK
<1> QED
  BY <1>1, ImpactInvariant, PTL

(* Breadth first, for every code graph and every order of its edges: an impact that     *)
(* is not truncated names the entities within the depth and no other, finds every      *)
(* intent that collides with it there, and scores the nearer entities no lower.  The    *)
(* depth may cut it short, of which it says nothing; when every entity is nearer than   *)
(* the depth, nothing of the graph it was given can be reached beyond it.             *)
THEOREM ImpactsAreWhole == ImpactSpec => []ImpactIsWhole
<1>1. ImpactInv => ImpactIsWhole
  <2> SUFFICES ASSUME ImpactInv, impact.at = "done"
               PROVE  /\ DOMAIN impact.score \subseteq Affected(MaxImpactDepth)
                      /\ ~impact.truncated => DOMAIN impact.score = Affected(MaxImpactDepth)
                      /\ ~impact.truncated /\ graph.others \intersect Affected(MaxImpactDepth) # {} =>
                           "other" \in impact.items
                      /\ ~impact.truncated /\ (\A e \in DOMAIN impact.depth : impact.depth[e] < MaxImpactDepth) =>
                           \A n \in DOMAIN impact.score : \A e \in Adjacent(n) : OtherEnd(n, e) \in DOMAIN impact.score
                      /\ \A e, f \in DOMAIN impact.score :
                           impact.depth[e] < impact.depth[f] => impact.score[e] >= impact.score[f]
    BY DEF ImpactIsWhole
  <2>1. PICK d \in Nat : Walk(impact, d, {})
    BY DEF ImpactInv
  <2>2. /\ impact.queue = <<>>
        /\ graph.others \intersect DOMAIN impact.score # {} => "other" \in impact.items
    BY DEF ImpactInv
  <2>3. /\ impact.score \in [DOMAIN impact.score -> 1..95]
        /\ impact.depth \in [DOMAIN impact.score -> 0..MaxImpactDepth]
        /\ MaxImpactDepth \in Nat
    <3>1. WalkTypes(impact)
      BY <2>1 DEF Walk
    <3>2. MaxImpactDepth \in Nat
      BY ImpactAssumption
    <3> QED
      BY <3>1, <3>2, Zenon DEF WalkTypes
  <2>4. DOMAIN impact.score \subseteq Affected(MaxImpactDepth)
    <3> SUFFICES ASSUME NEW e \in DOMAIN impact.score
                 PROVE  e \in Rings[MaxImpactDepth]
      BY RingsAre
    <3>1. e \in Rings[impact.depth[e]]
      BY <2>1 DEF Walk, Placed
    <3>2. impact.depth[e] \in 0..MaxImpactDepth
      BY <2>3
    <3>3. Rings[impact.depth[e]] \subseteq Rings[MaxImpactDepth]
      BY <2>3, <3>2, RingsGrow
    <3> QED
      BY <3>1, <3>3
  <2>5. ~impact.truncated => Affected(MaxImpactDepth) \subseteq DOMAIN impact.score
    <3>1. MaxImpactDepth \in 0..MaxImpactDepth
      BY <2>3
    <3> QED
      BY <2>1, <2>2, <3>1, RingsReached, RingsAre
  <2>6. ASSUME NEW e \in DOMAIN impact.score, NEW f \in DOMAIN impact.score,
               impact.depth[e] < impact.depth[f]
        PROVE  impact.score[e] >= impact.score[f]
    <3>1. Low(impact.depth[e]) <= impact.score[e] /\ impact.score[f] <= High(impact.depth[f])
      BY <2>1 DEF Walk, Placed
    <3>2. impact.depth[e] \in Nat /\ impact.depth[f] \in Nat
      BY <2>3
    <3>3. Low(impact.depth[e]) >= High(impact.depth[f])
      BY <2>6, <3>2, LevelScores
    <3>4. Low(impact.depth[e]) \in Int /\ High(impact.depth[f]) \in Int
      <4>1. Low(impact.depth[e]) \in 1..95 /\ High(impact.depth[f]) \in 1..95
        BY <3>2, LevelScores, Zenon
      <4> QED
        BY <4>1
    <3>5. impact.score[e] \in Int /\ impact.score[f] \in Int
      BY <2>3
    <3> QED
      BY <3>1, <3>3, <3>4, <3>5
  <2>7. ASSUME ~impact.truncated, \A e \in DOMAIN impact.depth : impact.depth[e] < MaxImpactDepth,
               NEW n \in DOMAIN impact.score, NEW e \in Adjacent(n)
        PROVE  OtherEnd(n, e) \in DOMAIN impact.score
    <3>1. n \notin InQueue(impact) /\ impact.depth[n] < MaxImpactDepth
      BY <2>2, <2>3, <2>7 DEF InQueue
    <3> QED
      BY <2>1, <2>7, <3>1 DEF Walk, Passed
  <2>8. ~impact.truncated /\ graph.others \intersect Affected(MaxImpactDepth) # {} => "other" \in impact.items
    BY <2>2, <2>5
  <2> QED
    BY <2>4, <2>5, <2>6, <2>7, <2>8
<1> QED
  BY <1>1, ImpactInvariant, PTL

(***************************************************************************)
(* The windows of a file.                                                  *)
(***************************************************************************)
(* The offset of a reader is where a character begins, or within one that is wider *)
(* than the window, which is passed byte by byte.                              *)
ReadFits(offset) ==
    \/ offset \in Boundaries
    \/ \E b, c \in Boundaries : /\ b < offset /\ offset < c /\ b + window < c
                                /\ \A d \in Boundaries : d <= b \/ c <= d

ReadInv ==
    /\ ReadTypeOK
    /\ ~grew => ReadFits(reading.offset) /\ PagesAreTheFile
    /\ ~grew /\ reading.at = "open" => reading.size = Size

(* Characters follow one another, and each has a width.                          *)
LEMMA TextFacts ==
    ASSUME text.encoding \in Encodings, text.chars \in Seq(Widths(text.encoding))
    PROVE  /\ Len(text.chars) \in Nat /\ DOMAIN text.chars = 1..Len(text.chars) /\ text.chars \in Seq(Nat)
           /\ text.encoding.bom \in {0, 2, 3}
           /\ EndOf(0) = text.encoding.bom
           /\ \A n \in 0..Len(text.chars) : EndOf(n) \in Nat
           /\ \A n \in 1..Len(text.chars) : EndOf(n) = EndOf(n - 1) + text.chars[n] /\ text.chars[n] \in 1..4
           /\ \A i, j \in 0..Len(text.chars) : i < j => EndOf(i) < EndOf(j)
<1> DEFINE k == Len(text.chars)
           e == EndsOf(text.chars)
           mark == text.encoding.bom
<1>1. k \in Nat /\ DOMAIN text.chars = 1..k
  OBVIOUS
<1>2. \A n \in 1..k : text.chars[n] \in 1..4
  <2>1. Widths(text.encoding) \subseteq 1..4
    BY DEF Widths, Encodings
  <2> QED
    BY <1>1, <2>1
<1>3. text.chars \in Seq(Nat)
  BY <1>1, <1>2
<1>4. (\A n \in 0..k : e[n] \in Nat) /\ e[0] = 0 /\ \A n \in 1..k : e[n] = e[n - 1] + text.chars[n]
  BY <1>3, EndsAre
<1>5. \A i, j \in 0..k : i < j => e[i] + text.chars[j] <= e[j]
  BY <1>3, EndsAscend
<1>6. mark \in {0, 2, 3}
  BY DEF Encodings
<1>7. \A n : EndOf(n) = mark + e[n]
  BY DEF EndOf
<1> HIDE DEF k, e, mark
<1>8. \A n \in 0..k : EndOf(n) \in Nat
  BY <1>4, <1>6, <1>7
<1>9. \A n \in 1..k : EndOf(n) = EndOf(n - 1) + text.chars[n]
  <2> SUFFICES ASSUME NEW n \in 1..k
               PROVE  EndOf(n) = EndOf(n - 1) + text.chars[n]
    OBVIOUS
  <2>1. n - 1 \in 0..k /\ n \in 0..k
    BY <1>1
  <2>2. e[n] = e[n - 1] + text.chars[n] /\ e[n - 1] \in Nat /\ text.chars[n] \in Nat
    BY <1>2, <1>4, <2>1
  <2> QED
    BY <1>6, <1>7, <2>2
<1>10. \A i, j \in 0..k : i < j => EndOf(i) < EndOf(j)
  <2> SUFFICES ASSUME NEW i \in 0..k, NEW j \in 0..k, i < j
               PROVE  EndOf(i) < EndOf(j)
    OBVIOUS
  <2>1. j \in 1..k
    BY <1>1
  <2>2. e[i] + text.chars[j] <= e[j] /\ e[i] \in Nat /\ e[j] \in Nat /\ text.chars[j] \in 1..4
    BY <1>2, <1>4, <1>5, <2>1
  <2>3. EndOf(i) = mark + e[i] /\ EndOf(j) = mark + e[j] /\ mark \in Nat
    BY <1>6, <1>7
  <2>4. e[i] + 1 <= e[j]
    BY <2>2
  <2> QED
    BY <2>2, <2>3, <2>4
<1>11. EndOf(0) = mark
  BY <1>4, <1>6, <1>7
<1> QED
  BY <1>1, <1>2, <1>3, <1>6, <1>8, <1>9, <1>10, <1>11 DEF k, mark

(* No boundary is within a character, nor beyond the end of the file.              *)
LEMMA BoundaryFacts ==
    ASSUME text.encoding \in Encodings, text.chars \in Seq(Widths(text.encoding))
    PROVE  /\ Boundaries \subseteq 0..Size /\ 0 \in Boundaries /\ Size \in Boundaries /\ Size \in Nat
           /\ \A n \in 0..Len(text.chars) : EndOf(n) \in Boundaries
           /\ \A n \in 1..Len(text.chars) : \A b \in Boundaries : b <= EndOf(n - 1) \/ EndOf(n) <= b
<1> DEFINE k == Len(text.chars)
<1>1. /\ k \in Nat /\ \A n \in 0..k : EndOf(n) \in Nat
      /\ \A i, j \in 0..k : i < j => EndOf(i) < EndOf(j)
  BY TextFacts
<1>2. Size = EndOf(k)
  BY DEF Size
<1> HIDE DEF k
<1>3. \A n \in 0..k : EndOf(n) <= Size
  <2> SUFFICES ASSUME NEW n \in 0..k
               PROVE  EndOf(n) <= Size
    OBVIOUS
  <2>1. n = k \/ (n < k /\ k \in 0..k)
    BY <1>1
  <2> QED
    BY <1>1, <1>2, <2>1
<1>4. Size \in Nat /\ k \in 0..k
  BY <1>1, <1>2
<1>5. Boundaries = {0} \union {EndOf(n) : n \in 0..k}
  BY DEF Boundaries, k
<1>6. ASSUME NEW n \in 1..k, NEW b \in Boundaries
      PROVE  b <= EndOf(n - 1) \/ EndOf(n) <= b
  <2>1. n \in 0..k /\ n - 1 \in 0..k /\ n \in Nat
    BY <1>1
  <2>2. CASE b = 0
    BY <1>1, <2>1, <2>2
  <2>3. CASE b # 0
    <3>1. PICK m \in 0..k : b = EndOf(m)
      BY <1>5, <2>3
    <3>2. m < n - 1 \/ m = n - 1 \/ m = n \/ n < m
      BY <1>1, <2>1
    <3> QED
      BY <1>1, <2>1, <3>1, <3>2
  <2> QED
    BY <2>2, <2>3
<1>7. Boundaries \subseteq 0..Size
  BY <1>1, <1>3, <1>4, <1>5
<1>8. \A n \in 1..k : \A b \in Boundaries : b <= EndOf(n - 1) \/ EndOf(n) <= b
  BY <1>6
<1>9. \A n \in 0..k : EndOf(n) \in Boundaries
  BY <1>5
<1> QED
  BY <1>2, <1>4, <1>5, <1>7, <1>8, <1>9 DEF k

LEMMA LastIsLast ==
    ASSUME text.encoding \in Encodings, text.chars \in Seq(Widths(text.encoding)), NEW x \in Nat
    PROVE  /\ LastBoundary(x) \in Boundaries /\ LastBoundary(x) <= x
           /\ \A b \in Boundaries : b <= x => b <= LastBoundary(x)
<1> DEFINE S == {b \in Boundaries : b <= x}
<1>1. Boundaries \subseteq Nat /\ 0 \in Boundaries
  BY BoundaryFacts
<1>2. S \subseteq 0..x /\ S # {} /\ S \subseteq Nat
  <2>1. 0 \in S /\ \A b \in S : b \in Nat /\ b <= x
    BY <1>1
  <2> HIDE DEF S
  <2> QED
    BY <2>1
<1>3. LastBoundary(x) = Max(S)
  BY DEF LastBoundary
<1> HIDE DEF S
<1>4. Max(S) \in S /\ \A m \in S : Max(S) >= m
  BY <1>2, GreatestNumber
<1> QED
  BY <1>1, <1>3, <1>4 DEF S
(* What a window begins and ends at: its request is at a boundary, and it ends at the  *)
(* last one within it; or the request is within a wide character, and nothing is read; *)
(* or it is within the mark of a text of code units of two bytes.                   *)
AtBoundary(offset, start, end) ==
    offset \in Boundaries /\ start = offset /\ end = LastBoundary(Lesser(Size, offset + window))
WithinWide(offset, start, end) ==
    offset \notin Boundaries /\ start = end /\ start <= offset /\ end < Size
WithinMark(offset, start, end) ==
    /\ text.encoding.bom = 2 /\ offset < 2 /\ start = 2 /\ end \in Boundaries
    /\ 2 <= end /\ end <= Greater(2, offset + window)
WindowIs(offset, start, end) ==
    /\ start \in Nat /\ end \in Nat /\ end <= Size
    /\ AtBoundary(offset, start, end) \/ WithinWide(offset, start, end) \/ WithinMark(offset, start, end)

(* Where the last boundary is depends on the boundaries around it only.            *)
LEMMA LastBetween ==
    ASSUME text.encoding \in Encodings, text.chars \in Seq(Widths(text.encoding)), NEW x \in Nat,
           NEW b \in Boundaries, b <= x, \A d \in Boundaries : d <= b \/ x < d
    PROVE  LastBoundary(x) = b
<1>1. Boundaries \subseteq Nat
  BY BoundaryFacts
<1>2. LastBoundary(x) \in Boundaries /\ LastBoundary(x) <= x /\ b <= LastBoundary(x)
  BY LastIsLast
<1> DEFINE l == LastBoundary(x)
<1>3. l \in Nat /\ b \in Nat /\ l <= x /\ b <= l /\ (l <= b \/ x < l)
  BY <1>1, <1>2
<1> HIDE DEF l
<1>4. l = b
  BY <1>3
<1> QED
  BY <1>4 DEF l

LEMMA WindowOfBytes ==
    ASSUME text.encoding \in Encodings, text.chars \in Seq(Widths(text.encoding)), text.encoding.unit = 1,
           window \in Nat \ {0}, NEW o \in 0..Size, ReadFits(o),
           NEW limit, limit = Lesser(Size, o + window), NEW retained \in Nat, limit <= retained
    PROVE  WindowIs(o, Start(o), End(o, limit, retained))
<1>1. Boundaries \subseteq 0..Size /\ 0 \in Boundaries /\ Size \in Boundaries /\ Size \in Nat
  BY BoundaryFacts
<1>2. o \in Nat /\ limit \in Nat /\ o <= limit /\ limit <= Size /\ limit <= o + window
  BY <1>1 DEF Lesser
<1>3. CASE o \in Boundaries
  <2>1. LastBoundary(o) = o
    BY <1>1, <1>2, <1>3, LastBetween
  <2>2. Start(o) = o
    BY <2>1 DEF Start
  <2>3. WindowEnd(o, limit) = limit
    BY <1>2, <2>2 DEF WindowEnd, Lesser
  <2>4. LastBoundary(limit) \in Boundaries /\ o <= LastBoundary(limit)
    BY <1>2, <1>3, LastIsLast
  <2>5. LastBoundary(limit) \in Nat /\ LastBoundary(limit) <= Size
    <3>1. LastBoundary(limit) \in 0..Size
      BY <1>1, <2>4
    <3> QED
      BY <1>1, <3>1
  <2>6. Greater(o, LastBoundary(limit)) = LastBoundary(limit)
    BY <1>2, <2>4, <2>5 DEF Greater
  <2>7. End(o, limit, retained) = LastBoundary(limit)
    BY <1>2, <2>2, <2>3, <2>6 DEF End, CutAtCharacter
  <2> QED
    BY <1>2, <1>3, <2>2, <2>5, <2>7 DEF WindowIs, AtBoundary
<1>4. CASE o \notin Boundaries
  <2>1. PICK b \in Boundaries, c \in Boundaries :
             /\ b < o /\ o < c /\ b + window < c
             /\ \A d \in Boundaries : d <= b \/ c <= d
    BY <1>4 DEF ReadFits
  <2>2. b \in Nat /\ c \in Nat /\ c <= Size /\ o < Size
    BY <1>1, <1>2, <2>1
  <2>3. \A d \in Boundaries : d <= b \/ o < d
    BY <1>1, <1>2, <2>1, <2>2
  <2>4. LastBoundary(o) = b
    <3>1. b <= o
      BY <1>2, <2>1, <2>2
    <3> QED
      BY <1>2, <2>1, <2>3, <3>1, LastBetween
  <2>5. Start(o) = b
    <3>1. ~(o >= Size)
      BY <1>1, <1>2, <2>2
    <3> QED
      BY <2>4, <3>1 DEF Start
  <2> DEFINE end == b + (limit - o)
  <2>6. WindowEnd(o, limit) = end /\ end \in Nat /\ b <= end /\ end <= limit /\ end < c
    BY <1>2, <2>1, <2>2, <2>5 DEF WindowEnd, Lesser
  <2> HIDE DEF end
  <2>7. \A d \in Boundaries : d <= b \/ end < d
    BY <1>1, <2>1, <2>2, <2>6
  <2>8. LastBoundary(end) = b
    BY <2>6, <2>7, LastBetween
  <2>9. End(o, limit, retained) = b
    BY <1>2, <2>2, <2>5, <2>6, <2>8 DEF End, CutAtCharacter, Greater
  <2>10. b <= o /\ b < Size /\ b <= Size
    BY <1>1, <1>2, <2>1, <2>2
  <2> QED
    BY <1>4, <2>2, <2>5, <2>9, <2>10 DEF WindowIs, WithinWide
<1> QED
  BY <1>3, <1>4

(* Characters of code units of two bytes begin at even offsets.                    *)
LEMMA UnitsAreEven ==
    ASSUME text.encoding \in Encodings, text.chars \in Seq(Widths(text.encoding)), text.encoding.unit = 2
    PROVE  text.encoding.bom = 2 /\ \A b \in Boundaries : b % 2 = 0
<1> DEFINE k == Len(text.chars)
<1>1. text.encoding.bom = 2
  BY DEF Encodings
<1>2. \A n \in 1..k : text.chars[n] \in {2, 4}
  BY DEF Widths
<1>3. /\ k \in Nat /\ EndOf(0) = 2 /\ \A n \in 0..k : EndOf(n) \in Nat
      /\ \A n \in 1..k : EndOf(n) = EndOf(n - 1) + text.chars[n]
  BY <1>1, TextFacts
<1>4. Boundaries = {0} \union {EndOf(n) : n \in 0..k}
  BY DEF Boundaries
<1> HIDE DEF k
<1> DEFINE Odd == {n \in 0..k : EndOf(n) % 2 # 0}
<1>5. Odd = {}
  <2> SUFFICES ASSUME Odd # {}
               PROVE  FALSE
    OBVIOUS
  <2>1. PICK n \in Odd : \A m \in Odd : n <= m
    <3>1. Odd \subseteq Nat
      BY <1>3
    <3> QED
      BY <3>1, LeastNumber
  <2>2. n \in 1..k /\ n - 1 \in 0..k /\ n - 1 \notin Odd /\ n \in 0..k
    <3>1. n \in 0..k /\ EndOf(n) % 2 # 0
      BY <2>1
    <3>2. n # 0
      BY <1>3, <3>1
    <3>3. n \in 1..k /\ n - 1 \in 0..k /\ ~(n <= n - 1)
      BY <1>3, <3>1, <3>2
    <3> QED
      BY <2>1, <3>1, <3>3
  <2>3. EndOf(n - 1) \in Nat /\ EndOf(n - 1) % 2 = 0 /\ text.chars[n] \in {2, 4}
    BY <1>2, <1>3, <2>2
  <2>4. EndOf(n) = EndOf(n - 1) + text.chars[n] /\ EndOf(n) % 2 # 0
    BY <1>3, <2>2
  <2> QED
    BY <2>3, <2>4
<1> QED
  BY <1>1, <1>4, <1>5


LEMMA WindowOfUnits ==
    ASSUME text.encoding \in Encodings, text.chars \in Seq(Widths(text.encoding)), text.encoding.unit = 2,
           window \in Nat \ {0}, NEW o \in 0..Size, ReadFits(o),
           NEW limit, limit = Lesser(Size, o + window), NEW retained \in Nat, limit <= retained,
           Start(o) \in Boundaries \/ ~(Start(o) < End(o, limit, retained))
    PROVE  WindowIs(o, Start(o), End(o, limit, retained))
<1>1. Boundaries \subseteq 0..Size /\ 0 \in Boundaries /\ Size \in Boundaries /\ Size \in Nat
  BY BoundaryFacts
<1>2. o \in Nat /\ limit \in Nat /\ o <= limit /\ limit <= Size /\ limit <= o + window /\ window \in Nat
  BY <1>1 DEF Lesser
<1>3. text.encoding.bom = 2 /\ \A b \in Boundaries : b % 2 = 0
  BY UnitsAreEven
<1>4. 2 \in Boundaries /\ 2 <= Size
  <2>1. EndOf(0) = 2 /\ 0 \in 0..Len(text.chars)
    BY <1>3, TextFacts
  <2>2. 2 \in Boundaries
    BY <2>1 DEF Boundaries
  <2> QED
    BY <1>1, <2>2
<1> DEFINE start == Start(o)
           first == Lesser(Greater(start, limit), start + (limit - o))
           even == Greater(start, first - ((first - 2) % 2))
           end == End(o, limit, retained)
<1>5. start = Greater(o, 2) - ((Greater(o, 2) - 2) % 2) /\ start \in Nat /\ 2 <= start
  BY <1>2, <1>3 DEF Start, Greater
<1>6. WindowEnd(o, limit) = even
  BY <1>3 DEF WindowEnd
<1>7. end = IF even > retained THEN even ELSE Greater(start, LastBoundary(even))
  BY <1>6 DEF End, CutAtCharacter
<1> HIDE DEF start, end
<1>8. first \in Nat /\ start <= first /\ first <= start + (limit - o) /\ first <= Greater(start, limit)
  BY <1>2, <1>5 DEF Lesser, Greater
<1>12. even \in Nat /\ start <= even /\ even <= first
  <2> HIDE DEF first
  <2>1. first - 2 \in Nat /\ (first - 2) % 2 \in {0, 1}
    BY <1>5, <1>8
  <2> DEFINE r == (first - 2) % 2
  <2> HIDE DEF r
  <2>2. r \in {0, 1} /\ even = Greater(start, first - r)
    BY <2>1 DEF r
  <2> QED
    BY <1>5, <1>8, <2>2 DEF Greater
<1>9. CASE o < 2
  <2>1. start = 2
    BY <1>2, <1>5, <1>9 DEF Greater
  <2>2. even \in Nat /\ 2 <= even /\ even <= Greater(2, limit)
    BY <1>2, <1>8, <2>1 DEF Greater
  <2>3. even > retained => even = 2
    BY <1>2, <2>2 DEF Greater
  <2> DEFINE last == LastBoundary(even)
  <2>4. last \in Boundaries /\ last <= even /\ 2 <= last
    BY <1>4, <2>2, LastIsLast
  <2> HIDE DEF last, even
  <2>5. last \in Nat
    BY <1>1, <2>4
  <2>6. end \in Boundaries /\ 2 <= end /\ end <= even /\ end \in Nat
    BY <1>4, <1>7, <2>1, <2>2, <2>3, <2>4, <2>5 DEF Greater, last
  <2>7. end <= Size /\ end <= Greater(2, o + window)
    <3>1. Size \in Nat /\ limit \in Nat /\ limit <= Size /\ 2 <= Size /\ o + window \in Nat /\ limit <= o + window
      BY <1>1, <1>2, <1>4
    <3>2. end \in Nat /\ even \in Nat /\ end <= even /\ even <= Greater(2, limit)
      BY <2>2, <2>6
    <3> QED
      BY <3>1, <3>2 DEF Greater
  <2> QED
    BY <1>3, <1>9, <2>1, <2>6, <2>7 DEF WindowIs, WithinMark, start, end
<1>10. CASE o >= 2 /\ o \in Boundaries
  <2>1. o % 2 = 0
    BY <1>3, <1>10
  <2>2. start = o
    BY <1>2, <1>5, <1>10, <2>1 DEF Greater
  <2>3. first = limit
    BY <1>2, <2>2 DEF Greater, Lesser
  <2>4. even \in Nat /\ o <= even /\ even <= limit /\ (even = limit \/ (limit % 2 # 0 /\ limit = even + 1))
    <3>1. even = Greater(o, limit - ((limit - 2) % 2))
      BY <2>2, <2>3
    <3>2. o \in Nat /\ limit \in Nat /\ o <= limit /\ 2 <= limit
      BY <1>2, <1>10
    <3> HIDE DEF even
    <3>3. CASE limit % 2 = 0
      <4>1. (limit - 2) % 2 = 0
        BY <3>2, <3>3
      <4> QED
        BY <3>1, <3>2, <4>1 DEF Greater
    <3>4. CASE limit % 2 # 0
      <4>1. (limit - 2) % 2 = 1 /\ o # limit
        BY <2>1, <3>2, <3>4
      <4> QED
        BY <3>1, <3>2, <3>4, <4>1 DEF Greater
    <3> QED
      BY <3>3, <3>4
  <2> HIDE DEF even
  <2> DEFINE last == LastBoundary(limit)
  <2>5. last \in Boundaries /\ last <= limit /\ o <= last /\ \A d \in Boundaries : d <= limit => d <= last
    BY <1>2, <1>10, LastIsLast
  <2>6. last \in Nat /\ last <= Size
    <3>1. last \in 0..Size
      BY <1>1, <2>5
    <3> QED
      BY <1>1, <3>1
  <2> HIDE DEF last
  <2>7. last <= even
    <3>1. last % 2 = 0
      BY <1>3, <2>5
    <3> QED
      BY <1>2, <2>4, <2>5, <2>6, <3>1
  <2>8. \A d \in Boundaries : d <= last \/ even < d
    <3>1. Boundaries \subseteq Nat
      BY <1>1
    <3> QED
      BY <1>2, <2>4, <2>5, <2>6, <3>1
  <2>9. LastBoundary(even) = last
    BY <2>4, <2>5, <2>7, <2>8, LastBetween
  <2>10. end = last
    BY <1>2, <1>7, <2>2, <2>4, <2>5, <2>6, <2>9 DEF Greater
  <2> QED
    BY <1>2, <1>10, <2>2, <2>6, <2>10 DEF WindowIs, AtBoundary, start, end, last
<1>11. CASE o >= 2 /\ o \notin Boundaries
  <2>1. PICK b \in Boundaries, c \in Boundaries :
             /\ b < o /\ o < c /\ b + window < c
             /\ \A d \in Boundaries : d <= b \/ c <= d
    BY <1>11 DEF ReadFits
  <2>2. b \in Nat /\ c \in Nat /\ c <= Size /\ o < Size
    BY <1>1, <1>2, <2>1
  <2>3. start <= o /\ o <= start + 1
    BY <1>2, <1>5, <1>11 DEF Greater
  <2>4. CASE start \in Boundaries
    <3>1. start = b /\ o = b + 1
      BY <1>2, <1>5, <2>1, <2>2, <2>3, <2>4
    <3>2. even \in Nat /\ b <= even /\ even <= first
      BY <1>12, <3>1
    <3>3. even < c /\ even <= retained
      BY <1>2, <1>8, <2>1, <2>2, <3>1, <3>2
    <3> HIDE DEF even, first
    <3>4. \A d \in Boundaries : d <= b \/ even < d
      <4> SUFFICES ASSUME NEW d \in Boundaries
                   PROVE  d <= b \/ even < d
        OBVIOUS
      <4>1. d \in Nat
        BY <1>1
      <4>2. d <= b \/ c <= d
        BY <2>1
      <4> QED
        BY <2>2, <3>2, <3>3, <4>1, <4>2
    <3>5. LastBoundary(even) = b
      BY <2>1, <3>2, <3>4, LastBetween
    <3>6. end = b
      BY <1>7, <2>2, <3>1, <3>2, <3>3, <3>5 DEF Greater
    <3>7. b <= o /\ b < Size /\ b <= Size
      BY <1>1, <1>2, <2>1, <2>2
    <3> QED
      BY <1>11, <2>2, <3>1, <3>6, <3>7 DEF WindowIs, WithinWide, start, end
  <2>5. CASE start \notin Boundaries
    <3>1. even \in Nat /\ start <= even
      BY <1>12
    <3> HIDE DEF even, first
    <3>2. LastBoundary(even) \in Nat
      <4>1. LastBoundary(even) \in Boundaries
        BY <3>1, LastIsLast
      <4>2. Boundaries \subseteq Nat
        BY <1>1
      <4> QED
        BY <4>1, <4>2
    <3>3. end \in Nat /\ start <= end
      BY <1>5, <1>7, <3>1, <3>2 DEF Greater
    <3>4. ~(start < end)
      BY <2>5 DEF start, end
    <3>5. end = start
      BY <1>5, <3>3, <3>4
    <3>6. end < Size /\ end <= Size
      BY <1>1, <1>5, <2>2, <2>3, <3>5
    <3> QED
      BY <1>11, <1>5, <2>3, <3>3, <3>5, <3>6 DEF WindowIs, WithinWide, start, end
  <2> QED
    BY <2>4, <2>5
<1> QED
  BY <1>2, <1>9, <1>10, <1>11


(* The characters a reader that is at an offset has, and where its window takes it. *)
Shown(offset) == {n \in Within(0, offset) : text.chars[n] <= window}
NextOffset(offset, end) == IF end < Size THEN Lesser(Size, Greater(offset + 1, end)) ELSE Size

LEMMA WindowAdds ==
    ASSUME text.encoding \in Encodings, text.chars \in Seq(Widths(text.encoding)), window \in Nat \ {0},
           NEW o \in 0..Size, ReadFits(o), NEW start, NEW end, WindowIs(o, start, end)
    PROVE  /\ NextOffset(o, end) \in 0..Size /\ ReadFits(NextOffset(o, end))
           /\ Shown(NextOffset(o, end)) = Shown(o) \union Within(start, end)
           /\ \A n \in Shown(o), m \in Within(start, end) : n < m
<1> DEFINE k == Len(text.chars)
           p(n) == EndOf(n - 1)
           q(n) == EndOf(n)
           next == NextOffset(o, end)
<1>1. Boundaries \subseteq 0..Size /\ 0 \in Boundaries /\ Size \in Boundaries /\ Size \in Nat
  BY BoundaryFacts
<1>2. Boundaries \subseteq Nat /\ \A b \in Boundaries : b <= Size
  BY <1>1
<1>3. k \in Nat /\ DOMAIN text.chars = 1..k
  BY TextFacts
<1>4. \A n \in 1..k : /\ p(n) \in Boundaries /\ q(n) \in Boundaries /\ p(n) \in Nat /\ q(n) \in Nat
                      /\ text.chars[n] \in 1..4 /\ q(n) = p(n) + text.chars[n]
  <2> SUFFICES ASSUME NEW n \in 1..k
               PROVE  /\ p(n) \in Boundaries /\ q(n) \in Boundaries /\ p(n) \in Nat /\ q(n) \in Nat
                      /\ text.chars[n] \in 1..4 /\ q(n) = p(n) + text.chars[n]
    OBVIOUS
  <2>1. n \in 0..k /\ n - 1 \in 0..k
    BY <1>3
  <2> QED
    BY <1>2, <2>1, TextFacts, BoundaryFacts
<1>5. \A n \in 1..k : \A b \in Boundaries : b <= p(n) \/ q(n) <= b
  BY BoundaryFacts
<1>6. \A n, m \in 1..k : m <= n => p(m) < q(n)
  <2> SUFFICES ASSUME NEW n \in 1..k, NEW m \in 1..k, m <= n
               PROVE  p(m) < q(n)
    OBVIOUS
  <2>1. n \in 0..k /\ m - 1 \in 0..k /\ m - 1 < n
    BY <1>3
  <2> QED
    BY <2>1, TextFacts
<1>7. \A n \in 1..k : text.encoding.bom <= p(n)
  <2> SUFFICES ASSUME NEW n \in 1..k
               PROVE  text.encoding.bom <= p(n)
    OBVIOUS
  <2>1. n - 1 \in 0..k /\ (n - 1 = 0 \/ 0 < n - 1) /\ 0 \in 0..k
    BY <1>3
  <2>2. EndOf(0) = text.encoding.bom /\ EndOf(0) \in Nat /\ EndOf(n - 1) \in Nat
    BY <2>1, TextFacts
  <2>3. n - 1 = 0 \/ EndOf(0) < EndOf(n - 1)
    BY <2>1, TextFacts
  <2> QED
    BY <2>2, <2>3
<1>8. \A from, to : Within(from, to) = {n \in 1..k : p(n) >= from /\ q(n) <= to}
  BY <1>3 DEF Within
<1>9. \A to : Shown(to) = {n \in 1..k : q(n) <= to /\ text.chars[n] <= window}
  <2> SUFFICES ASSUME NEW to
               PROVE  Shown(to) = {n \in 1..k : q(n) <= to /\ text.chars[n] <= window}
    OBVIOUS
  <2>1. \A n \in 1..k : p(n) >= 0
    BY <1>4
  <2> HIDE DEF p, q, k
  <2> QED
    BY <1>8, <2>1 DEF Shown
<1> HIDE DEF p, q, k, next
<1>10. start \in Nat /\ end \in Nat /\ end <= Size /\ o \in Nat /\ o <= Size /\ window \in Nat /\ window >= 1
  BY <1>1 DEF WindowIs
<1>11. next = IF end < Size THEN Lesser(Size, Greater(o + 1, end)) ELSE Size
  BY DEF NextOffset, next
<1>12. next \in 0..Size /\ next \in Nat
  BY <1>1, <1>10, <1>11 DEF Lesser, Greater
<1> DEFINE Goal == /\ ReadFits(next)
                   /\ Shown(next) = Shown(o) \union Within(start, end)
                   /\ \A n \in Shown(o), m \in Within(start, end) : n < m
(* No character is in the window, and none that fits in it ends at the next offset. *)
<1>13. ASSUME start = end, ReadFits(next), \A n \in 1..k : q(n) <= next /\ text.chars[n] <= window => q(n) <= o, o <= next
       PROVE  Goal
  <2>1. Within(start, end) = {}
    <3>1. \A n \in 1..k : ~(p(n) >= start /\ q(n) <= start)
      BY <1>4, <1>10
    <3> QED
      BY <1>8, <1>13, <3>1
  <2>2. Shown(next) = Shown(o)
    <3>1. \A n \in 1..k : q(n) <= o => q(n) <= next
      BY <1>4, <1>10, <1>12, <1>13
    <3> QED
      BY <1>9, <1>13, <3>1
  <2> QED
    BY <1>13, <2>1, <2>2
<1>14. ASSUME AtBoundary(o, start, end)
      PROVE  Goal
  <2>1. o \in Boundaries /\ start = o /\ end = LastBoundary(Lesser(Size, o + window))
    BY <1>14 DEF AtBoundary
  <2> DEFINE limit == Lesser(Size, o + window)
  <2>2. limit \in Nat /\ o <= limit /\ limit <= Size /\ limit <= o + window /\ (limit = Size \/ limit = o + window)
    BY <1>1, <1>10 DEF Lesser
  <2>3. end \in Boundaries /\ end <= limit /\ \A b \in Boundaries : b <= limit => b <= end
    BY <2>1, <2>2, LastIsLast
  <2>4. o <= end /\ end <= o + window
    <3> HIDE DEF limit
    <3> QED
      BY <1>10, <2>1, <2>2, <2>3
  <2> HIDE DEF limit
  <2>5. ASSUME o < end \/ o = Size
        PROVE  Goal
    <3>1. next = end
      BY <1>1, <1>10, <1>11, <2>4, <2>5 DEF Lesser, Greater
    <3>2. ReadFits(next)
      BY <2>3, <3>1 DEF ReadFits
    <3>3. \A n \in 1..k : q(n) <= end /\ text.chars[n] <= window <=>
                          (q(n) <= o /\ text.chars[n] <= window) \/ (p(n) >= o /\ q(n) <= end)
      <4> SUFFICES ASSUME NEW n \in 1..k
                   PROVE  q(n) <= end /\ text.chars[n] <= window <=>
                          (q(n) <= o /\ text.chars[n] <= window) \/ (p(n) >= o /\ q(n) <= end)
        OBVIOUS
      <4>1. p(n) \in Nat /\ q(n) \in Nat /\ text.chars[n] \in Nat /\ q(n) = p(n) + text.chars[n]
        BY <1>4
      <4>2. o <= p(n) \/ q(n) <= o
        BY <1>5, <2>1
      <4> QED
        BY <1>10, <2>4, <4>1, <4>2
    <3>4. Shown(next) = Shown(o) \union Within(start, end)
      BY <1>8, <1>9, <2>1, <3>1, <3>3
    <3>5. ASSUME NEW n \in Shown(o), NEW m \in Within(start, end)
          PROVE  n < m
      <4>1. n \in 1..k /\ q(n) <= o /\ m \in 1..k /\ p(m) >= o
        BY <1>8, <1>9, <2>1, <3>5
      <4>2. m <= n => p(m) < q(n)
        BY <1>6, <4>1
      <4>3. q(n) \in Nat /\ p(m) \in Nat /\ n \in Nat /\ m \in Nat
        BY <1>3, <1>4, <4>1
      <4> QED
        BY <1>10, <4>1, <4>2, <4>3
    <3> QED
      BY <3>2, <3>4, <3>5
  <2>6. ASSUME o = end, o < Size
        PROVE  Goal
    <3> DEFINE Later == {b \in Boundaries : o < b}
    <3>1. PICK c \in Later : \A b \in Later : c <= b
      <4>1. Later \subseteq Nat /\ Later # {}
        BY <1>1, <1>2, <2>6
      <4> QED
        BY <4>1, LeastNumber
    <3>2. c \in Boundaries /\ o < c /\ c \in Nat /\ c <= Size
      BY <1>2, <3>1
    <3>3. \A d \in Boundaries : d <= o \/ c <= d
      BY <1>2, <1>10, <3>1
    <3> HIDE DEF Later
    <3>4. ~(c <= limit)
      BY <1>10, <2>3, <2>6, <3>2
    <3>5. o + window < c
      BY <1>1, <1>10, <2>2, <3>2, <3>4
    <3>6. next = o + 1 /\ next < c
      BY <1>1, <1>10, <1>11, <2>6, <3>2, <3>5 DEF Lesser, Greater
    <3>7. ReadFits(next)
      <4>1. o < next
        BY <1>10, <3>6
      <4> QED
        BY <2>1, <3>2, <3>3, <3>5, <3>6, <4>1 DEF ReadFits
    <3>8. \A n \in 1..k : q(n) <= next => q(n) <= o
      BY <1>4, <1>10, <3>2, <3>3, <3>6
    <3>9. o <= next
      BY <1>10, <3>6
    <3> QED
      BY <1>13, <2>1, <2>6, <3>7, <3>8, <3>9
  <2>7. o < end \/ o = Size \/ (o = end /\ o < Size)
    BY <1>1, <1>10, <2>4
  <2> HIDE DEF Goal
  <2> QED
    BY <2>5, <2>6, <2>7
<1>15. ASSUME WithinWide(o, start, end)
      PROVE  Goal
  <2>1. o \notin Boundaries /\ start = end /\ start <= o /\ end < Size
    BY <1>15 DEF WithinWide
  <2>2. PICK b \in Boundaries, c \in Boundaries :
             /\ b < o /\ o < c /\ b + window < c
             /\ \A d \in Boundaries : d <= b \/ c <= d
    BY <2>1 DEF ReadFits
  <2>3. b \in Nat /\ c \in Nat /\ c <= Size
    BY <1>2, <2>2
  <2>4. next = o + 1 /\ next <= c /\ o <= next
    BY <1>1, <1>10, <1>11, <2>1, <2>2, <2>3 DEF Lesser, Greater
  <2>5. ReadFits(next)
    <3>1. CASE next = c
      BY <3>1 DEF ReadFits
    <3>2. CASE next < c
      <4>1. b < next
        BY <1>10, <2>2, <2>3, <2>4
      <4> QED
        BY <2>2, <3>2, <4>1 DEF ReadFits
    <3> QED
      BY <1>12, <2>3, <2>4, <3>1, <3>2
  <2>6. ASSUME NEW n \in 1..k, q(n) <= next, text.chars[n] <= window
        PROVE  q(n) <= o
    <3>1. /\ p(n) \in Nat /\ q(n) \in Nat /\ text.chars[n] \in 1..4 /\ q(n) = p(n) + text.chars[n]
          /\ p(n) \in Boundaries /\ q(n) \in Boundaries
      BY <1>4
    <3>2. (q(n) <= b \/ c <= q(n)) /\ (p(n) <= b \/ c <= p(n))
      BY <2>2, <3>1
    <3>3. b < o /\ b + window < c /\ next = o + 1 /\ next <= c
      BY <2>2, <2>4
    <3>4. ASSUME c <= q(n)
          PROVE  FALSE
      <4>2. q(n) = c
        BY <2>3, <2>6, <3>1, <3>3, <3>4
      <4>3. p(n) < q(n)
        BY <3>1
      <4>1. p(n) <= b
        BY <2>3, <3>1, <3>2, <4>2, <4>3
      <4>4. c <= b + window
        <5>1. c = p(n) + text.chars[n]
          BY <3>1, <4>2
        <5>2. text.chars[n] <= window
          BY <2>6
        <5>3. p(n) \in Nat /\ text.chars[n] \in Nat /\ b \in Nat /\ c \in Nat /\ window \in Nat
          BY <1>10, <2>3, <3>1
        <5> QED
          BY <4>1, <5>1, <5>2, <5>3
      <4> QED
        BY <1>10, <2>3, <3>3, <4>4
    <3> QED
      BY <1>10, <2>3, <3>1, <3>2, <3>3, <3>4
  <2> QED
    BY <1>13, <2>1, <2>4, <2>5, <2>6
<1>16. ASSUME WithinMark(o, start, end)
      PROVE  Goal
  <2>1. text.encoding.bom = 2 /\ o < 2 /\ start = 2 /\ end \in Boundaries /\ 2 <= end /\ end <= Greater(2, o + window)
    BY <1>16 DEF WithinMark
  <2>2. next = end
    BY <1>1, <1>10, <1>11, <2>1 DEF Lesser, Greater
  <2>3. ReadFits(next)
    BY <2>1, <2>2 DEF ReadFits
  <2>4. \A n \in 1..k : /\ p(n) \in Nat /\ q(n) \in Nat /\ text.chars[n] \in 1..4 /\ q(n) = p(n) + text.chars[n]
                        /\ 2 <= p(n)
    BY <1>4, <1>7, <2>1
  <2>5. Shown(o) = {}
    <3>1. \A n \in 1..k : ~(q(n) <= o)
      BY <1>10, <2>1, <2>4
    <3> QED
      BY <1>9, <3>1
  <2>6. \A n \in 1..k : q(n) <= end => text.chars[n] <= window
    <3> SUFFICES ASSUME NEW n \in 1..k, q(n) <= end
                 PROVE  text.chars[n] <= window
      OBVIOUS
    <3>1. /\ p(n) \in Nat /\ q(n) \in Nat /\ text.chars[n] \in 1..4 /\ q(n) = p(n) + text.chars[n]
          /\ 2 <= p(n)
      BY <2>4
    <3>2. end \in Nat /\ end <= Greater(2, o + window)
      BY <1>1, <2>1
    <3>3. CASE o + window > 2
      <4>1. end <= o + window
        BY <3>2, <3>3 DEF Greater
      <4>2. o \in Nat /\ window \in Nat /\ o < 2
        BY <1>10, <2>1
      <4>3. p(n) + text.chars[n] <= o + window
        BY <3>1, <3>2, <4>1, <4>2
      <4> QED
        BY <3>1, <4>2, <4>3
    <3>4. CASE ~(o + window > 2)
      <4>1. end <= 2
        BY <1>10, <3>2, <3>4 DEF Greater
      <4>2. q(n) > 2
        BY <3>1
      <4> QED
        BY <3>1, <3>2, <4>1, <4>2
    <3> QED
      BY <3>3, <3>4
  <2>7. Shown(next) = Within(start, end)
    BY <1>8, <1>9, <2>1, <2>2, <2>4, <2>6
  <2> QED
    BY <2>3, <2>5, <2>7
<1>17. Goal
  BY <1>14, <1>15, <1>16 DEF WindowIs
<1> QED
  BY <1>12, <1>17 DEF next


(* Whatever the file has become meanwhile, a window ends somewhere.               *)
LEMMA EndIsNumber ==
    ASSUME text.encoding \in Encodings, text.chars \in Seq(Widths(text.encoding)), window \in Nat \ {0},
           NEW o \in 0..Size, NEW retained \in Nat
    PROVE  End(o, Lesser(Size, o + window), retained) \in Nat
<1>1. Boundaries \subseteq Nat /\ Size \in Nat
  BY BoundaryFacts
<1>2. \A x \in Nat : LastBoundary(x) \in Nat
  BY <1>1, LastIsLast
<1>3. text.encoding.bom \in Nat /\ text.encoding.unit \in {1, 2}
  BY DEF Encodings
<1> DEFINE limit == Lesser(Size, o + window)
           start == Start(o)
           end == WindowEnd(o, limit)
<1>4. limit \in Nat /\ o <= limit /\ o \in Nat
  BY <1>1 DEF Lesser
<1> HIDE DEF limit
<1>5. start \in Nat
  <2>1. CASE text.encoding.unit = 1
    BY <1>2, <1>4, <2>1 DEF Start
  <2>2. CASE text.encoding.unit # 1
    <3> DEFINE from == Greater(o, text.encoding.bom)
    <3>1. from \in Nat /\ from - text.encoding.bom \in Nat
      BY <1>3, <1>4 DEF Greater
    <3>2. start = from - ((from - text.encoding.bom) % 2)
      BY <2>2 DEF Start
    <3> HIDE DEF from, start
    <3> DEFINE d == from - text.encoding.bom
    <3>3. d \in Nat /\ d % 2 \in 0..1 /\ d % 2 <= d /\ d <= from /\ start = from - (d % 2)
      BY <1>3, <3>1, <3>2
    <3> QED
      BY <3>1, <3>3
  <2> QED
    BY <2>1, <2>2
<1>6. end \in Nat
  <2>1. CASE text.encoding.unit = 1
    <3>1. end = Lesser(limit, start + (limit - o))
      BY <2>1 DEF WindowEnd
    <3> HIDE DEF start, end
    <3> QED
      BY <1>4, <1>5, <3>1 DEF Lesser
  <2>2. CASE text.encoding.unit # 1
    <3> DEFINE first == Lesser(Greater(start, limit), start + (limit - o))
    <3>1. end = Greater(start, first - ((first - text.encoding.bom) % 2))
      BY <2>2 DEF WindowEnd
    <3> HIDE DEF start, end
    <3>2. first \in Nat
      BY <1>4, <1>5 DEF Lesser, Greater
    <3> HIDE DEF first
    <3>3. first - text.encoding.bom \in Int
      BY <1>3, <3>2
    <3> DEFINE r == (first - text.encoding.bom) % 2
    <3>4. r \in 0..1
      BY <3>3
    <3> HIDE DEF r
    <3>5. end = Greater(start, first - r)
      BY <3>1 DEF r
    <3> QED
      BY <1>5, <3>2, <3>4, <3>5 DEF Greater
  <2> QED
    BY <2>1, <2>2
<1>7. End(o, limit, retained) = IF end > retained THEN end ELSE Greater(start, LastBoundary(end))
  BY DEF End, CutAtCharacter
<1> HIDE DEF start, end
<1>8. LastBoundary(end) \in Nat
  BY <1>2, <1>6
<1>9. End(o, limit, retained) \in Nat
  BY <1>5, <1>6, <1>7, <1>8 DEF Greater
<1> QED
  BY <1>9 DEF limit

(* What is appended comes after everything there is.                             *)
LEMMA AppendsAfter ==
    ASSUME text \in [encoding : Encodings, chars : Seq(1..4), marks : SUBSET Nat],
           text.chars \in Seq(Widths(text.encoding)),
           NEW width \in Widths(text.encoding),
           NEW marks, text.marks \subseteq marks, marks \subseteq MarksOf(text.encoding, Append(text.chars, width)),
           text' = [text EXCEPT !.chars = Append(@, width), !.marks = marks], UNCHANGED window
    PROVE  /\ text' \in [encoding : Encodings, chars : Seq(1..4), marks : SUBSET Nat]
           /\ text'.chars \in Seq(Widths(text'.encoding))
           /\ text'.marks \subseteq MarksOf(text'.encoding, text'.chars) /\ text.marks \subseteq text'.marks
           /\ text'.encoding = text.encoding /\ DOMAIN text.chars \subseteq DOMAIN text'.chars
           /\ Size < Size' /\ Size \in Nat /\ Size' \in Nat
           /\ \A offset \in 0..Size : /\ ReadFits(offset) => ReadFits(offset)'
                                      /\ Shown(offset)' = Shown(offset)
<1> DEFINE k == Len(text.chars)
           e(n) == EndOf(n)
           w == Append(text.chars, width)
           f(n) == text.encoding.bom + EndsOf(w)[n]
<1>1. /\ text'.encoding = text.encoding /\ text'.chars = Append(text.chars, width)
      /\ text' = [encoding |-> text.encoding, chars |-> Append(text.chars, width), marks |-> marks]
      /\ text'.marks = marks
      /\ text.encoding \in Encodings
  OBVIOUS
<1>2. k \in Nat /\ Len(text'.chars) = k + 1 /\ DOMAIN text.chars = 1..k /\ DOMAIN text'.chars = 1..(k + 1)
  BY <1>1
<1>3. Widths(text.encoding) \subseteq 1..4
  BY <1>1 DEF Widths, Encodings
<1>4. text'.chars \in Seq(Widths(text'.encoding)) /\ text'.chars \in Seq(1..4)
  <2>1. Append(text.chars, width) \in Seq(Widths(text.encoding)) /\ Append(text.chars, width) \in Seq(1..4)
    BY <1>3
  <2> QED
    BY <1>1, <2>1
<1>5. text' \in [encoding : Encodings, chars : Seq(1..4), marks : SUBSET Nat]
      /\ text'.marks \subseteq MarksOf(text'.encoding, text'.chars) /\ text.marks \subseteq text'.marks
  <2>1. marks \subseteq 1..(k + 1)
    BY <1>1, <1>2 DEF MarksOf
  <2>2. marks \in SUBSET Nat
    BY <1>2, <2>1
  <2> HIDE DEF k
  <2> QED
    BY <1>1, <1>4, <2>2
<1>6. \A n \in 1..k : text'.chars[n] = text.chars[n]
  BY <1>1
<1>7. \A n \in 0..k : f(n) = e(n)
  <2>1. text.chars \in Seq(Nat) /\ width \in Nat
    BY <1>3
  <2>2. \A n \in 0..k : EndsOf(Append(text.chars, width))[n] = EndsOf(text.chars)[n]
    BY <2>1, EndsStay
  <2> QED
    BY <2>2 DEF EndOf
<1>8. \A n \in 0..k : e(n) \in Nat
  BY <1>1, TextFacts
<1>9. f(k + 1) \in Nat /\ \A i, j \in 0..(k + 1) : i < j => f(i) < f(j)
  <2>1. w \in Seq(Nat) /\ Len(w) = k + 1 /\ \A n \in 1..(k + 1) : w[n] \in 1..4
    BY <1>1, <1>2, <1>3, <1>4
  <2>2. text.encoding.bom \in Nat
    BY <1>1 DEF Encodings
  <2> DEFINE g == EndsOf(w)
  <2>3. (\A n \in 0..(k + 1) : g[n] \in Nat) /\ \A i, j \in 0..(k + 1) : i < j => g[i] + w[j] <= g[j]
    BY <2>1, EndsAre, EndsAscend
  <2> HIDE DEF g, w, k
  <2>4. \A n : f(n) = text.encoding.bom + g[n]
    BY DEF g
  <2>5. k + 1 \in 0..(k + 1)
    BY <1>2
  <2>6. ASSUME NEW i \in 0..(k + 1), NEW j \in 0..(k + 1), i < j
        PROVE  f(i) < f(j)
    <3>1. j \in 1..(k + 1) /\ g[i] \in Nat /\ g[j] \in Nat /\ w[j] \in 1..4 /\ g[i] + w[j] <= g[j]
      BY <1>2, <2>1, <2>3, <2>6
    <3>2. f(i) = text.encoding.bom + g[i]
      BY <2>4
    <3>3. f(j) = text.encoding.bom + g[j]
      BY <2>4
    <3>4. g[i] < g[j]
      BY <3>1
    <3> QED
      BY <2>2, <3>1, <3>2, <3>3, <3>4
  <2> QED
    BY <2>2, <2>3, <2>4, <2>5, <2>6
<1>10. Size = e(k) /\ Size' = f(k + 1)
  BY <1>1, <1>2 DEF Size, EndOf
<1>11. Boundaries = {0} \union {e(n) : n \in 0..k} /\ Boundaries' = {0} \union {f(n) : n \in 0..(k + 1)}
  <2>1. Boundaries' = {0} \union {EndOf(n)' : n \in 0..Len(text'.chars)}
    BY DEF Boundaries
  <2>2. \A n : EndOf(n)' = f(n)
    BY <1>1 DEF EndOf
  <2>3. {EndOf(n)' : n \in 0..Len(text'.chars)} = {f(n) : n \in 0..(k + 1)}
    BY <1>2, <2>2
  <2> QED
    BY <2>1, <2>3 DEF Boundaries
<1> DEFINE old == Boundaries
           new == Boundaries'
           size == Size
           s2 == Size'
<1>17. \A n : EndOf(n)' = f(n)
  BY <1>1 DEF EndOf
<1> HIDE DEF k, e, f, w
<1>12. size < s2 /\ size \in Nat /\ s2 \in Nat
  <2>1. k < k + 1 /\ k \in 0..(k + 1) /\ k + 1 \in 0..(k + 1) /\ k \in 0..k
    BY <1>2
  <2>2. f(k) < f(k + 1) /\ f(k) = e(k)
    BY <1>7, <1>9, <2>1
  <2> QED
    BY <1>8, <1>9, <1>10, <2>1, <2>2
<1>13. new = old \union {s2}
  <2>1. \A n : n \in 0..(k + 1) <=> n \in 0..k \/ n = k + 1
    BY <1>2
  <2>2. \A x : x \in new <=> x = 0 \/ \E n \in 0..(k + 1) : x = f(n)
    BY <1>11
  <2>3. \A x : x \in old <=> x = 0 \/ \E n \in 0..k : x = f(n)
    BY <1>7, <1>11
  <2>4. s2 = f(k + 1)
    BY <1>10
  <2> QED
    BY <2>1, <2>2, <2>3, <2>4
<1>14. old \subseteq 0..size
  BY <1>1, BoundaryFacts
<1> HIDE DEF old, new, size, s2
<1>15. ASSUME NEW offset \in 0..size, ReadFits(offset)
       PROVE  ReadFits(offset)'
  <2>1. CASE offset \in old
    <3>1. offset \in new
      BY <1>13, <2>1
    <3> QED
      BY <3>1 DEF ReadFits, new
  <2>2. CASE offset \notin old
    <3>1. PICK b \in old, c \in old :
             /\ b < offset /\ offset < c /\ b + window < c
             /\ \A d \in old : d <= b \/ c <= d
      BY <1>15, <2>2 DEF ReadFits, old
    <3>2. \A d \in new : d <= b \/ c <= d
      <4>1. c <= s2
        BY <1>12, <1>14
      <4> QED
        BY <1>13, <3>1, <4>1
    <3>3. b \in new /\ c \in new
      BY <1>13
    <3> QED
      BY <3>1, <3>2, <3>3 DEF ReadFits, new
  <2> QED
    BY <2>1, <2>2
<1>16. ASSUME NEW offset \in 0..size
       PROVE  Shown(offset)' = Shown(offset)
  <2>1. Shown(offset) = {n \in 1..k : e(n - 1) >= 0 /\ e(n) <= offset /\ text.chars[n] <= window}
    <3>1. Shown(offset) = {n \in DOMAIN text.chars : EndOf(n - 1) >= 0 /\ EndOf(n) <= offset /\ text.chars[n] <= window}
      BY DEF Shown, Within
    <3> QED
      BY <1>2, <3>1 DEF e
  <2>2. Shown(offset)' = {n \in 1..(k + 1) : f(n - 1) >= 0 /\ f(n) <= offset /\ text'.chars[n] <= window}
    <3>1. Shown(offset)' = {n \in DOMAIN text'.chars : EndOf(n - 1)' >= 0 /\ EndOf(n)' <= offset /\ text'.chars[n] <= window}
      BY DEF Shown, Within
    <3>2. \A n : EndOf(n - 1)' = f(n - 1)
      BY <1>17
    <3> QED
      BY <1>2, <1>17, <3>1, <3>2
  <2>3. ~(f(k + 1) <= offset)
    BY <1>9, <1>10, <1>12 DEF s2
  <2>4. \A n \in 1..(k + 1) : n \in 1..k \/ n = k + 1
    BY <1>2
  <2>5. \A n \in 1..k : n \in 1..(k + 1) /\ f(n) = e(n) /\ f(n - 1) = e(n - 1) /\ text'.chars[n] = text.chars[n]
    <3> SUFFICES ASSUME NEW n \in 1..k
                 PROVE  n \in 1..(k + 1) /\ f(n) = e(n) /\ f(n - 1) = e(n - 1) /\ text'.chars[n] = text.chars[n]
      OBVIOUS
    <3>1. n \in 1..(k + 1) /\ n \in 0..k /\ n - 1 \in 0..k
      BY <1>2
    <3> QED
      BY <1>6, <1>7, <3>1
  <2> QED
    BY <2>1, <2>2, <2>3, <2>4, <2>5
<1> QED
  BY <1>1, <1>2, <1>4, <1>5, <1>12, <1>15, <1>16 DEF size, s2


(* No character ends where the file begins.                                       *)
LEMMA NothingToShow ==
    ASSUME text.encoding \in Encodings, text.chars \in Seq(Widths(text.encoding))
    PROVE  Shown(0) = {}
<1>1. \A n \in 1..Len(text.chars) : EndOf(n) = EndOf(n - 1) + text.chars[n] /\ text.chars[n] \in 1..4 /\ EndOf(n - 1) \in Nat
  <2> SUFFICES ASSUME NEW n \in 1..Len(text.chars)
               PROVE  EndOf(n) = EndOf(n - 1) + text.chars[n] /\ text.chars[n] \in 1..4 /\ EndOf(n - 1) \in Nat
    OBVIOUS
  <2>1. n - 1 \in 0..Len(text.chars)
    BY TextFacts
  <2> QED
    BY <2>1, TextFacts
<1>2. \A n \in 1..Len(text.chars) : ~(EndOf(n) <= 0)
  BY <1>1
<1>3. DOMAIN text.chars = 1..Len(text.chars)
  BY TextFacts
<1> QED
  BY <1>2, <1>3 DEF Shown, Within

LEMMA ReadBegins == TextInit => ReadInv
<1> SUFFICES ASSUME TextInit
             PROVE  ReadInv
  OBVIOUS
<1>1. PICK e \in Encodings : \E chars \in BoundedSeq(Widths(e), MaxChars) : \E marks \in SUBSET MarksOf(e, chars) :
         text = [encoding |-> e, chars |-> chars, marks |-> marks]
  BY DEF TextInit
<1>2. \A S, n : n \in Nat => BoundedSeq(S, n) \subseteq Seq(S)
  BY DEF BoundedSeq, SeqOf
<1>3. MaxChars \in Nat /\ MaxWindow \in Nat
  BY ReadAssumption
<1>4. /\ text.encoding = e /\ text.chars \in Seq(Widths(text.encoding))
      /\ text.marks \subseteq MarksOf(text.encoding, text.chars) /\ text.marks \in SUBSET Nat
      /\ text = [encoding |-> e, chars |-> text.chars, marks |-> text.marks]
  <2>5. PICK chars \in BoundedSeq(Widths(e), MaxChars) : \E marks \in SUBSET MarksOf(e, chars) :
           text = [encoding |-> e, chars |-> chars, marks |-> marks]
    BY <1>1
  <2>1. PICK marks \in SUBSET MarksOf(e, chars) : text = [encoding |-> e, chars |-> chars, marks |-> marks]
    BY <2>5
  <2>2. chars \in Seq(Widths(e))
    BY <1>2, <1>3
  <2>3. DOMAIN chars \subseteq Nat
    BY <2>2
  <2>4. marks \in SUBSET Nat
    BY <2>3 DEF MarksOf
  <2> QED
    BY <2>1, <2>2, <2>4
<1>5. text.chars \in Seq(1..4)
  <2>1. Widths(text.encoding) \subseteq 1..4
    BY <1>4 DEF Widths, Encodings
  <2> QED
    BY <1>4, <2>1
<1>6. text \in [encoding : Encodings, chars : Seq(1..4), marks : SUBSET Nat]
  BY <1>4, <1>5
<1>7. window \in 1..MaxWindow /\ grew = FALSE
  BY DEF TextInit
<1>8. /\ reading \in [at : {"idle", "open", "done", "failed"}, offset : Nat, size : Nat, pages : Seq(Nat)]
      /\ reading.at = "idle" /\ reading.offset = 0 /\ reading.size = 0 /\ reading.pages = <<>>
  BY DEF TextInit
<1>9. 0 \in Boundaries /\ Size \in Nat
  BY <1>4, BoundaryFacts
<1>13. {reading.offset, reading.size} \subseteq 0..Size
  BY <1>8, <1>9
<1>14. Range(reading.pages) = {}
  BY <1>8 DEF Range
<1>10. ReadTypeOK
  BY <1>4, <1>6, <1>7, <1>8, <1>13, <1>14 DEF ReadTypeOK
<1>11. PagesAreTheFile
  <2>1. Shown(0) = {}
    BY <1>4, NothingToShow
  <2>2. InOrder({}) = <<>>
    <3>1. InOrder({}) \in Seq({}) /\ Len(InOrder({})) = 0
      BY FS_EmptySet, InOrderIsSeq
    <3> QED
      BY <3>1
  <2>3. Fitting \ {} = {}
    BY <1>8, <2>1 DEF Fitting, Shown
  <2>4. reading.pages = InOrder(Fitting \ {}) /\ {} \in SUBSET text.marks
    BY <1>8, <2>2, <2>3
  <2> QED
    BY <2>4 DEF PagesAreTheFile
<1>12. ReadFits(reading.offset)
  BY <1>8, <1>9 DEF ReadFits
<1> QED
  BY <1>8, <1>10, <1>11, <1>12 DEF ReadInv

(* The window of a request keeps the promise, whatever it begins or ends within.     *)
LEMMA WindowKeeps == ReadInv /\ ReadWindow => ReadInv'
<1> SUFFICES ASSUME ReadInv, ReadWindow
             PROVE  ReadInv'
  OBVIOUS
<1> USE DEF ReadInv
<1>1. /\ text \in [encoding : Encodings, chars : Seq(1..4), marks : SUBSET Nat] /\ text.chars \in Seq(Widths(text.encoding))
      /\ text.encoding \in Encodings
      /\ window \in 1..MaxWindow /\ MaxWindow \in Nat /\ window \in Nat \ {0} /\ grew \in BOOLEAN
      /\ reading \in [at : {"idle", "open", "done", "failed"}, offset : Nat, size : Nat, pages : Seq(Nat)]
      /\ reading.offset \in 0..Size /\ reading.size \in 0..Size
      /\ Range(reading.pages) \subseteq DOMAIN text.chars
  BY ReadAssumption DEF ReadTypeOK
<1>2. Size \in Nat
  BY <1>1, BoundaryFacts
<1> DEFINE o == Requested
           limit == Limit
           start == Start(o)
           end == RangeEnd
           more == Within(start, Lesser(end, Retained))
           decoded == {n \in more : n \in text.marks => \E m \in more : m < n}
           next == NextOffset(o, end)
<1>3. o \in 0..Size /\ o \in Nat /\ limit = Lesser(Size, o + window) /\ limit \in Nat /\ limit <= Size
  BY <1>1, <1>2 DEF Requested, Limit, Lesser
<1>4. Retained \in Nat
  BY <1>1, <1>2, <1>3 DEF Retained, Lesser
<1>5. end = End(o, limit, Retained)
  BY DEF RangeEnd
<1>6. end \in Nat
  BY <1>1, <1>3, <1>4, <1>5, EndIsNumber
<1>7. next \in 0..Size
  <2> HIDE DEF end, o
  <2> QED
    BY <1>2, <1>3, <1>6 DEF NextOffset, Lesser, Greater
<1>8. /\ reading.at = "open" /\ UNCHANGED <<text, window, grew>>
      /\ reading' = [at |-> IF end < Size THEN "idle" ELSE "done", offset |-> next, size |-> 0,
                     pages |-> reading.pages \o InOrder(decoded)]
      /\ text.encoding.unit = 1 \/ start \in Boundaries \/ ~(start < end)
  <2>1. text.encoding.unit \in {1, 2}
    BY <1>1 DEF Encodings
  <2> QED
    BY <2>1 DEF ReadWindow, NextOffset, Undecodable, Decoded, InWindow
<1>9. /\ more \in SUBSET Nat /\ IsFiniteSet(more) /\ more \subseteq DOMAIN text.chars
      /\ IsFiniteSet(DOMAIN text.chars) /\ DOMAIN text.chars \subseteq Nat
  <2>1. DOMAIN text.chars = 1..Len(text.chars) /\ Len(text.chars) \in Nat
    BY <1>1, TextFacts
  <2>2. IsFiniteSet(1..Len(text.chars))
    BY <2>1, FS_Interval
  <2>3. more \subseteq DOMAIN text.chars
    BY DEF Within
  <2>4. IsFiniteSet(more)
    BY <2>1, <2>2, <2>3, FS_Subset
  <2>5. IsFiniteSet(DOMAIN text.chars) /\ DOMAIN text.chars \subseteq Nat
    BY <2>1, <2>2
  <2> HIDE DEF more
  <2> QED
    BY <2>3, <2>4, <2>5
<1>16. /\ decoded \in SUBSET Nat /\ IsFiniteSet(decoded) /\ decoded \subseteq DOMAIN text.chars
       /\ decoded \subseteq more /\ more \ decoded \subseteq text.marks
  <2> HIDE DEF more
  <2>1. decoded \subseteq more /\ more \ decoded \subseteq text.marks
    OBVIOUS
  <2> HIDE DEF decoded
  <2> QED
    BY <1>9, <2>1, FS_Subset
<1> HIDE DEF o, limit, start, end, more, decoded, next
<1>10. InOrder(decoded) \in Seq(decoded) /\ InOrder(decoded) \in Seq(Nat) /\ InOrder(decoded) \in Seq(DOMAIN text.chars)
  <2> DEFINE s == InOrder(decoded)
             chars == DOMAIN text.chars
  <2>1. s \in Seq(decoded) /\ decoded \subseteq Nat /\ decoded \subseteq chars
    BY <1>16, InOrderIsSeq
  <2> HIDE DEF s, chars
  <2>2. Len(s) \in Nat /\ s = [i \in 1..Len(s) |-> s[i]] /\ \A i \in 1..Len(s) : s[i] \in decoded
    BY <2>1
  <2>3. \A i \in 1..Len(s) : s[i] \in Nat /\ s[i] \in chars
    BY <2>1, <2>2
  <2>4. s \in Seq(Nat)
    BY <2>2, <2>3
  <2>5. s \in Seq(chars)
    BY <2>2, <2>3
  <2> QED
    BY <2>1, <2>4, <2>5 DEF s, chars
<1>11. /\ reading' \in [at : {"idle", "open", "done", "failed"}, offset : Nat, size : Nat, pages : Seq(Nat)]
       /\ reading'.at # "open" /\ reading'.offset = next /\ reading'.size = 0
       /\ reading'.pages = reading.pages \o InOrder(decoded)
  <2> DEFINE at == IF end < Size THEN "idle" ELSE "done"
             pages == reading.pages \o InOrder(decoded)
  <2>1. reading' = [at |-> at, offset |-> next, size |-> 0, pages |-> pages]
    BY <1>8
  <2>2. at \in {"idle", "done"}
    OBVIOUS
  <2>3. pages \in Seq(Nat)
    BY <1>1, <1>10
  <2>4. next \in Nat
    BY <1>2, <1>7
  <2> HIDE DEF at, pages
  <2>5. /\ reading'.at = at /\ reading'.offset = next /\ reading'.size = 0 /\ reading'.pages = pages
        /\ reading' \in [at : {"idle", "open", "done", "failed"}, offset : Nat, size : Nat, pages : Seq(Nat)]
    BY <2>1, <2>2, <2>3, <2>4
  <2> QED
    BY <2>2, <2>5 DEF pages
<1>12. Range(reading'.pages) \subseteq DOMAIN text.chars
  <2>1. reading.pages \in Seq(DOMAIN text.chars)
    BY <1>1 DEF Range
  <2>2. reading'.pages \in Seq(DOMAIN text.chars)
    <3> DEFINE S == DOMAIN text.chars
               s == reading.pages
               t == InOrder(decoded)
    <3>1. s \in Seq(S) /\ t \in Seq(S) /\ reading'.pages = s \o t
      BY <1>10, <1>11, <2>1
    <3> HIDE DEF S, s, t
    <3>2. s \o t \in Seq(S)
      BY <3>1
    <3> QED
      BY <3>1, <3>2 DEF S
  <2> QED
    BY <2>2 DEF Range
<1>13. Size' = Size
  BY <1>8 DEF Size, EndOf
<1>14. ReadTypeOK'
  BY <1>1, <1>2, <1>7, <1>8, <1>11, <1>12, <1>13 DEF ReadTypeOK
<1>15. ASSUME ~grew
       PROVE  ReadFits(reading.offset)' /\ PagesAreTheFile'
  <2>1. reading.size = Size /\ ReadFits(reading.offset)
    BY <1>8, <1>15
  <2>15. PICK dropped \in SUBSET text.marks : reading.pages = InOrder(Shown(reading.offset) \ dropped)
    BY <1>15 DEF PagesAreTheFile, Fitting, Shown
  <2>2. o = reading.offset
    BY <1>1, <1>2, <2>1 DEF o, Requested, Lesser
  <2>3. limit <= Retained /\ Retained = Lesser(Size, limit + 4)
    BY <1>1, <1>2, <1>3, <2>1 DEF Retained, Lesser, o
  <2>4. WindowIs(o, start, end)
    <3>1. CASE text.encoding.unit = 1
      BY <1>1, <1>3, <1>4, <1>5, <2>1, <2>2, <2>3, <3>1, WindowOfBytes DEF start
    <3>2. CASE text.encoding.unit # 1
      <4>1. text.encoding.unit = 2
        BY <1>1, <3>2 DEF Encodings
      <4> QED
        BY <1>1, <1>3, <1>4, <1>5, <1>8, <2>1, <2>2, <2>3, <4>1, WindowOfUnits DEF start
    <3> QED
      BY <3>1, <3>2
  <2>5. end <= Retained
    <3>1. CASE AtBoundary(o, start, end)
      <4>1. end <= limit
        BY <1>1, <1>3, <3>1, LastIsLast DEF AtBoundary
      <4> QED
        BY <1>3, <1>4, <1>6, <2>3, <4>1
    <3>2. CASE WithinWide(o, start, end)
      <4>1. end <= o
        BY <3>2 DEF WithinWide
      <4>2. o <= limit
        BY <1>1, <1>2, <1>3 DEF Lesser
      <4> QED
        BY <1>3, <1>4, <1>6, <2>3, <4>1, <4>2
    <3>3. CASE WithinMark(o, start, end)
      <4>1. end <= Greater(2, o + window) /\ end <= Size
        BY <2>4, <3>3 DEF WithinMark, WindowIs
      <4>2. Size \in Nat /\ o + window \in Nat /\ end \in Nat /\ limit = Lesser(Size, o + window)
        BY <1>1, <1>2, <1>3, <1>6
      <4> QED
        BY <2>3, <4>1, <4>2 DEF Lesser, Greater
    <3> QED
      BY <2>4, <3>1, <3>2, <3>3 DEF WindowIs
  <2>6. more = Within(start, end)
    BY <1>4, <1>6, <2>5 DEF more, Lesser
  <2>7. /\ ReadFits(next)
        /\ Shown(next) = Shown(o) \union more
        /\ \A n \in Shown(o), m \in more : n < m
    <3>1. /\ text.encoding \in Encodings /\ text.chars \in Seq(Widths(text.encoding)) /\ window \in Nat \ {0}
          /\ o \in 0..Size /\ ReadFits(o) /\ WindowIs(o, start, end)
      BY <1>1, <1>3, <2>1, <2>2, <2>4
    <3>2. /\ ReadFits(NextOffset(o, end))
          /\ Shown(NextOffset(o, end)) = Shown(o) \union Within(start, end)
          /\ \A n \in Shown(o), m \in Within(start, end) : n < m
      BY <3>1, WindowAdds
    <3> QED
      BY <2>6, <3>2 DEF next
  <2>8. Shown(o) \in SUBSET Nat /\ IsFiniteSet(Shown(o))
    <3>1. Shown(o) \in SUBSET DOMAIN text.chars
      BY DEF Shown, Within
    <3>2. IsFiniteSet(Shown(o))
      BY <1>9, <3>1, FS_Subset
    <3> QED
      BY <1>9, <3>1, <3>2
  <2> DEFINE had == Shown(o) \ dropped
             lost == (dropped \intersect Shown(o)) \union (more \ decoded)
  <2>9. InOrder(had \union decoded) = InOrder(had) \o InOrder(decoded)
    <3>1. had \in SUBSET Nat /\ IsFiniteSet(had)
      BY <2>8, FS_Subset
    <3>2. \A n \in had, m \in decoded : n < m
      BY <1>16, <2>7
    <3> HIDE DEF had
    <3> QED
      BY <1>16, <3>1, <3>2, InOrderJoins
  <2>10. reading'.pages = InOrder(Shown(next) \ lost) /\ lost \in SUBSET text.marks
    <3>1. \A n \in Shown(o) : n \notin more
      BY <1>9, <2>7, <2>8
    <3>2. Shown(next) \ lost = had \union decoded
      BY <1>16, <2>7, <3>1
    <3>3. reading'.pages = InOrder(had) \o InOrder(decoded)
      BY <1>11, <2>2, <2>15
    <3> QED
      BY <1>16, <2>9, <3>2, <3>3
  <2> HIDE DEF had, lost
  <2>11. Boundaries' = Boundaries /\ window' = window /\ reading'.offset = next
    BY <1>8, <1>11 DEF Boundaries, EndOf
  <2>12. ReadFits(reading.offset)'
    BY <2>7, <2>11 DEF ReadFits
  <2>13. Shown(reading.offset)' = Shown(next)
    BY <1>8, <2>11 DEF Shown, Within, EndOf
  <2>14. PagesAreTheFile'
    <3>1. Fitting' = Shown(next) /\ text' = text
      BY <1>8, <2>13 DEF Fitting, Shown
    <3> QED
      BY <2>10, <3>1 DEF PagesAreTheFile
  <2> QED
    BY <2>12, <2>14
<1> QED
  BY <1>8, <1>11, <1>14, <1>15


LEMMA GrowKeeps == ReadInv /\ (\E width \in 1..4 : Grow(width)) => ReadInv'
<1> SUFFICES ASSUME ReadInv, NEW width \in 1..4, Grow(width)
             PROVE  ReadInv'
  OBVIOUS
<1>1. /\ text \in [encoding : Encodings, chars : Seq(1..4), marks : SUBSET Nat] /\ text.chars \in Seq(Widths(text.encoding))
      /\ text.encoding \in Encodings /\ window \in 1..MaxWindow /\ grew \in BOOLEAN
      /\ reading \in [at : {"idle", "open", "done", "failed"}, offset : Nat, size : Nat, pages : Seq(Nat)]
      /\ reading.offset \in 0..Size /\ reading.size \in 0..Size
      /\ Range(reading.pages) \subseteq DOMAIN text.chars
  BY DEF ReadInv, ReadTypeOK
<1>2. PICK marks \in {text.marks, text.marks \union {Len(text.chars) + 1}} :
         /\ marks \subseteq MarksOf(text.encoding, Append(text.chars, width))
         /\ text' = [text EXCEPT !.chars = Append(@, width), !.marks = marks]
  BY DEF Grow
<1>7. /\ width \in Widths(text.encoding) /\ text.marks \subseteq marks
      /\ window' = window /\ reading' = reading /\ grew' \in BOOLEAN
      /\ grew' = (grew \/ reading.at = "open")
  BY <1>1 DEF Grow
<1>3. /\ text' \in [encoding : Encodings, chars : Seq(1..4), marks : SUBSET Nat]
      /\ text'.chars \in Seq(Widths(text'.encoding))
      /\ text'.marks \subseteq MarksOf(text'.encoding, text'.chars) /\ text.marks \subseteq text'.marks
      /\ DOMAIN text.chars \subseteq DOMAIN text'.chars
      /\ Size < Size' /\ Size \in Nat /\ Size' \in Nat
      /\ \A offset \in 0..Size : /\ ReadFits(offset) => ReadFits(offset)'
                                 /\ Shown(offset)' = Shown(offset)
  BY <1>1, <1>2, <1>7, AppendsAfter
<1>4. reading'.offset \in 0..Size' /\ reading'.size \in 0..Size'
  BY <1>1, <1>3, <1>7
<1>5. ReadTypeOK'
  BY <1>1, <1>3, <1>4, <1>7 DEF ReadTypeOK, Range
<1>6. ASSUME ~grew'
      PROVE  reading'.at # "open" /\ ReadFits(reading.offset)' /\ PagesAreTheFile'
  <2>1. ~grew /\ reading.at # "open"
    BY <1>1, <1>6, <1>7
  <2> DEFINE offset == reading.offset
  <2>2. ReadFits(offset)
    BY <2>1 DEF ReadInv
  <2>8. PICK dropped \in SUBSET text.marks : reading.pages = InOrder(Shown(offset) \ dropped)
    BY <2>1 DEF ReadInv, PagesAreTheFile, Fitting, Shown
  <2>3. PICK at : at = offset
    OBVIOUS
  <2>4. ReadFits(at)' /\ Shown(at)' = Shown(at) /\ reading'.offset = at
    BY <1>1, <1>3, <1>7, <2>2, <2>3
  <2>5. ReadFits(reading.offset)'
    BY <2>4 DEF ReadFits
  <2>6. Shown(reading.offset)' = Shown(at)
    BY <2>4 DEF Shown, Within
  <2>7. PagesAreTheFile'
    <3>1. Fitting' = Shown(at)
      BY <2>6 DEF Fitting, Shown
    <3>2. reading'.pages = InOrder(Fitting' \ dropped) /\ dropped \in SUBSET text'.marks
      BY <1>3, <1>7, <2>3, <2>8, <3>1
    <3> QED
      BY <3>2 DEF PagesAreTheFile
  <2> QED
    BY <1>7, <2>1, <2>5, <2>7
<1> QED
  BY <1>5, <1>6 DEF ReadInv

(* What an action that leaves the file and the place of the reader alone keeps.      *)
LEMMA ReadStays ==
    ASSUME ReadInv, UNCHANGED <<text, window, grew>>,
           reading' \in [at : {"idle", "open", "done", "failed"}, offset : Nat, size : Nat, pages : Seq(Nat)],
           reading'.offset = reading.offset, reading'.pages = reading.pages,
           reading'.size = Size \/ (reading'.size = reading.size /\ (reading'.at = "open" => reading.at = "open"))
    PROVE  ReadInv'
<1>1. text.encoding \in Encodings /\ text.chars \in Seq(Widths(text.encoding))
  BY DEF ReadInv, ReadTypeOK
<1>2. Size' = Size /\ Boundaries' = Boundaries /\ Size \in Nat
  BY <1>1, BoundaryFacts DEF Size, Boundaries, EndOf
<1>3. reading.offset \in 0..Size /\ reading.size \in 0..Size
  BY DEF ReadInv, ReadTypeOK
<1>4. reading'.offset \in 0..Size' /\ reading'.size \in 0..Size'
  BY <1>2, <1>3
<1>5. ReadTypeOK'
  BY <1>4 DEF ReadInv, ReadTypeOK, Range
<1>6. ReadFits(reading.offset) => ReadFits(reading.offset)'
  BY <1>2 DEF ReadFits
<1>7. Shown(reading.offset)' = Shown(reading.offset)
  BY DEF Shown, Within, EndOf
<1>8. PagesAreTheFile => PagesAreTheFile'
  BY <1>7 DEF PagesAreTheFile, Fitting, Shown
<1>9. ~grew' /\ reading'.at = "open" => reading'.size = Size'
  BY <1>2 DEF ReadInv
<1> QED
  BY <1>5, <1>6, <1>8, <1>9 DEF ReadInv

LEMMA ReadIsKept == ReadInv /\ [ReadNext]_readVars => ReadInv'
<1> SUFFICES ASSUME ReadInv, [ReadNext]_readVars
             PROVE  ReadInv'
  OBVIOUS
<1>1. /\ reading \in [at : {"idle", "open", "done", "failed"}, offset : Nat, size : Nat, pages : Seq(Nat)]
      /\ text.encoding \in Encodings /\ text.chars \in Seq(Widths(text.encoding))
  BY DEF ReadInv, ReadTypeOK
<1>2. Size \in Nat
  BY <1>1, BoundaryFacts
<1>3. CASE OpenWindow
  <2>1. /\ reading' = [at |-> "open", offset |-> reading.offset, size |-> Size, pages |-> reading.pages]
        /\ UNCHANGED <<text, window, grew>>
    BY <1>1, <1>3 DEF OpenWindow
  <2> QED
    BY <1>1, <1>2, <2>1, ReadStays
<1>4. CASE ReadWindow
  BY <1>4, WindowKeeps
<1>5. CASE ReadFails
  <2>1. /\ reading' = [at |-> "failed", offset |-> reading.offset, size |-> reading.size, pages |-> reading.pages]
        /\ UNCHANGED <<text, window, grew>>
    BY <1>1, <1>5 DEF ReadFails
  <2> QED
    BY <1>1, <2>1, ReadStays
<1>6. CASE \E width \in 1..4 : Grow(width)
  BY <1>6, GrowKeeps
<1>7. CASE UNCHANGED readVars
  <2>1. reading' = reading /\ UNCHANGED <<text, window, grew>>
    BY <1>7 DEF readVars
  <2> QED
    BY <1>1, <2>1, ReadStays
<1> QED
  BY <1>3, <1>4, <1>5, <1>6, <1>7 DEF ReadNext

(* The windows put together are the file up to the next offset, each character once and *)
(* in order, wherever windows begin and end and whatever their size, but for the        *)
(* characters wider than a window and for U+FEFF where a window begins with it; nothing *)
(* marks either.  A file that grows during a request is excepted.                     *)
THEOREM WindowsAreTheFile == ReadSpec => [](ReadTypeOK /\ PagesAreTheFile)
<1>1. ReadInv => ReadTypeOK /\ (grew \/ PagesAreTheFile)
  BY DEF ReadInv
<1>2. grew => PagesAreTheFile
  BY DEF PagesAreTheFile
<1>3. ReadInv => ReadTypeOK /\ PagesAreTheFile
  BY <1>1, <1>2
<1> QED
  BY ReadBegins, ReadIsKept, <1>3, PTL DEF ReadSpec

(***************************************************************************)
(* The matches of a search.                                                *)
(***************************************************************************)
Long(line) == ~(line.bytes - 1 <= LineLimit)

(* Where the scan of a file is: after the last whole line of what was read, and within a *)
(* line that is too long if it discards.                                        *)
ScanFits ==
    scan.file \in DOMAIN files =>
        /\ scan.line \in 0..Len(File) /\ LineEnd(scan.line) <= scan.read /\ scan.read <= FileSize
        /\ \A n \in 0..Len(File) : LineEnd(n) <= scan.read => n <= scan.line
        /\ scan.dropped = IF scan.discarding THEN scan.line + 1 ELSE 0
        /\ scan.discarding => scan.line < Len(File) /\ Long(File[scan.line + 1])

(* The places the scan has passed, and lines whose matches an answer may show: they match, or *)
(* are too long; all hits of what was read to its end are among them.                  *)
ScanPast(hit) == hit[1] < scan.file \/ (hit[1] = scan.file /\ hit[2] <= scan.line)
ShownAre(theirs) ==
    /\ theirs \subseteq MayMatch /\ \A hit \in theirs : ScanPast(hit)
    /\ \A hit \in Hits : ScanPast(hit) /\ hit[1] \notin unread => hit \in theirs
    /\ Answers(theirs, found.matches, found.total)

SearchInv ==
    /\ SearchTypeOK /\ ScanFits
    /\ \E theirs : ShownAre(theirs)
    /\ found.fate = "answered" => scan.file \notin DOMAIN files

(* The lines of a file follow one another, and what may be missing is the last newline. *)
EndIn(file, n) == EndsOf([k \in DOMAIN file |-> file[k].bytes])[n]
SizeOf(file) == EndIn(file, Len(file)) - (IF pattern.unended /\ file # <<>> THEN 1 ELSE 0)

LEMMA LinesFollow ==
    ASSUME SearchTypeOK, NEW f \in DOMAIN files, NEW file, file = files[f]
    PROVE  /\ Len(file) \in Nat /\ DOMAIN file = 1..Len(file) /\ EndIn(file, 0) = 0
           /\ \A n \in 1..Len(file) : file[n].bytes \in Nat \ {0} /\ file[n].hit \in BOOLEAN
           /\ \A n \in 0..Len(file) : EndIn(file, n) \in Nat
           /\ \A n \in 1..Len(file) : EndIn(file, n) = EndIn(file, n - 1) + file[n].bytes
           /\ \A i, j \in 0..Len(file) : i < j => EndIn(file, i) < EndIn(file, j)
           /\ SizeOf(file) \in Nat
           /\ \/ SizeOf(file) = EndIn(file, Len(file))
              \/ SizeOf(file) + 1 = EndIn(file, Len(file)) /\ Len(file) > 0 /\ file[Len(file)].bytes > 1
<1> DEFINE k == Len(file)
           w == [n \in DOMAIN file |-> file[n].bytes]
           e == EndsOf(w)
<1>1. file \in Seq(Lines) /\ Ends(file) /\ pattern \in [empty : BOOLEAN, unended : BOOLEAN]
  BY DEF SearchTypeOK
<1>2. k \in Nat /\ DOMAIN file = 1..k /\ \A n \in 1..k : file[n] \in Lines
  BY <1>1
<1>3. \A l \in Lines : l.bytes \in Nat \ {0} /\ l.hit \in BOOLEAN
  <2>1. LineKinds \subseteq [bytes : Nat \ {0, 1}, hit : BOOLEAN]
    BY SearchAssumption
  <2>2. \A l \in Lines : l \in LineKinds \/ l = [bytes |-> 1, hit |-> pattern.empty]
    BY DEF Lines
  <2> QED
    BY <1>1, <2>1, <2>2
<1>4. \A n \in 1..k : file[n].bytes \in Nat \ {0} /\ file[n].hit \in BOOLEAN
  BY <1>2, <1>3
<1>5. w \in Seq(Nat) /\ Len(w) = k /\ \A n \in 1..k : w[n] = file[n].bytes
  <2>1. w \in [1..k -> Nat]
    BY <1>2, <1>4
  <2> QED
    BY <1>2, <2>1
<1>6. \A n : EndIn(file, n) = e[n]
  BY DEF EndIn
<1>7. /\ \A n \in 0..k : e[n] \in Nat
      /\ e[0] = 0 /\ \A n \in 1..k : e[n] = e[n - 1] + w[n]
  BY <1>5, EndsAre
<1>8. \A i, j \in 0..k : i < j => e[i] + w[j] <= e[j]
  BY <1>5, EndsAscend
<1> HIDE DEF k, w, e
<1>9. \A i, j \in 0..k : i < j => e[i] < e[j]
  <2> SUFFICES ASSUME NEW i \in 0..k, NEW j \in 0..k, i < j
               PROVE  e[i] < e[j]
    OBVIOUS
  <2>1. j \in 1..k
    BY <1>2
  <2> QED
    <3>1. e[i] \in Nat /\ e[j] \in Nat /\ w[j] \in Nat \ {0} /\ e[i] + w[j] <= e[j]
      BY <1>4, <1>5, <1>7, <1>8, <2>1
    <3> QED
      BY <3>1
<1>10. SizeOf(file) = e[k] - (IF pattern.unended /\ file # <<>> THEN 1 ELSE 0)
  BY <1>6 DEF SizeOf, k
<1>11. SizeOf(file) \in Nat /\ (SizeOf(file) = e[k] \/ (SizeOf(file) + 1 = e[k] /\ k > 0 /\ file[k].bytes > 1))
  <2>1. k \in 0..k
    BY <1>2
  <2>2. CASE pattern.unended /\ file # <<>>
    <3>1. k > 0
      BY <1>1, <1>2, <2>2 DEF k
    <3>2. file[k].bytes > 1
      BY <1>1, <2>2, <3>1 DEF Ends, Last, k
    <3>3. k \in 1..k /\ e[k] = e[k - 1] + w[k] /\ k - 1 \in 0..k
      BY <1>2, <1>7, <3>1
    <3>4. e[k - 1] \in Nat /\ w[k] = file[k].bytes /\ file[k].bytes \in Nat /\ e[k] \in Nat
      BY <1>4, <1>5, <1>7, <3>3
    <3> QED
      BY <1>10, <2>2, <3>1, <3>2, <3>3, <3>4
  <2>3. CASE ~(pattern.unended /\ file # <<>>)
    BY <1>7, <1>10, <2>1, <2>3
  <2> QED
    BY <2>2, <2>3
<1>12. /\ EndIn(file, 0) = 0 /\ \A n \in 0..k : EndIn(file, n) \in Nat
       /\ \A n \in 1..k : EndIn(file, n) = EndIn(file, n - 1) + file[n].bytes
  BY <1>5, <1>6, <1>7
<1>13. \A i, j \in 0..k : i < j => EndIn(file, i) < EndIn(file, j)
  BY <1>6, <1>9
<1>14. \/ SizeOf(file) = EndIn(file, k)
       \/ SizeOf(file) + 1 = EndIn(file, k) /\ k > 0 /\ file[k].bytes > 1
  BY <1>6, <1>11
<1> QED
  BY <1>2, <1>4, <1>11, <1>12, <1>13, <1>14 DEF k

LEMMA FileFacts ==
    ASSUME SearchTypeOK, scan.file \in DOMAIN files
    PROVE  /\ Len(File) \in Nat /\ DOMAIN File = 1..Len(File) /\ LineEnd(0) = 0
           /\ \A n \in 1..Len(File) : File[n].bytes \in Nat \ {0} /\ File[n].hit \in BOOLEAN
           /\ \A n \in 0..Len(File) : LineEnd(n) \in Nat
           /\ \A n \in 1..Len(File) : LineEnd(n) = LineEnd(n - 1) + File[n].bytes
           /\ \A i, j \in 0..Len(File) : i < j => LineEnd(i) < LineEnd(j)
           /\ FileSize \in Nat
           /\ \/ FileSize = LineEnd(Len(File))
              \/ FileSize + 1 = LineEnd(Len(File)) /\ Len(File) > 0 /\ File[Len(File)].bytes > 1
<1>1. (\A n : LineEnd(n) = EndIn(File, n)) /\ File = files[scan.file] /\ FileSize = SizeOf(File)
  BY DEF LineEnd, EndIn, File, FileSize, SizeOf
<1> DEFINE file == File
<1>2. file = files[scan.file] /\ (\A n : LineEnd(n) = EndIn(file, n)) /\ FileSize = SizeOf(file)
  BY <1>1
<1> HIDE DEF file
<1>3. /\ Len(file) \in Nat /\ DOMAIN file = 1..Len(file) /\ EndIn(file, 0) = 0
      /\ \A n \in 1..Len(file) : file[n].bytes \in Nat \ {0} /\ file[n].hit \in BOOLEAN
      /\ \A n \in 0..Len(file) : EndIn(file, n) \in Nat
      /\ \A n \in 1..Len(file) : EndIn(file, n) = EndIn(file, n - 1) + file[n].bytes
      /\ \A i, j \in 0..Len(file) : i < j => EndIn(file, i) < EndIn(file, j)
      /\ SizeOf(file) \in Nat
      /\ \/ SizeOf(file) = EndIn(file, Len(file))
         \/ SizeOf(file) + 1 = EndIn(file, Len(file)) /\ Len(file) > 0 /\ file[Len(file)].bytes > 1
  BY <1>2, LinesFollow
<1>4. /\ Len(file) \in Nat /\ DOMAIN file = 1..Len(file) /\ LineEnd(0) = 0
      /\ \A n \in 1..Len(file) : file[n].bytes \in Nat \ {0} /\ file[n].hit \in BOOLEAN
      /\ \A n \in 0..Len(file) : LineEnd(n) \in Nat
      /\ \A n \in 1..Len(file) : LineEnd(n) = LineEnd(n - 1) + file[n].bytes
      /\ \A i, j \in 0..Len(file) : i < j => LineEnd(i) < LineEnd(j)
      /\ FileSize \in Nat
      /\ \/ FileSize = LineEnd(Len(file))
         \/ FileSize + 1 = LineEnd(Len(file)) /\ Len(file) > 0 /\ file[Len(file)].bytes > 1
  BY <1>2, <1>3, Zenon
<1> QED
  BY <1>4 DEF file

(* Which lines of the file are hits, and which are too long.                            *)
LEMMA HitsArePairs ==
    ASSUME SearchTypeOK
    PROVE  /\ Hits \subseteq MayMatch
           /\ \A hit \in MayMatch : hit = <<hit[1], hit[2]>> /\ hit[1] \in 1..Len(files) /\ hit[2] \in Nat \ {0}
<1>1. files \in Seq(Seq(Lines))
  BY DEF SearchTypeOK
<1>2. \A f \in DOMAIN files : files[f] \in Seq(Lines) /\ DOMAIN files[f] \subseteq Nat \ {0}
  BY <1>1
<1>3. \A hit \in MayMatch : \E f \in DOMAIN files : \E n \in DOMAIN files[f] : hit = <<f, n>>
  <2>1. \A hit \in Hits : \E f \in DOMAIN files : \E n \in DOMAIN files[f] : hit = <<f, n>>
    BY DEF Hits
  <2>2. \A hit \in TooLong : \E f \in DOMAIN files : \E n \in DOMAIN files[f] : hit = <<f, n>>
    BY DEF TooLong
  <2>3. \A hit \in MayMatch : hit \in Hits \/ hit \in TooLong
    BY DEF MayMatch
  <2> QED
    BY <2>1, <2>2, <2>3
<1>4. DOMAIN files = 1..Len(files)
  BY <1>1
<1>5. \A hit \in MayMatch : hit = <<hit[1], hit[2]>> /\ hit[1] \in 1..Len(files) /\ hit[2] \in Nat \ {0}
  BY <1>2, <1>3, <1>4
<1> QED
  BY <1>5 DEF MayMatch

LEMMA HitsOfTheFile ==
    ASSUME SearchTypeOK, scan.file \in DOMAIN files
    PROVE  /\ \A n : <<scan.file, n>> \in Hits <=> n \in 1..Len(File) /\ File[n].hit /\ ~Long(File[n])
           /\ \A n \in 1..Len(File) : Long(File[n]) => <<scan.file, n>> \in TooLong
<1>1. DOMAIN File = 1..Len(File) /\ \A n \in 1..Len(File) : File[n].bytes \in Nat
  BY FileFacts
<1>6. LineLimit \in Nat
  BY SearchAssumption
<1>2. \A f, n : <<f, n>> \in Hits <=> f \in DOMAIN files /\ n \in DOMAIN files[f] /\ files[f][n].hit
                                      /\ ~Long(files[f][n])
  BY DEF Hits, Long
<1>3. \A f, n : f \in DOMAIN files /\ n \in DOMAIN files[f] /\ files[f][n].bytes - 1 > LineLimit
                   => <<f, n>> \in TooLong
  BY DEF TooLong
<1>4. \A n : <<scan.file, n>> \in Hits <=> n \in 1..Len(File) /\ File[n].hit /\ ~Long(File[n])
  BY <1>1, <1>2 DEF File
<1>5. ASSUME NEW n \in 1..Len(File), Long(File[n])
      PROVE  <<scan.file, n>> \in TooLong
  <2>1. File[n].bytes - 1 > LineLimit
    BY <1>1, <1>5, <1>6 DEF Long
  <2>2. n \in DOMAIN files[scan.file] /\ files[scan.file][n].bytes - 1 > LineLimit
    BY <1>1, <2>1 DEF File
  <2> QED
    BY <1>3, <2>2
<1> QED
  BY <1>4, <1>5

(* The matches of the lines the scan comes to the end of: it has not passed them, hits are    *)
(* among them, and what does not match is too long.                                  *)
ConsumedTo(to) == {<<scan.file, n>> : n \in {m \in (scan.line + 1)..to : Matches(m)}}

LEMMA ConsumedAre ==
    ASSUME SearchTypeOK, ScanFits, scan.file \in DOMAIN files, NEW to \in 0..Len(File)
    PROVE  /\ ConsumedTo(to) \subseteq MayMatch
           /\ \A hit \in ConsumedTo(to) : hit[1] = scan.file /\ hit[2] \in (scan.line + 1)..to
           /\ \A hit \in Hits : hit[1] = scan.file /\ scan.line < hit[2] /\ hit[2] <= to => hit \in ConsumedTo(to)
<1>1. /\ Len(File) \in Nat /\ scan.line \in 0..Len(File) /\ scan.line \in Nat
      /\ scan.dropped = IF scan.discarding THEN scan.line + 1 ELSE 0
      /\ scan.discarding => scan.line < Len(File) /\ Long(File[scan.line + 1])
  BY FileFacts DEF ScanFits
<1>2. ASSUME NEW n \in (scan.line + 1)..to
      PROVE  /\ n \in 1..Len(File) /\ (n = scan.dropped => Long(File[n]))
             /\ <<scan.file, n>> \in Hits => Matches(n)
             /\ Matches(n) => <<scan.file, n>> \in MayMatch
  <2>1. n \in 1..Len(File) /\ n # 0 /\ n \in Nat
    BY <1>1
  <2>2. <<scan.file, n>> \in Hits <=> File[n].hit /\ ~Long(File[n])
    BY <2>1, HitsOfTheFile
  <2>3. n = scan.dropped => Long(File[n])
    BY <1>1, <2>1
  <2>4. Long(File[n]) => <<scan.file, n>> \in TooLong
    BY <2>1, HitsOfTheFile
  <2>5. <<scan.file, n>> \in Hits => Matches(n)
    BY <2>2, <2>3 DEF Matches, Long
  <2>6. ASSUME Matches(n)
        PROVE  <<scan.file, n>> \in MayMatch
    <3>1. CASE n = scan.dropped
      BY <2>3, <2>4, <2>6, <3>1 DEF Matches, MayMatch
    <3>2. CASE n # scan.dropped
      BY <2>2, <2>6, <3>2 DEF Matches, Long, MayMatch
    <3> QED
      BY <3>1, <3>2
  <2> QED
    BY <2>1, <2>3, <2>5, <2>6
<1>3. ConsumedTo(to) \subseteq MayMatch
  BY <1>2 DEF ConsumedTo
<1>4. \A hit \in ConsumedTo(to) : hit[1] = scan.file /\ hit[2] \in (scan.line + 1)..to
  BY DEF ConsumedTo
<1>5. ASSUME NEW hit \in Hits, hit[1] = scan.file, scan.line < hit[2], hit[2] <= to
      PROVE  hit \in ConsumedTo(to)
  <2>1. hit = <<hit[1], hit[2]>> /\ hit[2] \in Nat
    BY HitsArePairs
  <2>2. hit[2] \in (scan.line + 1)..to
    BY <1>1, <1>5, <2>1
  <2>3. Matches(hit[2]) /\ hit = <<scan.file, hit[2]>>
    BY <1>2, <1>5, <2>1, <2>2
  <2> QED
    BY <2>2, <2>3 DEF ConsumedTo
<1> QED
  BY <1>3, <1>4, <1>5

(* As many pairs as numbers.                                                    *)
LEMMA PairsCount ==
    ASSUME NEW N, IsFiniteSet(N), NEW f
    PROVE  IsFiniteSet({<<f, n>> : n \in N}) /\ Cardinality({<<f, n>> : n \in N}) = Cardinality(N)
<1> DEFINE T == {<<f, n>> : n \in N}
           g == [n \in N |-> <<f, n>>]
<1>1. g \in Bijection(N, T)
  BY DEF Bijection, Injection, Surjection, IsInjective
<1>2. ExistsBijection(N, T)
  BY <1>1 DEF ExistsBijection
<1> QED
  BY <1>2, FS_Bijection

(* The place of a number among those of a set.                                    *)
LEMMA PlacesAre ==
    ASSUME NEW S \in SUBSET Nat, IsFiniteSet(S), NEW i \in 1..Cardinality(S)
    PROVE  InOrder(S)[i] \in S /\ Cardinality({n \in S : n < InOrder(S)[i]}) = i - 1
<1> DEFINE x == InOrder(S)[i]
           c == Cardinality(S)
           r == Cardinality(AtMost(S, x))
<1>1. c \in Nat /\ i \in Nat
  BY FS_CardinalityType
<1>2. /\ InOrder(S) \in [1..c -> S]
      /\ \A a, b \in 1..c : a < b => InOrder(S)[a] < InOrder(S)[b]
  BY InOrderIsAscending
<1>3. x \in S /\ x \in Nat
  BY <1>2
<1>4. r \in 1..c /\ InOrder(S)[r] = x
  BY <1>3, PlaceIsRank
<1>5. r = i
  <2> DEFINE s == InOrder(S)
  <2>1. i \in 1..c /\ s[i] = x /\ \A a, b \in 1..c : a < b => s[a] < s[b]
    BY <1>2
  <2>3. s[r] = x
    BY <1>4
  <2> HIDE DEF r, c, s, x
  <2>4. ~(x < x)
    BY <1>3
  <2>2. ~(r < i) /\ ~(i < r)
    BY <1>4, <2>1, <2>3, <2>4
  <2> QED
    BY <1>1, <1>4, <2>2
<1>6. {n \in S : n < x} = AtMost(S, x) \ {x}
  <2> HIDE DEF x
  <2>1. \A n \in S : n < x <=> n <= x /\ n # x
    BY <1>3
  <2>2. AtMost(S, x) = {n \in S : n <= x}
    BY DEF AtMost
  <2> QED
    BY <2>1, <2>2
<1>7. IsFiniteSet(AtMost(S, x)) /\ x \in AtMost(S, x)
  BY <1>3, AtMostCounts DEF AtMost
<1>8. Cardinality(AtMost(S, x) \ {x}) = r - 1
  BY <1>7, FS_RemoveElement
<1> QED
  BY <1>3, <1>5, <1>6, <1>8


(* The first of some numbers, as many as there is room for.                        *)
FirstOf(h, room) == SubSeq(h, 1, IF Len(h) < room THEN Len(h) ELSE room)
Fewer(a, b) == IF a < b THEN a ELSE b

Tagged(f, h, room) == [k \in DOMAIN FirstOf(h, room) |-> <<f, FirstOf(h, room)[k]>>]

LEMMA FirstAre ==
    ASSUME NEW h \in Seq(Nat), NEW room \in Nat, NEW f \in Nat
    PROVE  /\ Tagged(f, h, room) \in Seq(Nat \X Nat) /\ Len(Tagged(f, h, room)) = Fewer(Len(h), room)
           /\ \A i \in 1..Len(Tagged(f, h, room)) : Tagged(f, h, room)[i] = <<f, h[i]>>
<1> DEFINE t == Tagged(f, h, room)
           r == Fewer(Len(h), room)
           kept == FirstOf(h, room)
<1>1. r \in Nat /\ r <= Len(h) /\ Len(h) \in Nat
  BY DEF Fewer
<1>2. kept = SubSeq(h, 1, r)
  BY DEF FirstOf, Fewer
<1>9. t = [k \in DOMAIN kept |-> <<f, kept[k]>>]
  BY DEF Tagged
<1> HIDE DEF r, kept, t
<1>3. kept \in Seq(Nat) /\ Len(kept) = r /\ \A i \in 1..r : kept[i] = h[i]
  BY <1>1, <1>2
<1>4. DOMAIN kept = 1..r /\ \A i \in 1..r : kept[i] \in Nat
  BY <1>1, <1>3
<1>5. t = [i \in 1..r |-> <<f, h[i]>>] /\ \A i \in 1..r : h[i] \in Nat
  BY <1>3, <1>4, <1>9
<1>6. t \in [1..r -> Nat \X Nat]
  BY <1>5
<1>7. t \in Seq(Nat \X Nat) /\ Len(t) = r
  BY <1>1, <1>6
<1>8. \A i \in 1..r : t[i] = <<f, h[i]>>
  BY <1>5
<1> QED
  BY <1>7, <1>8 DEF r, t

LEMMA JoinedAre ==
    ASSUME NEW S, NEW u \in Seq(S), NEW t \in Seq(S)
    PROVE  /\ u \o t \in Seq(S) /\ Len(u \o t) = Len(u) + Len(t) /\ Len(u) \in Nat /\ Len(t) \in Nat
           /\ \A k \in 1..Len(u) : (u \o t)[k] = u[k]
           /\ \A i \in 1..Len(t) : (u \o t)[Len(u) + i] = t[i]
  OBVIOUS

(* Hits that come after those an answer shows are counted and, while there is room, shown. *)
LEMMA MoreAreShown ==
    ASSUME NEW matches \in Seq(Nat \X Nat), NEW total, NEW P, Answers(P, matches, total),
           Len(matches) <= MatchLimit, NEW f \in Nat, NEW N \in SUBSET Nat, IsFiniteSet(N),
           \A hit \in P : hit[1] \in Nat /\ hit[2] \in Nat /\ \A n \in N : Precedes(hit, <<f, n>>),
           NEW t, t \in Seq(Nat \X Nat), Len(t) = Fewer(Cardinality(N), MatchLimit - Len(matches)),
           \A i \in 1..Len(t) : t[i] = <<f, InOrder(N)[i]>>
    PROVE  Answers(P \union {<<f, n>> : n \in N}, matches \o t, total + Cardinality(N))
<1> DEFINE D == {<<f, n>> : n \in N}
           all == P \union D
           p == Cardinality(P)
           q == Cardinality(N)
           m == Len(matches)
           r == Len(t)
           s == matches \o t
<1>1. m \in Nat /\ m <= MatchLimit /\ MatchLimit \in Nat
  BY SearchAssumption
<1>2. /\ IsFiniteSet(P) /\ total = p /\ p \in Nat /\ m = IF p < MatchLimit THEN p ELSE MatchLimit
      /\ \A k \in 1..m : /\ matches[k] \in P
                         /\ Cardinality({hit \in P : Precedes(hit, matches[k])}) = k - 1
  <2>1. DOMAIN matches = 1..m
    OBVIOUS
  <2>2. Answers(P, matches, total)
    OBVIOUS
  <2>3. IsFiniteSet(P)
    BY <2>2 DEF Answers
  <2> QED
    BY <2>1, <2>2, <2>3, FS_CardinalityType DEF Answers
<1>3. q \in Nat
  BY FS_CardinalityType
<1>4. \A i \in 1..q : InOrder(N)[i] \in N /\ Cardinality({n \in N : n < InOrder(N)[i]}) = i - 1
  BY PlacesAre
<1>5. r \in Nat /\ r <= q /\ r = IF q < MatchLimit - m THEN q ELSE MatchLimit - m
  BY <1>1, <1>3 DEF Fewer
<1>6. /\ s \in Seq(Nat \X Nat) /\ Len(s) = m + r
      /\ \A k \in 1..m : s[k] = matches[k]
      /\ \A i \in 1..r : s[m + i] = <<f, InOrder(N)[i]>>
  <2> DEFINE NumberPairs == Nat \X Nat
  <2>1. matches \in Seq(NumberPairs) /\ t \in Seq(NumberPairs)
    OBVIOUS
  <2> HIDE DEF NumberPairs
  <2>2. /\ matches \o t \in Seq(NumberPairs) /\ Len(matches \o t) = Len(matches) + Len(t)
        /\ \A k \in 1..Len(matches) : (matches \o t)[k] = matches[k]
        /\ \A i \in 1..Len(t) : (matches \o t)[Len(matches) + i] = t[i]
    BY <2>1, JoinedAre
  <2> QED
    BY <2>2 DEF NumberPairs
<1>7. \A hit \in P : hit[1] \in Nat /\ hit[2] \in Nat /\ \A n \in N : Precedes(hit, <<f, n>>)
  OBVIOUS
<1> HIDE DEF s, r, m, q
<1>8. ASSUME NEW hit \in P, NEW n \in N
      PROVE  ~Precedes(<<f, n>>, hit) /\ hit # <<f, n>>
  <2>1. hit[1] < f \/ (hit[1] = f /\ hit[2] < n)
    BY <1>7 DEF Precedes
  <2>2. hit[1] \in Nat /\ hit[2] \in Nat /\ f \in Nat /\ n \in Nat
    BY <1>7
  <2>3. ~(f < hit[1] \/ (f = hit[1] /\ n < hit[2]))
    BY <2>1, <2>2
  <2>4. ~Precedes(<<f, n>>, hit)
    BY <2>3 DEF Precedes
  <2>5. hit # <<f, n>>
    BY <2>1, <2>2
  <2> QED
    BY <2>4, <2>5
<1>9. \A M \in SUBSET N : \A hit \in P : hit \notin {<<f, n>> : n \in M}
  BY <1>8
<1>10. Cardinality(all) = p + q /\ IsFiniteSet(all)
  <2>1. IsFiniteSet(D) /\ Cardinality(D) = q
    BY PairsCount DEF q
  <2>2. \A hit \in P : hit \notin D
    BY <1>9
  <2> HIDE DEF D, p, q
  <2>3. Cardinality(P \union D) = Cardinality(P) + Cardinality(D) /\ IsFiniteSet(P \union D)
    BY <1>2, <2>1, <2>2, DisjointCount
  <2> QED
    BY <2>1, <2>3 DEF p
<1>11. ASSUME NEW k \in 1..m
       PROVE  s[k] \in all /\ Cardinality({hit \in all : Precedes(hit, s[k])}) = k - 1
  <2>1. s[k] \in P /\ s[k] = matches[k] /\ Cardinality({hit \in P : Precedes(hit, s[k])}) = k - 1
    BY <1>2, <1>6
  <2>2. \A hit \in D : ~Precedes(hit, s[k])
    BY <1>8, <2>1
  <2>3. {hit \in all : Precedes(hit, s[k])} = {hit \in P : Precedes(hit, s[k])}
    BY <2>2
  <2> QED
    BY <2>1, <2>3
<1>12. ASSUME NEW i \in 1..r
       PROVE  s[m + i] \in all /\ Cardinality({hit \in all : Precedes(hit, s[m + i])}) = (m + i) - 1
  <2> DEFINE x == InOrder(N)[i]
             L == {n \in N : n < x}
             DL == {<<f, n>> : n \in L}
  <2>1. x \in N /\ Cardinality(L) = i - 1 /\ i \in Nat
    <3>1. i \in 1..q /\ i \in Nat
      BY <1>3, <1>5
    <3> QED
      BY <1>4, <3>1
  <2>2. s[m + i] = <<f, x>>
    BY <1>6
  <2>3. m = p
    BY <1>1, <1>2, <1>3, <1>5
  <2> HIDE DEF x
  <2>4. \A n \in N : Precedes(<<f, n>>, <<f, x>>) <=> n < x
    BY DEF Precedes
  <2>5. {hit \in all : Precedes(hit, <<f, x>>)} = P \union DL
    <3>1. \A hit \in P : Precedes(hit, <<f, x>>)
      BY <1>7, <2>1
    <3>2. \A hit \in D : Precedes(hit, <<f, x>>) <=> hit \in DL
      BY <2>4
    <3>3. DL \subseteq D
      OBVIOUS
    <3> HIDE DEF D, DL
    <3> QED
      BY <3>1, <3>2, <3>3
  <2>6. L \in SUBSET N /\ IsFiniteSet(L)
    BY FS_Subset
  <2>7. IsFiniteSet(DL) /\ Cardinality(DL) = i - 1
    BY <2>1, <2>6, PairsCount
  <2>8. \A hit \in P : hit \notin DL
    BY <1>9, <2>6
  <2> HIDE DEF DL, L, p
  <2>9. Cardinality(P \union DL) = Cardinality(P) + Cardinality(DL)
    BY <1>2, <2>7, <2>8, DisjointCount
  <2>10. (m + i) - 1 = p + (i - 1) /\ p \in Nat
    BY <1>2, <2>1, <2>3
  <2>11. s[m + i] \in all
    BY <2>1, <2>2
  <2> QED
    BY <2>2, <2>5, <2>7, <2>9, <2>10, <2>11 DEF p
<1> HIDE DEF p, all
<1>13. Len(s) = IF p + q < MatchLimit THEN p + q ELSE MatchLimit
  <2>1. Len(s) = m + r
    BY <1>6
  <2>2. m = IF p < MatchLimit THEN p ELSE MatchLimit
    BY <1>2
  <2>3. p \in Nat /\ q \in Nat /\ MatchLimit \in Nat /\ m \in Nat /\ r \in Nat
    BY <1>1, <1>2, <1>3, <1>5
  <2>4. r = IF q < MatchLimit - m THEN q ELSE MatchLimit - m
    BY <1>5
  <2>5. CASE p < MatchLimit
    BY <2>1, <2>2, <2>3, <2>4, <2>5
  <2>6. CASE ~(p < MatchLimit)
    <3>1. m = MatchLimit /\ r = 0
      BY <2>2, <2>3, <2>4, <2>6
    <3> QED
      BY <2>1, <2>3, <2>6, <3>1
  <2> QED
    BY <2>5, <2>6
<1>14. ASSUME NEW k \in DOMAIN s
       PROVE  s[k] \in all /\ Cardinality({hit \in all : Precedes(hit, s[k])}) = k - 1
  <2>1. k \in 1..(m + r)
    <3>1. DOMAIN s = 1..Len(s)
      BY <1>6
    <3> QED
      BY <1>6, <3>1
  <2>2. k \in 1..m \/ (k - m \in 1..r /\ m + (k - m) = k)
    BY <1>1, <1>5, <2>1
  <2> QED
    BY <1>11, <1>12, <2>2
<1>15. Answers(all, s, p + q)
  BY <1>10, <1>13, <1>14 DEF Answers
<1> QED
  BY <1>2, <1>15 DEF all, s, p, q


(* The scan counts and shows the matches of the lines it has come to the end of.       *)
LEMMA ConsumesHits ==
    ASSUME SearchTypeOK, scan.file \in DOMAIN files, scan.line \in Nat, NEW to \in 0..Len(File), Consume(to),
           scan.line <= to, NEW P, Answers(P, found.matches, found.total),
           \A hit \in P : hit[1] \in Nat /\ hit[2] \in Nat /\ ScanPast(hit)
    PROVE  /\ found' \in [matches : Seq(Nat \X Nat), total : Nat, fate : {"searching", "answered", "cancelled"}]
           /\ found'.fate = found.fate /\ Len(found'.matches) <= MatchLimit
           /\ Answers(P \union ConsumedTo(to), found'.matches, found'.total)
<1> DEFINE f == scan.file
           N == {n \in (scan.line + 1)..to : Matches(n)}
           h == InOrder(N)
           room == MatchLimit - Len(found.matches)
           t == [k \in DOMAIN FirstOf(h, room) |-> <<f, FirstOf(h, room)[k]>>]
<1>1. /\ found \in [matches : Seq(Nat \X Nat), total : Nat, fate : {"searching", "answered", "cancelled"}]
      /\ Len(found.matches) \in Nat /\ Len(found.matches) <= MatchLimit /\ MatchLimit \in Nat
      /\ f \in Nat
  BY SearchAssumption DEF SearchTypeOK
<1>2. Len(File) \in Nat
  BY FileFacts
<1>3. N \in SUBSET Nat /\ IsFiniteSet(N)
  <2>1. scan.line + 1 \in Int /\ to \in Int
    BY <1>2
  <2>2. IsFiniteSet((scan.line + 1)..to)
    BY <2>1, FS_Interval
  <2>3. N \in SUBSET ((scan.line + 1)..to)
    OBVIOUS
  <2>4. IsFiniteSet(N)
    BY <2>2, <2>3, FS_Subset
  <2> QED
    BY <1>2, <2>4
<1>4. h \in Seq(Nat) /\ Len(h) = Cardinality(N) /\ Cardinality(N) \in Nat
  <2> HIDE DEF N
  <2> DEFINE s == h
  <2>1. s \in Seq(N) /\ Len(s) = Cardinality(N) /\ Cardinality(N) \in Nat
    BY <1>3, InOrderIsSeq
  <2> HIDE DEF s, h
  <2>2. Len(s) \in Nat /\ s = [i \in 1..Len(s) |-> s[i]] /\ \A i \in 1..Len(s) : s[i] \in N
    BY <2>1
  <2>3. \A i \in 1..Len(s) : s[i] \in Nat
    BY <1>3, <2>2
  <2>4. s \in Seq(Nat)
    BY <2>2, <2>3
  <2> QED
    BY <2>1, <2>4 DEF s
<1>5. room \in Nat
  BY <1>1
<1>6. found' = [matches |-> found.matches \o t, total |-> found.total + Len(h), fate |-> found.fate]
  BY <1>1 DEF Consume, FirstOf
<1> HIDE DEF N, h, t, room
<1>7. t \in Seq(Nat \X Nat) /\ Len(t) = Fewer(Len(h), room) /\ \A i \in 1..Len(t) : t[i] = <<f, h[i]>>
  <2>1. h \in Seq(Nat) /\ room \in Nat /\ f \in Nat
    BY <1>1, <1>4, <1>5
  <2>2. t = Tagged(f, h, room)
    BY DEF t, Tagged
  <2> QED
    BY <2>1, <2>2, FirstAre
<1>8. /\ found.matches \o t \in Seq(Nat \X Nat)
      /\ Len(found.matches \o t) = Len(found.matches) + Len(t)
  <2> DEFINE NumberPairs == Nat \X Nat
             u == found.matches
  <2>1. u \in Seq(NumberPairs) /\ t \in Seq(NumberPairs)
    BY <1>1, <1>7
  <2> HIDE DEF NumberPairs, u
  <2>2. u \o t \in Seq(NumberPairs) /\ Len(u \o t) = Len(u) + Len(t)
    BY <2>1, JoinedAre
  <2> QED
    BY <2>2 DEF NumberPairs, u
<1>9. Len(found.matches) + Len(t) <= MatchLimit
  BY <1>1, <1>4, <1>5, <1>7 DEF Fewer, room
<1>10. /\ found' \in [matches : Seq(Nat \X Nat), total : Nat, fate : {"searching", "answered", "cancelled"}]
       /\ found'.fate = found.fate /\ Len(found'.matches) <= MatchLimit
       /\ found'.matches = found.matches \o t /\ found'.total = found.total + Cardinality(N)
  <2>1. found.total + Len(h) \in Nat
    BY <1>1, <1>4
  <2> QED
    BY <1>1, <1>4, <1>6, <1>8, <1>9, <2>1
<1>11. Answers(P \union ConsumedTo(to), found'.matches, found'.total)
  <2>1. \A hit \in P : hit[1] \in Nat /\ hit[2] \in Nat /\ ScanPast(hit)
    OBVIOUS
  <2>2. ConsumedTo(to) = {<<f, n>> : n \in N}
    BY DEF ConsumedTo, N
  <2>3. ASSUME NEW hit \in P
        PROVE  hit[1] \in Nat /\ hit[2] \in Nat /\ \A n \in N : Precedes(hit, <<f, n>>)
    <3>1. hit[1] \in Nat /\ hit[2] \in Nat /\ (hit[1] < f \/ (hit[1] = f /\ hit[2] <= scan.line))
      BY <2>1 DEF ScanPast
    <3>2. \A n \in N : n \in Nat /\ scan.line < n
      BY <1>2 DEF N
    <3>3. \A n \in N : hit[1] < f \/ (hit[1] = f /\ hit[2] < n)
      BY <3>1, <3>2
    <3> QED
      BY <3>1, <3>3 DEF Precedes
  <2> DEFINE u == found.matches
             total == found.total
  <2>4. /\ u \in Seq(Nat \X Nat) /\ Len(u) <= MatchLimit /\ Answers(P, u, total)
        /\ t \in Seq(Nat \X Nat) /\ Len(t) = Fewer(Cardinality(N), MatchLimit - Len(u))
        /\ \A i \in 1..Len(t) : t[i] = <<f, InOrder(N)[i]>>
    BY <1>1, <1>4, <1>7 DEF room, h
  <2> HIDE DEF u, total, f
  <2>6. f \in Nat
    BY <1>1
  <2>7. Answers(P \union {<<f, n>> : n \in N}, u \o t, total + Cardinality(N))
    BY <1>3, <2>3, <2>4, <2>6, MoreAreShown
  <2> QED
    BY <1>10, <2>2, <2>7 DEF u, total
<1> QED
  BY <1>10, <1>11


(* A file that is begun has not been read.                                      *)
LEMMA FileBegins ==
    ASSUME SearchTypeOK, NEW n \in 1..(Len(files) + 1), UNCHANGED <<pattern, files>>, scan' = NextFile(n)
    PROVE  /\ scan' \in [file : 1..(Len(files) + 1), read : Nat, line : Nat, dropped : Nat, discarding : BOOLEAN]
           /\ ScanFits'
           /\ Hits' = Hits /\ MayMatch' = MayMatch
           /\ \A hit \in MayMatch : ScanPast(hit)' <=> hit[1] < n
<1>1. scan' = [file |-> n, read |-> 0, line |-> 0, dropped |-> 0, discarding |-> FALSE]
  BY DEF NextFile
<1>2. ScanFits'
  <2> SUFFICES ASSUME n \in DOMAIN files
               PROVE  /\ scan'.line \in 0..Len(File)' /\ LineEnd(scan.line)' <= scan'.read /\ scan'.read <= FileSize'
                      /\ \A m \in 0..Len(File)' : LineEnd(m)' <= scan'.read => m <= scan'.line
    BY <1>1 DEF ScanFits
  <2> DEFINE file == files[n]
  <2>1. /\ Len(file) \in Nat /\ EndIn(file, 0) = 0 /\ SizeOf(file) \in Nat
        /\ \A m \in 0..Len(file) : EndIn(file, m) \in Nat
        /\ \A i, j \in 0..Len(file) : i < j => EndIn(file, i) < EndIn(file, j)
    BY LinesFollow
  <2>2. File' = file /\ (\A m : LineEnd(m)' = EndIn(file, m)) /\ FileSize' = SizeOf(file)
    BY <1>1 DEF File, LineEnd, FileSize, EndIn, SizeOf
  <2>3. LineEnd(scan.line)' = EndIn(file, 0)
    BY <1>1 DEF File, LineEnd, EndIn
  <2> HIDE DEF file
  <2>4. ASSUME NEW m \in 0..Len(file), EndIn(file, m) <= 0
        PROVE  m <= 0
    <3>1. 0 \in 0..Len(file) /\ m \in Nat
      BY <2>1
    <3>2. 0 < m => EndIn(file, 0) < EndIn(file, m)
      BY <2>1, <3>1
    <3> QED
      BY <2>1, <2>4, <3>1, <3>2
  <2> QED
    BY <1>1, <2>1, <2>2, <2>3, <2>4
<1>3. Hits' = Hits /\ MayMatch' = MayMatch
  BY DEF Hits, MayMatch, TooLong
<1>4. \A hit \in MayMatch : hit[2] \in Nat \ {0}
  BY HitsArePairs
<1>5. \A hit : ScanPast(hit)' <=> hit[1] < n \/ (hit[1] = n /\ hit[2] <= 0)
  BY <1>1 DEF ScanPast
<1>6. \A hit \in MayMatch : ~(hit[2] <= 0)
  BY <1>4
<1> QED
  BY <1>1, <1>2, <1>3, <1>5, <1>6

LEMMA SearchBegins == SearchInit => SearchInv
<1> SUFFICES ASSUME SearchInit
             PROVE  SearchInv
  OBVIOUS
<1>1. \A S, n : n \in Nat => BoundedSeq(S, n) \subseteq Seq(S)
  BY DEF BoundedSeq, SeqOf
<1>2. {MaxFiles, MaxFileLines, MatchLimit} \subseteq Nat
  BY SearchAssumption
<1>3. files \in Seq(Seq(Lines)) /\ \A f \in DOMAIN files : Ends(files[f])
  <2> DEFINE S == {f \in BoundedSeq(Lines, MaxFileLines) : Ends(f)}
  <2>1. files \in Seq(S)
    BY <1>1, <1>2 DEF SearchInit
  <2>2. S \subseteq Seq(Lines) /\ \A f \in S : Ends(f)
    BY <1>1, <1>2
  <2> HIDE DEF S
  <2>3. \A f \in DOMAIN files : files[f] \in S
    BY <2>1
  <2>4. files \in Seq(Seq(Lines))
    <3>1. Len(files) \in Nat /\ files = [f \in 1..Len(files) |-> files[f]] /\ DOMAIN files = 1..Len(files)
      BY <2>1
    <3>2. \A f \in 1..Len(files) : files[f] \in Seq(Lines)
      BY <2>2, <2>3, <3>1
    <3> QED
      BY <3>1, <3>2
  <2> QED
    BY <2>2, <2>3, <2>4
<1>4. /\ pattern \in [empty : BOOLEAN, unended : BOOLEAN] /\ unread = {}
      /\ scan = [file |-> 1, read |-> 0, line |-> 0, dropped |-> 0, discarding |-> FALSE]
      /\ found = [matches |-> <<>>, total |-> 0, fate |-> "searching"]
  BY DEF SearchInit, NextFile
<1>5. Len(files) \in Nat /\ 1 \in 1..(Len(files) + 1)
  BY <1>3
<1>6. found \in [matches : Seq(Nat \X Nat), total : Nat, fate : {"searching", "answered", "cancelled"}]
  BY <1>4
<1>7. SearchTypeOK
  BY <1>2, <1>3, <1>4, <1>5, <1>6 DEF SearchTypeOK
<1>8. ScanFits
  <2> SUFFICES ASSUME scan.file \in DOMAIN files
               PROVE  ScanFits
    BY DEF ScanFits
  <2>1. /\ Len(File) \in Nat /\ LineEnd(0) = 0 /\ FileSize \in Nat
        /\ \A m \in 0..Len(File) : LineEnd(m) \in Nat
        /\ \A i, j \in 0..Len(File) : i < j => LineEnd(i) < LineEnd(j)
    BY <1>7, FileFacts
  <2>2. ASSUME NEW m \in 0..Len(File), LineEnd(m) <= 0
        PROVE  m <= 0
    <3>1. 0 \in 0..Len(File) /\ m \in Nat
      BY <2>1
    <3>2. 0 < m => LineEnd(0) < LineEnd(m)
      BY <2>1, <3>1
    <3> QED
      BY <2>1, <2>2, <3>1, <3>2
  <2> QED
    BY <1>4, <2>1, <2>2 DEF ScanFits
<1>9. \A hit \in Hits : ~ScanPast(hit)
  <2>1. \A hit \in Hits : hit[1] \in Nat \ {0} /\ hit[2] \in Nat \ {0}
    BY <1>5, <1>7, HitsArePairs
  <2>2. \A hit \in Hits : ~(hit[1] < 1 \/ (hit[1] = 1 /\ hit[2] <= 0))
    BY <2>1
  <2> QED
    BY <1>4, <2>2 DEF ScanPast
<1>10. ShownAre({})
  <2>1. Cardinality({}) = 0 /\ IsFiniteSet({})
    BY FS_EmptySet
  <2>2. Len(<<>>) = 0 /\ DOMAIN <<>> = {}
    OBVIOUS
  <2>3. Answers({}, found.matches, found.total)
    BY <1>2, <1>4, <2>1, <2>2 DEF Answers
  <2> QED
    BY <1>9, <2>3 DEF ShownAre
<1> QED
  BY <1>4, <1>7, <1>8, <1>10 DEF SearchInv


LEMMA ChunkKeeps == SearchInv /\ (\E size \in Nat : SearchChunk(size)) => SearchInv'
<1> SUFFICES ASSUME SearchInv, NEW size \in Nat, SearchChunk(size)
             PROVE  SearchInv'
  OBVIOUS
<1> DEFINE S == {n \in 0..Len(File) : LineEnd(n) <= scan.read + size}
           to == Max(S)
           rest == scan.read + size - LineEnd(to)
           drops == IF to > scan.line \/ ~scan.discarding THEN rest > LineLimit ELSE TRUE
<1>1. /\ SearchTypeOK /\ scan.file \in DOMAIN files /\ found.fate = "searching"
      /\ scan \in [file : 1..(Len(files) + 1), read : Nat, line : Nat, dropped : Nat, discarding : BOOLEAN]
      /\ LineLimit \in Nat /\ MatchLimit \in Nat
  BY SearchAssumption DEF SearchInv, SearchTypeOK, SearchChunk
<1>2. /\ Len(File) \in Nat /\ DOMAIN File = 1..Len(File) /\ LineEnd(0) = 0
      /\ \A n \in 1..Len(File) : File[n].bytes \in Nat \ {0} /\ File[n].hit \in BOOLEAN
      /\ \A n \in 0..Len(File) : LineEnd(n) \in Nat
      /\ \A n \in 1..Len(File) : LineEnd(n) = LineEnd(n - 1) + File[n].bytes
      /\ \A i, j \in 0..Len(File) : i < j => LineEnd(i) < LineEnd(j)
      /\ FileSize \in Nat /\ (FileSize = LineEnd(Len(File)) \/ FileSize + 1 = LineEnd(Len(File)))
  BY <1>1, FileFacts
<1>3. /\ scan.line \in 0..Len(File) /\ LineEnd(scan.line) <= scan.read /\ scan.read <= FileSize
      /\ \A n \in 0..Len(File) : LineEnd(n) <= scan.read => n <= scan.line
      /\ scan.dropped = IF scan.discarding THEN scan.line + 1 ELSE 0
      /\ scan.discarding => scan.line < Len(File) /\ Long(File[scan.line + 1])
  BY <1>1 DEF SearchInv, ScanFits
<1>4. size \in 1..(FileSize - scan.read)
  BY DEF SearchChunk
<1>5. scan.line \in S /\ S \subseteq 0..Len(File)
  <2>1. LineEnd(scan.line) \in Nat /\ scan.read \in Nat
    BY <1>1, <1>2, <1>3
  <2> QED
    BY <1>3, <2>1
<1>6. to \in S /\ \A n \in S : to >= n
  <2> HIDE DEF S
  <2> QED
    BY <1>2, <1>5, GreatestNumber
<1>7. /\ Consume(to) /\ UNCHANGED <<pattern, files, unread>>
      /\ scan' = [scan EXCEPT !.read = @ + size, !.line = to, !.discarding = drops,
                              !.dropped = IF drops THEN to + 1 ELSE 0]
  BY DEF SearchChunk
<1>8. /\ to \in 0..Len(File) /\ to \in Nat /\ LineEnd(to) <= scan.read + size /\ scan.line <= to
      /\ \A n \in 0..Len(File) : LineEnd(n) <= scan.read + size => n <= to
      /\ LineEnd(to) \in Nat
  <2>1. to \in 0..Len(File) /\ LineEnd(to) <= scan.read + size
    BY <1>6
  <2>2. \A n \in S : n <= to
    BY <1>2, <1>6
  <2> HIDE DEF to
  <2>3. LineEnd(to) \in Nat
    BY <1>2, <2>1
  <2> QED
    BY <1>2, <1>5, <2>1, <2>2, <2>3
<1> HIDE DEF to, S
<1>18. scan.read \in Nat /\ scan.discarding \in BOOLEAN /\ scan.read + size \in Nat /\ scan.read + size <= FileSize
  BY <1>1, <1>2, <1>4
<1>9. rest \in Nat /\ drops \in BOOLEAN
  <2>1. rest \in Nat
    BY <1>8, <1>18
  <2>2. (rest > LineLimit) \in BOOLEAN /\ TRUE \in BOOLEAN
    OBVIOUS
  <2> DEFINE over == rest > LineLimit
  <2>3. drops = over \/ drops = TRUE
    BY Zenon
  <2> HIDE DEF rest, over, drops
  <2>4. drops \in BOOLEAN
    BY <2>2, <2>3, Zenon DEF over
  <2> QED
    BY <2>1, <2>4
<1>10. scan' = [file |-> scan.file, read |-> scan.read + size, line |-> to, discarding |-> drops,
                dropped |-> IF drops THEN to + 1 ELSE 0]
  BY <1>1, <1>7
(* What is dropped is the start of a line that is too long.                      *)
<1>11. drops => to < Len(File) /\ Long(File[to + 1])
  <2>1. CASE to = scan.line /\ scan.discarding
    BY <1>3, <2>1
  <2>2. CASE ~(to = scan.line /\ scan.discarding)
    <3> SUFFICES ASSUME drops
                 PROVE  to < Len(File) /\ Long(File[to + 1])
      OBVIOUS
    <3>1. rest > LineLimit
      BY <1>3, <1>8, <2>2
    <3>2. scan.read + size <= LineEnd(Len(File)) /\ LineEnd(Len(File)) \in Nat
      <4>1. Len(File) \in 0..Len(File)
        BY <1>2
      <4>2. LineEnd(Len(File)) \in Nat
        BY <1>2, <4>1
      <4> QED
        BY <1>2, <1>18, <4>2
    <3>3. to # Len(File)
      <4>1. to = Len(File) => rest <= 0
        BY <1>8, <1>18, <3>2
      <4> QED
        BY <1>1, <1>9, <3>1, <4>1
    <3>4. to + 1 \in 1..Len(File) /\ to + 1 \in 0..Len(File) /\ (to + 1) - 1 = to /\ to < Len(File)
      <4> HIDE DEF rest, drops
      <4>2. to \in 0..Len(File) /\ Len(File) \in Nat
        BY <1>2, <1>8
      <4>1. to \in Nat /\ Len(File) \in Nat /\ to <= Len(File) /\ to # Len(File)
        BY <3>3, <4>2
      <4> QED
        BY <4>1
    <3>5. ~(LineEnd(to + 1) <= scan.read + size)
      BY <1>8, <3>4
    <3>6. LineEnd(to + 1) = LineEnd(to) + File[to + 1].bytes /\ LineEnd(to + 1) \in Nat /\ File[to + 1].bytes \in Nat
      BY <1>2, <3>4
    <3>7. File[to + 1].bytes - 1 > LineLimit
      <4> DEFINE a == LineEnd(to)
                 b == LineEnd(to + 1)
                 upto == scan.read + size
                 w == File[to + 1].bytes
      <4>1. a \in Nat /\ b \in Nat /\ upto \in Nat /\ w \in Nat /\ LineLimit \in Nat
        BY <1>1, <1>8, <1>18, <3>6
      <4>2. b = a + w
        BY <3>6
      <4>4. ~(b <= upto)
        BY <3>5
      <4>5. upto - a > LineLimit
        <5>1. scan.read \in Nat /\ size \in Nat /\ LineEnd(to) \in Nat
          BY <1>8, <1>18
        <5>2. rest = upto - a
          BY <5>1
        <5> HIDE DEF rest, a, upto
        <5> QED
          BY <3>1, <5>2
      <4> HIDE DEF a, b, upto, w
      <4>3. w - 1 > LineLimit
        BY <4>1, <4>2, <4>4, <4>5
      <4> QED
        BY <4>3 DEF w
    <3> QED
      BY <1>1, <3>4, <3>6, <3>7 DEF Long
  <2> QED
    BY <2>1, <2>2
<1> HIDE DEF drops
<1>12. ScanFits' /\ ScanFits
  <2>1. File' = File /\ FileSize' = FileSize /\ \A n : LineEnd(n)' = LineEnd(n)
    BY <1>7, <1>10 DEF File, FileSize, LineEnd
  <2>2. LineEnd(scan.line)' = LineEnd(to)
    BY <1>7, <1>10 DEF File, LineEnd
  <2>3. scan.read + size <= FileSize
    BY <1>1, <1>2, <1>4
  <2>4. /\ scan'.line = to /\ scan'.read = scan.read + size /\ scan'.discarding = drops
        /\ scan'.dropped = IF drops THEN to + 1 ELSE 0
    BY <1>10
  <2> QED
    BY <1>8, <1>9, <1>11, <2>1, <2>2, <2>3, <2>4 DEF ScanFits, Long, SearchInv
<1>13. PICK theirs : ShownAre(theirs)
  BY <1>1 DEF SearchInv
<1>19. \A hit \in MayMatch : hit[1] \in Nat /\ hit[2] \in Nat
  BY <1>1, HitsArePairs
<1>20. /\ found' \in [matches : Seq(Nat \X Nat), total : Nat, fate : {"searching", "answered", "cancelled"}]
       /\ found'.fate = found.fate /\ Len(found'.matches) <= MatchLimit
       /\ Answers(theirs \union ConsumedTo(to), found'.matches, found'.total)
  <2>1. /\ Answers(theirs, found.matches, found.total)
        /\ \A hit \in theirs : hit[1] \in Nat /\ hit[2] \in Nat /\ ScanPast(hit)
    BY <1>13, <1>19 DEF ShownAre
  <2>2. scan.line \in Nat
    BY <1>1
  <2> QED
    BY <1>1, <1>7, <1>8, <2>1, <2>2, ConsumesHits
<1>14. SearchTypeOK'
  <2>1. scan' \in [file : 1..(Len(files) + 1), read : Nat, line : Nat, dropped : Nat, discarding : BOOLEAN]
    BY <1>1, <1>8, <1>9, <1>10
  <2>2. /\ pattern' = pattern /\ files' = files /\ unread' = unread
    BY <1>7
  <2> QED
    BY <1>1, <1>20, <2>1, <2>2 DEF SearchTypeOK, Lines, Ends
<1>15. (\E all : ShownAre(all))'
  <2> PICK all : all = theirs \union ConsumedTo(to)
    OBVIOUS
  <2>1. /\ ConsumedTo(to) \subseteq MayMatch
        /\ \A hit \in ConsumedTo(to) : hit[1] = scan.file /\ hit[2] \in (scan.line + 1)..to
        /\ \A hit \in Hits : hit[1] = scan.file /\ scan.line < hit[2] /\ hit[2] <= to => hit \in ConsumedTo(to)
    BY <1>1, <1>8, <1>12, ConsumedAre
  <2>2. Hits' = Hits /\ MayMatch' = MayMatch /\ unread' = unread /\ Hits \subseteq MayMatch
    BY <1>1, <1>7, HitsArePairs DEF Hits, MayMatch, TooLong
  <2>3. \A hit : ScanPast(hit)' <=> hit[1] < scan.file \/ (hit[1] = scan.file /\ hit[2] <= to)
    BY <1>10 DEF ScanPast
  <2>4. \A hit \in MayMatch : ScanPast(hit)' <=>
                                  ScanPast(hit) \/ (hit[1] = scan.file /\ scan.line < hit[2] /\ hit[2] <= to)
    <3>1. \A hit \in MayMatch : hit[2] <= to <=> hit[2] <= scan.line \/ (scan.line < hit[2] /\ hit[2] <= to)
      BY <1>1, <1>8, <1>19
    <3> QED
      BY <2>3, <3>1 DEF ScanPast
  <2>5. /\ theirs \subseteq MayMatch /\ \A hit \in theirs : ScanPast(hit)
        /\ \A hit \in Hits : ScanPast(hit) /\ hit[1] \notin unread => hit \in theirs
    BY <1>13 DEF ShownAre
  <2>6. \A hit \in ConsumedTo(to) : hit[1] = scan.file /\ hit[2] <= to
    BY <1>8, <2>1
  <2>7. all \subseteq MayMatch /\ \A hit \in all : ScanPast(hit)'
    BY <2>1, <2>3, <2>4, <2>5, <2>6
  <2>8. \A hit \in Hits : ScanPast(hit)' /\ hit[1] \notin unread => hit \in all
    BY <2>1, <2>2, <2>4, <2>5
  <2>9. Answers(all, found'.matches, found'.total)
    BY <1>20
  <2>10. ShownAre(all)'
    BY <2>2, <2>7, <2>8, <2>9 DEF ShownAre, Answers, Precedes
  <2> QED
    BY <2>10
<1>16. found'.fate # "answered"
  BY <1>1, <1>20
<1> QED
  BY <1>12, <1>14, <1>15, <1>16 DEF SearchInv


LEMMA FileEndsKeeps == SearchInv /\ FileEnds => SearchInv'
<1> SUFFICES ASSUME SearchInv, FileEnds
             PROVE  SearchInv'
  OBVIOUS
<1> DEFINE f == scan.file
           k == Len(File)
<1>1. /\ SearchTypeOK /\ f \in DOMAIN files /\ found.fate = "searching" /\ scan.read = FileSize
      /\ scan \in [file : 1..(Len(files) + 1), read : Nat, line : Nat, dropped : Nat, discarding : BOOLEAN]
      /\ files \in Seq(Seq(Lines))
  BY DEF SearchInv, SearchTypeOK, FileEnds
<1>2. /\ k \in Nat /\ \A n \in 0..k : LineEnd(n) \in Nat
      /\ \A n \in 1..k : LineEnd(n) = LineEnd(n - 1) + File[n].bytes /\ File[n].bytes \in Nat \ {0}
      /\ FileSize \in Nat
      /\ (FileSize = LineEnd(k) \/ (FileSize + 1 = LineEnd(k) /\ k > 0 /\ File[k].bytes > 1))
  BY <1>1, FileFacts
<1>3. /\ scan.line \in 0..k
      /\ \A n \in 0..k : LineEnd(n) <= FileSize => n <= scan.line
      /\ scan.dropped = IF scan.discarding THEN scan.line + 1 ELSE 0
      /\ scan.discarding => scan.line < k /\ Long(File[scan.line + 1])
  BY <1>1 DEF SearchInv, ScanFits
<1>4. /\ UNCHANGED <<pattern, files, unread>> /\ scan' = NextFile(f + 1)
      /\ IF scan.discarding THEN UNCHANGED found ELSE Consume(k)
  BY DEF FileEnds
<1>5. f \in Nat /\ f + 1 \in 1..(Len(files) + 1)
  BY <1>1
<1>6. /\ scan' \in [file : 1..(Len(files) + 1), read : Nat, line : Nat, dropped : Nat, discarding : BOOLEAN]
      /\ ScanFits' /\ Hits' = Hits /\ MayMatch' = MayMatch
      /\ \A hit \in MayMatch : ScanPast(hit)' <=> hit[1] < f + 1
  BY <1>1, <1>4, <1>5, FileBegins
<1>7. /\ \A hit \in MayMatch : hit = <<hit[1], hit[2]>> /\ hit[1] \in Nat /\ hit[2] \in Nat
      /\ \A n : <<f, n>> \in Hits <=> n \in 1..k /\ File[n].hit /\ ~Long(File[n])
      /\ Hits \subseteq MayMatch
  BY <1>1, HitsOfTheFile, HitsArePairs
<1>8. PICK theirs : ShownAre(theirs)
  BY DEF SearchInv
<1>11. /\ theirs \subseteq MayMatch /\ \A hit \in theirs : ScanPast(hit)
       /\ \A hit \in Hits : ScanPast(hit) /\ hit[1] \notin unread => hit \in theirs
       /\ Answers(theirs, found.matches, found.total)
  BY <1>8 DEF ShownAre
<1>12. ScanFits /\ f \in 1..(Len(files) + 1)
  BY <1>1 DEF SearchInv
(* Matches of the rest of the file are all that is added.                           *)
<1>13. ASSUME NEW rest \in SUBSET MayMatch, \A hit \in rest : hit[1] = f,
              \A hit \in Hits : hit[1] = f /\ scan.line < hit[2] /\ hit[2] <= k => hit \in rest,
              Answers(theirs \union rest, found'.matches, found'.total)
       PROVE  (\E all : ShownAre(all))'
  <2> DEFINE all == theirs \union rest
  <2>1. \A hit \in Hits : hit[1] = f => hit[2] <= k
    <3> SUFFICES ASSUME NEW hit \in Hits, hit[1] = f
                 PROVE  hit[2] <= k
      OBVIOUS
    <3>1. hit = <<f, hit[2]>>
      BY <1>7
    <3>2. hit[2] \in 1..k
      BY <1>7, <3>1
    <3> QED
      BY <1>2, <3>2
  <2>2. \A hit \in MayMatch : hit[1] < f + 1 <=> hit[1] < f \/ hit[1] = f
    BY <1>5, <1>7
  <2>3. \A hit \in Hits : hit[2] <= scan.line \/ scan.line < hit[2]
    BY <1>1, <1>7
  <2>4. \A hit \in Hits : ScanPast(hit)' => ScanPast(hit) \/ hit \in rest
    BY <1>6, <1>7, <1>13, <2>1, <2>2, <2>3 DEF ScanPast
  <2>5. \A hit \in all : hit \in MayMatch /\ ScanPast(hit)'
    <3>1. \A hit \in theirs : hit[1] < f \/ hit[1] = f
      BY <1>11 DEF ScanPast
    <3> QED
      BY <1>6, <1>11, <1>13, <2>2, <3>1
  <2>6. \A hit \in Hits : ScanPast(hit)' /\ hit[1] \notin unread => hit \in all
    BY <1>11, <2>4
  <2>7. Answers(all, found'.matches, found'.total)
    BY <1>13
  <2> HIDE DEF all
  <2>8. ShownAre(all)'
    BY <1>4, <1>6, <2>5, <2>6, <2>7 DEF ShownAre, Answers, Precedes
  <2> QED
    BY <2>8
<1> HIDE DEF f, k
<1>9. CASE scan.discarding
  <2>1. found' = found /\ Long(File[scan.line + 1]) /\ scan.line < k
    BY <1>3, <1>4, <1>9
  (* The line that is dropped is the last one of the file, without its newline.      *)
  <2>2. scan.line + 1 = k
    <3>1. k \in 0..k /\ k \in 1..k /\ k - 1 \in 0..k /\ scan.line \in Nat
      BY <1>1, <1>2, <2>1
    <3>2. FileSize # LineEnd(k)
      BY <1>2, <1>3, <2>1, <3>1
    <3>3. LineEnd(k - 1) <= FileSize
      <4>1. LineEnd(k) = LineEnd(k - 1) + File[k].bytes /\ File[k].bytes \in Nat /\ LineEnd(k - 1) \in Nat
        BY <1>2, <3>1
      <4> QED
        BY <1>2, <3>2, <4>1
    <3>4. k - 1 <= scan.line
      BY <1>3, <3>1, <3>3
    <3> QED
      BY <1>2, <2>1, <3>1, <3>4
  <2>3. ASSUME NEW hit \in Hits, hit[1] = f, scan.line < hit[2], hit[2] <= k
        PROVE  FALSE
    <3>1. hit = <<f, hit[2]>> /\ hit[2] \in Nat
      BY <1>7, <2>3
    <3>2. hit[2] = scan.line + 1
      BY <1>1, <1>2, <2>2, <2>3, <3>1
    <3> QED
      BY <1>7, <2>1, <3>1, <3>2
  <2>4. SearchTypeOK'
    BY <1>1, <1>4, <1>6, <2>1 DEF SearchTypeOK, Lines, Ends
  <2>5. (\E all : ShownAre(all))'
    <3> DEFINE none == {}
    <3>1. /\ none \in SUBSET MayMatch /\ \A hit \in none : hit[1] = f
          /\ \A hit \in Hits : hit[1] = f /\ scan.line < hit[2] /\ hit[2] <= k => hit \in none
          /\ theirs \union none = theirs
      BY <2>3
    <3>2. Answers(theirs \union none, found'.matches, found'.total)
      BY <1>11, <2>1, <3>1
    <3> HIDE DEF none
    <3> QED
      BY <1>13, <3>1, <3>2
  <2> QED
    BY <1>1, <1>4, <1>6, <2>1, <2>4, <2>5 DEF SearchInv
<1>10. CASE ~scan.discarding
  <2>1. Consume(k) /\ k \in 0..k /\ scan.line <= k /\ scan.line \in Nat
    BY <1>1, <1>2, <1>3, <1>4, <1>10
  <2>2. \A hit \in theirs : hit[1] \in Nat /\ hit[2] \in Nat /\ ScanPast(hit)
    BY <1>7, <1>11
  <2>3. /\ found' \in [matches : Seq(Nat \X Nat), total : Nat, fate : {"searching", "answered", "cancelled"}]
        /\ found'.fate = found.fate /\ Len(found'.matches) <= MatchLimit
        /\ Answers(theirs \union ConsumedTo(k), found'.matches, found'.total)
    BY <1>1, <1>11, <2>1, <2>2, ConsumesHits DEF k, f
  <2>4. /\ ConsumedTo(k) \subseteq MayMatch /\ \A hit \in ConsumedTo(k) : hit[1] = f
        /\ \A hit \in Hits : hit[1] = f /\ scan.line < hit[2] /\ hit[2] <= k => hit \in ConsumedTo(k)
    BY <1>1, <1>12, <2>1, ConsumedAre DEF k, f
  <2>5. SearchTypeOK'
    BY <1>1, <1>4, <1>6, <2>3 DEF SearchTypeOK, Lines, Ends
  <2>6. (\E all : ShownAre(all))'
    BY <1>13, <2>3, <2>4
  <2> QED
    BY <1>1, <1>4, <1>6, <2>3, <2>5, <2>6 DEF SearchInv
<1> QED
  BY <1>9, <1>10

LEMMA SearchIsKept == SearchInv /\ [SearchNext]_searchVars => SearchInv'
<1> SUFFICES ASSUME SearchInv, [SearchNext]_searchVars
             PROVE  SearchInv'
  OBVIOUS
<1>1. SearchTypeOK /\ scan.file \in 1..(Len(files) + 1) /\ files \in Seq(Seq(Lines))
  BY DEF SearchInv, SearchTypeOK
<1>2. CASE \E size \in 1..(MaxFileLines * Max({l.bytes : l \in LineKinds})) : SearchChunk(size)
  <2>1. PICK size : SearchChunk(size)
    BY <1>2
  <2>2. scan.file \in DOMAIN files /\ size \in 1..(FileSize - scan.read)
    BY <2>1 DEF SearchChunk
  <2>3. FileSize \in Nat /\ scan.read \in Nat
    BY <1>1, <2>2, FileFacts DEF SearchTypeOK
  <2>4. size \in Nat
    BY <2>2, <2>3
  <2> QED
    BY <2>1, <2>4, ChunkKeeps
<1>3. CASE FileEnds
  BY <1>3, FileEndsKeeps
<1>4. CASE FileFails
  <2>1. /\ scan.file \in DOMAIN files /\ found.fate = "searching"
        /\ UNCHANGED <<pattern, files, found>> /\ scan' = NextFile(scan.file + 1)
        /\ unread' = unread \union {scan.file}
    BY <1>4 DEF FileFails
  <2>2. scan.file + 1 \in 1..(Len(files) + 1)
    BY <1>1, <2>1
  <2>3. /\ scan' \in [file : 1..(Len(files) + 1), read : Nat, line : Nat, dropped : Nat, discarding : BOOLEAN]
        /\ ScanFits' /\ Hits' = Hits /\ MayMatch' = MayMatch
        /\ \A hit \in MayMatch : ScanPast(hit)' <=> hit[1] < scan.file + 1
    BY <1>1, <2>1, <2>2, FileBegins
  <2>4. SearchTypeOK'
    BY <1>1, <2>1, <2>3 DEF SearchTypeOK, Lines, Ends
  (* The matches of the file that failed stay, and it is among those not read to the end.  *)
  <2>5. PICK theirs : ShownAre(theirs)
    BY DEF SearchInv
  <2>6. /\ \A hit \in MayMatch : hit[1] \in Nat /\ (hit[1] < scan.file + 1 <=> hit[1] < scan.file \/ hit[1] = scan.file)
        /\ Hits \subseteq MayMatch
    <3>1. Hits \subseteq MayMatch /\ \A hit \in MayMatch : hit[1] \in 1..Len(files)
      BY <1>1, HitsArePairs
    <3> QED
      BY <1>1, <3>1
  <2>7. ShownAre(theirs)'
    <3>1. /\ theirs \subseteq MayMatch /\ \A hit \in theirs : ScanPast(hit)
          /\ \A hit \in Hits : ScanPast(hit) /\ hit[1] \notin unread => hit \in theirs
          /\ Answers(theirs, found.matches, found.total)
      BY <2>5 DEF ShownAre
    <3>2. \A hit \in theirs : ScanPast(hit)'
      BY <2>3, <2>6, <3>1 DEF ScanPast
    <3>3. \A hit \in Hits : ScanPast(hit)' /\ hit[1] \notin unread' => hit \in theirs
      BY <2>1, <2>3, <2>6, <3>1 DEF ScanPast
    <3> QED
      BY <2>1, <2>3, <3>1, <3>2, <3>3 DEF ShownAre, Answers, Precedes
  <2> QED
    BY <2>1, <2>3, <2>4, <2>7 DEF SearchInv
<1>5. CASE SearchEnds
  <2>1. /\ UNCHANGED <<pattern, files, scan, unread>>
        /\ \/ scan.file \notin DOMAIN files /\ found' = [found EXCEPT !.fate = "answered"]
           \/ found' = [found EXCEPT !.fate = "cancelled"]
        /\ found.fate = "searching"
    BY <1>5 DEF SearchEnds
  <2>2. /\ found \in [matches : Seq(Nat \X Nat), total : Nat, fate : {"searching", "answered", "cancelled"}]
        /\ Len(found.matches) <= MatchLimit
    BY <1>1 DEF SearchTypeOK
  <2>3. /\ found'.matches = found.matches /\ found'.total = found.total
        /\ found'.fate \in {"answered", "cancelled"}
        /\ found' = [matches |-> found.matches, total |-> found.total, fate |-> found'.fate]
        /\ found'.fate = "answered" => scan.file \notin DOMAIN files
    BY <2>1, <2>2
  <2>4. SearchTypeOK'
    <3>1. found' \in [matches : Seq(Nat \X Nat), total : Nat, fate : {"searching", "answered", "cancelled"}]
      BY <2>2, <2>3
    <3> QED
      BY <1>1, <2>1, <2>2, <2>3, <3>1 DEF SearchTypeOK, Lines, Ends
  <2>6. \A theirs : ShownAre(theirs) => ShownAre(theirs)'
    <3>1. Hits' = Hits /\ MayMatch' = MayMatch /\ unread' = unread /\ \A hit : ScanPast(hit)' <=> ScanPast(hit)
      BY <2>1 DEF Hits, MayMatch, TooLong, ScanPast
    <3>2. \A theirs : Answers(theirs, found'.matches, found'.total) <=> Answers(theirs, found.matches, found.total)
      BY <2>3
    <3> SUFFICES ASSUME NEW theirs, ShownAre(theirs)
                 PROVE  ShownAre(theirs)'
      OBVIOUS
    <3>3. Answers(theirs, found.matches, found.total)'
      BY <3>2 DEF ShownAre, Answers, Precedes
    <3> QED
      BY <3>1, <3>3 DEF ShownAre
  <2>7. ScanFits => ScanFits'
    BY <2>1 DEF ScanFits, File, FileSize, LineEnd
  <2> QED
    BY <2>1, <2>3, <2>4, <2>6, <2>7 DEF SearchInv
<1>6. CASE UNCHANGED searchVars
  <2>1. UNCHANGED <<pattern, files, scan, found, unread>>
    BY <1>6 DEF searchVars
  <2>2. SearchTypeOK' /\ (ScanFits => ScanFits')
    BY <1>1, <2>1 DEF SearchTypeOK, Lines, Ends, ScanFits, File, FileSize, LineEnd
  <2>3. \A theirs : ShownAre(theirs) => ShownAre(theirs)'
    BY <2>1 DEF ShownAre, ScanPast, Hits, MayMatch, TooLong, Answers, Precedes
  <2> QED
    BY <2>1, <2>2, <2>3 DEF SearchInv
<1> QED
  BY <1>2, <1>3, <1>4, <1>5, <1>6 DEF SearchNext

(* An answer counts the matching lines of every file that was read to its end, each once and    *)
(* wherever the chunks of the file begin and end, and shows the first of what it counts under   *)
(* their own numbers and in order.  Besides them it counts only matching lines of the files that *)
(* failed, and lines over the limit if the pattern matches the empty line.                      *)
THEOREM MatchesAreAnswered == SearchSpec => [](SearchTypeOK /\ MatchesAreTheirs)
<1>1. SearchInv => MatchesAreTheirs
  <2> SUFFICES ASSUME SearchInv, found.fate = "answered"
               PROVE  \E hits \in SUBSET MayMatch :
                        /\ \A hit \in Hits : hit[1] \notin unread => hit \in hits
                        /\ Answers(hits, found.matches, found.total)
    BY DEF MatchesAreTheirs
  <2>1. PICK theirs : ShownAre(theirs)
    BY DEF SearchInv
  <2>2. SearchTypeOK /\ scan.file \notin DOMAIN files
    BY DEF SearchInv
  <2>3. files \in Seq(Seq(Lines)) /\ scan.file \in 1..(Len(files) + 1)
    BY <2>2 DEF SearchTypeOK
  <2>4. \A hit \in Hits : hit[1] \in 1..Len(files)
    BY <2>2, HitsArePairs
  <2>5. \A hit \in Hits : ScanPast(hit)
    BY <2>2, <2>3, <2>4 DEF ScanPast
  <2>6. /\ theirs \in SUBSET MayMatch /\ \A hit \in Hits : hit[1] \notin unread => hit \in theirs
        /\ Answers(theirs, found.matches, found.total)
    BY <2>1, <2>5 DEF ShownAre
  <2> QED
    BY <2>6
<1>2. SearchInv => SearchTypeOK /\ MatchesAreTheirs
  BY <1>1 DEF SearchInv
<1> QED
  BY <1>2, SearchBegins, SearchIsKept, PTL DEF SearchSpec

(***************************************************************************)
(* All tools.                                                              *)
(***************************************************************************)
(* A behaviour of the tools is one of each of them: the others leave its state alone.  *)
THEOREM ToolsAreKept ==
    ToolsSpec => LspSpec /\ McpSpec /\ ReadSpec /\ VcsSpec /\ SearchSpec /\ GraphSpec /\ ImpactSpec
<1>1. ToolsInit => LspInit /\ McpInit /\ TextInit /\ VcsInit /\ SearchInit /\ GraphInit /\ ImpactInit
  BY DEF ToolsInit
<1>2. [ToolsNext]_allVars =>
          /\ [LspNext]_lspVars /\ [McpNext]_mcpVars /\ [ReadNext]_readVars /\ [VcsNext]_vcsVars
          /\ [SearchNext]_searchVars /\ [GraphNext]_graphVars /\ [ImpactNext]_impactVars
  BY DEF ToolsNext, allVars, LspStep, ServerStep, ReadStep, VcsStep, SearchStep, GraphStep, ImpactStep
<1> QED
  BY <1>1, <1>2, PTL DEF ToolsSpec, LspSpec, McpSpec, ReadSpec, VcsSpec, SearchSpec, GraphSpec, ImpactSpec

(* Every tool keeps its types, whatever the others do.                               *)
THEOREM ToolsTypes == ToolsSpec => []ToolsTypesOK
  BY ToolsAreKept, LspTypes, McpTypes, WindowsAreTheFile, VcsTypes, MatchesAreAnswered, GraphViewTypes,
     ImpactTypes, PTL DEF ToolsTypesOK

(* What a call is answered is its own, and its slot is counted.                         *)
THEOREM AnswersAreFit == ToolsSpec => []AnswersFit
  BY ToolsAreKept, OwnAnswers, OpenedFirst, NoSlotIsLost, PTL DEF AnswersFit

(* What the answers of reads, searches and diffs leave out they say, as far as the code does: a   *)
(* read loses a U+FEFF at the start of a window and stops at a character wider than the window,  *)
(* and a search does not name the files that failed.  A diff's artifact holds what was shown      *)
(* inline and then the rest, up to its limit.                                                  *)
THEOREM NothingIsLeftOut == ToolsSpec => []AnswersAreWhole
  BY ToolsAreKept, WindowsAreTheFile, MatchesAreAnswered, DiffsAreWhole, ArtifactsAreWhole, PTL
     DEF AnswersAreWhole

(* Traces and expansions show what is within their bounds and say when they stopped short; an   *)
(* expansion around a node the bounded graph left out is degraded.  An impact is everything      *)
(* within its depth of the changed names; that there is more beyond it does not say.              *)
THEOREM AllViewsAreHonest == ToolsSpec => [](TraceIsHonest /\ ViewsAreHonest)
  BY ToolsAreKept, TracesAreHonest, ExpansionsAreHonest, ImpactsAreWhole, PTL DEF ViewsAreHonest
=============================================================================
