---------------------------- MODULE ImpactReach ----------------------------
(***************************************************************************)
(* The impact of an intent: from the entities its targets name, the engine   *)
(* follows the edges of the code graph breadth first, dependencies against   *)
(* and containment along their direction, scores what it reaches, and names  *)
(* the work items and agents concerned.  An entity is its own scope here.    *)
(* The graph is what getCodeState gives: the first 100000 entities and      *)
(* 200000 edges of the index, with no word of any it leaves out.            *)
(***************************************************************************)
EXTENDS Naturals, Sequences, FiniteSets, SequencesExt, FiniteSetsExt

CONSTANTS
    Entities,       \* the code entities
    EdgeChoices,    \* the edges there may be: from, to, kind
    MaxImpactDepth, \* maxDepth
    MaxEntities     \* maxEntities

ASSUME ImpactAssumption ==
    /\ IsFiniteSet(Entities)
    /\ EdgeChoices \subseteq [from : Entities, to : Entities, kind : {"contains", "imports", "calls"}]
    /\ MaxImpactDepth \in 0..20 /\ MaxEntities \in Nat \ {0}

VARIABLES
    graph,      \* the edges, the targets of the intent, and those of an intent of another work item
    impact      \* score and depth of the entities found, the queue, truncated; then the answer

impactVars == <<graph, impact>>

Greatest(a, b) == IF a > b THEN a ELSE b

(* Items: the intent's own, one it has a dependency with, and one with an active intent. *)
ImpactInit ==
    /\ graph \in [edges : SUBSET EdgeChoices, targets : SUBSET Entities, others : {{}} \union {{e} : e \in Entities}]
    /\ \E queue \in SetToSeqs(graph.targets) :
         impact = [score |-> [e \in graph.targets |-> 95], depth |-> [e \in graph.targets |-> 0],
                   queue |-> queue, truncated |-> FALSE, at |-> "walking", items |-> {}]

(* graphTraversal *)
OtherEnd(n, e) == IF e.from = n THEN e.to ELSE e.from
Adjacent(n) == {e \in graph.edges : IF e.kind = "contains" THEN e.from = n ELSE e.to = n}
Score(n, e) == Greatest(1, 80 - 15 * impact.depth[n] - (IF e.kind = "calls" THEN 10 ELSE 0))

(* The bound on entities is met: the next one is left out; the mistake does not tell. *)
LeftOut(i) == i
Cut(i) == [i EXCEPT !.truncated = TRUE]

Follow(n, i, e) ==
    LET next == OtherEnd(n, e)
        reached == DOMAIN i.score
    IN  IF next \in reached THEN [i EXCEPT !.score[next] = Greatest(@, Score(n, e))]
        ELSE IF Cardinality(reached) >= MaxEntities THEN Cut(i)
        ELSE [i EXCEPT !.score = [x \in reached \union {next} |-> IF x = next THEN Score(n, e) ELSE i.score[x]],
                       !.depth = [x \in reached \union {next} |-> IF x = next THEN i.depth[n] + 1 ELSE i.depth[x]],
                       !.queue = Append(@, next)]

VisitEntity ==
    /\ impact.at = "walking" /\ impact.queue # <<>>
    /\ LET n == Head(impact.queue)
           rest == [impact EXCEPT !.queue = Tail(@)]
       IN  IF impact.depth[n] >= MaxImpactDepth THEN impact' = rest
           ELSE \E edges \in SetToSeqs(Adjacent(n)) :
                  impact' = FoldLeft(LAMBDA i, e : Follow(n, i, e), rest, edges)
    /\ UNCHANGED graph

(* workItemReasons and compute: the item of the intent, what depends on it or it
   depends on, and an item whose active intent aims at an entity that was reached. *)
NameItems ==
    /\ impact.at = "walking" /\ impact.queue = <<>>
    /\ impact' = [impact EXCEPT !.at = "done",
                    !.items = {"own", "dependent"}
                              \union (IF graph.others \intersect DOMAIN impact.score # {} THEN {"other"} ELSE {})]
    /\ UNCHANGED graph

ImpactNext == VisitEntity \/ NameItems
ImpactSpec == ImpactInit /\ [][ImpactNext]_impactVars

-----------------------------------------------------------------------------
(* The entities at most so many steps from the targets. *)
Affected(steps) ==
    LET f[k \in 0..steps] ==
          IF k = 0 THEN graph.targets
          ELSE f[k - 1] \union UNION {{OtherEnd(n, e) : e \in Adjacent(n)} : n \in f[k - 1]}
    IN  f[steps]

(* The types of the walk. *)
ImpactTypeOK ==
    /\ DOMAIN impact.score \subseteq Entities /\ DOMAIN impact.depth = DOMAIN impact.score
    /\ \A e \in DOMAIN impact.score : impact.score[e] \in 1..95 /\ impact.depth[e] \in 0..MaxImpactDepth
    /\ Range(impact.queue) \subseteq DOMAIN impact.score
    /\ impact.at \in {"walking", "done"} /\ impact.items \subseteq {"own", "dependent", "other"}

(* An impact that is not truncated names every entity of the graph it was given within the depth
   and no other, in whatever order edges are followed, and so misses no intent that collides with
   it there. That the depth cut it short it does not say: it did unless every entity is nearer than
   the depth, and then nothing at all is left out. An entity nearer to the targets never scores
   below one further away. *)
ImpactIsWhole ==
    impact.at = "done" =>
        /\ DOMAIN impact.score \subseteq Affected(MaxImpactDepth)
        /\ ~impact.truncated => DOMAIN impact.score = Affected(MaxImpactDepth)
        /\ ~impact.truncated /\ graph.others \intersect Affected(MaxImpactDepth) # {} => "other" \in impact.items
        /\ ~impact.truncated /\ (\A e \in DOMAIN impact.depth : impact.depth[e] < MaxImpactDepth) =>
             \A n \in DOMAIN impact.score : \A e \in Adjacent(n) : OtherEnd(n, e) \in DOMAIN impact.score
        /\ \A e, f \in DOMAIN impact.score :
             impact.depth[e] < impact.depth[f] => impact.score[e] >= impact.score[f]
=============================================================================
