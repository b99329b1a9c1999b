-------------------------- MODULE WorkGraphProofs --------------------------
(***************************************************************************)
(* Proofs about the work graph, for any number of sessions, items and      *)
(* runs and any bound on the versions.                                     *)
(***************************************************************************)
EXTENDS WorkGraph, TLAPS

(* The rows of the projections keep their shape, whatever the clients call. *)
THEOREM TypeCorrect == Spec => []TypeOK
<1>1. Init => TypeOK
  BY WorkGraphAssumption DEF Init, TypeOK, LeaseStates, ItemStates
<1>2. TypeOK /\ [Next]_vars => TypeOK'
  <2> SUFFICES ASSUME TypeOK, [Next]_vars PROVE TypeOK'
    OBVIOUS
  <2> USE WorkGraphAssumption
  <2>1. ASSUME NEW s \in Sessions, Join(s) \/ LeaseLapses(s)
        PROVE  TypeOK'
    BY <2>1 DEF TypeOK, Join, LeaseLapses, LeaseStates, itemVars, runVars
  <2>2. ASSUME NEW i \in Items, NEW hasSpec \in BOOLEAN, NEW targets \in SUBSET Items,
               CreateWorkItem(i, hasSpec, targets)
        PROVE  TypeOK'
    BY <2>2 DEF TypeOK, CreateWorkItem, ItemStates, runVars
  <2>3. ASSUME NEW s \in Sessions, NEW i \in Items, NEW expected \in 0..MaxVersion,
               BlockClaim(s, i, expected)
        PROVE  TypeOK'
    BY <2>3 DEF TypeOK, BlockClaim, ItemStates, runVars, WithinBound
  <2>4. ASSUME NEW s \in Sessions, NEW i \in Items, NEW expected \in 0..MaxVersion,
               NEW allowShared \in SharedClaims,
               GrantClaim(s, i, expected, allowShared)
        PROVE  TypeOK'
    BY <2>4 DEF TypeOK, GrantClaim, ItemStates, runVars, WithinBound
  <2>5. ASSUME NEW s \in Sessions, NEW i \in Items, DeclareIntent(s, i)
        PROVE  TypeOK'
    BY <2>5 DEF TypeOK, DeclareIntent, itemVars, runVars
  <2>6. ASSUME NEW s \in Sessions, NEW i \in Items, SubmitForEvaluation(s, i)
        PROVE  TypeOK'
    BY <2>6 DEF TypeOK, SubmitForEvaluation, ItemStates, runVars, WithinBound
  <2>7. ASSUME NEW s \in Sessions, NEW i \in Items, NEW r \in Runs \cup {NoRun},
               Finish(s, i, r)
        PROVE  TypeOK'
    BY <2>7 DEF TypeOK, Finish, ItemStates, runVars, WithinBound, MovedBy
  <2>8. ASSUME NEW r \in Runs, NEW i \in Items, RequestRun(r, i)
        PROVE  TypeOK'
    BY <2>8 DEF TypeOK, RequestRun, itemVars
  <2>9. ASSUME NEW r \in Runs, NEW d \in Decisions, CompleteRun(r, d)
        PROVE  TypeOK'
    BY <2>9 DEF TypeOK, CompleteRun, itemVars
  <2>10. ASSUME NEW r \in Runs, ApplyEvaluationDecision(r)
         PROVE  TypeOK'
    <3>1. decision[r] \in Decisions
      BY <2>10 DEF TypeOK, ApplyEvaluationDecision
    <3>2. NextItemState(decision[r]) \in ItemStates
      BY <3>1 DEF NextItemState, Decisions, ItemStates
    <3> QED
      BY <2>10, <3>2 DEF TypeOK, ApplyEvaluationDecision, Awaits, WithinBound, runVars
  <2>11. CASE UNCHANGED vars
    BY <2>11 DEF TypeOK, vars, itemVars, runVars
  <2> QED
    BY <2>1, <2>2, <2>3, <2>4, <2>5, <2>6, <2>7, <2>8, <2>9, <2>10, <2>11
       DEF Next, Claim, Complete
<1> QED
  BY <1>1, <1>2, PTL DEF Spec

(* Every step is a step of one handler or leaves all variables alone; the   *)
(* lemmas below look at the handlers through this case split.               *)
LEMMA StepCases ==
    ASSUME [Next]_vars
    PROVE  \/ \E s \in Sessions : Join(s) \/ LeaseLapses(s)
           \/ \E i \in Items, hasSpec \in BOOLEAN, targets \in SUBSET Items :
                 CreateWorkItem(i, hasSpec, targets)
           \/ \E s \in Sessions, i \in Items, expected \in 0..MaxVersion :
                 \/ BlockClaim(s, i, expected)
                 \/ \E allowShared \in SharedClaims : GrantClaim(s, i, expected, allowShared)
           \/ \E s \in Sessions, i \in Items :
                 DeclareIntent(s, i) \/ SubmitForEvaluation(s, i)
           \/ \E s \in Sessions, i \in Items, r \in Runs \cup {NoRun} : Finish(s, i, r)
           \/ \E r \in Runs, i \in Items : RequestRun(r, i)
           \/ \E r \in Runs, d \in Decisions : CompleteRun(r, d)
           \/ \E r \in Runs : ApplyEvaluationDecision(r)
           \/ UNCHANGED vars
  BY DEF Next, Claim, Complete

(* A run keeps the item and the decision it was given.                      *)
LEMMA DecisionStable ==
    ASSUME TypeOK, [Next]_vars, NEW r \in Runs
    PROVE  /\ runItem[r] # NoItem => runItem'[r] = runItem[r]
           /\ decision[r] # "none" => decision'[r] = decision[r]
  BY StepCases
     DEF TypeOK, Join, LeaseLapses, CreateWorkItem, BlockClaim, GrantClaim,
         DeclareIntent, SubmitForEvaluation, Finish, RequestRun, CompleteRun,
         ApplyEvaluationDecision, vars, itemVars, runVars

(* What an acceptance rests on is never taken away again.                   *)
LEMMA AuthorityStable ==
    ASSUME TypeOK, [Next]_vars, NEW i \in Items, NEW r \in Runs,
           runItem[r] = i, decision[r] = "accepted"
    PROVE  runItem'[r] = i /\ decision'[r] = "accepted"
  BY DecisionStable, WorkGraphAssumption

(* A gated item that is accepted or done only ever moves from accepted to   *)
(* done, and keeps the run that authorized it.                              *)
LEMMA AcceptedStable ==
    ASSUME TypeOK, [Next]_vars, NEW i \in gated, state[i] \in {"accepted", "done"}
    PROVE  /\ state'[i] \in {state[i], "done"}
           /\ acceptedRun'[i] = acceptedRun[i]
<1>1. i \in Items
  BY DEF TypeOK
<1>2. ASSUME NEW s \in Sessions, NEW j \in Items, NEW e \in 0..MaxVersion,
             \/ BlockClaim(s, j, e)
             \/ \E allowShared \in SharedClaims : GrantClaim(s, j, e, allowShared)
      PROVE  state'[i] = state[i] /\ acceptedRun' = acceptedRun
  <2>1. j # i
    BY <1>2 DEF BlockClaim, GrantClaim, ClaimAdmitted, EvaluationStates
  <2> QED
    BY <1>1, <1>2, <2>1 DEF BlockClaim, GrantClaim, TypeOK
<1>3. ASSUME NEW s \in Sessions, NEW j \in Items, NEW r \in Runs \cup {NoRun}, Finish(s, j, r)
      PROVE  state'[i] \in {state[i], "done"} /\ acceptedRun' = acceptedRun
  BY <1>1, <1>3 DEF Finish, FreedBy, TypeOK
<1>4. ASSUME NEW r \in Runs, ApplyEvaluationDecision(r)
      PROVE  state'[i] = state[i] /\ acceptedRun'[i] = acceptedRun[i]
  <2>1. runItem[r] # i
    BY <1>4 DEF ApplyEvaluationDecision, Awaits
  <2> QED
    BY <1>1, <1>4, <2>1 DEF ApplyEvaluationDecision, TypeOK
<1>5. ASSUME NEW j \in Items, NEW hasSpec \in BOOLEAN, NEW targets \in SUBSET Items,
             CreateWorkItem(j, hasSpec, targets)
      PROVE  state'[i] = state[i] /\ acceptedRun' = acceptedRun
  BY <1>1, <1>5 DEF CreateWorkItem, Created, TypeOK
<1>6. ASSUME NEW s \in Sessions, NEW j \in Items, SubmitForEvaluation(s, j)
      PROVE  state'[i] = state[i] /\ acceptedRun' = acceptedRun
  BY <1>1, <1>6 DEF SubmitForEvaluation, TypeOK
<1> QED
  BY StepCases, <1>2, <1>3, <1>4, <1>5, <1>6
     DEF Join, LeaseLapses, DeclareIntent, RequestRun, CompleteRun, vars, itemVars

(* A gated item that is accepted or done names a completed run of its own   *)
(* whose decision is accepted.                                              *)
THEOREM DoneAuthorized == Spec => []DoneNeedsAcceptedRun
<1>1. Init => DoneNeedsAcceptedRun
  BY DEF Init, DoneNeedsAcceptedRun
<1>2. TypeOK /\ DoneNeedsAcceptedRun /\ [Next]_vars => DoneNeedsAcceptedRun'
  <2> SUFFICES ASSUME TypeOK, DoneNeedsAcceptedRun, [Next]_vars,
                      NEW i \in gated', state'[i] \in {"accepted", "done"}
               PROVE  /\ acceptedRun'[i] \in Runs
                      /\ runItem'[acceptedRun'[i]] = i
                      /\ decision'[acceptedRun'[i]] = "accepted"
    BY DEF DoneNeedsAcceptedRun
  <2>1. CASE i \in gated /\ state[i] \in {"accepted", "done"}
    <3>1. i \in Items /\ acceptedRun'[i] = acceptedRun[i]
      BY <2>1, AcceptedStable DEF TypeOK
    <3>2. /\ acceptedRun[i] \in Runs
          /\ runItem[acceptedRun[i]] = i
          /\ decision[acceptedRun[i]] = "accepted"
      BY <2>1 DEF DoneNeedsAcceptedRun
    <3> QED
      BY <3>1, <3>2, AuthorityStable
  <2>2. CASE ~(i \in gated /\ state[i] \in {"accepted", "done"})
    <3>1. PICK r \in Runs : ApplyEvaluationDecision(r) /\ runItem[r] = i /\ decision[r] = "accepted"
      <4>1. ASSUME NEW s \in Sessions, NEW j \in Items, NEW r \in Runs \cup {NoRun},
                   Finish(s, j, r)
            PROVE  FALSE
        BY <2>2, <4>1 DEF Finish, FinishAuthorized, FreedBy, TypeOK
      <4>2. ASSUME NEW s \in Sessions, NEW j \in Items, NEW e \in 0..MaxVersion,
                   \/ BlockClaim(s, j, e)
                   \/ \E allowShared \in SharedClaims : GrantClaim(s, j, e, allowShared)
            PROVE  FALSE
        BY <2>2, <4>2 DEF BlockClaim, GrantClaim, TypeOK
      <4>3. ASSUME NEW j \in Items, NEW hasSpec \in BOOLEAN, NEW targets \in SUBSET Items,
                   CreateWorkItem(j, hasSpec, targets)
            PROVE  FALSE
        BY <2>2, <4>3 DEF CreateWorkItem, TypeOK
      <4>4. ASSUME NEW s \in Sessions, NEW j \in Items, SubmitForEvaluation(s, j)
            PROVE  FALSE
        BY <2>2, <4>4 DEF SubmitForEvaluation, TypeOK
      <4>5. ASSUME NEW r \in Runs, ApplyEvaluationDecision(r)
            PROVE  runItem[r] = i /\ decision[r] = "accepted"
        <5>1. decision[r] \in Decisions
          BY <4>5 DEF TypeOK, ApplyEvaluationDecision
        <5> QED
          BY <2>2, <4>5, <5>1
             DEF ApplyEvaluationDecision, Awaits, NextItemState, Decisions, TypeOK
      <4>6. CASE \/ \E s \in Sessions : Join(s) \/ LeaseLapses(s)
                 \/ \E s \in Sessions, j \in Items : DeclareIntent(s, j)
                 \/ \E r \in Runs, j \in Items : RequestRun(r, j)
                 \/ \E r \in Runs, d \in Decisions : CompleteRun(r, d)
                 \/ UNCHANGED vars
        BY <2>2, <4>6
           DEF Join, LeaseLapses, DeclareIntent, RequestRun, CompleteRun, vars, itemVars
      <4> QED
        BY StepCases, <4>1, <4>2, <4>3, <4>4, <4>5, <4>6
    <3>2. i \in Items /\ acceptedRun'[i] = r
      BY <3>1 DEF ApplyEvaluationDecision, Awaits, TypeOK
    <3> QED
      BY <3>1, <3>2, AuthorityStable
  <2> QED
    BY <2>1, <2>2
<1> QED
  BY <1>1, <1>2, TypeCorrect, PTL DEF Spec

(* A blocked item always has an open dependency: no completion of its last  *)
(* dependency can fail to wake it.                                          *)
THEOREM NoLostUnblock == Spec => []BlockedHasBlocker
<1>1. Init => BlockedHasBlocker
  BY DEF Init, BlockedHasBlocker
<1>2. TypeOK /\ BlockedHasBlocker /\ [Next]_vars => BlockedHasBlocker'
  <2> SUFFICES ASSUME TypeOK, BlockedHasBlocker, [Next]_vars,
                      NEW i \in Items, state'[i] = "blocked"
               PROVE  \E d \in dependsOn'[i] : state'[d] # "done"
    BY DEF BlockedHasBlocker, Blockers
  <2>1. state[i] = "blocked" => \E d \in dependsOn[i] : state[d] # "done"
    BY DEF BlockedHasBlocker, Blockers
  <2>2. \A d \in dependsOn[i] : d \in Items
    BY DEF TypeOK
  <2>3. ASSUME NEW j \in Items, NEW hasSpec \in BOOLEAN, NEW targets \in SUBSET Items,
               CreateWorkItem(j, hasSpec, targets)
        PROVE  \E d \in dependsOn'[i] : state'[d] # "done"
    <3>1. i # j
      BY <2>3 DEF CreateWorkItem, TypeOK
    <3>2. state'[i] = state[i] /\ dependsOn'[i] = dependsOn[i]
      BY <2>3, <3>1 DEF CreateWorkItem, TypeOK
    <3> QED
      BY <2>1, <2>2, <2>3, <3>2 DEF CreateWorkItem, TypeOK
  <2>4. ASSUME NEW s \in Sessions, NEW j \in Items, NEW e \in 0..MaxVersion,
               BlockClaim(s, j, e)
        PROVE  \E d \in dependsOn'[i] : state'[d] # "done"
    <3>1. \E d \in dependsOn[i] : state[d] # "done"
      BY <2>1, <2>4 DEF BlockClaim, Blockers, TypeOK
    <3> QED
      BY <2>2, <2>4, <3>1 DEF BlockClaim, TypeOK
  <2>5. ASSUME NEW s \in Sessions, NEW j \in Items, NEW e \in 0..MaxVersion,
               NEW allowShared \in SharedClaims, GrantClaim(s, j, e, allowShared)
        PROVE  \E d \in dependsOn'[i] : state'[d] # "done"
    BY <2>1, <2>2, <2>5 DEF GrantClaim, TypeOK
  <2>6. ASSUME NEW s \in Sessions, NEW j \in Items, SubmitForEvaluation(s, j)
        PROVE  \E d \in dependsOn'[i] : state'[d] # "done"
    BY <2>1, <2>2, <2>6 DEF SubmitForEvaluation, TypeOK
  <2>7. ASSUME NEW s \in Sessions, NEW j \in Items, NEW r \in Runs \cup {NoRun},
               Finish(s, j, r)
        PROVE  \E d \in dependsOn'[i] : state'[d] # "done"
    <3>1. i # j /\ i \notin FreedBy(j) /\ state[i] = "blocked"
      BY <2>7 DEF Finish, TypeOK
    <3>2. PICK d \in dependsOn[i] : d # j /\ state[d] # "done"
      BY <3>1 DEF FreedBy, Blockers
    <3>3. state'[d] # "done"
      BY <2>2, <2>7, <3>2 DEF Finish, TypeOK
    <3> QED
      BY <2>7, <3>3 DEF Finish
  <2>8. ASSUME NEW r \in Runs, ApplyEvaluationDecision(r)
        PROVE  \E d \in dependsOn'[i] : state'[d] # "done"
    <3>1. NextItemState(decision[r]) \notin {"blocked", "done"}
      BY <2>8 DEF ApplyEvaluationDecision, NextItemState, Decisions, TypeOK
    <3> QED
      BY <2>1, <2>2, <2>8, <3>1 DEF ApplyEvaluationDecision, Awaits, TypeOK
  <2>9. CASE \/ \E s \in Sessions : Join(s) \/ LeaseLapses(s)
             \/ \E s \in Sessions, j \in Items : DeclareIntent(s, j)
             \/ \E r \in Runs, j \in Items : RequestRun(r, j)
             \/ \E r \in Runs, d \in Decisions : CompleteRun(r, d)
             \/ UNCHANGED vars
    BY <2>1, <2>9
       DEF Join, LeaseLapses, DeclareIntent, RequestRun, CompleteRun, vars, itemVars
  <2> QED
    BY StepCases, <2>3, <2>4, <2>5, <2>6, <2>7, <2>8, <2>9
<1> QED
  BY <1>1, <1>2, TypeCorrect, PTL DEF Spec

(* Nothing a client sees of an item changes under one version number.       *)
THEOREM VersionsTellStatesApart == Spec => EveryChangeIsANewVersion
<1> DEFINE NewVersion ==
       \A i \in Items :
          \/ version'[i] > version[i]
          \/ /\ version'[i] = version[i]
             /\ assignee'[i] = assignee[i]
             /\ acceptedRun'[i] = acceptedRun[i]
             /\ Created(i) => state'[i] = state[i]
<1>1. TypeOK /\ [Next]_vars => [NewVersion]_vars
  <2> SUFFICES ASSUME TypeOK, [Next]_vars, NEW i \in Items
               PROVE  \/ version'[i] > version[i]
                      \/ /\ version'[i] = version[i]
                         /\ assignee'[i] = assignee[i]
                         /\ acceptedRun'[i] = acceptedRun[i]
                         /\ Created(i) => state'[i] = state[i]
    OBVIOUS
  <2>1. version[i] \in Int
    BY WorkGraphAssumption DEF TypeOK
  <2>2. ASSUME NEW j \in Items, NEW hasSpec \in BOOLEAN, NEW targets \in SUBSET Items,
               CreateWorkItem(j, hasSpec, targets)
        PROVE  /\ version' = version /\ assignee' = assignee /\ acceptedRun' = acceptedRun
               /\ Created(i) => state'[i] = state[i]
    BY <2>2 DEF CreateWorkItem, Created, TypeOK
  <2>3. ASSUME NEW s \in Sessions, NEW j \in Items, NEW e \in 0..MaxVersion,
               \/ BlockClaim(s, j, e)
               \/ \E allowShared \in SharedClaims : GrantClaim(s, j, e, allowShared)
        PROVE  \/ version'[i] = version[i] + 1
               \/ /\ version'[i] = version[i] /\ assignee'[i] = assignee[i]
                  /\ acceptedRun' = acceptedRun /\ state'[i] = state[i]
    BY <2>3 DEF BlockClaim, GrantClaim, TypeOK
  <2>4. ASSUME NEW s \in Sessions, NEW j \in Items, SubmitForEvaluation(s, j)
        PROVE  \/ version'[i] \in {version[i] + 1, version[i] + 2}
               \/ /\ version'[i] = version[i] /\ assignee' = assignee
                  /\ acceptedRun' = acceptedRun /\ state'[i] = state[i]
    BY <2>4 DEF SubmitForEvaluation, TypeOK
  <2>5. ASSUME NEW s \in Sessions, NEW j \in Items, NEW r \in Runs \cup {NoRun},
               Finish(s, j, r)
        PROVE  \/ version'[i] = version[i] + 1
               \/ /\ version'[i] = version[i] /\ assignee' = assignee
                  /\ acceptedRun' = acceptedRun /\ state'[i] = state[i]
    BY <2>5 DEF Finish, MovedBy, TypeOK
  <2>6. ASSUME NEW r \in Runs, ApplyEvaluationDecision(r)
        PROVE  \/ version'[i] = version[i] + 1
               \/ /\ version'[i] = version[i] /\ assignee' = assignee
                  /\ acceptedRun'[i] = acceptedRun[i] /\ state'[i] = state[i]
    BY <2>6 DEF ApplyEvaluationDecision, Awaits, TypeOK
  <2>7. CASE \/ \E s \in Sessions : Join(s) \/ LeaseLapses(s)
             \/ \E s \in Sessions, j \in Items : DeclareIntent(s, j)
             \/ \E r \in Runs, j \in Items : RequestRun(r, j)
             \/ \E r \in Runs, d \in Decisions : CompleteRun(r, d)
             \/ UNCHANGED vars
    BY <2>7 DEF Join, LeaseLapses, DeclareIntent, RequestRun, CompleteRun, vars, itemVars
  <2> QED
    BY StepCases, <2>1, <2>2, <2>3, <2>4, <2>5, <2>6, <2>7
<1> QED
  BY <1>1, TypeCorrect, PTL DEF Spec, EveryChangeIsANewVersion

(* A gated item that is done stays done on the same authority.              *)
THEOREM GatedDoneStaysDone == Spec => GatedDoneIsFinal
<1> DEFINE Stays ==
       \A i \in gated : state[i] = "done" =>
          state'[i] = "done" /\ acceptedRun'[i] = acceptedRun[i]
<1>1. TypeOK /\ [Next]_vars => [Stays]_vars
  BY AcceptedStable
<1> QED
  BY <1>1, TypeCorrect, PTL DEF Spec, GatedDoneIsFinal

(* What the creation of items leaves behind: dependencies lead to items that *)
(* were created, and in every set of created items one depends on no other   *)
(* of the set, which is the order of creation without a variable for it.     *)
DependenciesCreated == \A i \in Items : dependsOn[i] \subseteq {d \in Items : Created(d)}
DependenciesOrdered ==
    \A S \in SUBSET {i \in Items : Created(i)} :
        S # {} => \E i \in S : dependsOn[i] \cap S = {}

(* No step but a creation changes dependencies or the set of created items.  *)
LEMMA CreatedForGood ==
    ASSUME TypeOK, [Next]_vars
    PROVE  \/ /\ dependsOn' = dependsOn
              /\ \A i \in Items : Created(i)' <=> Created(i)
           \/ \E i \in Items, targets \in SUBSET Items :
                 /\ ~Created(i) /\ TargetsFound(targets)
                 /\ dependsOn' = [dependsOn EXCEPT ![i] = targets]
                 /\ \A j \in Items : Created(j)' <=> Created(j) \/ j = i
<1>1. ASSUME NEW i \in Items, NEW hasSpec \in BOOLEAN, NEW targets \in SUBSET Items,
             CreateWorkItem(i, hasSpec, targets)
      PROVE  /\ ~Created(i) /\ TargetsFound(targets)
             /\ dependsOn' = [dependsOn EXCEPT ![i] = targets]
             /\ \A j \in Items : Created(j)' <=> Created(j) \/ j = i
  BY <1>1 DEF CreateWorkItem, Created, TypeOK
<1>2. ASSUME NEW s \in Sessions, NEW i \in Items, NEW e \in 0..MaxVersion,
             \/ BlockClaim(s, i, e)
             \/ \E allowShared \in SharedClaims : GrantClaim(s, i, e, allowShared)
      PROVE  dependsOn' = dependsOn /\ \A j \in Items : Created(j)' <=> Created(j)
  BY <1>2 DEF BlockClaim, GrantClaim, ClaimAdmitted, Created, TypeOK
<1>3. ASSUME NEW s \in Sessions, NEW i \in Items, SubmitForEvaluation(s, i)
      PROVE  dependsOn' = dependsOn /\ \A j \in Items : Created(j)' <=> Created(j)
  BY <1>3 DEF SubmitForEvaluation, Created, TypeOK
<1>4. ASSUME NEW s \in Sessions, NEW i \in Items, NEW r \in Runs \cup {NoRun}, Finish(s, i, r)
      PROVE  dependsOn' = dependsOn /\ \A j \in Items : Created(j)' <=> Created(j)
  BY <1>4 DEF Finish, FreedBy, Created, TypeOK
<1>5. ASSUME NEW r \in Runs, ApplyEvaluationDecision(r)
      PROVE  dependsOn' = dependsOn /\ \A j \in Items : Created(j)' <=> Created(j)
  <2>1. NextItemState(decision[r]) # "absent"
    BY <1>5 DEF ApplyEvaluationDecision, NextItemState, Decisions, TypeOK
  <2> QED
    BY <1>5, <2>1 DEF ApplyEvaluationDecision, Awaits, Created, TypeOK
<1>6. CASE \/ \E s \in Sessions : Join(s) \/ LeaseLapses(s)
           \/ \E s \in Sessions, i \in Items : DeclareIntent(s, i)
           \/ \E r \in Runs, i \in Items : RequestRun(r, i)
           \/ \E r \in Runs, d \in Decisions : CompleteRun(r, d)
           \/ UNCHANGED vars
  BY <1>6 DEF Join, LeaseLapses, DeclareIntent, RequestRun, CompleteRun, Created, vars, itemVars
<1> QED
  BY StepCases, <1>1, <1>2, <1>3, <1>4, <1>5, <1>6

(* Items that are not done never all wait on each other.                    *)
THEOREM NoDeadlock == Spec => []NoDependencyDeadlock
<1> DEFINE Inv == DependenciesCreated /\ DependenciesOrdered
<1>1. Init => Inv
  BY DEF Init, DependenciesCreated, DependenciesOrdered, Created
<1>2. TypeOK /\ Inv /\ [Next]_vars => Inv'
  <2> SUFFICES ASSUME TypeOK, Inv, [Next]_vars PROVE Inv'
    OBVIOUS
  <2>1. CASE dependsOn' = dependsOn /\ \A i \in Items : Created(i)' <=> Created(i)
    <3>1. {i \in Items : Created(i)}' = {i \in Items : Created(i)}
      BY <2>1
    <3>2. DependenciesOrdered'
      BY <2>1, <3>1 DEF DependenciesOrdered
    <3>3. DependenciesCreated'
      BY <2>1 DEF DependenciesCreated, TypeOK
    <3> QED
      BY <3>2, <3>3
  <2>2. ASSUME NEW i \in Items, NEW targets \in SUBSET Items, ~Created(i), TargetsFound(targets),
               dependsOn' = [dependsOn EXCEPT ![i] = targets],
               \A j \in Items : Created(j)' <=> Created(j) \/ j = i
        PROVE  Inv'
    <3>1. /\ dependsOn'[i] = targets
          /\ \A j \in Items \ {i} : dependsOn'[j] = dependsOn[j]
      BY <2>2 DEF TypeOK
    <3>2. \A j \in Items : \A d \in dependsOn'[j] : d \in Items /\ Created(d)
      BY <2>2, <3>1 DEF DependenciesCreated, TargetsFound, TypeOK
    <3>3. DependenciesCreated'
      BY <2>2, <3>2 DEF DependenciesCreated
    <3>4. ASSUME NEW S \in SUBSET {j \in Items : Created(j)}', S # {}
          PROVE  \E j \in S : dependsOn'[j] \cap S = {}
      <4>1. CASE S \subseteq {i}
        BY <2>2, <3>1, <3>4, <4>1 DEF TargetsFound
      <4>2. CASE ~(S \subseteq {i})
        <5>1. S \ {i} \in SUBSET {j \in Items : Created(j)} /\ S \ {i} # {}
          BY <2>2, <4>2
        <5>2. PICK j \in S \ {i} : dependsOn[j] \cap (S \ {i}) = {}
          BY <5>1 DEF DependenciesOrdered
        <5>3. j \in Items /\ i \notin dependsOn'[j] /\ dependsOn'[j] = dependsOn[j]
          BY <2>2, <3>1, <3>2, <5>1
        <5> QED
          BY <5>2, <5>3
      <4> QED
        BY <4>1, <4>2
    <3>5. DependenciesOrdered'
      BY <3>4 DEF DependenciesOrdered
    <3> QED
      BY <3>3, <3>5
  <2> HIDE DEF Inv
  <2> QED
    BY <2>1, <2>2, CreatedForGood
<1>3. Inv => NoDependencyDeadlock
  <2> SUFFICES ASSUME Inv, NEW i \in Items, Created(i), state[i] # "done"
               PROVE  \E j \in Items : Created(j) /\ state[j] # "done" /\ Blockers(j) = {}
    BY DEF NoDependencyDeadlock
  <2> DEFINE Open == {j \in Items : Created(j) /\ state[j] # "done"}
  <2>1. Open \in SUBSET {j \in Items : Created(j)} /\ Open # {}
    OBVIOUS
  <2>2. PICK j \in Open : dependsOn[j] \cap Open = {}
    BY <2>1 DEF DependenciesOrdered
  <2>3. \A d \in dependsOn[j] : state[d] = "done"
    BY <2>2 DEF DependenciesCreated
  <2> QED
    BY <2>2, <2>3 DEF Blockers
<1> QED
  BY <1>1, <1>2, <1>3, TypeCorrect, PTL DEF Spec

(* An intent is closed by the completion of its item by its session alone.  *)
THEOREM IntentsKept == Spec => IntentClosedOnlyByItsCompletion
<1>1. ASSUME TypeOK, [Next]_vars, NEW s \in Sessions, NEW i \in Items,
             <<s, i>> \in intents \ intents'
      PROVE  assignee[i] = s /\ state[i] # "done" /\ state'[i] = "done"
  <2>1. PICK t \in Sessions, j \in Items, r \in Runs \cup {NoRun} : Finish(t, j, r)
    BY <1>1, StepCases
       DEF Join, LeaseLapses, CreateWorkItem, BlockClaim, GrantClaim, DeclareIntent,
           SubmitForEvaluation, RequestRun, CompleteRun, ApplyEvaluationDecision, vars
  <2>2. <<s, i>> \in ClosedBy(t, j)
    BY <1>1, <2>1 DEF Finish
  <2>3. t = s /\ j = i
    BY <2>2 DEF ClosedBy
  <2> QED
    BY <2>1, <2>3 DEF Finish
<1>2. TypeOK /\ [Next]_vars =>
        \A s \in Sessions, i \in Items : <<s, i>> \in intents \ intents' =>
            assignee[i] = s /\ state[i] # "done" /\ state'[i] = "done"
  BY <1>1
<1> QED
  BY <1>2, TypeCorrect, PTL DEF Spec, IntentClosedOnlyByItsCompletion
=============================================================================
