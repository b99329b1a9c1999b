----------------------------- MODULE WorkGraph -----------------------------
(***************************************************************************)
(* The work graph of the coordination runtime: agent sessions, the work    *)
(* items they claim and complete, the dependencies between items, the      *)
(* intents sessions declare, and the evaluation runs whose decisions move  *)
(* a gated item towards done.                                              *)
(*                                                                         *)
(* Every handler of the runtime does its work inside one synchronous       *)
(* SQLite transaction (coordination-store/src/sqlite-store.ts, transact),  *)
(* so one handler is one action.  A handler that throws before its first   *)
(* write leaves the state alone and is no action at all.  Any client may   *)
(* call any handler at any time and any number of times: a retried or a    *)
(* duplicated request is one more call.                                    *)
(*                                                                         *)
(* Time is abstracted: a session's lease may lapse at any moment, since    *)
(* nothing obliges a client to sync.  An evaluation run is seen from       *)
(* outside: it is open, then it is decided; module Evaluation models what  *)
(* happens in between.                                                     *)
(***************************************************************************)
EXTENDS Integers

CONSTANTS
    Sessions,     \* the identities join may hand out
    Items,        \* the identities createWorkItem may hand out
    Runs,         \* the identities requestRun may hand out
    NoSession,    \* an undefined assignee
    NoItem,       \* the item of a run not requested yet
    NoRun,        \* an undefined acceptedEvaluationRunId
    MaxVersion,   \* bound: no step takes an item beyond this version
    SharedClaims, \* bound: the values clients give allowShared
    IntentItems   \* bound: the items intents are declared for

ASSUME WorkGraphAssumption ==
    /\ NoSession \notin Sessions
    /\ NoItem \notin Items
    /\ NoRun \notin Runs
    /\ MaxVersion \in Nat
    /\ SharedClaims \subseteq BOOLEAN
    /\ IntentItems \subseteq Items

VARIABLES
    session,      \* the lease of each session: absent, live or expired
    state,        \* the state of each work item
    assignee,     \* the session each item is assigned to
    version,      \* the version each item is at
    gated,        \* the items created with an evaluationSpecId
    dependsOn,    \* for each item, the targets of its depends_on rows
    acceptedRun,  \* the acceptedEvaluationRunId of each item
    intents,      \* the active intents, as <<session, item>> pairs
    runItem,      \* the work item each run evaluates
    decision      \* the decision of each run, once it is completed

itemVars == <<state, assignee, version, gated, dependsOn, acceptedRun>>
runVars == <<runItem, decision>>
vars == <<session, itemVars, intents, runVars>>

(***************************************************************************)
(* The values the variables range over.                                    *)
(***************************************************************************)
LeaseStates == {"absent", "live", "expired"}

ItemStates == {"absent", "ready", "claimed", "active", "implementation_complete",
               "awaiting_evaluation", "accepted", "needs_retry",
               "review_required", "blocked", "done", "cancelled"}

Decisions == {"accepted", "rejected", "inconclusive"}

(* The states from which a gated item cannot be claimed; and the list with   *)
(* its last member forgotten.                                                *)
EvaluationStatesButDone == {"implementation_complete", "awaiting_evaluation",
                            "accepted", "review_required"}
EvaluationStates == {"implementation_complete", "awaiting_evaluation",
                     "accepted", "review_required", "done"}

Created(i) == state[i] # "absent"
Live(s) == session[s] = "live"

(* The dependencies that still hold item i back. *)
Blockers(i) == {d \in dependsOn[i] : state[d] # "done"}

(* The item is already being worked on by session s. *)
HeldBy(i, s) == assignee[i] = s /\ state[i] \in {"claimed", "active"}

(* A gated item may be finished once a run of its own was accepted; the      *)
(* caller names no run or that run.  The mistake asks for the decided run    *)
(* only of a caller that names one.                                          *)
FinishAuthorizedByCaller(i, r) == r = NoRun \/ decision[r] = "accepted"
FinishAuthorized(i, r) ==
    /\ state[i] = "accepted"
    /\ acceptedRun[i] # NoRun
    /\ r \in {NoRun, acceptedRun[i]}

(* The blocked items whose last open dependency is i.  The mistake judges    *)
(* them by the item table as it was before i was completed.                  *)
FreedByStale(i) == {j \in Items \ {i} : state[j] = "blocked" /\ Blockers(j) = {}}
FreedBy(i) ==
    {j \in Items \ {i} : state[j] = "blocked" /\ Blockers(j) \subseteq {i}}

(* Completing i moves i and the items it frees to a new version; and the     *)
(* freed ones forgotten.                                                     *)
MovedAlone(i) == {i}
MovedBy(i) == {i} \cup FreedBy(i)

(* The intents of session s that completing item i closes: those on i; and   *)
(* all of them.                                                              *)
ClosedBySession(s, i) == {s} \X Items
ClosedBy(s, i) == {<<s, i>>}

(* The caller's expectedVersion is compared with the stored one.             *)
VersionMatches(i, expected) == version[i] = expected

(* Dependencies lead to stored items, or to items nobody looked up.          *)
TargetsUnchecked(targets) == TRUE
TargetsFound(targets) == \A d \in targets : Created(d)

(* MaxVersion bounds the version of every item. *)
WithinBound == \A i \in Items : version'[i] <= MaxVersion

(***************************************************************************)
(* Initially the project is open and holds nothing.                        *)
(***************************************************************************)
Init ==
    /\ session = [s \in Sessions |-> "absent"]
    /\ state = [i \in Items |-> "absent"]
    /\ assignee = [i \in Items |-> NoSession]
    /\ version = [i \in Items |-> 0]
    /\ gated = {}
    /\ dependsOn = [i \in Items |-> {}]
    /\ acceptedRun = [i \in Items |-> NoRun]
    /\ intents = {}
    /\ runItem = [r \in Runs |-> NoItem]
    /\ decision = [r \in Runs |-> "none"]

(***************************************************************************)
(* Sessions.                                                               *)
(***************************************************************************)
Join(s) ==
    /\ session[s] = "absent"
    /\ session' = [session EXCEPT ![s] = "live"]
    /\ UNCHANGED <<itemVars, intents, runVars>>

(* The lease runs out before the next sync; sync refuses an expired session, *)
(* so the lapse is final.                                                    *)
LeaseLapses(s) ==
    /\ Live(s)
    /\ session' = [session EXCEPT ![s] = "expired"]
    /\ UNCHANGED <<itemVars, intents, runVars>>

(***************************************************************************)
(* Work items.                                                             *)
(***************************************************************************)
CreateWorkItem(i, hasSpec, targets) ==
    /\ ~Created(i)
    /\ TargetsFound(targets)
    /\ state' = [state EXCEPT ![i] = "ready"]
    /\ gated' = IF hasSpec THEN gated \cup {i} ELSE gated
    /\ dependsOn' = [dependsOn EXCEPT ![i] = targets]
    /\ UNCHANGED <<session, assignee, version, acceptedRun, intents, runVars>>

(* What every claim must pass before the dependencies are looked at.  A claim *)
(* of an item its caller already holds returns that item and writes nothing.  *)
ClaimAdmitted(s, i, expected) ==
    /\ Live(s)
    /\ Created(i)
    /\ ~HeldBy(i, s)
    /\ VersionMatches(i, expected)
    /\ ~(i \in gated /\ state[i] \in EvaluationStates)

(* The claim fails, and leaves the item blocked and assigned to the claimer. *)
BlockClaim(s, i, expected) ==
    /\ ClaimAdmitted(s, i, expected)
    /\ Blockers(i) # {}
    /\ state[i] # "blocked"
    /\ state' = [state EXCEPT ![i] = "blocked"]
    /\ assignee' = [assignee EXCEPT ![i] = s]
    /\ version' = [version EXCEPT ![i] = @ + 1]
    /\ WithinBound
    /\ UNCHANGED <<session, gated, dependsOn, acceptedRun, intents, runVars>>

GrantClaim(s, i, expected, allowShared) ==
    /\ ClaimAdmitted(s, i, expected)
    /\ Blockers(i) = {}
    /\ assignee[i] \in {NoSession, s} \/ allowShared
    /\ state' = [state EXCEPT ![i] = "active"]
    /\ assignee' = [assignee EXCEPT ![i] = s]
    /\ version' = [version EXCEPT ![i] = @ + 1]
    /\ WithinBound
    /\ UNCHANGED <<session, gated, dependsOn, acceptedRun, intents, runVars>>

DeclareIntent(s, i) ==
    /\ Live(s)
    /\ Created(i)
    /\ i \in IntentItems
    /\ assignee[i] \in {NoSession, s}
    /\ intents' = intents \cup {<<s, i>>}
    /\ UNCHANGED <<session, itemVars, runVars>>

(***************************************************************************)
(* Completion.  complete looks at the assignee and never at the lease.     *)
(***************************************************************************)
(* A gated item is submitted: implementation_complete and then             *)
(* awaiting_evaluation, two events and two versions of one transaction.    *)
SubmitForEvaluation(s, i) ==
    /\ Created(i)
    /\ assignee[i] = s
    /\ i \in gated
    /\ state[i] \notin {"done", "accepted", "review_required", "awaiting_evaluation"}
    /\ state' = [state EXCEPT ![i] = "awaiting_evaluation"]
    /\ version' = [version EXCEPT
                      ![i] = @ + (IF state[i] = "implementation_complete" THEN 1 ELSE 2)]
    /\ WithinBound
    /\ UNCHANGED <<session, assignee, gated, dependsOn, acceptedRun, intents, runVars>>

(* The item is done, the session's intents on it are closed, and every     *)
(* blocked item that waited for it alone is ready again.                   *)
Finish(s, i, r) ==
    /\ Created(i)
    /\ assignee[i] = s
    /\ state[i] # "done"
    /\ i \in gated => FinishAuthorized(i, r)
    /\ state' = [j \in Items |-> IF j = i THEN "done"
                                 ELSE IF j \in FreedBy(i) THEN "ready" ELSE state[j]]
    /\ version' = [j \in Items |-> IF j \in MovedBy(i) THEN version[j] + 1 ELSE version[j]]
    /\ WithinBound
    /\ intents' = intents \ ClosedBy(s, i)
    /\ UNCHANGED <<session, assignee, gated, dependsOn, acceptedRun, runVars>>

(***************************************************************************)
(* Evaluation runs.  completeRun and applyEvaluationDecision are separate  *)
(* transactions: the daemon may stop between them, and a client may ask    *)
(* for a completed run to be applied again, at any later time.             *)
(***************************************************************************)
RequestRun(r, i) ==
    /\ runItem[r] = NoItem
    /\ Created(i)
    /\ runItem' = [runItem EXCEPT ![r] = i]
    /\ UNCHANGED <<session, itemVars, intents, decision>>

CompleteRun(r, d) ==
    /\ runItem[r] # NoItem
    /\ decision[r] = "none"
    /\ decision' = [decision EXCEPT ![r] = d]
    /\ UNCHANGED <<session, itemVars, intents, runItem>>

(* The item state a decision leads to.  The mistake stores the decision.     *)
NextItemStateVerbatim(d) == d
NextItemState(d) ==
    CASE d = "accepted" -> "accepted"
      [] d = "rejected" -> "needs_retry"
      [] d = "inconclusive" -> "review_required"

(* Only an item that awaits evaluation takes a decision.                     *)
Awaits(i) == i \in gated /\ state[i] = "awaiting_evaluation"

ApplyEvaluationDecision(r) ==
    /\ decision[r] # "none"
    /\ LET i == runItem[r] IN
       /\ Awaits(i)
       /\ state' = [state EXCEPT ![i] = NextItemState(decision[r])]
       /\ version' = [version EXCEPT ![i] = @ + 1]
       /\ WithinBound
       /\ acceptedRun' = IF decision[r] = "accepted"
                         THEN [acceptedRun EXCEPT ![i] = r] ELSE acceptedRun
    /\ UNCHANGED <<session, assignee, gated, dependsOn, intents, runVars>>

(***************************************************************************)
(* The specification.                                                      *)
(***************************************************************************)
Claim(s, i) ==
    \E expected \in 0..MaxVersion :
        \/ BlockClaim(s, i, expected)
        \/ \E allowShared \in SharedClaims : GrantClaim(s, i, expected, allowShared)

Complete(s, i) ==
    \/ SubmitForEvaluation(s, i)
    \/ \E r \in Runs \cup {NoRun} : Finish(s, i, r)

Next ==
    \/ \E s \in Sessions : Join(s) \/ LeaseLapses(s)
    \/ \E i \in Items, hasSpec \in BOOLEAN, targets \in SUBSET Items :
          CreateWorkItem(i, hasSpec, targets)
    \/ \E s \in Sessions, i \in Items :
          Claim(s, i) \/ DeclareIntent(s, i) \/ Complete(s, i)
    \/ \E r \in Runs, i \in Items : RequestRun(r, i)
    \/ \E r \in Runs, d \in Decisions : CompleteRun(r, d)
    \/ \E r \in Runs : ApplyEvaluationDecision(r)

Spec == Init /\ [][Next]_vars

(***************************************************************************)
(* Properties.                                                             *)
(***************************************************************************)
(* The shape of the projection rows. *)
TypeOK ==
    /\ session \in [Sessions -> LeaseStates]
    /\ state \in [Items -> ItemStates]
    /\ assignee \in [Items -> Sessions \cup {NoSession}]
    /\ version \in [Items -> 0..MaxVersion]
    /\ gated \in SUBSET Items
    /\ dependsOn \in [Items -> SUBSET Items]
    /\ acceptedRun \in [Items -> Runs \cup {NoRun}]
    /\ intents \in SUBSET (Sessions \X Items)
    /\ runItem \in [Runs -> Items \cup {NoItem}]
    /\ decision \in [Runs -> Decisions \cup {"none"}]

(* A gated item is accepted or done only on the authority of the run it      *)
(* names: a run of that very item, completed, whose decision is accepted     *)
(* (contracts/src/work-item.ts, evaluationSpecId and                         *)
(* acceptedEvaluationRunId).                                                 *)
DoneNeedsAcceptedRun ==
    \A i \in gated :
        state[i] \in {"accepted", "done"} =>
            /\ acceptedRun[i] \in Runs
            /\ runItem[acceptedRun[i]] = i
            /\ decision[acceptedRun[i]] = "accepted"

(* No wake-up is lost: an item is blocked only while one of its dependencies *)
(* is open, so some later completion will look at it again.                  *)
BlockedHasBlocker ==
    \A i \in Items : state[i] = "blocked" => Blockers(i) # {}

(* Work items never all wait on each other: as long as one is not done, one  *)
(* of those that are not done has no open dependency.                        *)
NoDependencyDeadlock ==
    LET Open == {i \in Items : Created(i) /\ state[i] # "done"}
    IN Open # {} => \E i \in Open : Blockers(i) = {}

(* expectedVersion protects a claim only if whatever a client can see of an  *)
(* item, its state, its assignee or its accepted run, never changes without  *)
(* a new version, and versions never go back.                                *)
EveryChangeIsANewVersion ==
    [][\A i \in Items :
          \/ version'[i] > version[i]
          \/ /\ version'[i] = version[i]
             /\ assignee'[i] = assignee[i]
             /\ acceptedRun'[i] = acceptedRun[i]
             /\ Created(i) => state'[i] = state[i]]_vars

(* A gated item that is done stays done, with the run that authorized it.    *)
GatedDoneIsFinal ==
    [][\A i \in gated : state[i] = "done" =>
          state'[i] = "done" /\ acceptedRun'[i] = acceptedRun[i]]_vars

(* An intent is closed by the completion of its item by its session and by   *)
(* nothing else: neither by other agents' completions nor by its own agent's *)
(* completion of another item.                                               *)
IntentClosedOnlyByItsCompletion ==
    [][\A s \in Sessions, i \in Items : <<s, i>> \in intents \ intents' =>
          assignee[i] = s /\ state[i] # "done" /\ state'[i] = "done"]_vars

(* An item that a session is working on goes to another session only by a   *)
(* claim with allowShared: where no client sets that flag it is not taken    *)
(* away (coordination-runtime/src/runtime.ts, the conflict claim throws).    *)
ActiveAssignmentIsKept ==
    [][\A i \in Items : HeldBy(i, assignee[i]) => assignee'[i] = assignee[i]]_vars
=============================================================================
