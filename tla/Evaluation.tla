----------------------------- MODULE Evaluation -----------------------------
(***************************************************************************)
(* The evaluation of one run of one gated work item, step by step: the      *)
(* daemon's eval_evaluate, eval_complete and eval_record handlers, of which *)
(* several may be in flight, since a client that saw a timeout calls again  *)
(* while the first handler goes on.                                         *)
(*                                                                          *)
(* A handler yields at every await.  Each of its transactions is one action *)
(* (sqlite-store.ts, transact), and what it read before an await is kept in *)
(* its local state and may be stale when it is used.  A crash of the daemon *)
(* loses every handler in flight and nothing that was committed.            *)
(***************************************************************************)
EXTENDS Naturals, FiniteSets

CONSTANTS
    Criteria,     \* the criteria of the bound evaluation spec
    Required,     \* those with required = true
    Provided,     \* those a registered provider supports
    Handlers,     \* the request handlers that may be in flight together
    Answers,      \* bound: what providers report: outcome, evidenced
    CallerAnswers, \* bound: what callers report
    MaxCallerRows, \* bound: the rows callers record for the run
    Stamps,       \* bound: the observedAt of a provider's evidence
    NoCriterion   \* the criterion of a handler that is in no catch block

ASSUME EvaluationAssumption ==
    /\ Required \subseteq Criteria
    /\ Provided \subseteq Criteria
    /\ NoCriterion \notin Criteria
    /\ Answers \cup CallerAnswers
         \subseteq [outcome : {"pass", "fail", "error"}, evidenced : BOOLEAN]

VARIABLES
    run,          \* the state of the run
    results,      \* the evaluation_result rows of the run
    decision,     \* the evaluation_decision row of the run
    item,         \* the state of the work item the run is bound to
    pc,           \* where each handler is
    todo,         \* the criteria each handler has still to evaluate
    caught        \* the criterion whose evaluation threw

stored == <<run, results, decision, item>>
local == <<pc, todo, caught>>
vars == <<stored, local>>

(***************************************************************************)
(* Results.  A row is identified by its criterion and its providerResultId, *)
(* of which four kinds are told apart: that of the provider's answer, of    *)
(* the error the runtime records for a provider that threw, of the one it   *)
(* records for a criterion without provider, and any other.  A caller gives *)
(* its row whichever of them it likes.  The digest of a row covers all of   *)
(* it, its provenance too, but the time it was recorded.                    *)
(***************************************************************************)
Keys == {"answer", "error", "unavailable", "other"}

Result == [criterion : Criteria,
           key : Keys,
           provenance : {"verified", "external"},
           outcome : {"pass", "fail", "error"},
           evidenced : BOOLEAN,
           stamp : Stamps \cup {"none"}]

NoEvidence(c, k) ==
    [criterion |-> c, key |-> k, provenance |-> "verified", outcome |-> "error",
     evidenced |-> FALSE, stamp |-> "none"]
Unavailable(c) == NoEvidence(c, "unavailable")
EvaluatorError(c) == NoEvidence(c, "error")

ProviderAnswer(c, a, t) ==
    [criterion |-> c, key |-> "answer", provenance |-> "verified",
     outcome |-> a.outcome, evidenced |-> a.evidenced,
     stamp |-> IF a.evidenced THEN t ELSE "none"]

ExternalResult(c, k, a) ==
    [criterion |-> c, key |-> k, provenance |-> "external",
     outcome |-> a.outcome, evidenced |-> a.evidenced, stamp |-> "none"]

(* Rows of the same identity must have the same digest; or must not be there. *)
ReplayRefused(r) ==
    \E p \in results : p.criterion = r.criterion /\ p.key = r.key
Conflicts(r) ==
    \E p \in results : p.criterion = r.criterion /\ p.key = r.key /\ p # r

(* A completed run takes no result; and one that does.                        *)
RefusedOnConflict(r) == Conflicts(r)
Refused(r) == run = "completed" \/ Conflicts(r)

(***************************************************************************)
(* evaluateAcceptance: the required criteria one by one.  The mistake takes *)
(* a caller's word for a provider's.                                        *)
(***************************************************************************)
AnyResult(c) == {r \in results : r.criterion = c}
Trusted(c) == {r \in results : r.criterion = c /\ r.provenance = "verified"}

Failed == {c \in Required : \E r \in Trusted(c) : r.outcome = "fail"}
Inconclusive ==
    {c \in Required \ Failed :
        \/ Trusted(c) = {}
        \/ \E r \in Trusted(c) : ~r.evidenced \/ r.outcome # "pass"}

(* Without enough evidence the decision is inconclusive; or is the reviewer's. *)
AcceptanceReviewed ==
    CASE Failed # {} -> "rejected"
      [] Failed = {} /\ Inconclusive # {} -> "review_required"
      [] OTHER -> "accepted"
Acceptance ==
    CASE Failed # {} -> "rejected"
      [] Failed = {} /\ Inconclusive # {} -> "inconclusive"
      [] OTHER -> "accepted"

(***************************************************************************)
(* The run was requested for an item its agent is working on.              *)
(***************************************************************************)
Init ==
    /\ run = "pending"
    /\ results = {}
    /\ decision = "none"
    /\ item = "active"
    /\ pc = [h \in Handlers |-> "idle"]
    /\ todo = [h \in Handlers |-> {}]
    /\ caught = [h \in Handlers |-> NoCriterion]

Goto(h, l) == pc' = [pc EXCEPT ![h] = l]
Answered == {"idle", "returned", "failed", "lost"}
InFlight(h) == pc[h] \notin Answered

(***************************************************************************)
(* eval_evaluate and eval_complete.                                        *)
(***************************************************************************)
EvaluateRequest(h) ==
    /\ ~InFlight(h)
    /\ Goto(h, "start")
    /\ UNCHANGED <<stored, todo, caught>>

(* eval_complete joins the evaluation where no criterion is left to evaluate. *)
CompleteRequest(h) ==
    /\ ~InFlight(h)
    /\ Goto(h, "evaluate")
    /\ UNCHANGED <<stored, todo, caught>>

StartRun(h) ==
    /\ pc[h] = "start"
    /\ run' = IF run = "pending" THEN "running" ELSE run
    /\ Goto(h, "status")
    /\ UNCHANGED <<results, decision, item, todo, caught>>

(* The results are read once; a criterion that has any is skipped.         *)
ReadStatus(h) ==
    /\ pc[h] = "status"
    /\ todo' = [todo EXCEPT ![h] = {c \in Criteria : AnyResult(c) = {}}]
    /\ Goto(h, "evaluate")
    /\ UNCHANGED <<stored, caught>>

Record(h, c, r) ==
    /\ results' = results \cup {r}
    /\ todo' = [todo EXCEPT ![h] = @ \ {c}]
    /\ UNCHANGED <<run, decision, item>>

(* No provider: the runtime records that, outside of any try block.  Like  *)
(* the error below it can find a caller's row in its place.                *)
RecordUnavailable(h, c) ==
    /\ pc[h] = "evaluate"
    /\ c \in todo[h] \ Provided
    /\ ~Refused(Unavailable(c))
    /\ Record(h, c, Unavailable(c))
    /\ UNCHANGED <<pc, caught>>

RecordUnavailableThrows(h, c) ==
    /\ pc[h] = "evaluate"
    /\ c \in todo[h] \ Provided
    /\ Refused(Unavailable(c))
    /\ todo' = [todo EXCEPT ![h] = {}]
    /\ Goto(h, "failed")
    /\ UNCHANGED <<stored, caught>>

RecordAnswer(h, c, a, t) ==
    /\ pc[h] = "evaluate"
    /\ c \in todo[h] \cap Provided
    /\ ~Refused(ProviderAnswer(c, a, t))
    /\ Record(h, c, ProviderAnswer(c, a, t))
    /\ UNCHANGED <<pc, caught>>

(* The provider throws, what it reports is invalid or bound to another target *)
(* state, or its result is refused.                                           *)
EvaluationThrows(h, c) ==
    /\ pc[h] = "evaluate"
    /\ c \in todo[h] \cap Provided
    /\ caught' = [caught EXCEPT ![h] = c]
    /\ Goto(h, "catch")
    /\ UNCHANGED <<stored, todo>>

RecordError(h) ==
    /\ pc[h] = "catch"
    /\ ~Refused(EvaluatorError(caught[h]))
    /\ Record(h, caught[h], EvaluatorError(caught[h]))
    /\ caught' = [caught EXCEPT ![h] = NoCriterion]
    /\ Goto(h, "evaluate")

RecordErrorThrows(h) ==
    /\ pc[h] = "catch"
    /\ Refused(EvaluatorError(caught[h]))
    /\ caught' = [caught EXCEPT ![h] = NoCriterion]
    /\ todo' = [todo EXCEPT ![h] = {}]
    /\ Goto(h, "failed")
    /\ UNCHANGED stored

(* Nothing is left to evaluate: the run is completed and decided in one    *)
(* transaction, unless it is completed already.                            *)
DecideOnce ==
    /\ run' = "completed"
    /\ decision' = IF run = "completed" THEN decision ELSE Acceptance

CompleteRun(h) ==
    /\ pc[h] = "evaluate"
    /\ todo[h] = {}
    /\ DecideOnce
    /\ Goto(h, "apply")
    /\ UNCHANGED <<results, item, todo, caught>>

NextItemState(d) ==
    CASE d = "accepted" -> "accepted"
      [] d = "rejected" -> "needs_retry"
      [] d = "inconclusive" -> "review_required"

(* A transaction of its own.  The mistake gives up when another handler may   *)
(* be busy.                                                                   *)
AwaitsWhenAlone(h) ==
    item = "awaiting_evaluation" /\ \A g \in Handlers \ {h} : ~InFlight(g)
Awaits(h) == item = "awaiting_evaluation"

ApplyEvaluationDecision(h) ==
    /\ pc[h] = "apply"
    /\ Awaits(h)
    /\ item' = NextItemState(decision)
    /\ Goto(h, "returned")
    /\ UNCHANGED <<run, results, decision, todo, caught>>

ApplyThrows(h) ==
    /\ pc[h] = "apply"
    /\ ~Awaits(h)
    /\ Goto(h, "failed")
    /\ UNCHANGED <<stored, todo, caught>>

(***************************************************************************)
(* eval_record: one transaction.                                           *)
(***************************************************************************)
CallerRows == {r \in results : r.provenance = "external"}

RecordExternalResult(c, k, a) ==
    /\ Cardinality(CallerRows) < MaxCallerRows
    /\ ~Refused(ExternalResult(c, k, a))
    /\ results' = results \cup {ExternalResult(c, k, a)}
    /\ UNCHANGED <<run, decision, item, local>>

(***************************************************************************)
(* The agent, seen from here: complete submits its item, after a rejection  *)
(* too, and finishes it once accepted.                                      *)
(***************************************************************************)
Submit ==
    /\ item \in {"active", "needs_retry"}
    /\ item' = "awaiting_evaluation"
    /\ UNCHANGED <<run, results, decision, local>>

Finish ==
    /\ item = "accepted"
    /\ item' = "done"
    /\ UNCHANGED <<run, results, decision, local>>

(* The daemon stops.  What its handlers held is gone.                      *)
Crash ==
    /\ \E h \in Handlers : InFlight(h)
    /\ pc' = [h \in Handlers |-> IF InFlight(h) THEN "lost" ELSE pc[h]]
    /\ todo' = [h \in Handlers |-> {}]
    /\ caught' = [h \in Handlers |-> NoCriterion]
    /\ UNCHANGED stored

(***************************************************************************)
(* The specification.                                                      *)
(***************************************************************************)
Evaluate(h, c) ==
    \/ RecordUnavailable(h, c)
    \/ RecordUnavailableThrows(h, c)
    \/ \E a \in Answers, t \in Stamps : RecordAnswer(h, c, a, t)
    \/ EvaluationThrows(h, c)

(* What a handler in flight does next. *)
HandlerStep(h) ==
    \/ StartRun(h) \/ ReadStatus(h)
    \/ \E c \in Criteria : Evaluate(h, c)
    \/ RecordError(h) \/ RecordErrorThrows(h)
    \/ CompleteRun(h) \/ ApplyEvaluationDecision(h) \/ ApplyThrows(h)

Next ==
    \/ \E h \in Handlers : EvaluateRequest(h) \/ CompleteRequest(h) \/ HandlerStep(h)
    \/ \E c \in Criteria, k \in Keys, a \in CallerAnswers : RecordExternalResult(c, k, a)
    \/ Submit \/ Finish \/ Crash

Spec == Init /\ [][Next]_vars

(* The event loop resumes every handler whose await has settled, and the only *)
(* provider of the daemon, deterministic-local, answers without waiting.      *)
FairSpec == Spec /\ \A h \in Handlers : WF_vars(HandlerStep(h))

(***************************************************************************)
(* Properties.                                                             *)
(***************************************************************************)
TypeOK ==
    /\ run \in {"pending", "running", "completed"}
    /\ results \in SUBSET Result
    /\ decision \in {"none", "accepted", "rejected", "inconclusive"}
    /\ item \in {"active", "awaiting_evaluation", "accepted", "needs_retry",
                 "review_required", "done"}
    /\ pc \in [Handlers -> Answered \cup {"start", "status", "evaluate", "catch", "apply"}]
    /\ todo \in [Handlers -> SUBSET Criteria]
    /\ caught \in [Handlers -> Criteria \cup {NoCriterion}]

(* Missing, skipped, evaluator-error or caller-declared evidence is never an  *)
(* implicit pass: an item is accepted only while each required criterion has  *)
(* verified results and every one of them is an evidenced pass, including     *)
(* those recorded late (docs/CONTRACTS.md, EvaluationSpec).                   *)
PassIsNeverImplicit ==
    item \in {"accepted", "done"} =>
        \A c \in Required :
            LET verified == {r \in results : r.criterion = c /\ r.provenance = "verified"}
            IN verified # {} /\ \A r \in verified : r.outcome = "pass" /\ r.evidenced

(* A caller has taken the identity of a row that the runtime itself records.  *)
IdentityTaken == \E r \in CallerRows : r.key \in {"error", "unavailable"}

(* Concurrent handlers of one run never make each other fail before it is     *)
(* decided, whatever the providers do: an evaluation fails only when somebody *)
(* has decided the run, or when a caller's row stands where the runtime wants *)
(* to record an evaluator's error or absence.                                 *)
FailsOnlyAfterDecision ==
    \A h \in Handlers : pc[h] = "failed" => decision # "none" \/ IdentityTaken

(* Whatever handlers overlap and wherever the daemon stops, the run keeps the *)
(* promise of EvaluationPromise: one verdict, drawn from all the evidence the *)
(* run ever has, and applied to the item that awaits it and to no other.      *)
Promise == INSTANCE EvaluationPromise
             WITH Evidence <- Result, evidence <- results, verdict <- decision
ImplementsPromise == Promise!Spec

(* Every evaluation that is asked for leads to a decision of the run, unless  *)
(* the daemon stops on the way or a caller's row makes it fail; and evaluating *)
(* again and again decides the run in the end, whatever rows callers record.  *)
RequestLeadsToDecision ==
    /\ \A h \in Handlers :
          InFlight(h) ~> \/ decision # "none"
                         \/ pc[h] = "lost"
                         \/ pc[h] = "failed" /\ IdentityTaken
    /\ /\ []<>(\E h \in Handlers : pc[h] = "start")
       /\ <>[][~Crash]_vars
       => <>(decision # "none")

(* An item that awaits the decision of a run being applied is not left        *)
(* waiting, unless the daemon stops between the decision and the application. *)
DecisionReachesItem ==
    \A h \in Handlers :
        pc[h] = "apply" /\ item = "awaiting_evaluation"
            ~> item # "awaiting_evaluation" \/ pc[h] = "lost"
=============================================================================
