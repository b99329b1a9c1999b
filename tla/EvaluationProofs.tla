-------------------------- MODULE EvaluationProofs --------------------------
(***************************************************************************)
(* Proofs about the evaluation of a run, for any criteria, any providers    *)
(* and any number of overlapping handlers.                                  *)
(***************************************************************************)
EXTENDS Evaluation, TLAPS

(* The inductive invariant.  The run and its decision change together; a      *)
(* handler applies only after they did, and fails only after they did or when *)
(* a caller's row stands in the way of the runtime's own; the rows the        *)
(* runtime itself records are always the same rows; and the decision still is *)
(* what the results say.                                                      *)
DecidedWhenCompleted == run = "completed" <=> decision # "none"

AppliesAfterDecision ==
    \A h \in Handlers : pc[h] = "apply" => decision # "none"

RuntimeRowsAgree ==
    \A r \in results \ CallerRows :
        /\ r.key = "unavailable" => r = Unavailable(r.criterion)
        /\ r.key = "error" => r = EvaluatorError(r.criterion)

CaughtKnown == \A h \in Handlers : pc[h] = "catch" => caught[h] \in Criteria

DecisionHolds == decision # "none" => decision = Acceptance

ItemFollows == item \in {"accepted", "done"} => decision = "accepted"

IInv == /\ TypeOK
        /\ DecidedWhenCompleted
        /\ AppliesAfterDecision
        /\ FailsOnlyAfterDecision
        /\ RuntimeRowsAgree
        /\ CaughtKnown
        /\ DecisionHolds
        /\ ItemFollows

(* Every row the handlers record has the shape of a result.                   *)
LEMMA RowTypes ==
    ASSUME NEW c \in Criteria
    PROVE  /\ Unavailable(c) \in Result
           /\ EvaluatorError(c) \in Result
           /\ \A a \in Answers, t \in Stamps : ProviderAnswer(c, a, t) \in Result
           /\ \A k \in Keys, a \in CallerAnswers : ExternalResult(c, k, a) \in Result
<1>1. \A a \in Answers \cup CallerAnswers : a.outcome \in {"pass", "fail", "error"} /\ a.evidenced \in BOOLEAN
  BY EvaluationAssumption
<1>2. Unavailable(c) \in Result /\ EvaluatorError(c) \in Result
  BY DEF Unavailable, EvaluatorError, NoEvidence, Result, Keys
<1>3. ASSUME NEW a \in Answers, NEW t \in Stamps
      PROVE  ProviderAnswer(c, a, t) \in Result
  BY <1>1 DEF ProviderAnswer, Result, Keys
<1>4. ASSUME NEW k \in Keys, NEW a \in CallerAnswers
      PROVE  ExternalResult(c, k, a) \in Result
  BY <1>1 DEF ExternalResult, Result
<1> QED
  BY <1>2, <1>3, <1>4

(* What evaluateAcceptance decides, criterion by criterion.                    *)
LEMMA AcceptanceMeans ==
    /\ Acceptance \in {"accepted", "rejected", "inconclusive"}
    /\ Acceptance = "accepted" =>
          \A c \in Required :
              Trusted(c) # {} /\ \A r \in Trusted(c) : r.outcome = "pass" /\ r.evidenced
    /\ Acceptance = "rejected" => Failed # {}
    /\ Acceptance = "inconclusive" => Failed = {} /\ Inconclusive # {}
<1>1. Acceptance = "accepted" => Failed = {} /\ Inconclusive = {}
  BY DEF Acceptance
<1>2. ASSUME Failed = {}, Inconclusive = {}, NEW c \in Required
      PROVE  Trusted(c) # {} /\ \A r \in Trusted(c) : r.outcome = "pass" /\ r.evidenced
  BY <1>2 DEF Inconclusive, Failed
<1> QED
  BY <1>1, <1>2 DEF Acceptance

(* Every step is a step of one handler, of a caller or of the agent.          *)
LEMMA StepCases ==
    ASSUME [Next]_vars
    PROVE  \/ \E h \in Handlers :
                 \/ EvaluateRequest(h) \/ CompleteRequest(h)
                 \/ StartRun(h) \/ ReadStatus(h)
                 \/ RecordError(h) \/ RecordErrorThrows(h)
                 \/ CompleteRun(h) \/ ApplyEvaluationDecision(h) \/ ApplyThrows(h)
           \/ \E h \in Handlers, c \in Criteria :
                 \/ RecordUnavailable(h, c)
                 \/ RecordUnavailableThrows(h, c)
                 \/ EvaluationThrows(h, c)
           \/ \E h \in Handlers, c \in Criteria, a \in Answers, t \in Stamps :
                 RecordAnswer(h, c, a, t)
           \/ \E c \in Criteria, k \in Keys, a \in CallerAnswers :
                 RecordExternalResult(c, k, a)
           \/ Submit \/ Finish \/ Crash
           \/ UNCHANGED vars
  BY DEF Next, HandlerStep, Evaluate

(* The variables keep their types.                                            *)
LEMMA TypeStep ==
    ASSUME TypeOK, CaughtKnown, AppliesAfterDecision, [Next]_vars
    PROVE  TypeOK'
<1> USE DEF TypeOK, Goto, Answered, stored, local
<1>1. ASSUME NEW h \in Handlers,
             EvaluateRequest(h) \/ CompleteRequest(h) \/ StartRun(h) \/ ReadStatus(h)
      PROVE  TypeOK'
  BY <1>1 DEF EvaluateRequest, CompleteRequest, StartRun, ReadStatus
<1>2. ASSUME NEW h \in Handlers, RecordErrorThrows(h) \/ ApplyThrows(h)
      PROVE  TypeOK'
  BY <1>2 DEF RecordErrorThrows, ApplyThrows
<1>3. ASSUME NEW h \in Handlers, RecordError(h)
      PROVE  TypeOK'
  <2>1. caught[h] \in Criteria
    BY <1>3 DEF RecordError, CaughtKnown
  <2> QED
    BY <1>3, <2>1, RowTypes DEF RecordError, Record
<1>4. ASSUME NEW h \in Handlers, CompleteRun(h)
      PROVE  TypeOK'
  BY <1>4, AcceptanceMeans DEF CompleteRun, DecideOnce
<1>5. ASSUME NEW h \in Handlers, ApplyEvaluationDecision(h)
      PROVE  TypeOK'
  <2>1. decision \in {"accepted", "rejected", "inconclusive"}
    BY <1>5 DEF ApplyEvaluationDecision, AppliesAfterDecision
  <2>2. NextItemState(decision) \in {"accepted", "needs_retry", "review_required"}
    BY <2>1 DEF NextItemState
  <2> QED
    BY <1>5, <2>2 DEF ApplyEvaluationDecision
<1>6. ASSUME NEW h \in Handlers, NEW c \in Criteria,
             RecordUnavailable(h, c) \/ RecordUnavailableThrows(h, c) \/ EvaluationThrows(h, c)
      PROVE  TypeOK'
  BY <1>6, RowTypes DEF RecordUnavailable, RecordUnavailableThrows, EvaluationThrows, Record
<1>7. ASSUME NEW h \in Handlers, NEW c \in Criteria, NEW a \in Answers, NEW t \in Stamps,
             RecordAnswer(h, c, a, t)
      PROVE  TypeOK'
  BY <1>7, RowTypes DEF RecordAnswer, Record
<1>8. ASSUME NEW c \in Criteria, NEW k \in Keys, NEW a \in CallerAnswers,
             RecordExternalResult(c, k, a)
      PROVE  TypeOK'
  BY <1>8, RowTypes DEF RecordExternalResult
<1>9. CASE Submit \/ Finish
  BY <1>9 DEF Submit, Finish
<1>10. CASE Crash
  BY <1>10 DEF Crash
<1>11. CASE UNCHANGED vars
  BY <1>11 DEF vars
<1> QED
  BY StepCases, <1>1, <1>2, <1>3, <1>4, <1>5, <1>6, <1>7, <1>8, <1>9, <1>10, <1>11

(* A row is recorded only while the run has no decision, and it has none      *)
(* right after.                                                               *)
LEMMA FrozenByDecision ==
    ASSUME TypeOK, CaughtKnown, DecidedWhenCompleted, [Next]_vars
    PROVE  \/ results' = results
           \/ /\ decision = "none" /\ decision' = "none" /\ run' = run
              /\ \E r \in Result : results' = results \cup {r}
<1> USE DEF stored, local
<1>1. ASSUME NEW h \in Handlers, RecordError(h)
      PROVE  /\ decision = "none" /\ decision' = "none" /\ run' = run
             /\ \E r \in Result : results' = results \cup {r}
  <2>1. caught[h] \in Criteria
    BY <1>1 DEF RecordError, CaughtKnown
  <2> QED
    BY <1>1, <2>1, RowTypes DEF RecordError, Record, Refused, DecidedWhenCompleted
<1>2. ASSUME NEW h \in Handlers, NEW c \in Criteria, RecordUnavailable(h, c)
      PROVE  /\ decision = "none" /\ decision' = "none" /\ run' = run
             /\ \E r \in Result : results' = results \cup {r}
  BY <1>2, RowTypes DEF RecordUnavailable, Record, Refused, DecidedWhenCompleted
<1>3. ASSUME NEW h \in Handlers, NEW c \in Criteria, NEW a \in Answers, NEW t \in Stamps,
             RecordAnswer(h, c, a, t)
      PROVE  /\ decision = "none" /\ decision' = "none" /\ run' = run
             /\ \E r \in Result : results' = results \cup {r}
  BY <1>3, RowTypes DEF RecordAnswer, Record, Refused, DecidedWhenCompleted
<1>4. ASSUME NEW c \in Criteria, NEW k \in Keys, NEW a \in CallerAnswers,
             RecordExternalResult(c, k, a)
      PROVE  /\ decision = "none" /\ decision' = "none" /\ run' = run
             /\ \E r \in Result : results' = results \cup {r}
  BY <1>4, RowTypes DEF RecordExternalResult, Refused, DecidedWhenCompleted
<1> QED
  BY StepCases, <1>1, <1>2, <1>3, <1>4
     DEF EvaluateRequest, CompleteRequest, StartRun, ReadStatus, RecordErrorThrows,
         CompleteRun, ApplyEvaluationDecision, ApplyThrows, RecordUnavailableThrows,
         EvaluationThrows, Submit, Finish, Crash, vars

(* The run is completed and decided in one transaction, once, by what the     *)
(* results say at that moment.                                                *)
LEMMA DecidedOnce ==
    ASSUME TypeOK, DecidedWhenCompleted, [Next]_vars
    PROVE  /\ DecidedWhenCompleted'
           /\ \/ decision' = decision
              \/ decision = "none" /\ decision' = Acceptance /\ results' = results
<1>1. ASSUME NEW h \in Handlers, CompleteRun(h)
      PROVE  /\ DecidedWhenCompleted'
             /\ \/ decision' = decision
                \/ decision = "none" /\ decision' = Acceptance /\ results' = results
  BY <1>1, AcceptanceMeans DEF CompleteRun, DecideOnce, DecidedWhenCompleted
<1> QED
  BY StepCases, <1>1
     DEF EvaluateRequest, CompleteRequest, StartRun, ReadStatus, RecordErrorThrows,
         RecordError, RecordUnavailable, RecordAnswer, RecordExternalResult, Record,
         ApplyEvaluationDecision, ApplyThrows, RecordUnavailableThrows,
         EvaluationThrows, Submit, Finish, Crash, vars, stored, local,
         DecidedWhenCompleted, TypeOK

(* Once decided, the decision stays what the results say.                     *)
LEMMA DecisionHoldsStep ==
    ASSUME TypeOK, CaughtKnown, DecidedWhenCompleted, DecisionHolds, [Next]_vars
    PROVE  DecisionHolds'
<1>1. results' = results => Acceptance' = Acceptance
  BY DEF Acceptance, Failed, Inconclusive, Trusted
<1> QED
  BY <1>1, FrozenByDecision, DecidedOnce DEF DecisionHolds

(* A handler in a catch block knows the criterion it caught.                  *)
LEMMA CaughtStep ==
    ASSUME TypeOK, CaughtKnown, [Next]_vars
    PROVE  CaughtKnown'
  BY StepCases
     DEF EvaluateRequest, CompleteRequest, StartRun, ReadStatus, RecordErrorThrows,
         RecordError, RecordUnavailable, RecordAnswer, RecordExternalResult, Record,
         ApplyEvaluationDecision, ApplyThrows, RecordUnavailableThrows, CompleteRun,
         EvaluationThrows, Submit, Finish, Crash, vars, stored, local, InFlight,
         CaughtKnown, TypeOK, Goto, Answered

(* The rows of the runtime itself agree, so none is ever refused for the      *)
(* digest of another.                                                         *)
LEMMA RuntimeRowsStep ==
    ASSUME TypeOK, CaughtKnown, RuntimeRowsAgree, [Next]_vars
    PROVE  RuntimeRowsAgree'
<1> USE DEF RuntimeRowsAgree, CallerRows
<1>1. ASSUME NEW h \in Handlers, RecordError(h)
      PROVE  RuntimeRowsAgree'
  <2>1. caught[h] \in Criteria
    BY <1>1 DEF RecordError, CaughtKnown
  <2> QED
    BY <1>1, <2>1 DEF RecordError, Record, EvaluatorError, Unavailable, NoEvidence
<1>2. ASSUME NEW h \in Handlers, NEW c \in Criteria, RecordUnavailable(h, c)
      PROVE  RuntimeRowsAgree'
  BY <1>2 DEF RecordUnavailable, Record, EvaluatorError, Unavailable, NoEvidence
<1>3. ASSUME NEW h \in Handlers, NEW c \in Criteria, NEW a \in Answers, NEW t \in Stamps,
             RecordAnswer(h, c, a, t)
      PROVE  RuntimeRowsAgree'
  BY <1>3 DEF RecordAnswer, Record, ProviderAnswer, EvaluatorError, Unavailable, NoEvidence
<1>4. ASSUME NEW c \in Criteria, NEW k \in Keys, NEW a \in CallerAnswers,
             RecordExternalResult(c, k, a)
      PROVE  RuntimeRowsAgree'
  BY <1>4 DEF RecordExternalResult, ExternalResult, EvaluatorError, Unavailable, NoEvidence
<1> QED
  BY StepCases, <1>1, <1>2, <1>3, <1>4
     DEF EvaluateRequest, CompleteRequest, StartRun, ReadStatus, RecordErrorThrows,
         CompleteRun, ApplyEvaluationDecision, ApplyThrows, RecordUnavailableThrows,
         EvaluationThrows, Submit, Finish, Crash, vars, stored, local,
         EvaluatorError, Unavailable, NoEvidence

(* No handler applies or fails before the run is decided, unless a caller is  *)
(* in the way.  The rows a handler records outside of its try blocks are the  *)
(* runtime's own, so what refuses them is a completed run or a caller's row.  *)
LEMMA AppliesAfterDecisionStep ==
    ASSUME IInv, [Next]_vars
    PROVE  AppliesAfterDecision' /\ FailsOnlyAfterDecision'
<1> USE DEF IInv, AppliesAfterDecision, FailsOnlyAfterDecision
<1>1. ASSUME NEW c \in Criteria, Refused(Unavailable(c)) \/ Refused(EvaluatorError(c))
      PROVE  decision # "none" \/ IdentityTaken
  <2>1. Unavailable(c).key = "unavailable" /\ Unavailable(c).criterion = c
    BY DEF Unavailable, NoEvidence
  <2>2. EvaluatorError(c).key = "error" /\ EvaluatorError(c).criterion = c
    BY DEF EvaluatorError, NoEvidence
  <2>3. Conflicts(Unavailable(c)) \/ Conflicts(EvaluatorError(c)) => IdentityTaken
    BY <2>1, <2>2 DEF Conflicts, RuntimeRowsAgree, IdentityTaken
  <2> QED
    BY <1>1, <2>3 DEF Refused, DecidedWhenCompleted
<1>2. /\ decision # "none" => decision' # "none"
      /\ IdentityTaken => IdentityTaken'
  <2>1. results \subseteq results'
    BY FrozenByDecision
  <2> QED
    BY <2>1, DecidedOnce DEF IdentityTaken, CallerRows
<1>3. ASSUME NEW h \in Handlers, NEW c \in Criteria, RecordUnavailableThrows(h, c)
      PROVE  AppliesAfterDecision' /\ FailsOnlyAfterDecision'
  BY <1>1, <1>2, <1>3 DEF RecordUnavailableThrows, Goto, stored, TypeOK
<1>4. ASSUME NEW h \in Handlers, RecordErrorThrows(h)
      PROVE  AppliesAfterDecision' /\ FailsOnlyAfterDecision'
  <2>1. caught[h] \in Criteria
    BY <1>4 DEF RecordErrorThrows, CaughtKnown
  <2> QED
    BY <1>1, <1>2, <1>4, <2>1 DEF RecordErrorThrows, Goto, stored, TypeOK
<1>5. ASSUME NEW h \in Handlers, CompleteRun(h)
      PROVE  AppliesAfterDecision' /\ FailsOnlyAfterDecision'
  <2>1. decision' # "none"
    BY <1>5, AcceptanceMeans DEF CompleteRun, DecideOnce, DecidedWhenCompleted
  <2> QED
    BY <1>5, <2>1 DEF CompleteRun
<1> QED
  BY StepCases, <1>2, <1>3, <1>4, <1>5
     DEF EvaluateRequest, CompleteRequest, StartRun, ReadStatus,
         RecordError, RecordUnavailable, RecordAnswer, RecordExternalResult, Record,
         ApplyEvaluationDecision, ApplyThrows,
         EvaluationThrows, Submit, Finish, Crash, vars, stored, local, Goto, TypeOK

(* An item is accepted and finished only on an accepted decision.             *)
LEMMA ItemFollowsStep ==
    ASSUME IInv, [Next]_vars
    PROVE  ItemFollows'
<1> USE DEF IInv, ItemFollows
<1>1. decision # "none" => decision' = decision
  BY DecidedOnce
<1>2. ASSUME NEW h \in Handlers, ApplyEvaluationDecision(h)
      PROVE  ItemFollows'
  <2>1. decision \in {"accepted", "rejected", "inconclusive"}
    BY <1>2 DEF ApplyEvaluationDecision, AppliesAfterDecision, TypeOK
  <2>2. item' = "accepted" <=> decision = "accepted"
    BY <1>2, <2>1 DEF ApplyEvaluationDecision, NextItemState
  <2>3. item' # "done"
    BY <1>2, <2>1 DEF ApplyEvaluationDecision, NextItemState
  <2> QED
    BY <1>1, <2>1, <2>2, <2>3
<1> QED
  BY StepCases, <1>1, <1>2
     DEF EvaluateRequest, CompleteRequest, StartRun, ReadStatus, RecordErrorThrows,
         RecordError, RecordUnavailable, RecordAnswer, RecordExternalResult, Record,
         ApplyThrows, RecordUnavailableThrows, CompleteRun,
         EvaluationThrows, Submit, Finish, Crash, vars, stored, local

LEMMA Invariance == Spec => []IInv
<1>1. Init => IInv
  BY EvaluationAssumption
     DEF Init, IInv, TypeOK, Answered, DecidedWhenCompleted, AppliesAfterDecision,
         FailsOnlyAfterDecision, RuntimeRowsAgree, CaughtKnown, DecisionHolds,
         ItemFollows
<1>2. IInv /\ [Next]_vars => IInv'
  BY TypeStep, DecidedOnce, AppliesAfterDecisionStep, RuntimeRowsStep, CaughtStep,
     DecisionHoldsStep, ItemFollowsStep DEF IInv
<1> QED
  BY <1>1, <1>2, PTL DEF Spec

(* The run, its rows and the handlers keep their shape.                       *)
THEOREM EvaluationTypeCorrect == Spec => []TypeOK
<1>1. IInv => TypeOK
  BY DEF IInv
<1> QED
  BY <1>1, Invariance, PTL

(* No overlap of handlers and no crash makes missing, erroneous or unverified *)
(* evidence a pass.                                                           *)
THEOREM NoImplicitPass == Spec => []PassIsNeverImplicit
<1>1. IInv => PassIsNeverImplicit
  BY AcceptanceMeans DEF IInv, ItemFollows, DecisionHolds, PassIsNeverImplicit, Trusted
<1> QED
  BY <1>1, Invariance, PTL

(* Overlapping handlers of a run never make each other fail before it is      *)
(* decided; only a caller's row under an identity of the runtime can.         *)
THEOREM NoMutualFailure == Spec => []FailsOnlyAfterDecision
<1>1. IInv => FailsOnlyAfterDecision
  BY DEF IInv
<1> QED
  BY <1>1, Invariance, PTL

(* The detailed evaluation implements the promise: its rows are the evidence, *)
(* its decision the verdict.                                                  *)
THEOREM EvaluationKeepsPromise == Spec => ImplementsPromise
<1>1. Init => Promise!Init
  BY DEF Init, Promise!Init
<1>2. IInv /\ [Next]_vars => [Promise!Next]_(Promise!vars)
  <2> SUFFICES ASSUME IInv, [Next]_vars
               PROVE  Promise!Next \/ UNCHANGED Promise!vars
    BY DEF Promise!vars
  <2> USE DEF IInv, Promise!vars
  <2>1. ASSUME results' # results, item' = item
        PROVE  Promise!Next
    <3>1. PICK r \in Result : results' = results \cup {r} /\ decision = "none" /\ decision' = "none"
      BY <2>1, FrozenByDecision
    <3>2. Promise!Gather(r)
      BY <2>1, <3>1 DEF Promise!Gather
    <3> QED
      BY <3>2 DEF Promise!Next
  <2>2. ASSUME decision' # decision, item' = item
        PROVE  Promise!Next
    <3>1. decision = "none" /\ decision' = Acceptance /\ results' = results
      BY <2>2, DecidedOnce
    <3>2. Promise!Supported(Acceptance)
      <4>1. \A c : Promise!Verified(c) = Trusted(c)
        BY DEF Promise!Verified, Trusted
      <4>2. Failed # {} <=> \E c \in Required : \E e \in Promise!Verified(c) : e.outcome = "fail"
        BY <4>1 DEF Failed
      <4>3. ASSUME Failed = {}, Inconclusive # {}
            PROVE  ~\A c \in Required :
                      /\ Promise!Verified(c) # {}
                      /\ \A e \in Promise!Verified(c) : Promise!Convincing(e)
        BY <4>1, <4>3 DEF Inconclusive, Promise!Convincing
      <4>4. ASSUME Failed = {}, Inconclusive = {}
            PROVE  \A c \in Required :
                      /\ Promise!Verified(c) # {}
                      /\ \A e \in Promise!Verified(c) : Promise!Convincing(e)
        BY <4>1, <4>4 DEF Inconclusive, Promise!Convincing
      <4> QED
        BY <4>2, <4>3, <4>4 DEF Acceptance, Promise!Supported
    <3>3. Promise!Decide(Acceptance)
      BY <2>2, <3>1, <3>2 DEF Promise!Decide
    <3> QED
      BY <3>3, AcceptanceMeans DEF Promise!Next
  <2>3. ASSUME NEW h \in Handlers, ApplyEvaluationDecision(h)
        PROVE  Promise!Next
    <3>1. decision \in {"accepted", "rejected", "inconclusive"}
      BY <2>3 DEF ApplyEvaluationDecision, AppliesAfterDecision, TypeOK
    <3>2. Promise!Outcome[decision] = NextItemState(decision)
      BY <3>1 DEF Promise!Outcome, NextItemState
    <3>3. Promise!Apply
      BY <2>3, <3>1, <3>2 DEF ApplyEvaluationDecision, Awaits, Promise!Apply
    <3> QED
      BY <3>3 DEF Promise!Next
  <2>4. CASE Submit
    BY <2>4 DEF Submit, Promise!Submit, Promise!Next
  <2>5. CASE Finish
    BY <2>5 DEF Finish, Promise!Finish, Promise!Next
  <2>6. \/ item' = item
        \/ \E h \in Handlers : ApplyEvaluationDecision(h)
        \/ Submit \/ Finish
    BY StepCases
       DEF EvaluateRequest, CompleteRequest, StartRun, ReadStatus, RecordErrorThrows,
           RecordError, RecordUnavailable, RecordAnswer, RecordExternalResult, Record,
           ApplyThrows, RecordUnavailableThrows, CompleteRun,
           EvaluationThrows, Crash, vars, stored, local
  <2> QED
    BY <2>1, <2>2, <2>3, <2>4, <2>5, <2>6
<1> QED
  BY <1>1, <1>2, Invariance, PTL DEF Spec, ImplementsPromise, Promise!Spec
=============================================================================
