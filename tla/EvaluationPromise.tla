------------------------- MODULE EvaluationPromise -------------------------
(***************************************************************************)
(* What the evaluation of one run promises to the agents that wait for it,  *)
(* without the handlers, retries and crashes of the runtime: evidence is    *)
(* gathered while the run has no verdict, the verdict is what the gathered  *)
(* evidence says, it is given once and freezes the evidence, and only the   *)
(* verdict moves an item that awaits it.                                    *)
(***************************************************************************)
CONSTANTS
    Criteria,     \* the criteria of the bound evaluation spec
    Required,     \* those an acceptance requires
    Evidence      \* the results that may be recorded

VARIABLES evidence, verdict, item

vars == <<evidence, verdict, item>>

Verified(c) == {e \in evidence : e.criterion = c /\ e.provenance = "verified"}

(* A verified result that supports acceptance. *)
Convincing(e) == e.outcome = "pass" /\ e.evidenced

(* The verdict that the evidence supports, said in one breath: any verified   *)
(* failure rejects, and acceptance needs every required criterion to be       *)
(* supported by some verified result and contradicted by none.                *)
Supported(v) ==
    LET failed == \E c \in Required : \E e \in Verified(c) : e.outcome = "fail"
        met == \A c \in Required :
                  Verified(c) # {} /\ \A e \in Verified(c) : Convincing(e)
    IN CASE v = "rejected" -> failed
         [] v = "accepted" -> ~failed /\ met
         [] v = "inconclusive" -> ~failed /\ ~met

Init == evidence = {} /\ verdict = "none" /\ item = "active"

Gather(e) ==
    /\ verdict = "none"
    /\ evidence' = evidence \cup {e}
    /\ UNCHANGED <<verdict, item>>

Decide(v) ==
    /\ verdict = "none"
    /\ Supported(v)
    /\ verdict' = v
    /\ UNCHANGED <<evidence, item>>

(* The agent submits the item, for the first time or again, and finishes it   *)
(* once it is accepted.                                                       *)
Submit ==
    /\ item \in {"active", "needs_retry"}
    /\ item' = "awaiting_evaluation"
    /\ UNCHANGED <<evidence, verdict>>

Finish ==
    /\ item = "accepted"
    /\ item' = "done"
    /\ UNCHANGED <<evidence, verdict>>

Outcome == [accepted |-> "accepted", rejected |-> "needs_retry",
            inconclusive |-> "review_required"]

Apply ==
    /\ verdict # "none"
    /\ item = "awaiting_evaluation"
    /\ item' = Outcome[verdict]
    /\ UNCHANGED <<evidence, verdict>>

Next ==
    \/ \E e \in Evidence : Gather(e)
    \/ \E v \in {"accepted", "rejected", "inconclusive"} : Decide(v)
    \/ Submit \/ Finish \/ Apply

Spec == Init /\ [][Next]_vars
=============================================================================
