-------------------------- MODULE StaleAcceptance --------------------------
(***************************************************************************)
(* How old may the evidence be that a gated item is accepted on?  The      *)
(* history variables count, for every item, how often an evaluation sent   *)
(* it back to be worked on again, and remember for every run the count at  *)
(* the time it was requested.                                              *)
(***************************************************************************)
EXTENDS WorkGraph

VARIABLES round,     \* for each item, the rejections applied to it so far
          runRound   \* for each run, its item's round when it was requested

AgeInit ==
    /\ Init
    /\ round = [i \in Items |-> 0]
    /\ runRound = [r \in Runs |-> 0]

Rejected(i) == state[i] = "awaiting_evaluation" /\ state'[i] = "needs_retry"

Requested(r) == runItem[r] = NoItem /\ runItem'[r] # NoItem

AgeNext ==
    /\ Next
    /\ round' = [i \in Items |-> round[i] + (IF Rejected(i) THEN 1 ELSE 0)]
    /\ runRound' = [r \in Runs |-> IF Requested(r) THEN round[runItem'[r]]
                                   ELSE runRound[r]]

AgeSpec == AgeInit /\ [][AgeNext]_<<vars, round, runRound>>

(* An item is accepted on a run requested since the item was last sent back: *)
(* evidence about work that has been rejected and redone is stale.           *)
AcceptedRunIsFresh ==
    \A i \in gated :
        state[i] \in {"accepted", "done"} => runRound[acceptedRun[i]] = round[i]
=============================================================================
