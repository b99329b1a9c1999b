---------------------------- MODULE MCEvaluation ----------------------------
(* Values for model checking Evaluation.                                   *)
EXTENDS Evaluation

(* A verdict each way and one that counts for nothing; an error is recorded *)
(* whenever a provider throws.                                              *)
MCAnswers == {[outcome |-> "pass", evidenced |-> TRUE],
              [outcome |-> "pass", evidenced |-> FALSE],
              [outcome |-> "fail", evidenced |-> TRUE]}

(* A caller says what would count as a pass if it were a provider's.        *)
MCCallerAnswers == {[outcome |-> "pass", evidenced |-> TRUE]}
=============================================================================
