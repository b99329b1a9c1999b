---------------------------- MODULE MCWorkGraph ----------------------------
(* WorkGraph on small instances: the sets are model values of the .cfg files. *)
EXTENDS WorkGraph, TLC

\* Identities are created fresh and only compared, so they may be permuted;
\* items only among those that intents are, or are not, declared for.
Symmetry == Permutations(Sessions) \cup Permutations(Items \ IntentItems)
            \cup Permutations(Runs)
=============================================================================
