------------------------ MODULE MCChangePublication ------------------------
(* Values for model checking ChangePublication.                            *)
EXTENDS ChangePublication, TLC

CONSTANTS c1, c2, c3, mcp, daemon

(* Two calls of one process and one of another, which has no lock in common    *)
(* with it.  The first changes one file or both, the second both.              *)
MCProcessOf == [c \in Calls |-> IF c = c3 THEN daemon ELSE mcp]
MCBatches ==
    [c \in Calls |-> CASE c = c1 -> {{1}, {2}, {1, 2}}
                       [] c = c2 -> {{1, 2}}
                       [] c = c3 -> {{1}, {2}}]
=============================================================================
