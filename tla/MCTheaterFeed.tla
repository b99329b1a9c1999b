--------------------------- MODULE MCTheaterFeed ---------------------------
(* The instances TLC checks.                                               *)
EXTENDS TheaterFeed

(* A page holds two events, but the limit in bytes ends the second one early. *)
MCPageLength == [c \in Cursor |-> IF c = 1 THEN 1 ELSE 2]
=============================================================================
