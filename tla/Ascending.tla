------------------------------- MODULE Ascending -------------------------------
(* Numbers in ascending order: those of a set, as a scan, a page and a search list them,
   and where the parts of a file end.  SetToSortSeq of the community modules is the same
   function as InOrder; it ends in SortSeq, of which the prover knows nothing. *)
EXTENDS Naturals, Sequences, FiniteSets

(* The members of a finite set of numbers, in ascending order. *)
InOrder(S) == [i \in 1..Cardinality(S) |-> CHOOSE n \in S : Cardinality({m \in S : m <= n}) = i]

(* Where each part ends when parts of these widths follow one another. *)
EndsOf(widths) ==
    LET end[n \in 0..Len(widths)] == IF n = 0 THEN 0 ELSE end[n - 1] + widths[n]
    IN  end
=============================================================================
