-------------------------------- MODULE Lists --------------------------------
(***************************************************************************)
(* Folding, filtering and sorting of lists, as the code's loops, retain,   *)
(* filter and sort and FoldLeft, SelectSeq and SortSeq do it, in a form    *)
(* that can be reasoned about and that TLC evaluates in one pass over the  *)
(* list: recursion on the position, and the places of the elements.        *)
(***************************************************************************)
EXTENDS Integers, FiniteSets, SequencesExt

\* A list that was decoded: it has a length and that many places.
IsList(s) == Len(s) \in Nat /\ DOMAIN s = 1..Len(s)

\* f over base and one element after the other
Folded(f(_, _), base, seq) ==
  LET after[i \in 0..Len(seq)] == IF i = 0 THEN base ELSE f(after[i - 1], seq[i])
  IN after[Len(seq)]

\* The elements of a sequence that pass a test, in their order.
Where(seq, Test(_)) == Folded(LAMBDA s, x : IF Test(x) THEN Append(s, x) ELSE s, <<>>, seq)

\* All of them in the order of Before, which is strict and total on them.
Sorted(seq, Before(_, _)) ==
  LET place(i) == Cardinality({j \in DOMAIN seq : Before(seq[j], seq[i])}) + 1
  IN [k \in DOMAIN seq |-> seq[CHOOSE i \in DOMAIN seq : place(i) = k]]
==============================================================================
