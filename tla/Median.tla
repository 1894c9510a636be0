------------------------------- MODULE Median -------------------------------
(***************************************************************************)
(* What both report codecs do with a list of observations: sort it by a    *)
(* key and take the element in the middle.                                 *)
(***************************************************************************)
EXTENDS Integers, Sequences, FiniteSets, Functions

\* All orders of a list by the keys of its elements: sort.Slice keeps none
\* among equals.
Orders(list, keys) ==
  {[i \in DOMAIN list |-> list[p[i]]] :
     p \in {q \in [DOMAIN list -> DOMAIN list] :
              /\ IsInjective(q)
              /\ \A i, j \in DOMAIN list : i < j => keys[q[i]] <= keys[q[j]]}}

Middle(list) == list[(Len(list) \div 2) + 1]

Below(list, v) == {i \in DOMAIN list : list[i].value < v}
Above(list, v) == {i \in DOMAIN list : list[i].value > v}

\* At most half of a list is below its median, less than half above.
IsMedian(list, v) ==
  /\ 2 * Cardinality(Below(list, v)) <= Len(list)
  /\ 2 * Cardinality(Above(list, v)) < Len(list)
=============================================================================
