----------------------------- MODULE RoundScenes ----------------------------
(* The small worlds of RoundTasks: committees, generators and provisioners. *)
EXTENDS Naturals

\* x and y have a credit each.
PairSlots == 1..2
PairCommittee ==
  [i \in 0..1 |-> [s \in {"validation", "ratification"} |->
     [k \in PairSlots |-> IF k = 1 THEN "x" ELSE "y"]]]

\* The node generates the first candidate itself, a faulty generator the next.
PairGenerator == [i \in 0..1 |-> IF i = 0 THEN "x" ELSE "w"]

\* Lists of one to four provisioners; the second may not be eligible yet.
ProvisionerLists ==
  {[p \in 1..n |-> [value |-> 2 + (p % 3) + k, since |-> IF p = 2 THEN e ELSE 0]] :
     n \in 1..4, k \in 0..1, e \in {0, 9}}
=============================================================================
