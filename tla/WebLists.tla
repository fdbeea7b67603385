-------------------------------- MODULE WebLists --------------------------------
(***************************************************************************)
(* Lists as the web interface and the daemon handle them: what the array   *)
(* operations filter and find of JavaScript, and a loop with a condition,  *)
(* leave of a list.  They are defined by the positions that stay and their *)
(* ranks, without recursion.                                               *)
(***************************************************************************)
EXTENDS Naturals, Sequences, FiniteSets

\* the k-th smallest of a finite set of numbers
Upto(S, i) == {j \in S : j <= i}
Kth(S, k) == CHOOSE i \in S : Cardinality(Upto(S, i)) = k

\* the elements of s at the positions in at, in order
Pick(s, at) == [k \in 1..Cardinality(at) |-> s[Kth(at, k)]]
=============================================================================
