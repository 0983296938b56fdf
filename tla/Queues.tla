-------------------------------- MODULE Queues --------------------------------
(***************************************************************************)
(* The bounded and filtered lists the bridge keeps on both sides.  They    *)
(* are written without recursion, so that Queues_proofs can say what they  *)
(* return.                                                                 *)
(***************************************************************************)
EXTENDS Integers, Sequences, FiniteSets

\* Faulty variant of LastN: >= where the code has >.
LastNShort(s, n) == IF Len(s) >= n THEN SubSeq(s, Len(s) - n + 2, Len(s)) ELSE s

\* The last n elements of s, all of them if there are fewer.
LastN(s, n) == IF Len(s) > n THEN SubSeq(s, Len(s) - n + 1, Len(s)) ELSE s

\* s without its i-th element.
Without(s, i) == SubSeq(s, 1, i - 1) \o SubSeq(s, i + 1, Len(s))

\* The elements of s at the positions in K, in their order.
Kept(s, K) ==
  [n \in 1..Cardinality(K) |->
     s[CHOOSE i \in K : Cardinality({j \in K : j <= i}) = n]]
=============================================================================
