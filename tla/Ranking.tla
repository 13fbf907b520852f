------------------------------ MODULE Ranking ------------------------------
(***************************************************************************)
(* A finite set in order: what Array.prototype.sort makes of it, by a      *)
(* comparison that leaves no two of its members undecided.                 *)
(***************************************************************************)
EXTENDS Naturals, FiniteSets

\* The k-th is the one that k - 1 come before.
InOrder(S, Before(_, _)) ==
  [k \in 1 .. Cardinality(S) |->
     CHOOSE x \in S : Cardinality({ y \in S : Before(y, x) }) = k - 1]
=============================================================================
