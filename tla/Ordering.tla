------------------------------ MODULE Ordering ------------------------------
(***************************************************************************)
(* What sorted() makes of a finite set: the element that k others come        *)
(* before stands in place k + 1.  `before' is a strict total order.          *)
(***************************************************************************)
EXTENDS Integers, FiniteSets

Ordered(S, before(_, _)) ==
  [k \in 1..Cardinality(S) |->
     CHOOSE b \in S : Cardinality({c \in S : before(c, b)}) = k - 1]

(* The elements of s at the places I, in their order. *)
Entries(s, I) == LET at == Ordered(I, <) IN [n \in 1..Cardinality(I) |-> s[at[n]]]
=============================================================================
