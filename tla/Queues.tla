------------------------------- MODULE Queues -------------------------------
(***************************************************************************)
(* Queues that lose entries from the middle.  The standard SelectSeq is    *)
(* recursive, of which nothing can be proved; this is not.                 *)
(***************************************************************************)
EXTENDS Naturals, Sequences, FiniteSets

\* Vec::retain: the elements of s that are in kept, in their order.
Retain(s, kept) ==
    LET at == {i \in 1 .. Len(s) : s[i] \in kept}
        rank(i) == Cardinality({j \in at : j <= i})
    IN  [n \in 1 .. Cardinality(at) |-> s[CHOOSE i \in at : rank(i) = n]]
=============================================================================
