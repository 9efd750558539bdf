---------------------------- MODULE Subsequences ----------------------------
(***************************************************************************)
(* What a Go loop that filters a slice in place returns: the elements at    *)
(* some positions, in their order.  It is SelectSeq by the positions that   *)
(* are kept instead of a test (MCClientSync compares the two), so that what *)
(* is kept can be reasoned about.                                           *)
(***************************************************************************)
EXTENDS Naturals, Sequences, FiniteSets

\* The n-th of a set of positions.
Nth(positions, n) ==
    CHOOSE i \in positions : Cardinality({k \in positions : k <= i}) = n

\* The elements of s at these positions.
At(s, positions) == [n \in 1 .. Cardinality(positions) |-> s[Nth(positions, n)]]
=============================================================================
