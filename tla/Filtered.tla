------------------------------ MODULE Filtered ------------------------------
(***************************************************************************)
(* What Array.filter, or a loop that appends, keeps of a sequence: what    *)
(* SelectSeq selects, but told by its places and not by recursion, so that *)
(* it can be reasoned about.  And what a spread makes of two objects.      *)
(***************************************************************************)
EXTENDS Integers, Sequences, FiniteSets

\* The k-th of a set of places.
Nth(P, k) == CHOOSE i \in P : Cardinality({j \in P : j <= i}) = k

\* What stands in s at these places, in the order of s.
Kept(s, P) == [k \in 1..Cardinality(P) |-> s[Nth(P, k)]]

\* {...g, ...f}
Spread(f, g) == [x \in DOMAIN f \cup DOMAIN g |-> IF x \in DOMAIN f THEN f[x] ELSE g[x]]
=============================================================================
