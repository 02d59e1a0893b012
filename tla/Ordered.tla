------------------------------- MODULE Ordered -------------------------------
(***************************************************************************)
(* Sequences made of finite sets of numbers: the set in ascending order    *)
(* (sorted), and the elements of a sequence at a set of positions (a list  *)
(* comprehension with a condition).                                        *)
(***************************************************************************)
EXTENDS Integers, FiniteSets

Ascending(S) ==
    CHOOSE f \in [1 .. Cardinality(S) -> S] :
        \A i, j \in 1 .. Cardinality(S) : i < j => f[i] < f[j]

AtPositions(seq, S) ==
    LET order == Ascending(S) IN [k \in 1 .. Cardinality(S) |-> seq[order[k]]]
=============================================================================
