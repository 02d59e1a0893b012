------------------------------ MODULE MCReports ------------------------------
(***************************************************************************)
(* A small instance of Reports: two shifts, two incidents (one of them     *)
(* with evidence), two threads.                                            *)
(***************************************************************************)
EXTENDS Reports, TLC

CONSTANTS s1, s2, i1, i2, q1, q2

Symmetric == Permutations({q1, q2}) \cup Permutations({s1, s2})
=============================================================================
