----------------------------- MODULE MCAnalysis -----------------------------
(***************************************************************************)
(* A small instance of Analysis with the repository's two skills.          *)
(***************************************************************************)
EXTENDS Analysis, TLC

CONSTANTS triage, daily, e1, e2, e3, i1, i2, l1, l2, q1, q2

Depends == (triage :> NoSkill) @@ (daily :> triage)

\* Version 2 of the analysis skill is registered and waits for its activation.
Drafted ==
    << [skill |-> triage, version |-> 1, edition |-> e1, pin |-> NoPin, active |-> TRUE],
       [skill |-> daily, version |-> 1, edition |-> e1, pin |-> 1, active |-> TRUE],
       [skill |-> triage, version |-> 2, edition |-> e2, pin |-> NoPin, active |-> FALSE] >>

FreshOrDrafted == {<<>>, Drafted}

Symmetric == Permutations({q1, q2}) \cup Permutations({i1, i2}) \cup Permutations({l1, l2})
=============================================================================
