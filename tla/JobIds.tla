------------------------------- MODULE JobIds -------------------------------
(***************************************************************************)
(* What the jobs table and the broker have in common: the job ids, and the *)
(* number of attempts a job message may carry (settings.max_attempts).     *)
(***************************************************************************)
EXTENDS Integers

CONSTANTS Jobs, MaxAttempts

ASSUME MaxAttemptsAssumption == MaxAttempts \in Nat \ {0}

Attempts == 1 .. MaxAttempts
=============================================================================
