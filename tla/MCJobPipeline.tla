--------------------------- MODULE MCJobPipeline ---------------------------
(***************************************************************************)
(* Small instances of JobPipeline.  A fault budget is a function, so each  *)
(* one a run uses is named here; the other kinds of fault are at 0.        *)
(***************************************************************************)
EXTENDS JobPipeline, TLC

CONSTANTS j1, w1, w2, t1, t2, t3

With(f) == [k \in Faults |-> IF k \in DOMAIN f THEN f[k] ELSE 0]

\* Two workers die, a lease runs out too early, the dispatcher publishes twice.
CrashBudget == With([crash |-> 2, expiry |-> 1, duplicate |-> 1])

\* The broker drops a channel and restarts, on top of an expiry and a duplicate.
BrokerBudget == With([channel |-> 1, restart |-> 1, expiry |-> 1, duplicate |-> 1])

\* An admin works on the DLQ while a duplicate and a failed read happen.
AdminBudget == With([requeue |-> 2, abort |-> 1, duplicate |-> 1, read |-> 1])

OneCrash == With([crash |-> 1])
OneRequeue == With([requeue |-> 1])

Symmetric == Permutations({w1, w2}) \cup Permutations({t1, t2, t3})
=============================================================================
