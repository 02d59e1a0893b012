------------------------------ MODULE JobTable ------------------------------
(***************************************************************************)
(* The `jobs` table as the AI workers write it (bridge/noc_bridge/db.py):  *)
(* one row per job, and one action fragment per SQL helper.  Every helper  *)
(* is one committed transaction, so each fragment is atomic.               *)
(*                                                                         *)
(* The clock is abstracted: a lease is "live" or "expired", and whoever    *)
(* composes this module says when a live lease may expire.  A claim token  *)
(* is a fresh uuid4; here it is any token that no row and no worker holds, *)
(* which cannot be told apart from a token never used before.              *)
(***************************************************************************)
EXTENDS JobIds

CONSTANTS
    Tokens,       \* claim tokens (uuid4 values)
    NoToken       \* claim_token IS NULL

ASSUME TokenAssumption == NoToken \notin Tokens

VARIABLE jobs

Statuses == {"ABSENT", "QUEUED", "PROCESSING", "RETRYING", "FAILED", "COMPLETED"}
Leases == {"none", "live", "expired"}
Row == [status  : Statuses,
        token   : Tokens \cup {NoToken},
        lease   : Leases,
        attempt : 0 .. MaxAttempts]

AbsentRow == [status |-> "ABSENT", token |-> NoToken, lease |-> "none", attempt |-> 0]

JobTableInit == jobs = [j \in Jobs |-> AbsentRow]

(***************************************************************************)
(* enqueue_job: the Job row of the API's transaction.                      *)
(***************************************************************************)
InsertJob(j) ==
    /\ jobs[j].status = "ABSENT"
    /\ jobs' = [jobs EXCEPT ![j] =
                   [status |-> "QUEUED", token |-> NoToken, lease |-> "none", attempt |-> 1]]

\* Mutant: an expired lease is not reclaimed.
ClaimableUnleased(j) ==
    jobs[j].status \in {"QUEUED", "FAILED", "RETRYING"}

(***************************************************************************)
(* The WHERE clause of claim_job's conditional UPDATE.                     *)
(***************************************************************************)
Claimable(j) ==
    \/ jobs[j].status \in {"QUEUED", "FAILED", "RETRYING"}
    \/ jobs[j].status = "PROCESSING" /\ jobs[j].lease # "live"

ClaimRow(j, t) ==
    /\ Claimable(j)
    /\ jobs' = [jobs EXCEPT ![j] =
                   [status |-> "PROCESSING", token |-> t, lease |-> "live",
                    attempt |-> jobs[j].attempt]]

(***************************************************************************)
(* claim_job's second statement, run only when the UPDATE matched no row.  *)
(* READ COMMITTED gives it a newer snapshot than the UPDATE had, so it may *)
(* find any status.  `now` was read before the UPDATE: a lease that was    *)
(* live then, or was granted since, is >= now, so every PROCESSING row is  *)
(* LEASE_BUSY here even if its lease has run out in the meantime.          *)
(***************************************************************************)
Disposition(j) ==
    CASE jobs[j].status = "COMPLETED"  -> "ALREADY_COMPLETED"
      [] jobs[j].status = "PROCESSING" -> "LEASE_BUSY"
      [] OTHER                         -> "NOT_CLAIMABLE"

Owns(j, t) == t # NoToken /\ jobs[j].token = t

\* Mutant: the claim is not released.
mark_completed_keeping_token(j, t) ==
    /\ Owns(j, t)
    /\ jobs' = [jobs EXCEPT ![j] =
                   [status |-> "COMPLETED", token |-> t, lease |-> "none",
                    attempt |-> jobs[j].attempt]]

(***************************************************************************)
(* mark_completed and mark_failed are fenced by the claim token: with a    *)
(* stale token they match no row and change nothing.                       *)
(***************************************************************************)
mark_completed(j, t) ==
    /\ Owns(j, t)
    /\ jobs' = [jobs EXCEPT ![j] =
                   [status |-> "COMPLETED", token |-> NoToken, lease |-> "none",
                    attempt |-> jobs[j].attempt]]

mark_failed(j, t) ==
    jobs' = IF Owns(j, t)
            THEN [jobs EXCEPT ![j] =
                     [status |-> "FAILED", token |-> NoToken, lease |-> "none",
                      attempt |-> jobs[j].attempt]]
            ELSE jobs

(***************************************************************************)
(* mark_retrying and bump_attempt name the row by its id only.             *)
(***************************************************************************)
mark_retrying(j) ==
    jobs' = [jobs EXCEPT ![j] =
                [status |-> "RETRYING", token |-> NoToken, lease |-> "none",
                 attempt |-> jobs[j].attempt]]

bump_attempt(j, a) ==
    jobs' = [jobs EXCEPT ![j] =
                [status |-> jobs[j].status, token |-> jobs[j].token,
                 lease |-> jobs[j].lease, attempt |-> a]]

SetLease(j, l) ==
    jobs' = [jobs EXCEPT ![j] =
                [status |-> jobs[j].status, token |-> jobs[j].token,
                 lease |-> l, attempt |-> jobs[j].attempt]]

(***************************************************************************)
(* renew_job_lease: needs PROCESSING and the caller's token, not a live    *)
(* lease, so a renewal may revive an expired lease nobody has reclaimed.   *)
(***************************************************************************)
renew_job_lease(j, t) ==
    /\ jobs[j].status = "PROCESSING"
    /\ Owns(j, t)
    /\ SetLease(j, "live")

LeaseExpires(j) ==
    /\ jobs[j].lease = "live"
    /\ SetLease(j, "expired")

\* Mutant: the requeue resets whatever row it finds.
ReconcileUnconditional(j) ==
    jobs' = [jobs EXCEPT ![j] =
                [status |-> "QUEUED", token |-> NoToken, lease |-> "none", attempt |-> 1]]

(***************************************************************************)
(* The row update of the admin DLQ requeue (requeue_dlq), under a row lock *)
(* and only for a row no worker owns.                                      *)
(***************************************************************************)
ReconcileRequeued(j) ==
    jobs' = IF jobs[j].status \in {"FAILED", "RETRYING", "QUEUED"}
            THEN [jobs EXCEPT ![j] =
                     [status |-> "QUEUED", token |-> NoToken, lease |-> "none", attempt |-> 1]]
            ELSE jobs
=============================================================================
