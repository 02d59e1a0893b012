------------------------------- MODULE Outbox -------------------------------
(***************************************************************************)
(* The transactional outbox (apps/api/app/outbox.py, outbox_worker.py):    *)
(* the outbox_events table, any number of dispatcher processes, and the    *)
(* retention cleanup that runs on the same processes.                      *)
(*                                                                         *)
(* A dispatcher claims one row per transaction (SELECT ... FOR UPDATE SKIP *)
(* LOCKED, oldest first), publishes it with a confirm, writes published_at *)
(* and commits.  The row lock lives as long as that transaction, so it is  *)
(* the dispatcher's own state: lock[e] = d from the SELECT to the commit   *)
(* or to the death of d, when the database rolls the transaction back.     *)
(*                                                                         *)
(* Event ids are numbered in the order of created_at.                      *)
(***************************************************************************)
EXTENDS Integers, FiniteSets

CONSTANTS
    N,             \* number of events
    Dispatchers,   \* dispatcher processes
    Nobody,        \* an unlocked row
    BatchSize,     \* dispatch_pending_events(batch_size)
    CleanupBatch,  \* outbox_cleanup_batch_size
    Poison,        \* events the broker never accepts (unroutable, mandatory=True)
    MaxCrashes,    \* bound on dispatcher deaths
    MaxPublishErrors   \* bound on transient publish errors

ASSUME NAssumption == N \in Nat
ASSUME NobodyAssumption == Nobody \notin Dispatchers
ASSUME BatchAssumption == BatchSize \in Nat \ {0} /\ CleanupBatch \in Nat \ {0}
ASSUME PoisonAssumption == Poison \subseteq 1 .. N
ASSUME BoundAssumption == MaxCrashes \in Nat /\ MaxPublishErrors \in Nat

Events == 1 .. N
NoEvent == 0

VARIABLES
    row,      \* row[e]: "absent", "pending" (published_at IS NULL), "published",
              \*         "old" (published_at < cutoff) or "deleted"
    lock,     \* lock[e]: the dispatcher whose open transaction locks row e
    dpc,      \* dpc[d]: where dispatcher d is
    cur,      \* cur[d]: the row d is publishing
    failed,   \* failed[d]: failed_ids of the running pass
    left,     \* left[d]: iterations left of `for _ in range(batch_size)`
    sent,     \* sent[e]: copies the broker has accepted
    crashes, errors

vars == <<row, lock, dpc, cur, failed, left, sent, crashes, errors>>

TypeOK ==
    /\ row \in [Events -> {"absent", "pending", "published", "old", "deleted"}]
    /\ lock \in [Events -> Dispatchers \cup {Nobody}]
    /\ dpc \in [Dispatchers -> {"waiting", "select", "publish", "sent", "errored",
                                "cleanup", "delete"}]
    /\ cur \in [Dispatchers -> Events \cup {NoEvent}]
    /\ failed \in [Dispatchers -> SUBSET Events]
    /\ left \in [Dispatchers -> 0 .. BatchSize]
    /\ sent \in [Events -> Nat]
    /\ crashes \in 0 .. MaxCrashes
    /\ errors \in 0 .. MaxPublishErrors

Init ==
    /\ row = [e \in Events |-> "absent"]
    /\ lock = [e \in Events |-> Nobody]
    /\ dpc = [d \in Dispatchers |-> "waiting"]
    /\ cur = [d \in Dispatchers |-> NoEvent]
    /\ failed = [d \in Dispatchers |-> {}]
    /\ left = [d \in Dispatchers |-> 0]
    /\ sent = [e \in Events |-> 0]
    /\ crashes = 0
    /\ errors = 0

\* A transaction that called enqueue_job commits (jobs.py): only now is the
\* row visible to a dispatcher.
Commit(e) ==
    /\ row[e] = "absent"
    /\ row' = [row EXCEPT ![e] = "pending"]
    /\ UNCHANGED <<lock, dpc, cur, failed, left, sent, crashes, errors>>

-----------------------------------------------------------------------------
(***************************************************************************)
(* dispatch_pending_events.                                                *)
(***************************************************************************)

\* The worker loop (outbox_worker.run_forever) calls it after each poll wait.
StartPass(d) ==
    /\ dpc[d] = "waiting"
    /\ dpc' = [dpc EXCEPT ![d] = "select"]
    /\ left' = [left EXCEPT ![d] = BatchSize]
    /\ failed' = [failed EXCEPT ![d] = {}]
    /\ UNCHANGED <<row, lock, cur, sent, crashes, errors>>

\* Mutant: SELECT without FOR UPDATE SKIP LOCKED.
SelectableLocked(d) ==
    {e \in Events : row[e] = "pending" /\ e \notin failed[d]}

Selectable(d) ==
    {e \in Events : row[e] = "pending" /\ lock[e] = Nobody /\ e \notin failed[d]}

SelectRow(d) ==
    /\ dpc[d] = "select" /\ left[d] > 0
    /\ \E e \in Selectable(d) :
          /\ \A f \in Selectable(d) : e <= f
          /\ lock' = [lock EXCEPT ![e] = d]
          /\ cur' = [cur EXCEPT ![d] = e]
    /\ dpc' = [dpc EXCEPT ![d] = "publish"]
    /\ left' = [left EXCEPT ![d] = @ - 1]
    /\ UNCHANGED <<row, failed, sent, crashes, errors>>

\* `row is None`, or the batch is used up.
EndPass(d) ==
    /\ dpc[d] = "select"
    /\ left[d] = 0 \/ Selectable(d) = {}
    /\ dpc' = [dpc EXCEPT ![d] = "cleanup"]
    /\ UNCHANGED <<row, lock, cur, failed, left, sent, crashes, errors>>

\* publish_message returns: the broker has confirmed the message.
PublishConfirmed(d) ==
    /\ dpc[d] = "publish" /\ cur[d] \notin Poison
    /\ sent' = [sent EXCEPT ![cur[d]] = @ + 1]
    /\ dpc' = [dpc EXCEPT ![d] = "sent"]
    /\ UNCHANGED <<row, lock, cur, failed, left, crashes, errors>>

\* Mutant: the exception is swallowed and the row marked published.
RefusalIgnored(d) ==
    /\ dpc[d] = "publish" /\ cur[d] \in Poison
    /\ dpc' = [dpc EXCEPT ![d] = "sent"]
    /\ UNCHANGED <<row, lock, cur, failed, left, sent, crashes, errors>>

\* publish_message raises because the broker nacks or returns the message.
PublishRefused(d) ==
    /\ dpc[d] = "publish" /\ cur[d] \in Poison
    /\ dpc' = [dpc EXCEPT ![d] = "errored"]
    /\ UNCHANGED <<row, lock, cur, failed, left, sent, crashes, errors>>

\* ... or because the connection fails, before or after the broker took it.
PublishInterrupted(d) ==
    /\ dpc[d] = "publish" /\ cur[d] \notin Poison
    /\ errors < MaxPublishErrors
    /\ errors' = errors + 1
    /\ UNCHANGED sent \/ sent' = [sent EXCEPT ![cur[d]] = @ + 1]
    /\ dpc' = [dpc EXCEPT ![d] = "errored"]
    /\ UNCHANGED <<row, lock, cur, failed, left, crashes>>

\* Mutant: one commit frees rows that other transactions still use.
UnlockAll(d) == lock' = [e \in Events |-> Nobody]

Unlock(d) == lock' = [e \in Events |-> IF lock[e] = d THEN Nobody ELSE lock[e]]

\* published_at = now(), committed: the lock goes with the transaction.
MarkPublished(d) ==
    /\ dpc[d] = "sent"
    /\ row' = [row EXCEPT ![cur[d]] = "published"]
    /\ Unlock(d)
    /\ cur' = [cur EXCEPT ![d] = NoEvent]
    /\ dpc' = [dpc EXCEPT ![d] = "select"]
    /\ UNCHANGED <<failed, left, sent, crashes, errors>>

\* Mutant: failed_ids is not kept.
MarkErroredForgetting(d) ==
    /\ dpc[d] = "errored"
    /\ Unlock(d)
    /\ cur' = [cur EXCEPT ![d] = NoEvent]
    /\ dpc' = [dpc EXCEPT ![d] = "select"]
    /\ UNCHANGED <<row, failed, left, sent, crashes, errors>>

\* Mutant: published_at is written in the error branch too.
MarkErroredPublished(d) ==
    /\ dpc[d] = "errored"
    /\ row' = [row EXCEPT ![cur[d]] = "published"]
    /\ failed' = [failed EXCEPT ![d] = @ \cup {cur[d]}]
    /\ Unlock(d)
    /\ cur' = [cur EXCEPT ![d] = NoEvent]
    /\ dpc' = [dpc EXCEPT ![d] = "select"]
    /\ UNCHANGED <<left, sent, crashes, errors>>

\* attempt_count + 1, committed; the row stays pending but out of this pass.
MarkErrored(d) ==
    /\ dpc[d] = "errored"
    /\ failed' = [failed EXCEPT ![d] = @ \cup {cur[d]}]
    /\ Unlock(d)
    /\ cur' = [cur EXCEPT ![d] = NoEvent]
    /\ dpc' = [dpc EXCEPT ![d] = "select"]
    /\ UNCHANGED <<row, left, sent, crashes, errors>>

-----------------------------------------------------------------------------
(***************************************************************************)
(* purge_published_events: lock a bounded batch of old rows, then delete.  *)
(***************************************************************************)

\* Time passes: published_at falls behind the retention cutoff.
Age(e) ==
    /\ row[e] = "published"
    /\ row' = [row EXCEPT ![e] = "old"]
    /\ UNCHANGED <<lock, dpc, cur, failed, left, sent, crashes, errors>>

Eligible == {e \in Events : row[e] = "old" /\ lock[e] = Nobody}

CleanupSelect(d) ==
    /\ dpc[d] = "cleanup"
    /\ \E S \in SUBSET Eligible :
          /\ S # {} /\ Cardinality(S) <= CleanupBatch
          /\ lock' = [e \in Events |-> IF e \in S THEN d ELSE lock[e]]
    /\ dpc' = [dpc EXCEPT ![d] = "delete"]
    /\ UNCHANGED <<row, cur, failed, left, sent, crashes, errors>>

CleanupDelete(d) ==
    /\ dpc[d] = "delete"
    /\ row' = [e \in Events |-> IF lock[e] = d /\ row[e] = "old" THEN "deleted" ELSE row[e]]
    /\ Unlock(d)
    /\ dpc' = [dpc EXCEPT ![d] = "waiting"]
    /\ UNCHANGED <<cur, failed, left, sent, crashes, errors>>

\* The cleanup interval is not over, nothing is eligible, or cleanup failed.
SkipCleanup(d) ==
    /\ dpc[d] = "cleanup"
    /\ dpc' = [dpc EXCEPT ![d] = "waiting"]
    /\ UNCHANGED <<row, lock, cur, failed, left, sent, crashes, errors>>

\* The process dies or loses its database session: the open transaction is
\* rolled back, what the broker accepted stays accepted.
Crash(d) ==
    /\ dpc[d] # "waiting"
    /\ crashes < MaxCrashes
    /\ crashes' = crashes + 1
    /\ Unlock(d)
    /\ dpc' = [dpc EXCEPT ![d] = "waiting"]
    /\ cur' = [cur EXCEPT ![d] = NoEvent]
    /\ UNCHANGED <<row, failed, left, sent, errors>>

-----------------------------------------------------------------------------
DispatcherStep(d) ==
    \/ StartPass(d) \/ SelectRow(d) \/ EndPass(d)
    \/ PublishConfirmed(d) \/ PublishRefused(d) \/ PublishInterrupted(d)
    \/ MarkPublished(d) \/ MarkErrored(d)
    \/ CleanupSelect(d) \/ CleanupDelete(d) \/ SkipCleanup(d)

Next ==
    \/ \E e \in Events : Commit(e) \/ Age(e)
    \/ \E d \in Dispatchers : DispatcherStep(d) \/ Crash(d)

Spec == Init /\ [][Next]_vars

\* run_forever never returns: every dispatcher keeps taking steps.
FairSpec == Spec /\ \A d \in Dispatchers : WF_vars(DispatcherStep(d))

-----------------------------------------------------------------------------
\* README: "unpublished rows are never deleted by retention".  A row that is
\* gone was accepted by the broker at least once.
DeletedWasPublished ==
    \A e \in Events : row[e] \in {"published", "old", "deleted"} => sent[e] > 0

\* Dispatchers that run side by side publish a row once: only a death between
\* the broker's confirm and the commit, or a lost confirm, makes a second copy
\* (the race dispatch_pending_events closes with one row per transaction).
DuplicatesOnlyByFailure ==
    \A e \in Events : sent[e] <= 1 + crashes + errors

(***************************************************************************)
(* The inductive invariant behind the two: a dispatcher between its SELECT *)
(* and its commit holds the lock of a pending row, so no other dispatcher  *)
(* publishes it; a row without a confirmed, uncommitted copy has at most   *)
(* one copy per failure.                                                   *)
(***************************************************************************)
PublisherHoldsLock ==
    \A d \in Dispatchers :
        dpc[d] \in {"publish", "sent", "errored"} =>
            cur[d] \in Events /\ lock[cur[d]] = d /\ row[cur[d]] = "pending"

SentIsConfirmed ==
    \A d \in Dispatchers : dpc[d] = "sent" => sent[cur[d]] > 0

AbsentIsUnsent ==
    \A e \in Events : row[e] = "absent" => sent[e] = 0

AwaitsCommit(e) == \E d \in Dispatchers : dpc[d] = "sent" /\ cur[d] = e

PendingCopiesAreFailures ==
    \A e \in Events : row[e] = "pending" /\ ~AwaitsCommit(e) => sent[e] <= crashes + errors

IInv ==
    /\ TypeOK
    /\ PublisherHoldsLock
    /\ SentIsConfirmed
    /\ AbsentIsUnsent
    /\ PendingCopiesAreFailures
    /\ DeletedWasPublished
    /\ DuplicatesOnlyByFailure

Delivery == INSTANCE AtLeastOnce
                WITH owed <- {e \in Events : row[e] = "pending"}, copies <- sent

\* The outbox implements the abstract at-least-once channel.
ImplementsAtLeastOnce == Delivery!Spec

\* Every committed event reaches the broker, also behind events that never do:
\* failed_ids keeps a failing row from using up the pass, as long as fewer
\* rows than one batch fail for ever.
EveryEventIsSent ==
    Cardinality(Poison) < BatchSize =>
        \A e \in Events \ Poison : row[e] = "pending" ~> sent[e] > 0
=============================================================================
