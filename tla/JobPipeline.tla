----------------------------- MODULE JobPipeline -----------------------------
(***************************************************************************)
(* The job pipeline of one job type (log_triage): enqueue_job and its      *)
(* outbox row, the dispatcher, the broker, the AI workers                  *)
(* (bridge/noc_bridge/worker.py, Worker.handle_delivery and                *)
(* _settle_failure), and the admin DLQ controls.                           *)
(*                                                                         *)
(* A worker is a serial consumer (prefetch 1).  Its pc stands between two  *)
(* of its externally visible steps: every committed transaction, every     *)
(* object-store write and every broker operation is a step of its own, so  *)
(* that crashes, lost channels and other workers interleave between them.  *)
(*                                                                         *)
(* What may go wrong in the environment is drawn from a Budget, one number *)
(* per kind of fault; with a kind's budget at 0 that fault never happens.  *)
(***************************************************************************)
EXTENDS JobTable, Broker

CONSTANTS
    Workers,   \* worker processes
    NoMsg,     \* a worker holds no delivery
    Budget,    \* [Faults -> Nat]: how many faults of each kind may happen
    SettlesWithinTtl   \* no worker needs retry_ttl_ms (30 s) for one UPDATE

Faults == {"crash",      \* a worker process dies, or an exception escapes handle_delivery
           "channel",    \* the broker closes a worker's channel under it
           "expiry",     \* a lease runs out while its owner still works
           "duplicate",  \* the dispatcher dies, or loses the confirm, after a publish
           "restart",    \* the broker restarts
           "read",       \* the object store answers an error to reconciliation
           "requeue",    \* an admin requeues or purges the DLQ
           "abort"}      \* an admin request dies between publish and commit

ASSUME BudgetAssumption == Budget \in [Faults -> Nat]
ASSUME SettlesWithinTtlAssumption == SettlesWithinTtl \in BOOLEAN
ASSUME NoMsgAssumption == NoMsg \notin Bodies
ASSUME NoJobAssumption == NoJob \notin Jobs

VARIABLES
    outbox,     \* outbox[j]: the OutboxEvent of job j
    pc,         \* pc[w]: where worker w is in handle_delivery
    msg,        \* msg[w]: the decoded delivery
    tok,        \* tok[w]: message["_claim_token"]
    chan,       \* chan[w]: the channel that delivered msg[w] is still open
    result,     \* result[j]: jobs/{id}/result.json is in the object store
    telemetry,  \* telemetry[j]: jobs/{id}/telemetry.json is in the object store
    admin,      \* the job a requeue request has published and not yet reconciled
    used,       \* used[f]: faults of kind f so far
    completed   \* history: job j was COMPLETED at some time

workerVars == <<pc, msg, tok, chan>>
storeVars == <<result, telemetry>>
vars == <<jobs, main, retry, dlq, outbox, pc, msg, tok, chan,
          result, telemetry, admin, used, completed>>

-----------------------------------------------------------------------------
(***************************************************************************)
(* Where a worker can be.                                                  *)
(***************************************************************************)
Classifying == {"received", "classify", "nack"}
Running     == {"reconcile", "infer", "upload", "telemetry", "complete"}
Settling    == {"failed", "fatal", "bump", "republish", "retrying", "toDlq"}
Acking      == {"ack", "ackDone"}
Pcs == {"idle", "claimed"} \cup Classifying \cup Running \cup Settling \cup Acking

Held(w) == pc[w] # "idle" /\ chan[w]

TokensInUse == {jobs[j].token : j \in Jobs} \cup {tok[w] : w \in Workers}

TypeOK ==
    /\ jobs \in [Jobs -> Row]
    /\ main \in [Bodies -> Nat] /\ retry \in [Bodies -> Nat] /\ dlq \in [Bodies -> Nat]
    /\ outbox \in [Jobs -> {"none", "pending", "sent", "published"}]
    /\ pc \in [Workers -> Pcs]
    /\ msg \in [Workers -> Bodies \cup {NoMsg}]
    /\ tok \in [Workers -> Tokens \cup {NoToken}]
    /\ chan \in [Workers -> BOOLEAN]
    /\ result \in [Jobs -> BOOLEAN] /\ telemetry \in [Jobs -> BOOLEAN]
    /\ admin \in Jobs \cup {NoJob}
    /\ used \in [Faults -> Nat]
    /\ completed \in [Jobs -> BOOLEAN]

Init ==
    /\ JobTableInit
    /\ BrokerInit
    /\ outbox = [j \in Jobs |-> "none"]
    /\ pc = [w \in Workers |-> "idle"]
    /\ msg = [w \in Workers |-> NoMsg]
    /\ tok = [w \in Workers |-> NoToken]
    /\ chan = [w \in Workers |-> FALSE]
    /\ result = [j \in Jobs |-> FALSE]
    /\ telemetry = [j \in Jobs |-> FALSE]
    /\ admin = NoJob
    /\ used = [f \in Faults |-> 0]
    /\ completed = [j \in Jobs |-> FALSE]

Spend(f) ==
    /\ used[f] < Budget[f]
    /\ used' = [used EXCEPT ![f] = @ + 1]

Goto(w, to) == pc' = [pc EXCEPT ![w] = to] /\ UNCHANGED <<msg, tok, chan>>

At(w, from) == pc[w] = from

\* The worker forgets its delivery and waits for the next one.
Forget(w) ==
    /\ pc' = [pc EXCEPT ![w] = "idle"]
    /\ msg' = [msg EXCEPT ![w] = NoMsg]
    /\ tok' = [tok EXCEPT ![w] = NoToken]
    /\ chan' = [chan EXCEPT ![w] = FALSE]

-----------------------------------------------------------------------------
(***************************************************************************)
(* The API and the outbox dispatcher.                                      *)
(***************************************************************************)

\* enqueue_job, committed: the Job row and its OutboxEvent in one transaction.
Enqueue(j) ==
    /\ InsertJob(j)
    /\ outbox' = [outbox EXCEPT ![j] = "pending"]
    /\ UNCHANGED <<brokerVars, workerVars, storeVars, admin, used, completed>>

\* dispatch_pending_events, up to the broker's confirm; the row lock is held.
DispatchPublish(j) ==
    /\ outbox[j] = "pending"
    /\ outbox' = [outbox EXCEPT ![j] = "sent"]
    /\ PublishMain(JobMsg(j, 1))
    /\ UNCHANGED <<jobs, workerVars, storeVars, admin, used, completed>>

\* ... and its commit of published_at.
DispatchCommit(j) ==
    /\ outbox[j] = "sent"
    /\ outbox' = [outbox EXCEPT ![j] = "published"]
    /\ UNCHANGED <<jobs, brokerVars, workerVars, storeVars, admin, used, completed>>

\* The dispatcher dies before that commit, or the confirm is lost: the row is
\* still pending and will be published again.
DispatchCrash(j) ==
    /\ outbox[j] = "sent"
    /\ Spend("duplicate")
    /\ outbox' = [outbox EXCEPT ![j] = "pending"]
    /\ UNCHANGED <<jobs, brokerVars, workerVars, storeVars, admin, completed>>

-----------------------------------------------------------------------------
(***************************************************************************)
(* handle_delivery up to the claim.                                        *)
(***************************************************************************)
Deliver(w, m) ==
    /\ At(w, "idle")
    /\ DeliverFrom(m)
    /\ pc' = [pc EXCEPT ![w] = "received"]
    /\ msg' = [msg EXCEPT ![w] = m]
    /\ chan' = [chan EXCEPT ![w] = TRUE]
    /\ UNCHANGED <<jobs, tok, outbox, storeVars, admin, used, completed>>

\* _validate_job_message fails: send_raw_to_dlq, then ack.
RejectInvalid(w) ==
    /\ At(w, "received") /\ chan[w]
    /\ ~ValidMessage(msg[w])
    /\ PublishDlq(QuarantineMsg)
    /\ Goto(w, "ack")
    /\ UNCHANGED <<jobs, outbox, storeVars, admin, used, completed>>

\* Mutant: COALESCE(claim_token, new), a reclaim keeps the token of the row.
ClaimKeepingToken(w) ==
    /\ At(w, "received")
    /\ ValidMessage(msg[w])
    /\ \E t \in Tokens :
          /\ IF jobs[msg[w].job].token \in Tokens THEN t = jobs[msg[w].job].token
             ELSE t \notin TokensInUse
          /\ ClaimRow(msg[w].job, t)
          /\ tok' = [tok EXCEPT ![w] = t]
    /\ pc' = [pc EXCEPT ![w] = "claimed"]
    /\ UNCHANGED <<msg, chan, brokerVars, outbox, storeVars, admin, used, completed>>

\* claim_job, the conditional UPDATE matches: CLAIMED.
Claim(w) ==
    /\ At(w, "received")
    /\ ValidMessage(msg[w])
    /\ \E t \in Tokens \ TokensInUse :
          /\ ClaimRow(msg[w].job, t)
          /\ tok' = [tok EXCEPT ![w] = t]
    /\ pc' = [pc EXCEPT ![w] = "claimed"]
    /\ UNCHANGED <<msg, chan, brokerVars, outbox, storeVars, admin, used, completed>>

\* ... it matches no row: the SELECT ... FOR UPDATE is still to come.
ClaimMiss(w) ==
    /\ At(w, "received")
    /\ ValidMessage(msg[w])
    /\ ~Claimable(msg[w].job)
    /\ Goto(w, "classify")
    /\ UNCHANGED <<jobs, brokerVars, outbox, storeVars, admin, used, completed>>

\* claim_job's classification, and the settlement handle_delivery picks for it.
Classify(w) ==
    /\ At(w, "classify")
    /\ Goto(w, CASE Disposition(msg[w].job) = "LEASE_BUSY" -> "nack"
                 [] Disposition(msg[w].job) \in {"ALREADY_COMPLETED", "NOT_CLAIMABLE"} -> "ack")
    /\ UNCHANGED <<jobs, brokerVars, outbox, storeVars, admin, used, completed>>

\* Mutant: the LEASE_BUSY delivery is acked (the defect ADR-0027 fixed).
AckBusy(w) ==
    /\ At(w, "nack") /\ chan[w]
    /\ Forget(w)
    /\ UNCHANGED <<jobs, brokerVars, outbox, storeVars, admin, used, completed>>

\* basic_nack(requeue=False): dead-lettered to the retry queue as it is.
Nack(w) ==
    /\ At(w, "nack") /\ chan[w]
    /\ PublishRetry(msg[w])
    /\ Forget(w)
    /\ UNCHANGED <<jobs, outbox, storeVars, admin, used, completed>>

Ack(w) ==
    /\ pc[w] \in Acking /\ chan[w]
    /\ Forget(w)
    /\ UNCHANGED <<jobs, brokerVars, outbox, storeVars, admin, used, completed>>

\* The claimed row takes the attempt number of the message.
BumpOnClaim(w) ==
    /\ At(w, "claimed")
    /\ bump_attempt(msg[w].job, msg[w].attempt)
    /\ Goto(w, "reconcile")
    /\ UNCHANGED <<brokerVars, outbox, storeVars, admin, used, completed>>

-----------------------------------------------------------------------------
(***************************************************************************)
(* Processing a claimed log_triage job.                                    *)
(***************************************************************************)

\* Crash reconciliation: a valid result.json of an earlier try completes the
\* job without another provider call.
ReconcileHit(w) ==
    /\ At(w, "reconcile")
    /\ result[msg[w].job]
    /\ Goto(w, "complete")
    /\ UNCHANGED <<jobs, brokerVars, outbox, storeVars, admin, used, completed>>

\* Mutant: the worker does not look for an earlier result.
SkipReconciliation(w) ==
    /\ At(w, "reconcile")
    /\ Goto(w, "infer")
    /\ UNCHANGED <<jobs, brokerVars, outbox, storeVars, admin, used, completed>>

ReconcileMiss(w) ==
    /\ At(w, "reconcile")
    /\ ~result[msg[w].job]
    /\ Goto(w, "infer")
    /\ UNCHANGED <<jobs, brokerVars, outbox, storeVars, admin, used, completed>>

\* object_exists answers False on every ClientError, and
\* _artifact_exists_and_valid on every exception: a failing read is a miss.
ReconcileReadError(w) ==
    /\ At(w, "reconcile")
    /\ result[msg[w].job]
    /\ Spend("read")
    /\ Goto(w, "infer")
    /\ UNCHANGED <<jobs, brokerVars, outbox, storeVars, admin, completed>>

\* Mutant: the job is completed before its result is uploaded.
InferThenComplete(w) ==
    /\ At(w, "infer")
    /\ Goto(w, "complete")
    /\ UNCHANGED <<jobs, brokerVars, outbox, storeVars, admin, used, completed>>

\* _process_log_triage_message: Hermes returns an output that passes the
\* validators, at once, on the repair attempt or through the fallback.
Infer(w) ==
    /\ At(w, "infer")
    /\ Goto(w, "upload")
    /\ UNCHANGED <<jobs, brokerVars, outbox, storeVars, admin, used, completed>>

UploadResult(w) ==
    /\ At(w, "upload")
    /\ result' = [result EXCEPT ![msg[w].job] = TRUE]
    /\ Goto(w, "telemetry")
    /\ UNCHANGED <<jobs, brokerVars, outbox, telemetry, admin, used, completed>>

UploadTelemetry(w) ==
    /\ At(w, "telemetry")
    /\ telemetry' = [telemetry EXCEPT ![msg[w].job] = TRUE]
    /\ Goto(w, "complete")
    /\ UNCHANGED <<jobs, brokerVars, outbox, result, admin, used, completed>>

Complete(w) ==
    /\ At(w, "complete")
    /\ mark_completed(msg[w].job, tok[w])
    /\ completed' = [completed EXCEPT ![msg[w].job] = TRUE]
    /\ Goto(w, "ackDone")
    /\ UNCHANGED <<brokerVars, outbox, storeVars, admin, used>>

\* mark_completed matched no row: JobLeaseError, which is retryable.
CompleteFenced(w) ==
    /\ At(w, "complete")
    /\ ~Owns(msg[w].job, tok[w])
    /\ Goto(w, "failed")
    /\ UNCHANGED <<jobs, brokerVars, outbox, storeVars, admin, used, completed>>

\* An exception of the try block that classify_failure calls RETRYABLE.
FailRetryable(w) ==
    /\ pc[w] \in Running
    /\ Goto(w, "failed")
    /\ UNCHANGED <<jobs, brokerVars, outbox, storeVars, admin, used, completed>>

\* ... or TERMINAL: evidence, skill snapshot or provider output is unusable.
FailTerminal(w) ==
    /\ pc[w] \in {"reconcile", "infer"}
    /\ Goto(w, "fatal")
    /\ UNCHANGED <<jobs, brokerVars, outbox, storeVars, admin, used, completed>>

-----------------------------------------------------------------------------
(***************************************************************************)
(* _settle_failure, one step per commit or broker operation.               *)
(***************************************************************************)
\* Mutant: off by one, attempt <= max_attempts.
MarkFailedOffByOne(w) ==
    /\ pc[w] \in {"failed", "fatal"}
    /\ mark_failed(msg[w].job, tok[w])
    /\ Goto(w, IF pc[w] = "failed" /\ msg[w].attempt <= MaxAttempts THEN "bump" ELSE "toDlq")
    /\ UNCHANGED <<brokerVars, outbox, storeVars, admin, used, completed>>

MarkFailed(w) ==
    /\ pc[w] \in {"failed", "fatal"}
    /\ mark_failed(msg[w].job, tok[w])
    /\ Goto(w, IF pc[w] = "failed" /\ msg[w].attempt < MaxAttempts THEN "bump" ELSE "toDlq")
    /\ UNCHANGED <<brokerVars, outbox, storeVars, admin, used, completed>>

BumpForRetry(w) ==
    /\ At(w, "bump")
    /\ bump_attempt(msg[w].job, msg[w].attempt + 1)
    /\ Goto(w, "republish")
    /\ UNCHANGED <<brokerVars, outbox, storeVars, admin, used, completed>>

\* Mutant: the retry publish is forgotten.
RepublishNothing(w) ==
    /\ At(w, "republish") /\ chan[w]
    /\ Goto(w, "retrying")
    /\ UNCHANGED <<jobs, brokerVars, outbox, storeVars, admin, used, completed>>

Republish(w) ==
    /\ At(w, "republish") /\ chan[w]
    /\ PublishRetry(JobMsg(msg[w].job, msg[w].attempt + 1))
    /\ Goto(w, "retrying")
    /\ UNCHANGED <<jobs, outbox, storeVars, admin, used, completed>>

MarkRetrying(w) ==
    /\ At(w, "retrying")
    /\ mark_retrying(msg[w].job)
    /\ Goto(w, "ack")
    /\ UNCHANGED <<brokerVars, outbox, storeVars, admin, used, completed>>

\* Mutant: an exhausted job is acked without its DLQ record.
DropExhausted(w) ==
    /\ At(w, "toDlq") /\ chan[w]
    /\ Goto(w, "ack")
    /\ UNCHANGED <<jobs, brokerVars, outbox, storeVars, admin, used, completed>>

SendToDlq(w) ==
    /\ At(w, "toDlq") /\ chan[w]
    /\ PublishDlq(FailureMsg(msg[w].job))
    /\ Goto(w, "ack")
    /\ UNCHANGED <<jobs, outbox, storeVars, admin, used, completed>>

-----------------------------------------------------------------------------
(***************************************************************************)
(* Faults.                                                                 *)
(***************************************************************************)

\* The process dies, or an exception escapes handle_delivery and run_forever
\* closes the connection: the broker takes the delivery back.
Crash(w) ==
    /\ pc[w] # "idle"
    /\ Spend("crash")
    /\ IF chan[w] THEN PublishMain(msg[w]) ELSE UNCHANGED brokerVars
    /\ Forget(w)
    /\ UNCHANGED <<jobs, outbox, storeVars, admin, completed>>

\* The broker closes the channel (a missed heartbeat while the callback
\* blocks): the delivery is requeued and the worker does not know yet.
LoseChannel(w) ==
    /\ Held(w)
    /\ Spend("channel")
    /\ PublishMain(msg[w])
    /\ chan' = [chan EXCEPT ![w] = FALSE]
    /\ UNCHANGED <<jobs, pc, msg, tok, outbox, storeVars, admin, completed>>

UsesChannel(w) ==
    \/ pc[w] \in {"nack", "ack", "republish", "toDlq"}
    \/ pc[w] = "received" /\ ~ValidMessage(msg[w])

\* A broker operation on the dead channel raises out of handle_delivery.
DeadChannel(w) ==
    /\ UsesChannel(w) /\ ~chan[w]
    /\ Forget(w)
    /\ UNCHANGED <<jobs, brokerVars, outbox, storeVars, admin, used, completed>>

\* The final ack is inside the try block: its exception settles as a failure.
DeadChannelAfterCompletion(w) ==
    /\ At(w, "ackDone") /\ ~chan[w]
    /\ Goto(w, "failed")
    /\ UNCHANGED <<jobs, brokerVars, outbox, storeVars, admin, used, completed>>

\* Every connection is down while the broker restarts.
BrokerRestart ==
    /\ \A w \in Workers : ~Held(w)
    /\ Spend("restart")
    /\ RestartQueues
    /\ UNCHANGED <<jobs, workerVars, outbox, storeVars, admin, completed>>

\* Between its retry publish and its mark_retrying a worker has the whole TTL.
RetryExpires(m) ==
    /\ SettlesWithinTtl =>
          \A w \in Workers : At(w, "retrying") => m # JobMsg(msg[w].job, msg[w].attempt + 1)
    /\ RetryTtlOver(m)
    /\ UNCHANGED <<jobs, workerVars, outbox, storeVars, admin, used, completed>>

(***************************************************************************)
(* Leases.  _LeaseRenewer runs from the claim to the end of the settlement.*)
(***************************************************************************)
Owner(w, j) == pc[w] # "idle" /\ Owns(j, tok[w])

Renew(w) ==
    /\ pc[w] \in Running \cup Settling \cup Acking
    /\ msg[w].kind = "job"
    /\ jobs[msg[w].job].lease = "expired"
    /\ renew_job_lease(msg[w].job, tok[w])
    /\ UNCHANGED <<brokerVars, workerVars, outbox, storeVars, admin, used, completed>>

OrphanedLeaseExpires(j) ==
    /\ \A w \in Workers : ~Owner(w, j)
    /\ LeaseExpires(j)
    /\ UNCHANGED <<brokerVars, workerVars, outbox, storeVars, admin, used, completed>>

EarlyLeaseExpires(j) ==
    /\ \E w \in Workers : Owner(w, j)
    /\ Spend("expiry")
    /\ LeaseExpires(j)
    /\ UNCHANGED <<brokerVars, workerVars, outbox, storeVars, admin, completed>>

-----------------------------------------------------------------------------
(***************************************************************************)
(* The admin DLQ controls.                                                 *)
(***************************************************************************)

\* requeue_one_dlq_message: basic_get, publish to main, then ack.
AdminRequeue(m) ==
    /\ admin = NoJob
    /\ dlq[m] > 0
    /\ Spend("requeue")
    /\ main' = Put(main, m)
    /\ dlq' = Take(dlq, m)
    /\ admin' = m.job
    /\ UNCHANGED <<jobs, retry, workerVars, outbox, storeVars, completed>>

\* ... the request dies between the publish and the ack.
AdminRequeueAborted(m) ==
    /\ admin = NoJob
    /\ dlq[m] > 0
    /\ Spend("abort")
    /\ PublishMain(m)
    /\ UNCHANGED <<jobs, workerVars, outbox, storeVars, admin, completed>>

\* requeue_dlq: the Job row, in a transaction of its own.
AdminReconcile ==
    /\ admin \in Jobs
    /\ ReconcileRequeued(admin)
    /\ admin' = NoJob
    /\ UNCHANGED <<brokerVars, workerVars, outbox, storeVars, used, completed>>

AdminPurge ==
    /\ dlq # Empty
    /\ Spend("requeue")
    /\ dlq' = Empty
    /\ UNCHANGED <<jobs, main, retry, workerVars, outbox, storeVars, admin, completed>>

-----------------------------------------------------------------------------
WorkerStep(w) ==
    \/ RejectInvalid(w) \/ Claim(w) \/ ClaimMiss(w) \/ Classify(w) \/ Nack(w) \/ Ack(w)
    \/ BumpOnClaim(w) \/ ReconcileHit(w) \/ ReconcileMiss(w) \/ Infer(w)
    \/ UploadResult(w) \/ UploadTelemetry(w) \/ Complete(w) \/ CompleteFenced(w)
    \/ FailRetryable(w) \/ FailTerminal(w)
    \/ MarkFailed(w) \/ BumpForRetry(w) \/ Republish(w) \/ MarkRetrying(w) \/ SendToDlq(w)
    \/ DeadChannel(w) \/ DeadChannelAfterCompletion(w)

DispatcherStep(j) == DispatchPublish(j) \/ DispatchCommit(j)

Next ==
    \/ \E j \in Jobs : \/ Enqueue(j) \/ DispatcherStep(j) \/ DispatchCrash(j)
                       \/ OrphanedLeaseExpires(j) \/ EarlyLeaseExpires(j)
    \/ \E w \in Workers : \/ WorkerStep(w) \/ ReconcileReadError(w) \/ Renew(w)
                          \/ Crash(w) \/ LoseChannel(w)
                          \/ \E m \in Bodies : Deliver(w, m)
    \/ \E m \in Bodies : RetryExpires(m) \/ AdminRequeue(m) \/ AdminRequeueAborted(m)
    \/ BrokerRestart \/ AdminReconcile \/ AdminPurge

(***************************************************************************)
(* Fairness.  A worker that has a delivery goes on with it or crashes; the *)
(* dispatcher polls for ever; the broker delivers what is in main to an    *)
(* idle consumer, in FIFO order, so no message waits for ever; a TTL and a *)
(* lease nobody renews run out.  Faults and admins are never obliged.      *)
(***************************************************************************)
Fairness ==
    /\ \A w \in Workers : WF_vars(WorkerStep(w))
    /\ \A j \in Jobs : WF_vars(DispatcherStep(j)) /\ WF_vars(OrphanedLeaseExpires(j))
    /\ \A m \in Bodies : /\ SF_vars(\E w \in Workers : Deliver(w, m))
                         /\ WF_vars(RetryExpires(m))

Spec == Init /\ [][Next]_vars
FairSpec == Spec /\ Fairness

-----------------------------------------------------------------------------
(***************************************************************************)
(* What the pipeline promises.                                             *)
(***************************************************************************)

HeldBy(w, j) == Held(w) /\ msg[w].kind = "job" /\ msg[w].job = j

\* A valid message of job j waits in main or in retry.
Waiting(j) == \E a \in Attempts : main[JobMsg(j, a)] > 0 \/ retry[JobMsg(j, a)] > 0

\* A valid message of job j is in main, in retry or with a worker.
InFlight(j) == Waiting(j) \/ \E w \in Workers : HeldBy(w, j)

AwaitsDispatch(j) == outbox[j] \in {"pending", "sent"}

\* A COMPLETED job (worker.py marks it only after the upload, or after it
\* found a valid result.json) has its result in the object store, whatever
\* crashed in between and whichever worker finished it.
CompletedHasResult ==
    \A j \in Jobs : jobs[j].status = "COMPLETED" => result[j]

\* Bounded retries never lose a job in silence: an enqueued job was completed,
\* or still waits for the dispatcher, or has a delivery, or has a failure
\* record in the DLQ (publish, then ack, in _settle_failure and the outbox).
NoLostWork ==
    \A j \in Jobs : jobs[j].status # "ABSENT" =>
        \/ completed[j]
        \/ AwaitsDispatch(j)
        \/ InFlight(j)
        \/ dlq[FailureMsg(j)] > 0

\* ADR-0027: a worker that dies after its claim does not strand the job.  A
\* PROCESSING row always has a delivery that will come back and reclaim it
\* (production-hardening.md: "the delayed delivery returns after the lease
\* expires and is reclaimed").
ProcessingHasDelivery ==
    \A j \in Jobs : jobs[j].status = "PROCESSING" => InFlight(j)

\* A QUEUED row (enqueue_job, requeue_dlq) is work somebody will be handed:
\* the API sets QUEUED only with an outbox row, and core/queue.py says that a
\* requeue puts the message on the main queue "for one more real try".
QueuedIsDeliverable ==
    \A j \in Jobs : jobs[j].status = "QUEUED" => AwaitsDispatch(j) \/ InFlight(j)

\* claim_job's token is exclusive: at most one running worker can pass the
\* fence of mark_completed and mark_failed for a job.
OneOwner ==
    \A j \in Jobs : \A v, w \in Workers : Owner(v, j) /\ Owner(w, j) => v = w

\* No stale worker, late claim or DLQ requeue takes a COMPLETED row to
\* PROCESSING, FAILED or QUEUED: only the unfenced mark_retrying reopens it.
CompletedNotReclaimed ==
    [][\A j \in Jobs : jobs[j].status = "COMPLETED" =>
          jobs'[j].status \in {"COMPLETED", "RETRYING"}]_vars

\* README: "a completed duplicate is ACKed without another paid-AI execution".
\* No worker starts an inference for a job that has been COMPLETED before.
NoInferenceAfterCompletion ==
    [][\A w \in Workers : pc[w] = "reconcile" /\ pc'[w] = "infer" =>
          ~completed[msg[w].job]]_vars

\* Every enqueued job is settled: completed, or its failure is in the DLQ.
EveryJobSettles ==
    \A j \in Jobs : jobs[j].status # "ABSENT" ~> (completed[j] \/ dlq[FailureMsg(j)] > 0)

\* ADR-0027: "Once the lease expires, the delivery can be reclaimed".  A job
\* never stays PROCESSING for ever, not even when its owner has died.
ProcessingEnds ==
    \A j \in Jobs : jobs[j].status = "PROCESSING" ~> jobs[j].status # "PROCESSING"

(***************************************************************************)
(* The inductive invariant behind OneOwner, CompletedHasResult,            *)
(* CompletedNotReclaimed and NoInferenceAfterCompletion.                   *)
(***************************************************************************)

\* Past its claim a worker has a valid job message, and one it may publish
\* again has an attempt left.
HoldsMessage ==
    \A w \in Workers :
        /\ pc[w] # "idle" => msg[w] \in Bodies
        /\ pc[w] \notin {"idle", "received", "ack"} => msg[w] \in JobMsgs
        /\ pc[w] \in {"bump", "republish", "retrying"} => msg[w].attempt < MaxAttempts

TokensDiffer ==
    \A v, w \in Workers : v # w /\ tok[v] # NoToken => tok[v] # tok[w]

UploadedBeforeCompletion ==
    \A w \in Workers : pc[w] \in {"telemetry", "complete"} => result[msg[w].job]

CompletedIsReleased ==
    \A j \in Jobs : jobs[j].status = "COMPLETED" => completed[j] /\ jobs[j].token = NoToken

OnceCompletedHasResult ==
    \A j \in Jobs : completed[j] => result[j]

IInv ==
    /\ TypeOK
    /\ HoldsMessage
    /\ TokensDiffer
    /\ UploadedBeforeCompletion
    /\ CompletedIsReleased
    /\ OnceCompletedHasResult

(***************************************************************************)
(* The inductive invariants behind ProcessingHasDelivery,                  *)
(* QueuedIsDeliverable and NoLostWork.  Each names who answers for a row,  *)
(* and holds as long as the faults that break it have no budget: a DLQ     *)
(* requeue makes a failed row QUEUED without a valid message, a broker     *)
(* restart drops the transient retries, and a worker that lost its channel *)
(* may still claim, but can publish neither a retry nor a failure record.  *)
(***************************************************************************)

\* Only a worker between its claim and its settlement has the row's token.
OwnerAtWork ==
    \A w \in Workers, j \in Jobs : Owns(j, tok[w]) =>
        /\ pc[w] \in {"claimed", "failed", "fatal"} \cup Running
        /\ msg[w].job = j

\* Who answers for a PROCESSING row: a message that waits, a worker that still
\* has to find the row busy, or the owner with its own delivery.
AnswersFor(j) ==
    \/ Waiting(j)
    \/ \E w \in Workers : HeldBy(w, j) /\ (pc[w] \in Classifying \/ Owns(j, tok[w]))

ProcessingCovered ==
    \A j \in Jobs : jobs[j].status = "PROCESSING" => AnswersFor(j)

\* Message m of job j is still to be published, waits in main, or is with a
\* worker that has not looked at the row yet.
FirstComes(j, m) ==
    \/ outbox[j] = "pending"
    \/ main[m] > 0
    \/ \E w \in Workers : Held(w) /\ At(w, "received") /\ msg[w] = m

\* A QUEUED row was never claimed: its first message is still on its way.
QueuedCovered ==
    \A j \in Jobs : jobs[j].status = "QUEUED" => FirstComes(j, JobMsg(j, 1))

\* From here a worker gives its delivery up only for another message of the
\* job or for the job's completion.
Keeping == {"received", "claimed", "nack", "failed", "fatal", "bump", "republish", "toDlq"}
           \cup Running

Kept(j) ==
    \/ completed[j] \/ outbox[j] = "pending" \/ Waiting(j) \/ dlq[FailureMsg(j)] > 0
    \/ \E w \in Workers : HeldBy(w, j) /\ pc[w] \in Keeping

\* A delivery that finds the row in one of these is acked as NOT_CLAIMABLE, so
\* something else than that delivery must keep the job.
OpenIsKept ==
    \A j \in Jobs : jobs[j].status \in {"QUEUED", "FAILED", "RETRYING"} => Kept(j)

\* mark_retrying comes before the retry it announces.
RetryStillDelayed ==
    \A w \in Workers : At(w, "retrying") => retry[JobMsg(msg[w].job, msg[w].attempt + 1)] > 0

ChannelsOpen == \A w \in Workers : pc[w] # "idle" => chan[w]

Never(f) == Budget[f] = 0

DeliveryInv ==
    /\ TypeOK /\ HoldsMessage
    /\ OwnerAtWork
    /\ Never("requeue") => admin = NoJob /\ QueuedCovered
    /\ Never("channel") => ChannelsOpen
    /\ Never("channel") /\ Never("restart") => ProcessingCovered
    /\ Never("channel") /\ Never("restart") /\ Never("requeue") /\ SettlesWithinTtl =>
          OpenIsKept /\ RetryStillDelayed

=============================================================================
