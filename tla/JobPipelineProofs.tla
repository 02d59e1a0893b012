-------------------------- MODULE JobPipelineProofs --------------------------
(***************************************************************************)
(* Proofs about JobPipeline for any set of jobs, workers and tokens, any   *)
(* attempt bound and any fault budget.                                     *)
(***************************************************************************)
EXTENDS JobPipeline, TLAPS

USE MaxAttemptsAssumption, TokenAssumption, BudgetAssumption, NoMsgAssumption,
    NoJobAssumption

-----------------------------------------------------------------------------
(***************************************************************************)
(* The messages and the queues.                                            *)
(***************************************************************************)

\* Which bodies are job messages, and what a body carries.
LEMMA BodyFacts ==
  /\ JobMsgs \subseteq Bodies
  /\ \A j \in Jobs, a \in Attempts : JobMsg(j, a) \in JobMsgs
  /\ \A m \in JobMsgs : m.kind = "job" /\ m.job \in Jobs /\ m.attempt \in Attempts
  /\ \A m \in Bodies : m.kind = "job" => m \in JobMsgs
  /\ \A m \in Bodies : m.job \in Jobs \cup {NoJob}
  /\ \A j \in Jobs : FailureMsg(j) \in Bodies
  /\ QuarantineMsg \in Bodies
  <1> USE DEF JobMsgs, Bodies
  <1>1. /\ JobMsgs \subseteq Bodies
        /\ \A j \in Jobs, a \in Attempts : JobMsg(j, a) \in JobMsgs
        /\ \A j \in Jobs : FailureMsg(j) \in Bodies
        /\ QuarantineMsg \in Bodies
    OBVIOUS
  <1>2. ASSUME NEW m \in JobMsgs
        PROVE  m.kind = "job" /\ m.job \in Jobs /\ m.attempt \in Attempts
    <2>1. PICK j \in Jobs, a \in Attempts : m = JobMsg(j, a)
      OBVIOUS
    <2> QED
      BY <2>1 DEF JobMsg
  <1>3. ASSUME NEW m \in Bodies
        PROVE  (m.kind = "job" => m \in JobMsgs) /\ m.job \in Jobs \cup {NoJob}
    <2>1. CASE m \in JobMsgs
      BY <1>2, <2>1
    <2>2. CASE \E j \in Jobs : m = FailureMsg(j)
      BY <2>2 DEF FailureMsg
    <2>3. CASE m = QuarantineMsg
      BY <2>3 DEF QuarantineMsg
    <2> QED
      BY <2>1, <2>2, <2>3
  <1> QED
    BY <1>1, <1>2, <1>3

\* Put and Take keep a queue a count of copies per body.
LEMMA QueueTypes ==
  ASSUME NEW q \in [Bodies -> Nat], NEW m \in Bodies
  PROVE  /\ Put(q, m) \in [Bodies -> Nat]
         /\ q[m] > 0 => Take(q, m) \in [Bodies -> Nat]
         /\ Empty \in [Bodies -> Nat]
         /\ DropTransient(q) \in [Bodies -> Nat]
  BY DEF Put, Take, Empty, DropTransient

\* Every SQL helper leaves a table of rows.
LEMMA RowTypes ==
  ASSUME jobs \in [Jobs -> Row], NEW j \in Jobs
  PROVE  /\ InsertJob(j) => jobs' \in [Jobs -> Row]
         /\ \A t \in Tokens : ClaimRow(j, t) => jobs' \in [Jobs -> Row]
         /\ \A t : mark_completed(j, t) => jobs' \in [Jobs -> Row]
         /\ \A t : mark_failed(j, t) => jobs' \in [Jobs -> Row]
         /\ mark_retrying(j) => jobs' \in [Jobs -> Row]
         /\ \A a \in 0 .. MaxAttempts : bump_attempt(j, a) => jobs' \in [Jobs -> Row]
         /\ \A t : renew_job_lease(j, t) => jobs' \in [Jobs -> Row]
         /\ LeaseExpires(j) => jobs' \in [Jobs -> Row]
         /\ ReconcileRequeued(j) => jobs' \in [Jobs -> Row]
  BY DEF Row, Statuses, Leases, InsertJob, ClaimRow, mark_completed, mark_failed,
         mark_retrying, bump_attempt, renew_job_lease, LeaseExpires, SetLease,
         ReconcileRequeued

\* A spent fault is counted.
LEMMA SpendType ==
  ASSUME used \in [Faults -> Nat], NEW f \in Faults, Spend(f)
  PROVE  used' \in [Faults -> Nat]
  BY DEF Spend

\* The retry of a message that has an attempt left is a job message.
LEMMA RetryMsg ==
  ASSUME NEW m \in JobMsgs, m.attempt < MaxAttempts
  PROVE  m.attempt + 1 \in Attempts /\ JobMsg(m.job, m.attempt + 1) \in JobMsgs
  BY BodyFacts DEF Attempts

LEMMA InitIInv == Init => IInv
  BY BodyFacts, QueueTypes DEF Init, IInv, TypeOK, HoldsMessage, TokensDiffer,
     UploadedBeforeCompletion, CompletedIsReleased, OnceCompletedHasResult, JobTableInit,
     BrokerInit, AbsentRow, Row, Statuses, Leases, Empty, Pcs

-----------------------------------------------------------------------------
(***************************************************************************)
(* Typing, with the message discipline it needs.                           *)
(***************************************************************************)
TableOK == jobs \in [Jobs -> Row]
QueuesOK == main \in [Bodies -> Nat] /\ retry \in [Bodies -> Nat] /\ dlq \in [Bodies -> Nat]
WorkersOK ==
    /\ pc \in [Workers -> Pcs]
    /\ msg \in [Workers -> Bodies \cup {NoMsg}]
    /\ tok \in [Workers -> Tokens \cup {NoToken}]
    /\ chan \in [Workers -> BOOLEAN]
RestOK ==
    /\ outbox \in [Jobs -> {"none", "pending", "sent", "published"}]
    /\ result \in [Jobs -> BOOLEAN] /\ telemetry \in [Jobs -> BOOLEAN]
    /\ admin \in Jobs \cup {NoJob}
    /\ used \in [Faults -> Nat]
    /\ completed \in [Jobs -> BOOLEAN]

Typed == TableOK /\ QueuesOK /\ WorkersOK /\ RestOK /\ HoldsMessage

LEMMA TypedIsTypeOK == Typed <=> TypeOK /\ HoldsMessage
  BY DEF Typed, TableOK, QueuesOK, WorkersOK, RestOK, TypeOK

\* Typing and the message discipline, one step per action.
LEMMA NextTyped == Typed /\ [Next]_vars => Typed'
  <1> SUFFICES ASSUME Typed, [Next]_vars
               PROVE  Typed'
    OBVIOUS
  <1> USE DEF Typed, TableOK, QueuesOK, WorkersOK, RestOK, HoldsMessage, Attempts,
              Pcs, Classifying, Running, Settling, Acking
  <1>1. ASSUME NEW j \in Jobs, Enqueue(j) PROVE Typed'
    BY <1>1, RowTypes DEF Enqueue, brokerVars, workerVars, storeVars
  <1>2. ASSUME NEW j \in Jobs, DispatchPublish(j) PROVE Typed'
    <2>1. JobMsg(j, 1) \in Bodies
      BY BodyFacts DEF Attempts
    <2>2. QueuesOK'
      BY <1>2, <2>1, QueueTypes DEF DispatchPublish, PublishMain
    <2> QED
      BY <1>2, <2>2 DEF DispatchPublish, workerVars, storeVars
  <1>3. ASSUME NEW j \in Jobs, DispatchCommit(j) PROVE Typed'
    BY <1>3 DEF DispatchCommit, brokerVars, workerVars, storeVars
  <1>4. ASSUME NEW j \in Jobs, DispatchCrash(j) PROVE Typed'
    BY <1>4, SpendType DEF DispatchCrash, brokerVars, workerVars, storeVars,
       Faults
  <1>5. ASSUME NEW j \in Jobs, OrphanedLeaseExpires(j) PROVE Typed'
    BY <1>5, RowTypes DEF OrphanedLeaseExpires, Owner, brokerVars,
       workerVars, storeVars
  <1>6. ASSUME NEW j \in Jobs, EarlyLeaseExpires(j) PROVE Typed'
    BY <1>6, RowTypes, SpendType DEF EarlyLeaseExpires, Owner, brokerVars,
       workerVars, storeVars, Faults
  <1>7. ASSUME NEW w \in Workers, RejectInvalid(w) PROVE Typed'
    BY <1>7, BodyFacts, QueueTypes DEF RejectInvalid, Goto, At, PublishDlq,
       ValidMessage, storeVars
  <1>8. ASSUME NEW w \in Workers, Claim(w) PROVE Typed'
    BY <1>8, BodyFacts, RowTypes DEF Claim, At, TokensInUse, ValidMessage, brokerVars,
       storeVars
  <1>9. ASSUME NEW w \in Workers, ClaimMiss(w) PROVE Typed'
    BY <1>9, BodyFacts DEF ClaimMiss, Goto, At, Claimable, ValidMessage, brokerVars,
       storeVars
  <1>10. ASSUME NEW w \in Workers, Classify(w) PROVE Typed'
    BY <1>10 DEF Classify, Goto, At, brokerVars, storeVars, Disposition
  <1>11. ASSUME NEW w \in Workers, Nack(w) PROVE Typed'
    BY <1>11, QueueTypes DEF Nack, Forget, At, PublishRetry, storeVars
  <1>12. ASSUME NEW w \in Workers, Ack(w) PROVE Typed'
    BY <1>12 DEF Ack, Forget, brokerVars, storeVars
  <1>13. ASSUME NEW w \in Workers, BumpOnClaim(w) PROVE Typed'
    BY <1>13, BodyFacts, RowTypes DEF BumpOnClaim, Goto, At, brokerVars, storeVars
  <1>14. ASSUME NEW w \in Workers, ReconcileHit(w) PROVE Typed'
    BY <1>14 DEF ReconcileHit, Goto, At, brokerVars, storeVars
  <1>15. ASSUME NEW w \in Workers, ReconcileMiss(w) PROVE Typed'
    BY <1>15 DEF ReconcileMiss, Goto, At, brokerVars, storeVars
  <1>16. ASSUME NEW w \in Workers, ReconcileReadError(w) PROVE Typed'
    BY <1>16, SpendType DEF ReconcileReadError, Goto, At, brokerVars,
       storeVars, Faults
  <1>17. ASSUME NEW w \in Workers, Infer(w) PROVE Typed'
    BY <1>17 DEF Infer, Goto, At, brokerVars, storeVars
  <1>18. ASSUME NEW w \in Workers, UploadResult(w) PROVE Typed'
    BY <1>18 DEF UploadResult, Goto, At, brokerVars
  <1>19. ASSUME NEW w \in Workers, UploadTelemetry(w) PROVE Typed'
    BY <1>19 DEF UploadTelemetry, Goto, At, brokerVars
  <1>20. ASSUME NEW w \in Workers, Complete(w) PROVE Typed'
    BY <1>20, BodyFacts, RowTypes DEF Complete, Goto, At, brokerVars, storeVars
  <1>21. ASSUME NEW w \in Workers, CompleteFenced(w) PROVE Typed'
    BY <1>21 DEF CompleteFenced, Goto, At, Owns, brokerVars, storeVars
  <1>22. ASSUME NEW w \in Workers, FailRetryable(w) PROVE Typed'
    BY <1>22 DEF FailRetryable, Goto, brokerVars, storeVars
  <1>23. ASSUME NEW w \in Workers, FailTerminal(w) PROVE Typed'
    BY <1>23 DEF FailTerminal, Goto, brokerVars, storeVars
  <1>24. ASSUME NEW w \in Workers, MarkFailed(w) PROVE Typed'
    BY <1>24, BodyFacts, RowTypes DEF MarkFailed, Goto, brokerVars, storeVars
  <1>25. ASSUME NEW w \in Workers, BumpForRetry(w) PROVE Typed'
    BY <1>25, BodyFacts, RowTypes, RetryMsg DEF BumpForRetry, Goto, At, brokerVars,
       storeVars
  <1>26. ASSUME NEW w \in Workers, Republish(w) PROVE Typed'
    BY <1>26, BodyFacts, QueueTypes, RetryMsg DEF Republish, Goto, At, PublishRetry,
       storeVars
  <1>27. ASSUME NEW w \in Workers, MarkRetrying(w) PROVE Typed'
    BY <1>27, BodyFacts, RowTypes DEF MarkRetrying, Goto, At, brokerVars, storeVars
  <1>28. ASSUME NEW w \in Workers, SendToDlq(w) PROVE Typed'
    BY <1>28, BodyFacts, QueueTypes DEF SendToDlq, Goto, At, PublishDlq, storeVars
  <1>29. ASSUME NEW w \in Workers, DeadChannel(w) PROVE Typed'
    BY <1>29 DEF DeadChannel, Forget, UsesChannel, brokerVars, storeVars
  <1>30. ASSUME NEW w \in Workers, DeadChannelAfterCompletion(w) PROVE Typed'
    BY <1>30 DEF DeadChannelAfterCompletion, Goto, At, brokerVars, storeVars
  <1>31. ASSUME NEW w \in Workers, Renew(w) PROVE Typed'
    BY <1>31, BodyFacts, RowTypes DEF Renew, brokerVars, workerVars, storeVars
  <1>32. ASSUME NEW w \in Workers, Crash(w) PROVE Typed'
    <2>1. QueuesOK'
      <3>1. CASE chan[w]
        <4>1. msg[w] \in Bodies /\ main' = Put(main, msg[w]) /\ UNCHANGED <<retry, dlq>>
          BY <1>32, <3>1 DEF Crash, PublishMain
        <4> QED
          BY <4>1, QueueTypes
      <3>2. CASE ~chan[w]
        BY <1>32, <3>2 DEF Crash, brokerVars
      <3> QED
        BY <3>1, <3>2
    <2>2. RestOK'
      BY <1>32, SpendType DEF Crash, storeVars, Faults
    <2>3. TableOK' /\ WorkersOK' /\ HoldsMessage'
      BY <1>32 DEF Crash, Forget
    <2> QED
      BY <2>1, <2>2, <2>3
  <1>33. ASSUME NEW w \in Workers, LoseChannel(w) PROVE Typed'
    BY <1>33, QueueTypes, SpendType DEF LoseChannel, Held, PublishMain,
       storeVars, Faults
  <1>34. ASSUME NEW w \in Workers, NEW m \in Bodies, Deliver(w, m) PROVE Typed'
    BY <1>34, QueueTypes DEF Deliver, At, DeliverFrom, storeVars
  <1>35. ASSUME NEW m \in Bodies, RetryExpires(m) PROVE Typed'
    BY <1>35, QueueTypes DEF RetryExpires, At, RetryTtlOver, workerVars,
       storeVars
  <1>36. ASSUME NEW m \in Bodies, AdminRequeue(m) PROVE Typed'
    BY <1>36, BodyFacts, QueueTypes, SpendType DEF AdminRequeue, workerVars, storeVars,
       Faults
  <1>37. ASSUME NEW m \in Bodies, AdminRequeueAborted(m) PROVE Typed'
    BY <1>37, QueueTypes, SpendType DEF AdminRequeueAborted, PublishMain,
       workerVars, storeVars, Faults
  <1>38. CASE BrokerRestart
    BY <1>38, BodyFacts, QueueTypes, SpendType DEF BrokerRestart, Held, RestartQueues,
       workerVars, storeVars, Faults
  <1>39. CASE AdminReconcile
    BY <1>39, RowTypes DEF AdminReconcile, brokerVars, workerVars, storeVars
  <1>40. CASE AdminPurge
    BY <1>40, BodyFacts, QueueTypes, SpendType DEF AdminPurge, workerVars, storeVars,
       Faults
  <1>41. CASE UNCHANGED vars
    BY <1>41 DEF vars
  <1> QED
        BY <1>1, <1>2, <1>3, <1>4, <1>5, <1>6, <1>7, <1>8, <1>9, <1>10, <1>11,
       <1>12, <1>13, <1>14, <1>15, <1>16, <1>17, <1>18, <1>19, <1>20, <1>21, <1>22,
       <1>23, <1>24, <1>25, <1>26, <1>27, <1>28, <1>29, <1>30, <1>31, <1>32, <1>33,
       <1>34, <1>35, <1>36, <1>37, <1>38, <1>39, <1>40, <1>41
       DEF Next, WorkerStep, DispatcherStep

\* A claim token is new: no other worker holds it (Claim), and a worker only
\* ever drops its token otherwise.
LEMMA NextTokensDiffer == Typed /\ TokensDiffer /\ [Next]_vars => TokensDiffer'
  <1> SUFFICES ASSUME Typed, TokensDiffer, [Next]_vars
               PROVE  TokensDiffer'
    OBVIOUS
  <1> USE DEF Typed, WorkersOK, TokensDiffer
  <1>1. ASSUME NEW j \in Jobs, Enqueue(j) PROVE TokensDiffer'
    BY <1>1 DEF Enqueue, workerVars
  <1>2. ASSUME NEW j \in Jobs, DispatchPublish(j) PROVE TokensDiffer'
    BY <1>2 DEF DispatchPublish, workerVars
  <1>3. ASSUME NEW j \in Jobs, DispatchCommit(j) PROVE TokensDiffer'
    BY <1>3 DEF DispatchCommit, workerVars
  <1>4. ASSUME NEW j \in Jobs, DispatchCrash(j) PROVE TokensDiffer'
    BY <1>4 DEF DispatchCrash, workerVars
  <1>5. ASSUME NEW j \in Jobs, OrphanedLeaseExpires(j) PROVE TokensDiffer'
    BY <1>5 DEF OrphanedLeaseExpires, workerVars
  <1>6. ASSUME NEW j \in Jobs, EarlyLeaseExpires(j) PROVE TokensDiffer'
    BY <1>6 DEF EarlyLeaseExpires, workerVars
  <1>7. ASSUME NEW w \in Workers, RejectInvalid(w) PROVE TokensDiffer'
    BY <1>7 DEF RejectInvalid, Goto
  <1>8. ASSUME NEW w \in Workers, Claim(w) PROVE TokensDiffer'
    BY <1>8 DEF Claim, TokensInUse
  <1>9. ASSUME NEW w \in Workers, ClaimMiss(w) PROVE TokensDiffer'
    BY <1>9 DEF ClaimMiss, Goto
  <1>10. ASSUME NEW w \in Workers, Classify(w) PROVE TokensDiffer'
    BY <1>10 DEF Classify, Goto
  <1>11. ASSUME NEW w \in Workers, Nack(w) PROVE TokensDiffer'
    BY <1>11 DEF Nack, Forget
  <1>12. ASSUME NEW w \in Workers, Ack(w) PROVE TokensDiffer'
    BY <1>12 DEF Ack, Forget
  <1>13. ASSUME NEW w \in Workers, BumpOnClaim(w) PROVE TokensDiffer'
    BY <1>13 DEF BumpOnClaim, Goto
  <1>14. ASSUME NEW w \in Workers, ReconcileHit(w) PROVE TokensDiffer'
    BY <1>14 DEF ReconcileHit, Goto
  <1>15. ASSUME NEW w \in Workers, ReconcileMiss(w) PROVE TokensDiffer'
    BY <1>15 DEF ReconcileMiss, Goto
  <1>16. ASSUME NEW w \in Workers, ReconcileReadError(w) PROVE TokensDiffer'
    BY <1>16 DEF ReconcileReadError, Goto
  <1>17. ASSUME NEW w \in Workers, Infer(w) PROVE TokensDiffer'
    BY <1>17 DEF Infer, Goto
  <1>18. ASSUME NEW w \in Workers, UploadResult(w) PROVE TokensDiffer'
    BY <1>18 DEF UploadResult, Goto
  <1>19. ASSUME NEW w \in Workers, UploadTelemetry(w) PROVE TokensDiffer'
    BY <1>19 DEF UploadTelemetry, Goto
  <1>20. ASSUME NEW w \in Workers, Complete(w) PROVE TokensDiffer'
    BY <1>20 DEF Complete, Goto
  <1>21. ASSUME NEW w \in Workers, CompleteFenced(w) PROVE TokensDiffer'
    BY <1>21 DEF CompleteFenced, Goto
  <1>22. ASSUME NEW w \in Workers, FailRetryable(w) PROVE TokensDiffer'
    BY <1>22 DEF FailRetryable, Goto
  <1>23. ASSUME NEW w \in Workers, FailTerminal(w) PROVE TokensDiffer'
    BY <1>23 DEF FailTerminal, Goto
  <1>24. ASSUME NEW w \in Workers, MarkFailed(w) PROVE TokensDiffer'
    BY <1>24 DEF MarkFailed, Goto
  <1>25. ASSUME NEW w \in Workers, BumpForRetry(w) PROVE TokensDiffer'
    BY <1>25 DEF BumpForRetry, Goto
  <1>26. ASSUME NEW w \in Workers, Republish(w) PROVE TokensDiffer'
    BY <1>26 DEF Republish, Goto
  <1>27. ASSUME NEW w \in Workers, MarkRetrying(w) PROVE TokensDiffer'
    BY <1>27 DEF MarkRetrying, Goto
  <1>28. ASSUME NEW w \in Workers, SendToDlq(w) PROVE TokensDiffer'
    BY <1>28 DEF SendToDlq, Goto
  <1>29. ASSUME NEW w \in Workers, DeadChannel(w) PROVE TokensDiffer'
    BY <1>29 DEF DeadChannel, Forget
  <1>30. ASSUME NEW w \in Workers, DeadChannelAfterCompletion(w) PROVE TokensDiffer'
    BY <1>30 DEF DeadChannelAfterCompletion, Goto
  <1>31. ASSUME NEW w \in Workers, Renew(w) PROVE TokensDiffer'
    BY <1>31 DEF Renew, workerVars
  <1>32. ASSUME NEW w \in Workers, Crash(w) PROVE TokensDiffer'
    BY <1>32 DEF Crash, Forget
  <1>33. ASSUME NEW w \in Workers, LoseChannel(w) PROVE TokensDiffer'
    BY <1>33 DEF LoseChannel
  <1>34. ASSUME NEW w \in Workers, NEW m \in Bodies, Deliver(w, m) PROVE TokensDiffer'
    BY <1>34 DEF Deliver
  <1>35. ASSUME NEW m \in Bodies, RetryExpires(m) PROVE TokensDiffer'
    BY <1>35 DEF RetryExpires, workerVars
  <1>36. ASSUME NEW m \in Bodies, AdminRequeue(m) PROVE TokensDiffer'
    BY <1>36 DEF AdminRequeue, workerVars
  <1>37. ASSUME NEW m \in Bodies, AdminRequeueAborted(m) PROVE TokensDiffer'
    BY <1>37 DEF AdminRequeueAborted, workerVars
  <1>38. CASE BrokerRestart
    BY <1>38 DEF BrokerRestart, workerVars
  <1>39. CASE AdminReconcile
    BY <1>39 DEF AdminReconcile, workerVars
  <1>40. CASE AdminPurge
    BY <1>40 DEF AdminPurge, workerVars
  <1>41. CASE UNCHANGED vars
    BY <1>41 DEF vars
  <1> QED
        BY <1>1, <1>2, <1>3, <1>4, <1>5, <1>6, <1>7, <1>8, <1>9, <1>10, <1>11,
       <1>12, <1>13, <1>14, <1>15, <1>16, <1>17, <1>18, <1>19, <1>20, <1>21, <1>22,
       <1>23, <1>24, <1>25, <1>26, <1>27, <1>28, <1>29, <1>30, <1>31, <1>32, <1>33,
       <1>34, <1>35, <1>36, <1>37, <1>38, <1>39, <1>40, <1>41
       DEF Next, WorkerStep, DispatcherStep

\* The upload comes before the completion, a result is never removed, and a
\* completed row has no owner left.
StoreInv == UploadedBeforeCompletion /\ CompletedIsReleased /\ OnceCompletedHasResult

LEMMA NextStoreInv == Typed /\ StoreInv /\ [Next]_vars => StoreInv'
  <1> SUFFICES ASSUME Typed, StoreInv, [Next]_vars
               PROVE  StoreInv'
    OBVIOUS
  <1> USE DEF Typed, TableOK, WorkersOK, RestOK, HoldsMessage, StoreInv,
              UploadedBeforeCompletion, CompletedIsReleased, OnceCompletedHasResult, Row,
              Running, Acking
  <1>1. ASSUME NEW j \in Jobs, Enqueue(j) PROVE StoreInv'
    BY <1>1 DEF Enqueue, workerVars, storeVars, InsertJob
  <1>2. ASSUME NEW j \in Jobs, DispatchPublish(j) PROVE StoreInv'
    BY <1>2 DEF DispatchPublish, workerVars, storeVars
  <1>3. ASSUME NEW j \in Jobs, DispatchCommit(j) PROVE StoreInv'
    BY <1>3 DEF DispatchCommit, workerVars, storeVars
  <1>4. ASSUME NEW j \in Jobs, DispatchCrash(j) PROVE StoreInv'
    BY <1>4 DEF DispatchCrash, workerVars, storeVars
  <1>5. ASSUME NEW j \in Jobs, OrphanedLeaseExpires(j) PROVE StoreInv'
    BY <1>5 DEF OrphanedLeaseExpires, workerVars, storeVars, LeaseExpires,
       SetLease
  <1>6. ASSUME NEW j \in Jobs, EarlyLeaseExpires(j) PROVE StoreInv'
    BY <1>6 DEF EarlyLeaseExpires, workerVars, storeVars, LeaseExpires,
       SetLease
  <1>7. ASSUME NEW w \in Workers, RejectInvalid(w) PROVE StoreInv'
    BY <1>7 DEF RejectInvalid, Goto, At, storeVars
  <1>8. ASSUME NEW w \in Workers, Claim(w) PROVE StoreInv'
    BY <1>8 DEF Claim, At, storeVars, ClaimRow, Claimable, ValidMessage
  <1>9. ASSUME NEW w \in Workers, ClaimMiss(w) PROVE StoreInv'
    BY <1>9 DEF ClaimMiss, Goto, At, storeVars, Claimable
  <1>10. ASSUME NEW w \in Workers, Classify(w) PROVE StoreInv'
    BY <1>10 DEF Classify, Goto, At, storeVars, Disposition
  <1>11. ASSUME NEW w \in Workers, Nack(w) PROVE StoreInv'
    BY <1>11 DEF Nack, Forget, At, storeVars
  <1>12. ASSUME NEW w \in Workers, Ack(w) PROVE StoreInv'
    BY <1>12 DEF Ack, Forget, storeVars
  <1>13. ASSUME NEW w \in Workers, BumpOnClaim(w) PROVE StoreInv'
    BY <1>13 DEF BumpOnClaim, Goto, At, storeVars, bump_attempt
  <1>14. ASSUME NEW w \in Workers, ReconcileHit(w) PROVE StoreInv'
    BY <1>14 DEF ReconcileHit, Goto, At, storeVars
  <1>15. ASSUME NEW w \in Workers, ReconcileMiss(w) PROVE StoreInv'
    BY <1>15 DEF ReconcileMiss, Goto, At, storeVars
  <1>16. ASSUME NEW w \in Workers, ReconcileReadError(w) PROVE StoreInv'
    BY <1>16 DEF ReconcileReadError, Goto, At, storeVars
  <1>17. ASSUME NEW w \in Workers, Infer(w) PROVE StoreInv'
    BY <1>17 DEF Infer, Goto, At, storeVars
  <1>18. ASSUME NEW w \in Workers, UploadResult(w) PROVE StoreInv'
    BY <1>18, BodyFacts DEF UploadResult, Goto, At
  <1>19. ASSUME NEW w \in Workers, UploadTelemetry(w) PROVE StoreInv'
    BY <1>19 DEF UploadTelemetry, Goto, At
  <1>20. ASSUME NEW w \in Workers, Complete(w) PROVE StoreInv'
    BY <1>20 DEF Complete, Goto, At, storeVars, mark_completed, Owns
  <1>21. ASSUME NEW w \in Workers, CompleteFenced(w) PROVE StoreInv'
    BY <1>21 DEF CompleteFenced, Goto, At, storeVars, Owns
  <1>22. ASSUME NEW w \in Workers, FailRetryable(w) PROVE StoreInv'
    BY <1>22 DEF FailRetryable, Goto, storeVars
  <1>23. ASSUME NEW w \in Workers, FailTerminal(w) PROVE StoreInv'
    BY <1>23 DEF FailTerminal, Goto, storeVars
  <1>24. ASSUME NEW w \in Workers, MarkFailed(w) PROVE StoreInv'
    BY <1>24 DEF MarkFailed, Goto, storeVars, mark_failed, Owns
  <1>25. ASSUME NEW w \in Workers, BumpForRetry(w) PROVE StoreInv'
    BY <1>25 DEF BumpForRetry, Goto, At, storeVars, bump_attempt
  <1>26. ASSUME NEW w \in Workers, Republish(w) PROVE StoreInv'
    BY <1>26 DEF Republish, Goto, At, storeVars
  <1>27. ASSUME NEW w \in Workers, MarkRetrying(w) PROVE StoreInv'
    BY <1>27 DEF MarkRetrying, Goto, At, storeVars, mark_retrying
  <1>28. ASSUME NEW w \in Workers, SendToDlq(w) PROVE StoreInv'
    BY <1>28 DEF SendToDlq, Goto, At, storeVars
  <1>29. ASSUME NEW w \in Workers, DeadChannel(w) PROVE StoreInv'
    BY <1>29 DEF DeadChannel, Forget, storeVars
  <1>30. ASSUME NEW w \in Workers, DeadChannelAfterCompletion(w) PROVE StoreInv'
    BY <1>30 DEF DeadChannelAfterCompletion, Goto, At, storeVars
  <1>31. ASSUME NEW w \in Workers, Renew(w) PROVE StoreInv'
    BY <1>31 DEF Renew, workerVars, storeVars, renew_job_lease, SetLease,
       Owns
  <1>32. ASSUME NEW w \in Workers, Crash(w) PROVE StoreInv'
    BY <1>32 DEF Crash, Forget, storeVars
  <1>33. ASSUME NEW w \in Workers, LoseChannel(w) PROVE StoreInv'
    BY <1>33 DEF LoseChannel, storeVars
  <1>34. ASSUME NEW w \in Workers, NEW m \in Bodies, Deliver(w, m) PROVE StoreInv'
    BY <1>34 DEF Deliver, At, storeVars
  <1>35. ASSUME NEW m \in Bodies, RetryExpires(m) PROVE StoreInv'
    BY <1>35 DEF RetryExpires, At, workerVars, storeVars
  <1>36. ASSUME NEW m \in Bodies, AdminRequeue(m) PROVE StoreInv'
    BY <1>36 DEF AdminRequeue, workerVars, storeVars
  <1>37. ASSUME NEW m \in Bodies, AdminRequeueAborted(m) PROVE StoreInv'
    BY <1>37 DEF AdminRequeueAborted, workerVars, storeVars
  <1>38. CASE BrokerRestart
    BY <1>38 DEF BrokerRestart, workerVars, storeVars
  <1>39. CASE AdminReconcile
    BY <1>39 DEF AdminReconcile, workerVars, storeVars, ReconcileRequeued
  <1>40. CASE AdminPurge
    BY <1>40 DEF AdminPurge, workerVars, storeVars
  <1>41. CASE UNCHANGED vars
    BY <1>41 DEF vars
  <1> QED
        BY <1>1, <1>2, <1>3, <1>4, <1>5, <1>6, <1>7, <1>8, <1>9, <1>10, <1>11,
       <1>12, <1>13, <1>14, <1>15, <1>16, <1>17, <1>18, <1>19, <1>20, <1>21, <1>22,
       <1>23, <1>24, <1>25, <1>26, <1>27, <1>28, <1>29, <1>30, <1>31, <1>32, <1>33,
       <1>34, <1>35, <1>36, <1>37, <1>38, <1>39, <1>40, <1>41
       DEF Next, WorkerStep, DispatcherStep

StaysOrRetries ==
    \A j \in Jobs : jobs[j].status = "COMPLETED" => jobs'[j].status \in {"COMPLETED", "RETRYING"}

\* A completed row has no token, so the fenced helpers miss it; claim_job and
\* the DLQ requeue exclude it; bump_attempt and the lease keep its status.
LEMMA NextStaysOrRetries == Typed /\ CompletedIsReleased /\ [Next]_vars => StaysOrRetries
  <1> SUFFICES ASSUME Typed, CompletedIsReleased, [Next]_vars
               PROVE  StaysOrRetries
    OBVIOUS
  <1> USE DEF Typed, TableOK, HoldsMessage, CompletedIsReleased, StaysOrRetries, Row
  <1>1. ASSUME NEW j \in Jobs, Enqueue(j) PROVE StaysOrRetries
    BY <1>1 DEF Enqueue, InsertJob
  <1>2. ASSUME NEW j \in Jobs, DispatchPublish(j) PROVE StaysOrRetries
    BY <1>2 DEF DispatchPublish
  <1>3. ASSUME NEW j \in Jobs, DispatchCommit(j) PROVE StaysOrRetries
    BY <1>3 DEF DispatchCommit
  <1>4. ASSUME NEW j \in Jobs, DispatchCrash(j) PROVE StaysOrRetries
    BY <1>4 DEF DispatchCrash
  <1>5. ASSUME NEW j \in Jobs, OrphanedLeaseExpires(j) PROVE StaysOrRetries
    BY <1>5 DEF OrphanedLeaseExpires, LeaseExpires, SetLease
  <1>6. ASSUME NEW j \in Jobs, EarlyLeaseExpires(j) PROVE StaysOrRetries
    BY <1>6 DEF EarlyLeaseExpires, LeaseExpires, SetLease
  <1>7. ASSUME NEW w \in Workers, RejectInvalid(w) PROVE StaysOrRetries
    BY <1>7 DEF RejectInvalid
  <1>8. ASSUME NEW w \in Workers, Claim(w) PROVE StaysOrRetries
    BY <1>8 DEF Claim, ClaimRow, Claimable, ValidMessage, At
  <1>9. ASSUME NEW w \in Workers, ClaimMiss(w) PROVE StaysOrRetries
    BY <1>9 DEF ClaimMiss, Claimable
  <1>10. ASSUME NEW w \in Workers, Classify(w) PROVE StaysOrRetries
    BY <1>10 DEF Classify
  <1>11. ASSUME NEW w \in Workers, Nack(w) PROVE StaysOrRetries
    BY <1>11 DEF Nack
  <1>12. ASSUME NEW w \in Workers, Ack(w) PROVE StaysOrRetries
    BY <1>12 DEF Ack
  <1>13. ASSUME NEW w \in Workers, BumpOnClaim(w) PROVE StaysOrRetries
    BY <1>13 DEF BumpOnClaim, bump_attempt
  <1>14. ASSUME NEW w \in Workers, ReconcileHit(w) PROVE StaysOrRetries
    BY <1>14 DEF ReconcileHit
  <1>15. ASSUME NEW w \in Workers, ReconcileMiss(w) PROVE StaysOrRetries
    BY <1>15 DEF ReconcileMiss
  <1>16. ASSUME NEW w \in Workers, ReconcileReadError(w) PROVE StaysOrRetries
    BY <1>16 DEF ReconcileReadError
  <1>17. ASSUME NEW w \in Workers, Infer(w) PROVE StaysOrRetries
    BY <1>17 DEF Infer
  <1>18. ASSUME NEW w \in Workers, UploadResult(w) PROVE StaysOrRetries
    BY <1>18 DEF UploadResult
  <1>19. ASSUME NEW w \in Workers, UploadTelemetry(w) PROVE StaysOrRetries
    BY <1>19 DEF UploadTelemetry
  <1>20. ASSUME NEW w \in Workers, Complete(w) PROVE StaysOrRetries
    BY <1>20 DEF Complete, mark_completed, Owns
  <1>21. ASSUME NEW w \in Workers, CompleteFenced(w) PROVE StaysOrRetries
    BY <1>21 DEF CompleteFenced, Owns
  <1>22. ASSUME NEW w \in Workers, FailRetryable(w) PROVE StaysOrRetries
    BY <1>22 DEF FailRetryable
  <1>23. ASSUME NEW w \in Workers, FailTerminal(w) PROVE StaysOrRetries
    BY <1>23 DEF FailTerminal
  <1>24. ASSUME NEW w \in Workers, MarkFailed(w) PROVE StaysOrRetries
    BY <1>24 DEF MarkFailed, mark_failed, Owns
  <1>25. ASSUME NEW w \in Workers, BumpForRetry(w) PROVE StaysOrRetries
    BY <1>25 DEF BumpForRetry, bump_attempt
  <1>26. ASSUME NEW w \in Workers, Republish(w) PROVE StaysOrRetries
    BY <1>26 DEF Republish
  <1>27. ASSUME NEW w \in Workers, MarkRetrying(w) PROVE StaysOrRetries
    BY <1>27 DEF MarkRetrying, mark_retrying
  <1>28. ASSUME NEW w \in Workers, SendToDlq(w) PROVE StaysOrRetries
    BY <1>28 DEF SendToDlq
  <1>29. ASSUME NEW w \in Workers, DeadChannel(w) PROVE StaysOrRetries
    BY <1>29 DEF DeadChannel
  <1>30. ASSUME NEW w \in Workers, DeadChannelAfterCompletion(w) PROVE StaysOrRetries
    BY <1>30 DEF DeadChannelAfterCompletion
  <1>31. ASSUME NEW w \in Workers, Renew(w) PROVE StaysOrRetries
    BY <1>31 DEF Renew, renew_job_lease, SetLease, Owns
  <1>32. ASSUME NEW w \in Workers, Crash(w) PROVE StaysOrRetries
    BY <1>32 DEF Crash
  <1>33. ASSUME NEW w \in Workers, LoseChannel(w) PROVE StaysOrRetries
    BY <1>33 DEF LoseChannel
  <1>34. ASSUME NEW w \in Workers, NEW m \in Bodies, Deliver(w, m) PROVE StaysOrRetries
    BY <1>34 DEF Deliver
  <1>35. ASSUME NEW m \in Bodies, RetryExpires(m) PROVE StaysOrRetries
    BY <1>35 DEF RetryExpires
  <1>36. ASSUME NEW m \in Bodies, AdminRequeue(m) PROVE StaysOrRetries
    BY <1>36 DEF AdminRequeue
  <1>37. ASSUME NEW m \in Bodies, AdminRequeueAborted(m) PROVE StaysOrRetries
    BY <1>37 DEF AdminRequeueAborted
  <1>38. CASE BrokerRestart
    BY <1>38 DEF BrokerRestart
  <1>39. CASE AdminReconcile
    BY <1>39 DEF AdminReconcile, ReconcileRequeued
  <1>40. CASE AdminPurge
    BY <1>40 DEF AdminPurge
  <1>41. CASE UNCHANGED vars
    BY <1>41 DEF vars
  <1> QED
        BY <1>1, <1>2, <1>3, <1>4, <1>5, <1>6, <1>7, <1>8, <1>9, <1>10, <1>11,
       <1>12, <1>13, <1>14, <1>15, <1>16, <1>17, <1>18, <1>19, <1>20, <1>21, <1>22,
       <1>23, <1>24, <1>25, <1>26, <1>27, <1>28, <1>29, <1>30, <1>31, <1>32, <1>33,
       <1>34, <1>35, <1>36, <1>37, <1>38, <1>39, <1>40, <1>41
       DEF Next, WorkerStep, DispatcherStep

StartsInference(w) == pc[w] = "reconcile" /\ pc'[w] = "infer"
NoRepeat == \A w \in Workers : StartsInference(w) => ~completed[msg[w].job]

\* Only ReconcileMiss starts an inference, and it found no result; a job that
\* was completed once has one for ever.
LEMMA NextNoRepeat ==
  ASSUME Budget["read"] = 0
  PROVE  Typed /\ OnceCompletedHasResult /\ [Next]_vars => NoRepeat
  <1> SUFFICES ASSUME Typed, OnceCompletedHasResult, [Next]_vars
               PROVE  NoRepeat
    OBVIOUS
  <1> USE DEF Typed, WorkersOK, RestOK, HoldsMessage, OnceCompletedHasResult, NoRepeat,
              StartsInference
  <1>1. ASSUME NEW j \in Jobs, Enqueue(j) PROVE NoRepeat
    BY <1>1 DEF Enqueue, workerVars
  <1>2. ASSUME NEW j \in Jobs, DispatchPublish(j) PROVE NoRepeat
    BY <1>2 DEF DispatchPublish, workerVars
  <1>3. ASSUME NEW j \in Jobs, DispatchCommit(j) PROVE NoRepeat
    BY <1>3 DEF DispatchCommit, workerVars
  <1>4. ASSUME NEW j \in Jobs, DispatchCrash(j) PROVE NoRepeat
    BY <1>4 DEF DispatchCrash, workerVars, Spend
  <1>5. ASSUME NEW j \in Jobs, OrphanedLeaseExpires(j) PROVE NoRepeat
    BY <1>5 DEF OrphanedLeaseExpires, workerVars
  <1>6. ASSUME NEW j \in Jobs, EarlyLeaseExpires(j) PROVE NoRepeat
    BY <1>6 DEF EarlyLeaseExpires, workerVars, Spend
  <1>7. ASSUME NEW w \in Workers, RejectInvalid(w) PROVE NoRepeat
    BY <1>7 DEF RejectInvalid, Goto, At
  <1>8. ASSUME NEW w \in Workers, Claim(w) PROVE NoRepeat
    BY <1>8 DEF Claim, At
  <1>9. ASSUME NEW w \in Workers, ClaimMiss(w) PROVE NoRepeat
    BY <1>9 DEF ClaimMiss, Goto, At
  <1>10. ASSUME NEW w \in Workers, Classify(w) PROVE NoRepeat
    BY <1>10 DEF Classify, Goto, At, Disposition
  <1>11. ASSUME NEW w \in Workers, Nack(w) PROVE NoRepeat
    BY <1>11 DEF Nack, Forget, At
  <1>12. ASSUME NEW w \in Workers, Ack(w) PROVE NoRepeat
    BY <1>12 DEF Ack, Forget, Acking
  <1>13. ASSUME NEW w \in Workers, BumpOnClaim(w) PROVE NoRepeat
    BY <1>13 DEF BumpOnClaim, Goto, At
  <1>14. ASSUME NEW w \in Workers, ReconcileHit(w) PROVE NoRepeat
    BY <1>14 DEF ReconcileHit, Goto, At
  <1>15. ASSUME NEW w \in Workers, ReconcileMiss(w) PROVE NoRepeat
    BY <1>15, BodyFacts DEF ReconcileMiss, Goto, At
  <1>16. ASSUME NEW w \in Workers, ReconcileReadError(w) PROVE NoRepeat
    BY <1>16 DEF ReconcileReadError, Goto, At, Spend, Faults
  <1>17. ASSUME NEW w \in Workers, Infer(w) PROVE NoRepeat
    BY <1>17 DEF Infer, Goto, At
  <1>18. ASSUME NEW w \in Workers, UploadResult(w) PROVE NoRepeat
    BY <1>18 DEF UploadResult, Goto, At
  <1>19. ASSUME NEW w \in Workers, UploadTelemetry(w) PROVE NoRepeat
    BY <1>19 DEF UploadTelemetry, Goto, At
  <1>20. ASSUME NEW w \in Workers, Complete(w) PROVE NoRepeat
    BY <1>20 DEF Complete, Goto, At
  <1>21. ASSUME NEW w \in Workers, CompleteFenced(w) PROVE NoRepeat
    BY <1>21 DEF CompleteFenced, Goto, At
  <1>22. ASSUME NEW w \in Workers, FailRetryable(w) PROVE NoRepeat
    BY <1>22 DEF FailRetryable, Goto, Running
  <1>23. ASSUME NEW w \in Workers, FailTerminal(w) PROVE NoRepeat
    BY <1>23 DEF FailTerminal, Goto
  <1>24. ASSUME NEW w \in Workers, MarkFailed(w) PROVE NoRepeat
    BY <1>24 DEF MarkFailed, Goto
  <1>25. ASSUME NEW w \in Workers, BumpForRetry(w) PROVE NoRepeat
    BY <1>25 DEF BumpForRetry, Goto, At
  <1>26. ASSUME NEW w \in Workers, Republish(w) PROVE NoRepeat
    BY <1>26 DEF Republish, Goto, At
  <1>27. ASSUME NEW w \in Workers, MarkRetrying(w) PROVE NoRepeat
    BY <1>27 DEF MarkRetrying, Goto, At
  <1>28. ASSUME NEW w \in Workers, SendToDlq(w) PROVE NoRepeat
    BY <1>28 DEF SendToDlq, Goto, At
  <1>29. ASSUME NEW w \in Workers, DeadChannel(w) PROVE NoRepeat
    BY <1>29 DEF DeadChannel, Forget, UsesChannel
  <1>30. ASSUME NEW w \in Workers, DeadChannelAfterCompletion(w) PROVE NoRepeat
    BY <1>30 DEF DeadChannelAfterCompletion, Goto, At
  <1>31. ASSUME NEW w \in Workers, Renew(w) PROVE NoRepeat
    BY <1>31 DEF Renew, workerVars, Acking, Running
  <1>32. ASSUME NEW w \in Workers, Crash(w) PROVE NoRepeat
    BY <1>32 DEF Crash, Forget, Spend
  <1>33. ASSUME NEW w \in Workers, LoseChannel(w) PROVE NoRepeat
    BY <1>33 DEF LoseChannel, Spend
  <1>34. ASSUME NEW w \in Workers, NEW m \in Bodies, Deliver(w, m) PROVE NoRepeat
    BY <1>34 DEF Deliver, At
  <1>35. ASSUME NEW m \in Bodies, RetryExpires(m) PROVE NoRepeat
    BY <1>35 DEF RetryExpires, At, workerVars
  <1>36. ASSUME NEW m \in Bodies, AdminRequeue(m) PROVE NoRepeat
    BY <1>36 DEF AdminRequeue, workerVars, Spend
  <1>37. ASSUME NEW m \in Bodies, AdminRequeueAborted(m) PROVE NoRepeat
    BY <1>37 DEF AdminRequeueAborted, workerVars, Spend
  <1>38. CASE BrokerRestart
    BY <1>38 DEF BrokerRestart, workerVars, Spend
  <1>39. CASE AdminReconcile
    BY <1>39 DEF AdminReconcile, workerVars
  <1>40. CASE AdminPurge
    BY <1>40 DEF AdminPurge, workerVars, Spend
  <1>41. CASE UNCHANGED vars
    BY <1>41 DEF vars
  <1> QED
        BY <1>1, <1>2, <1>3, <1>4, <1>5, <1>6, <1>7, <1>8, <1>9, <1>10, <1>11,
       <1>12, <1>13, <1>14, <1>15, <1>16, <1>17, <1>18, <1>19, <1>20, <1>21, <1>22,
       <1>23, <1>24, <1>25, <1>26, <1>27, <1>28, <1>29, <1>30, <1>31, <1>32, <1>33,
       <1>34, <1>35, <1>36, <1>37, <1>38, <1>39, <1>40, <1>41
       DEF Next, WorkerStep, DispatcherStep

-----------------------------------------------------------------------------
\* IInv is inductive.
THEOREM PipelineInvariant == Spec => []IInv
  <1>1. IInv /\ [Next]_vars => IInv'
    BY NextTyped, NextTokensDiffer, NextStoreInv
       DEF IInv, StoreInv, Typed, TypeOK, TableOK, QueuesOK, WorkersOK, RestOK
  <1> QED
    BY InitIInv, <1>1, PTL DEF Spec

\* The pipeline's variables keep their types.
THEOREM PipelineTypeOK == Spec => []TypeOK
  <1>1. IInv => TypeOK
    BY DEF IInv
  <1> QED
    BY PipelineInvariant, <1>1, PTL

\* claim_job's token is exclusive: of all the workers that run a job, at most
\* one can pass the fence of mark_completed and mark_failed.
THEOREM PipelineOneOwner == Spec => []OneOwner
  <1>1. IInv => OneOwner
    BY DEF IInv, TokensDiffer, OneOwner, Owner, Owns
  <1> QED
    BY PipelineInvariant, <1>1, PTL

\* A COMPLETED job has its result.json in the object store.
THEOREM PipelineCompletedHasResult == Spec => []CompletedHasResult
  <1>1. IInv => CompletedHasResult
    BY DEF IInv, CompletedIsReleased, OnceCompletedHasResult, CompletedHasResult
  <1> QED
    BY PipelineInvariant, <1>1, PTL

\* No stale worker, late claim or DLQ requeue takes a COMPLETED row to
\* PROCESSING, FAILED or QUEUED.
THEOREM PipelineCompletedNotReclaimed == Spec => CompletedNotReclaimed
  <1>1. IInv /\ [Next]_vars => StaysOrRetries
    BY NextStaysOrRetries DEF IInv, Typed, TypeOK, TableOK, QueuesOK, WorkersOK, RestOK
  <1>2. StaysOrRetries =>
          \A j \in Jobs : jobs[j].status = "COMPLETED" =>
             jobs'[j].status \in {"COMPLETED", "RETRYING"}
    BY DEF StaysOrRetries
  <1> QED
    BY PipelineInvariant, <1>1, <1>2, PTL DEF Spec, CompletedNotReclaimed

\* As long as the object store answers reconciliation reads, no worker pays for
\* an inference of a job that has been COMPLETED before.
THEOREM PipelineNoInferenceAfterCompletion ==
  Budget["read"] = 0 => (Spec => NoInferenceAfterCompletion)
  <1> SUFFICES ASSUME Budget["read"] = 0
               PROVE  Spec => NoInferenceAfterCompletion
    OBVIOUS
  <1>1. IInv /\ [Next]_vars => NoRepeat
    BY NextNoRepeat DEF IInv, Typed, TypeOK, TableOK, QueuesOK, WorkersOK, RestOK
  <1>2. NoRepeat =>
          \A w \in Workers : pc[w] = "reconcile" /\ pc'[w] = "infer" => ~completed[msg[w].job]
    BY DEF NoRepeat, StartsInference
  <1> QED
    BY PipelineInvariant, <1>1, <1>2, PTL DEF Spec, NoInferenceAfterCompletion

-----------------------------------------------------------------------------
(***************************************************************************)
(* The pipeline does not lose work: who answers for a PROCESSING, a QUEUED *)
(* or a failed row.  Each theorem names the faults it excludes; the budget *)
(* of every other fault is arbitrary.                                      *)
(***************************************************************************)

-----------------------------------------------------------------------------
(***************************************************************************)
(* The queues and the messages.                                            *)
(***************************************************************************)

\* What a publish adds and what a delivery takes.
LEMMA QueueCounts ==
  ASSUME NEW q \in [Bodies -> Nat], NEW m \in Bodies
  PROVE  /\ Put(q, m)[m] > 0
         /\ \A n \in Bodies : q[n] > 0 => Put(q, m)[n] > 0
         /\ \A n \in Bodies : n # m => Take(q, m)[n] = q[n]
  BY DEF Put, Take

\* A job message is the one of its job and its attempt.
LEMMA JobMsgForm ==
  /\ \A m \in JobMsgs : m = JobMsg(m.job, m.attempt)
  /\ \A j \in Jobs, a \in Attempts :
        JobMsg(j, a) \in Bodies /\ JobMsg(j, a).job = j /\ JobMsg(j, a).attempt = a
  /\ \A j \in Jobs, a \in Attempts, i \in Jobs, b \in Attempts :
        JobMsg(j, a) = JobMsg(i, b) => j = i /\ a = b
  BY DEF JobMsgs, JobMsg, Bodies

\* One more copy of m waits to be worked on.
Published(m) ==
    \/ main' = Put(main, m) /\ UNCHANGED retry
    \/ retry' = Put(retry, m) /\ UNCHANGED main

\* What the broker's steps do to the messages of a job that wait.
LEMMA WaitingSteps ==
  ASSUME QueuesOK, NEW k \in Jobs
  PROVE  /\ UNCHANGED <<main, retry>> => (Waiting(k)' <=> Waiting(k))
         /\ \A m \in Bodies : Published(m) =>
               /\ Waiting(k) => Waiting(k)'
               /\ m \in JobMsgs /\ m.job = k => Waiting(k)'
         /\ \A m \in Bodies : RetryTtlOver(m) /\ Waiting(k) => Waiting(k)'
         /\ \A m \in Bodies : DeliverFrom(m) /\ Waiting(k) =>
               Waiting(k)' \/ (m \in JobMsgs /\ m.job = k)
  <1> USE DEF QueuesOK
  <1>1. UNCHANGED <<main, retry>> => (Waiting(k)' <=> Waiting(k))
    BY DEF Waiting
  <1>2. ASSUME NEW m \in Bodies, Published(m)
        PROVE  /\ Waiting(k) => Waiting(k)'
               /\ m \in JobMsgs /\ m.job = k => Waiting(k)'
    <2>1. \A n \in Bodies : (main[n] > 0 => main'[n] > 0) /\ (retry[n] > 0 => retry'[n] > 0)
      BY <1>2, QueueCounts DEF Published
    <2>2. Waiting(k) => Waiting(k)'
      BY <2>1, JobMsgForm DEF Waiting
    <2>3. main'[m] > 0 \/ retry'[m] > 0
      BY <1>2, QueueCounts DEF Published
    <2>4. ASSUME m \in JobMsgs, m.job = k PROVE Waiting(k)'
      <3>1. m.attempt \in Attempts /\ m = JobMsg(k, m.attempt)
        BY <2>4, JobMsgForm, BodyFacts
      <3> QED
        BY <2>3, <3>1 DEF Waiting
    <2> QED
      BY <2>2, <2>4
  <1>3. ASSUME NEW m \in Bodies, RetryTtlOver(m), Waiting(k)
        PROVE  Waiting(k)'
    <2>1. \A n \in Bodies : main[n] > 0 \/ retry[n] > 0 => main'[n] > 0 \/ retry'[n] > 0
      BY <1>3, QueueCounts DEF RetryTtlOver
    <2> QED
      BY <1>3, <2>1, JobMsgForm DEF Waiting
  <1>4. ASSUME NEW m \in Bodies, DeliverFrom(m), Waiting(k), ~(m \in JobMsgs /\ m.job = k)
        PROVE  Waiting(k)'
    <2>1. PICK a \in Attempts : main[JobMsg(k, a)] > 0 \/ retry[JobMsg(k, a)] > 0
      BY <1>4 DEF Waiting
    <2>2. JobMsg(k, a) # m /\ JobMsg(k, a) \in Bodies
      BY <1>4, JobMsgForm, BodyFacts
    <2> QED
      BY <1>4, <2>1, <2>2, QueueCounts DEF DeliverFrom, Waiting
  <1> QED
    BY <1>1, <1>2, <1>3, <1>4

-----------------------------------------------------------------------------
\* A claim writes a token no worker has, and a worker whose settlement reached
\* the row has taken its token from it.
LEMMA NextOwnerAtWork == Typed /\ OwnerAtWork /\ [Next]_vars => OwnerAtWork'
  <1> SUFFICES ASSUME Typed, OwnerAtWork, [Next]_vars
               PROVE  OwnerAtWork'
    OBVIOUS
  <1> USE DEF Typed, TableOK, WorkersOK, HoldsMessage, OwnerAtWork, Owns, Row, Running
  <1>1. ASSUME NEW j \in Jobs, Enqueue(j) PROVE OwnerAtWork'
    BY <1>1 DEF Enqueue, InsertJob, workerVars
  <1>2. ASSUME NEW j \in Jobs, DispatchPublish(j) PROVE OwnerAtWork'
    BY <1>2 DEF DispatchPublish, workerVars
  <1>3. ASSUME NEW j \in Jobs, DispatchCommit(j) PROVE OwnerAtWork'
    BY <1>3 DEF DispatchCommit, workerVars
  <1>4. ASSUME NEW j \in Jobs, DispatchCrash(j) PROVE OwnerAtWork'
    BY <1>4 DEF DispatchCrash, workerVars
  <1>5. ASSUME NEW j \in Jobs, OrphanedLeaseExpires(j) PROVE OwnerAtWork'
    BY <1>5 DEF OrphanedLeaseExpires, LeaseExpires, SetLease, workerVars
  <1>6. ASSUME NEW j \in Jobs, EarlyLeaseExpires(j) PROVE OwnerAtWork'
    BY <1>6 DEF EarlyLeaseExpires, LeaseExpires, SetLease, workerVars
  <1>7. ASSUME NEW w \in Workers, RejectInvalid(w) PROVE OwnerAtWork'
    BY <1>7 DEF RejectInvalid, ValidMessage, Goto, At
  <1>8. ASSUME NEW w \in Workers, Claim(w) PROVE OwnerAtWork'
    BY <1>8, BodyFacts DEF Claim, ClaimRow, ValidMessage, At, TokensInUse, Claimable
  <1>9. ASSUME NEW w \in Workers, ClaimMiss(w) PROVE OwnerAtWork'
    BY <1>9 DEF ClaimMiss, Claimable, ValidMessage, Goto, At
  <1>10. ASSUME NEW w \in Workers, Classify(w) PROVE OwnerAtWork'
    BY <1>10 DEF Classify, Disposition, Goto, At
  <1>11. ASSUME NEW w \in Workers, Nack(w) PROVE OwnerAtWork'
    BY <1>11 DEF Nack, Forget, At
  <1>12. ASSUME NEW w \in Workers, Ack(w) PROVE OwnerAtWork'
    BY <1>12 DEF Ack, Forget, Acking
  <1>13. ASSUME NEW w \in Workers, BumpOnClaim(w) PROVE OwnerAtWork'
    BY <1>13 DEF BumpOnClaim, bump_attempt, Goto, At
  <1>14. ASSUME NEW w \in Workers, ReconcileHit(w) PROVE OwnerAtWork'
    BY <1>14 DEF ReconcileHit, Goto, At
  <1>15. ASSUME NEW w \in Workers, ReconcileMiss(w) PROVE OwnerAtWork'
    BY <1>15 DEF ReconcileMiss, Goto, At
  <1>16. ASSUME NEW w \in Workers, ReconcileReadError(w) PROVE OwnerAtWork'
    BY <1>16 DEF ReconcileReadError, Goto, At
  <1>17. ASSUME NEW w \in Workers, Infer(w) PROVE OwnerAtWork'
    BY <1>17 DEF Infer, Goto, At
  <1>18. ASSUME NEW w \in Workers, UploadResult(w) PROVE OwnerAtWork'
    BY <1>18 DEF UploadResult, Goto, At
  <1>19. ASSUME NEW w \in Workers, UploadTelemetry(w) PROVE OwnerAtWork'
    BY <1>19 DEF UploadTelemetry, Goto, At
  <1>20. ASSUME NEW w \in Workers, Complete(w) PROVE OwnerAtWork'
    BY <1>20 DEF Complete, mark_completed, Goto, At
  <1>21. ASSUME NEW w \in Workers, CompleteFenced(w) PROVE OwnerAtWork'
    BY <1>21 DEF CompleteFenced, Goto, At
  <1>22. ASSUME NEW w \in Workers, FailRetryable(w) PROVE OwnerAtWork'
    BY <1>22 DEF FailRetryable, Goto
  <1>23. ASSUME NEW w \in Workers, FailTerminal(w) PROVE OwnerAtWork'
    BY <1>23 DEF FailTerminal, Goto
  <1>24. ASSUME NEW w \in Workers, MarkFailed(w) PROVE OwnerAtWork'
    BY <1>24 DEF MarkFailed, mark_failed, Goto
  <1>25. ASSUME NEW w \in Workers, BumpForRetry(w) PROVE OwnerAtWork'
    BY <1>25 DEF BumpForRetry, bump_attempt, Goto, At
  <1>26. ASSUME NEW w \in Workers, Republish(w) PROVE OwnerAtWork'
    BY <1>26 DEF Republish, Goto, At
  <1>27. ASSUME NEW w \in Workers, MarkRetrying(w) PROVE OwnerAtWork'
    BY <1>27 DEF MarkRetrying, mark_retrying, Goto, At
  <1>28. ASSUME NEW w \in Workers, SendToDlq(w) PROVE OwnerAtWork'
    BY <1>28 DEF SendToDlq, Goto, At
  <1>29. ASSUME NEW w \in Workers, DeadChannel(w) PROVE OwnerAtWork'
    BY <1>29 DEF DeadChannel, Forget, UsesChannel
  <1>30. ASSUME NEW w \in Workers, DeadChannelAfterCompletion(w) PROVE OwnerAtWork'
    BY <1>30 DEF DeadChannelAfterCompletion, Goto, At
  <1>31. ASSUME NEW w \in Workers, Renew(w) PROVE OwnerAtWork'
    BY <1>31 DEF Renew, renew_job_lease, SetLease, workerVars
  <1>32. ASSUME NEW w \in Workers, Crash(w) PROVE OwnerAtWork'
    BY <1>32 DEF Crash, Forget
  <1>33. ASSUME NEW w \in Workers, LoseChannel(w) PROVE OwnerAtWork'
    BY <1>33 DEF LoseChannel
  <1>34. ASSUME NEW w \in Workers, NEW m \in Bodies, Deliver(w, m) PROVE OwnerAtWork'
    BY <1>34 DEF Deliver, At
  <1>35. ASSUME NEW m \in Bodies, RetryExpires(m) PROVE OwnerAtWork'
    BY <1>35 DEF RetryExpires, workerVars
  <1>36. ASSUME NEW m \in Bodies, AdminRequeue(m) PROVE OwnerAtWork'
    BY <1>36 DEF AdminRequeue, workerVars
  <1>37. ASSUME NEW m \in Bodies, AdminRequeueAborted(m) PROVE OwnerAtWork'
    BY <1>37 DEF AdminRequeueAborted, workerVars
  <1>38. CASE BrokerRestart
    BY <1>38 DEF BrokerRestart, workerVars
  <1>39. CASE AdminReconcile
    BY <1>39 DEF AdminReconcile, ReconcileRequeued, workerVars
  <1>40. CASE AdminPurge
    BY <1>40 DEF AdminPurge, workerVars
  <1>41. CASE UNCHANGED vars
    BY <1>41 DEF vars
  <1> QED
    BY <1>1, <1>2, <1>3, <1>4, <1>5, <1>6, <1>7, <1>8, <1>9, <1>10, <1>11, <1>12, <1>13,
       <1>14, <1>15, <1>16, <1>17, <1>18, <1>19, <1>20, <1>21, <1>22, <1>23, <1>24,
       <1>25, <1>26, <1>27, <1>28, <1>29, <1>30, <1>31, <1>32, <1>33, <1>34, <1>35,
       <1>36, <1>37, <1>38, <1>39, <1>40, <1>41 DEF Next, WorkerStep, DispatcherStep

\* Without the loss of a channel, a worker that has a delivery can settle it.
LEMMA NextChannelsOpen ==
  ASSUME Never("channel")
  PROVE  Typed /\ ChannelsOpen /\ [Next]_vars => ChannelsOpen'
  <1> SUFFICES ASSUME Typed, ChannelsOpen, [Next]_vars
               PROVE  ChannelsOpen'
    OBVIOUS
  <1> USE DEF Typed, WorkersOK, ChannelsOpen
  <1>1. ASSUME NEW j \in Jobs, Enqueue(j) PROVE ChannelsOpen'
    BY <1>1 DEF Enqueue, workerVars
  <1>2. ASSUME NEW j \in Jobs, DispatchPublish(j) PROVE ChannelsOpen'
    BY <1>2 DEF DispatchPublish, workerVars
  <1>3. ASSUME NEW j \in Jobs, DispatchCommit(j) PROVE ChannelsOpen'
    BY <1>3 DEF DispatchCommit, workerVars
  <1>4. ASSUME NEW j \in Jobs, DispatchCrash(j) PROVE ChannelsOpen'
    BY <1>4 DEF DispatchCrash, workerVars
  <1>5. ASSUME NEW j \in Jobs, OrphanedLeaseExpires(j) PROVE ChannelsOpen'
    BY <1>5 DEF OrphanedLeaseExpires, workerVars
  <1>6. ASSUME NEW j \in Jobs, EarlyLeaseExpires(j) PROVE ChannelsOpen'
    BY <1>6 DEF EarlyLeaseExpires, workerVars
  <1>7. ASSUME NEW w \in Workers, RejectInvalid(w) PROVE ChannelsOpen'
    BY <1>7 DEF RejectInvalid, Goto, At
  <1>8. ASSUME NEW w \in Workers, Claim(w) PROVE ChannelsOpen'
    BY <1>8 DEF Claim, At
  <1>9. ASSUME NEW w \in Workers, ClaimMiss(w) PROVE ChannelsOpen'
    BY <1>9 DEF ClaimMiss, Goto, At
  <1>10. ASSUME NEW w \in Workers, Classify(w) PROVE ChannelsOpen'
    BY <1>10 DEF Classify, Goto, At
  <1>11. ASSUME NEW w \in Workers, Nack(w) PROVE ChannelsOpen'
    BY <1>11 DEF Nack, Forget, At
  <1>12. ASSUME NEW w \in Workers, Ack(w) PROVE ChannelsOpen'
    BY <1>12 DEF Ack, Forget
  <1>13. ASSUME NEW w \in Workers, BumpOnClaim(w) PROVE ChannelsOpen'
    BY <1>13 DEF BumpOnClaim, Goto, At
  <1>14. ASSUME NEW w \in Workers, ReconcileHit(w) PROVE ChannelsOpen'
    BY <1>14 DEF ReconcileHit, Goto, At
  <1>15. ASSUME NEW w \in Workers, ReconcileMiss(w) PROVE ChannelsOpen'
    BY <1>15 DEF ReconcileMiss, Goto, At
  <1>16. ASSUME NEW w \in Workers, ReconcileReadError(w) PROVE ChannelsOpen'
    BY <1>16 DEF ReconcileReadError, Goto, At
  <1>17. ASSUME NEW w \in Workers, Infer(w) PROVE ChannelsOpen'
    BY <1>17 DEF Infer, Goto, At
  <1>18. ASSUME NEW w \in Workers, UploadResult(w) PROVE ChannelsOpen'
    BY <1>18 DEF UploadResult, Goto, At
  <1>19. ASSUME NEW w \in Workers, UploadTelemetry(w) PROVE ChannelsOpen'
    BY <1>19 DEF UploadTelemetry, Goto, At
  <1>20. ASSUME NEW w \in Workers, Complete(w) PROVE ChannelsOpen'
    BY <1>20 DEF Complete, Goto, At
  <1>21. ASSUME NEW w \in Workers, CompleteFenced(w) PROVE ChannelsOpen'
    BY <1>21 DEF CompleteFenced, Goto, At
  <1>22. ASSUME NEW w \in Workers, FailRetryable(w) PROVE ChannelsOpen'
    BY <1>22 DEF FailRetryable, Goto, Running
  <1>23. ASSUME NEW w \in Workers, FailTerminal(w) PROVE ChannelsOpen'
    BY <1>23 DEF FailTerminal, Goto
  <1>24. ASSUME NEW w \in Workers, MarkFailed(w) PROVE ChannelsOpen'
    BY <1>24 DEF MarkFailed, Goto
  <1>25. ASSUME NEW w \in Workers, BumpForRetry(w) PROVE ChannelsOpen'
    BY <1>25 DEF BumpForRetry, Goto, At
  <1>26. ASSUME NEW w \in Workers, Republish(w) PROVE ChannelsOpen'
    BY <1>26 DEF Republish, Goto, At
  <1>27. ASSUME NEW w \in Workers, MarkRetrying(w) PROVE ChannelsOpen'
    BY <1>27 DEF MarkRetrying, Goto, At
  <1>28. ASSUME NEW w \in Workers, SendToDlq(w) PROVE ChannelsOpen'
    BY <1>28 DEF SendToDlq, Goto, At
  <1>29. ASSUME NEW w \in Workers, DeadChannel(w) PROVE ChannelsOpen'
    BY <1>29 DEF DeadChannel, Forget, UsesChannel
  <1>30. ASSUME NEW w \in Workers, DeadChannelAfterCompletion(w) PROVE ChannelsOpen'
    BY <1>30 DEF DeadChannelAfterCompletion, Goto, At
  <1>31. ASSUME NEW w \in Workers, Renew(w) PROVE ChannelsOpen'
    BY <1>31 DEF Renew, workerVars
  <1>32. ASSUME NEW w \in Workers, Crash(w) PROVE ChannelsOpen'
    BY <1>32 DEF Crash, Forget
  <1>33. ASSUME NEW w \in Workers, LoseChannel(w) PROVE ChannelsOpen'
    BY <1>33 DEF LoseChannel, Spend, Never, RestOK, Faults
  <1>34. ASSUME NEW w \in Workers, NEW m \in Bodies, Deliver(w, m) PROVE ChannelsOpen'
    BY <1>34 DEF Deliver, At
  <1>35. ASSUME NEW m \in Bodies, RetryExpires(m) PROVE ChannelsOpen'
    BY <1>35 DEF RetryExpires, workerVars
  <1>36. ASSUME NEW m \in Bodies, AdminRequeue(m) PROVE ChannelsOpen'
    BY <1>36 DEF AdminRequeue, workerVars
  <1>37. ASSUME NEW m \in Bodies, AdminRequeueAborted(m) PROVE ChannelsOpen'
    BY <1>37 DEF AdminRequeueAborted, workerVars
  <1>38. CASE BrokerRestart
    BY <1>38 DEF BrokerRestart, workerVars
  <1>39. CASE AdminReconcile
    BY <1>39 DEF AdminReconcile, workerVars
  <1>40. CASE AdminPurge
    BY <1>40 DEF AdminPurge, workerVars
  <1>41. CASE UNCHANGED vars
    BY <1>41 DEF vars
  <1> QED
    BY <1>1, <1>2, <1>3, <1>4, <1>5, <1>6, <1>7, <1>8, <1>9, <1>10, <1>11, <1>12, <1>13,
       <1>14, <1>15, <1>16, <1>17, <1>18, <1>19, <1>20, <1>21, <1>22, <1>23, <1>24,
       <1>25, <1>26, <1>27, <1>28, <1>29, <1>30, <1>31, <1>32, <1>33, <1>34, <1>35,
       <1>36, <1>37, <1>38, <1>39, <1>40, <1>41 DEF Next, WorkerStep, DispatcherStep

\* Without a DLQ requeue no request is between its publish and its row update.
LEMMA NextAdminIdle ==
  ASSUME Never("requeue"), RestOK, admin = NoJob, [Next]_vars
  PROVE  admin' = NoJob
  BY DEF RestOK, Never, Spend, Faults, Next, WorkerStep, DispatcherStep, vars, Enqueue,
     DispatchPublish, DispatchCommit, DispatchCrash, OrphanedLeaseExpires,
     EarlyLeaseExpires, RejectInvalid, Claim, ClaimMiss, Classify, Nack, Ack,
     BumpOnClaim, ReconcileHit, ReconcileMiss, ReconcileReadError, Infer, UploadResult,
     UploadTelemetry, Complete, CompleteFenced, FailRetryable, FailTerminal, MarkFailed,
     BumpForRetry, Republish, MarkRetrying, SendToDlq, DeadChannel,
     DeadChannelAfterCompletion, Renew, Crash, LoseChannel, Deliver, RetryExpires,
     AdminRequeue, AdminRequeueAborted, BrokerRestart, AdminReconcile, AdminPurge

\* A row is QUEUED by its insertion only; its first message is persistent, and
\* a worker that receives it claims the row.
LEMMA NextFirstComes ==
  ASSUME Never("requeue"), Typed, admin = NoJob, [Next]_vars,
         NEW k \in Jobs, NEW first \in Bodies, first = JobMsg(k, 1),
         first.kind = "job", first.job = k, Persistent(first),
         jobs[k].status = "QUEUED" => FirstComes(k, first)
  PROVE  jobs'[k].status = "QUEUED" => FirstComes(k, first)'
  <1> DEFINE Goal == jobs'[k].status = "QUEUED" => FirstComes(k, first)'
  <1> SUFFICES Goal
    OBVIOUS
  <1> USE DEF Typed, TableOK, QueuesOK, WorkersOK, RestOK, HoldsMessage,
              FirstComes, Held, At, Row
  <1>1. ASSUME NEW j \in Jobs, Enqueue(j) PROVE Goal
    BY <1>1 DEF Enqueue, InsertJob, brokerVars, workerVars
  <1>2. ASSUME NEW j \in Jobs, DispatchPublish(j) PROVE Goal
    <2>1. JobMsg(j, 1) \in Bodies
      BY JobMsgForm DEF Attempts
    <2> QED
      BY <1>2, <2>1, QueueCounts DEF DispatchPublish, PublishMain, workerVars
  <1>3. ASSUME NEW j \in Jobs, DispatchCommit(j) PROVE Goal
    BY <1>3 DEF DispatchCommit, brokerVars, workerVars
  <1>4. ASSUME NEW j \in Jobs, DispatchCrash(j) PROVE Goal
    BY <1>4 DEF DispatchCrash, brokerVars, workerVars
  <1>5. ASSUME NEW j \in Jobs, OrphanedLeaseExpires(j) PROVE Goal
    BY <1>5 DEF OrphanedLeaseExpires, LeaseExpires, SetLease, brokerVars, workerVars
  <1>6. ASSUME NEW j \in Jobs, EarlyLeaseExpires(j) PROVE Goal
    BY <1>6 DEF EarlyLeaseExpires, LeaseExpires, SetLease, brokerVars, workerVars
  <1>7. ASSUME NEW w \in Workers, RejectInvalid(w) PROVE Goal
    BY <1>7 DEF RejectInvalid, ValidMessage, PublishDlq, Goto
  <1>8. ASSUME NEW w \in Workers, Claim(w) PROVE Goal
    BY <1>8, BodyFacts DEF Claim, ClaimRow, ValidMessage, brokerVars, Claimable
  <1>9. ASSUME NEW w \in Workers, ClaimMiss(w) PROVE Goal
    BY <1>9, BodyFacts DEF ClaimMiss, Claimable, ValidMessage, Goto, brokerVars
  <1>10. ASSUME NEW w \in Workers, Classify(w) PROVE Goal
    BY <1>10 DEF Classify, Disposition, Goto, brokerVars
  <1>11. ASSUME NEW w \in Workers, Nack(w) PROVE Goal
    BY <1>11, QueueCounts DEF Nack, PublishRetry, Forget
  <1>12. ASSUME NEW w \in Workers, Ack(w) PROVE Goal
    BY <1>12 DEF Ack, Forget, brokerVars, Acking
  <1>13. ASSUME NEW w \in Workers, BumpOnClaim(w) PROVE Goal
    BY <1>13 DEF BumpOnClaim, bump_attempt, Goto, brokerVars
  <1>14. ASSUME NEW w \in Workers, ReconcileHit(w) PROVE Goal
    BY <1>14 DEF ReconcileHit, Goto, brokerVars
  <1>15. ASSUME NEW w \in Workers, ReconcileMiss(w) PROVE Goal
    BY <1>15 DEF ReconcileMiss, Goto, brokerVars
  <1>16. ASSUME NEW w \in Workers, ReconcileReadError(w) PROVE Goal
    BY <1>16 DEF ReconcileReadError, Goto, brokerVars
  <1>17. ASSUME NEW w \in Workers, Infer(w) PROVE Goal
    BY <1>17 DEF Infer, Goto, brokerVars
  <1>18. ASSUME NEW w \in Workers, UploadResult(w) PROVE Goal
    BY <1>18 DEF UploadResult, Goto, brokerVars
  <1>19. ASSUME NEW w \in Workers, UploadTelemetry(w) PROVE Goal
    BY <1>19 DEF UploadTelemetry, Goto, brokerVars
  <1>20. ASSUME NEW w \in Workers, Complete(w) PROVE Goal
    BY <1>20 DEF Complete, mark_completed, Goto, brokerVars, Owns
  <1>21. ASSUME NEW w \in Workers, CompleteFenced(w) PROVE Goal
    BY <1>21 DEF CompleteFenced, Goto, brokerVars
  <1>22. ASSUME NEW w \in Workers, FailRetryable(w) PROVE Goal
    BY <1>22 DEF FailRetryable, Goto, brokerVars, Running
  <1>23. ASSUME NEW w \in Workers, FailTerminal(w) PROVE Goal
    BY <1>23 DEF FailTerminal, Goto, brokerVars
  <1>24. ASSUME NEW w \in Workers, MarkFailed(w) PROVE Goal
    BY <1>24 DEF MarkFailed, mark_failed, Goto, brokerVars, Owns
  <1>25. ASSUME NEW w \in Workers, BumpForRetry(w) PROVE Goal
    BY <1>25 DEF BumpForRetry, bump_attempt, Goto, brokerVars
  <1>26. ASSUME NEW w \in Workers, Republish(w) PROVE Goal
    BY <1>26 DEF Republish, PublishRetry, Goto
  <1>27. ASSUME NEW w \in Workers, MarkRetrying(w) PROVE Goal
    BY <1>27 DEF MarkRetrying, mark_retrying, Goto, brokerVars
  <1>28. ASSUME NEW w \in Workers, SendToDlq(w) PROVE Goal
    BY <1>28 DEF SendToDlq, PublishDlq, Goto
  <1>29. ASSUME NEW w \in Workers, DeadChannel(w) PROVE Goal
    BY <1>29 DEF DeadChannel, Forget, UsesChannel, brokerVars
  <1>30. ASSUME NEW w \in Workers, DeadChannelAfterCompletion(w) PROVE Goal
    BY <1>30 DEF DeadChannelAfterCompletion, Goto, brokerVars
  <1>31. ASSUME NEW w \in Workers, Renew(w) PROVE Goal
    BY <1>31 DEF Renew, renew_job_lease, SetLease, brokerVars, workerVars, Owns
  <1>32. ASSUME NEW w \in Workers, Crash(w) PROVE Goal
    <2>1. msg[w] \in Bodies
      BY <1>32 DEF Crash
    <2>2. (main[first] > 0 => main'[first] > 0) /\ (chan[w] => main'[msg[w]] > 0)
      BY <1>32, <2>1, QueueCounts DEF Crash, PublishMain, brokerVars
    <2> QED
      BY <1>32, <2>2 DEF Crash, Forget
  <1>33. ASSUME NEW w \in Workers, LoseChannel(w) PROVE Goal
    <2>1. msg[w] \in Bodies
      BY <1>33 DEF LoseChannel
    <2>2. (main[first] > 0 => main'[first] > 0) /\ main'[msg[w]] > 0
      BY <1>33, <2>1, QueueCounts DEF LoseChannel, PublishMain
    <2> QED
      BY <1>33, <2>2 DEF LoseChannel
  <1>34. ASSUME NEW w \in Workers, NEW m \in Bodies, Deliver(w, m) PROVE Goal
    BY <1>34, QueueCounts DEF Deliver, DeliverFrom
  <1>35. ASSUME NEW m \in Bodies, RetryExpires(m) PROVE Goal
    BY <1>35, QueueCounts DEF RetryExpires, RetryTtlOver, workerVars
  <1>36. ASSUME NEW m \in Bodies, AdminRequeue(m) PROVE Goal
    BY <1>36 DEF AdminRequeue, workerVars, Spend, Never, Faults
  <1>37. ASSUME NEW m \in Bodies, AdminRequeueAborted(m) PROVE Goal
    BY <1>37, QueueCounts DEF AdminRequeueAborted, PublishMain, workerVars
  <1>38. CASE BrokerRestart
    BY <1>38 DEF BrokerRestart, RestartQueues, workerVars, DropTransient
  <1>39. CASE AdminReconcile
    BY <1>39 DEF AdminReconcile, ReconcileRequeued, brokerVars, workerVars
  <1>40. CASE AdminPurge
    BY <1>40 DEF AdminPurge, workerVars
  <1>41. CASE UNCHANGED vars
    BY <1>41 DEF vars
  <1> QED
    BY <1>1, <1>2, <1>3, <1>4, <1>5, <1>6, <1>7, <1>8, <1>9, <1>10, <1>11, <1>12, <1>13,
       <1>14, <1>15, <1>16, <1>17, <1>18, <1>19, <1>20, <1>21, <1>22, <1>23, <1>24,
       <1>25, <1>26, <1>27, <1>28, <1>29, <1>30, <1>31, <1>32, <1>33, <1>34, <1>35,
       <1>36, <1>37, <1>38, <1>39, <1>40, <1>41 DEF Next, WorkerStep, DispatcherStep

\* Somebody answers for a PROCESSING row: a message leaves the queues for a
\* worker, and an owner or a worker that found the row busy gives its delivery up
\* only for a message or with the row.
LEMMA NextAnswersFor ==
  ASSUME Never("channel"), Never("restart"), Typed, OwnerAtWork, ChannelsOpen, [Next]_vars,
         NEW k \in Jobs, jobs[k].status = "PROCESSING" => AnswersFor(k),
         jobs'[k].status = "PROCESSING"
  PROVE  AnswersFor(k)'
  <1>a. /\ \A m \in JobMsgs : m.kind = "job" /\ m.job \in Jobs
        /\ \A m \in Bodies : m.kind = "job" => m \in JobMsgs
    BY BodyFacts
  <1> USE <1>a DEF Typed, TableOK, WorkersOK, RestOK, HoldsMessage, OwnerAtWork,
              ChannelsOpen, AnswersFor, HeldBy, Held, At, Owns, Row, Classifying, Running
  <1>1. ASSUME NEW j \in Jobs, Enqueue(j) PROVE AnswersFor(k)'
    BY <1>1, WaitingSteps DEF Enqueue, InsertJob, brokerVars, workerVars
  <1>2. ASSUME NEW j \in Jobs, DispatchPublish(j) PROVE AnswersFor(k)'
    <2>1. JobMsg(j, 1) \in Bodies /\ Published(JobMsg(j, 1))
      BY <1>2, JobMsgForm DEF DispatchPublish, PublishMain, Published, Attempts
    <2>2. Waiting(k) => Waiting(k)'
      BY <2>1, WaitingSteps
    <2> QED
      BY <1>2, <2>2 DEF DispatchPublish, workerVars
  <1>3. ASSUME NEW j \in Jobs, DispatchCommit(j) PROVE AnswersFor(k)'
    BY <1>3, WaitingSteps DEF DispatchCommit, brokerVars, workerVars
  <1>4. ASSUME NEW j \in Jobs, DispatchCrash(j) PROVE AnswersFor(k)'
    BY <1>4, WaitingSteps DEF DispatchCrash, brokerVars, workerVars
  <1>5. ASSUME NEW j \in Jobs, OrphanedLeaseExpires(j) PROVE AnswersFor(k)'
    BY <1>5, WaitingSteps DEF OrphanedLeaseExpires, LeaseExpires, SetLease, brokerVars,
       workerVars
  <1>6. ASSUME NEW j \in Jobs, EarlyLeaseExpires(j) PROVE AnswersFor(k)'
    BY <1>6, WaitingSteps DEF EarlyLeaseExpires, LeaseExpires, SetLease, brokerVars,
       workerVars
  <1>7. ASSUME NEW w \in Workers, RejectInvalid(w) PROVE AnswersFor(k)'
    BY <1>7, WaitingSteps DEF RejectInvalid, ValidMessage, PublishDlq, Goto
  <1>8. ASSUME NEW w \in Workers, Claim(w) PROVE AnswersFor(k)'
    BY <1>8, WaitingSteps DEF Claim, ClaimRow, ValidMessage, brokerVars, Claimable,
       TokensInUse
  <1>9. ASSUME NEW w \in Workers, ClaimMiss(w) PROVE AnswersFor(k)'
    BY <1>9, WaitingSteps DEF ClaimMiss, Claimable, ValidMessage, Goto, brokerVars
  <1>10. ASSUME NEW w \in Workers, Classify(w) PROVE AnswersFor(k)'
    BY <1>10, WaitingSteps DEF Classify, Disposition, Goto, brokerVars
  <1>11. ASSUME NEW w \in Workers, Nack(w) PROVE AnswersFor(k)'
    BY <1>11, WaitingSteps DEF Nack, PublishRetry, Forget, Published
  <1>12. ASSUME NEW w \in Workers, Ack(w) PROVE AnswersFor(k)'
    <2>1. Waiting(k)' <=> Waiting(k)
      BY <1>12, WaitingSteps DEF Ack, brokerVars
    <2>2. pc[w] \in {"ack", "ackDone"} /\ ~Owns(k, tok[w])
      BY <1>12 DEF Ack, Acking
    <2> QED
      BY <1>12, <2>1, <2>2 DEF Ack, Forget
  <1>13. ASSUME NEW w \in Workers, BumpOnClaim(w) PROVE AnswersFor(k)'
    BY <1>13, WaitingSteps DEF BumpOnClaim, bump_attempt, Goto, brokerVars
  <1>14. ASSUME NEW w \in Workers, ReconcileHit(w) PROVE AnswersFor(k)'
    BY <1>14, WaitingSteps DEF ReconcileHit, Goto, brokerVars
  <1>15. ASSUME NEW w \in Workers, ReconcileMiss(w) PROVE AnswersFor(k)'
    BY <1>15, WaitingSteps DEF ReconcileMiss, Goto, brokerVars
  <1>16. ASSUME NEW w \in Workers, ReconcileReadError(w) PROVE AnswersFor(k)'
    BY <1>16, WaitingSteps DEF ReconcileReadError, Goto, brokerVars
  <1>17. ASSUME NEW w \in Workers, Infer(w) PROVE AnswersFor(k)'
    BY <1>17, WaitingSteps DEF Infer, Goto, brokerVars
  <1>18. ASSUME NEW w \in Workers, UploadResult(w) PROVE AnswersFor(k)'
    BY <1>18, WaitingSteps DEF UploadResult, Goto, brokerVars
  <1>19. ASSUME NEW w \in Workers, UploadTelemetry(w) PROVE AnswersFor(k)'
    BY <1>19, WaitingSteps DEF UploadTelemetry, Goto, brokerVars
  <1>20. ASSUME NEW w \in Workers, Complete(w) PROVE AnswersFor(k)'
    BY <1>20, WaitingSteps DEF Complete, mark_completed, Goto, brokerVars
  <1>21. ASSUME NEW w \in Workers, CompleteFenced(w) PROVE AnswersFor(k)'
    BY <1>21, WaitingSteps DEF CompleteFenced, Goto, brokerVars
  <1>22. ASSUME NEW w \in Workers, FailRetryable(w) PROVE AnswersFor(k)'
    BY <1>22, WaitingSteps DEF FailRetryable, Goto, brokerVars
  <1>23. ASSUME NEW w \in Workers, FailTerminal(w) PROVE AnswersFor(k)'
    BY <1>23, WaitingSteps DEF FailTerminal, Goto, brokerVars
  <1>24. ASSUME NEW w \in Workers, MarkFailed(w) PROVE AnswersFor(k)'
    BY <1>24, WaitingSteps DEF MarkFailed, mark_failed, Goto, brokerVars
  <1>25. ASSUME NEW w \in Workers, BumpForRetry(w) PROVE AnswersFor(k)'
    BY <1>25, WaitingSteps DEF BumpForRetry, bump_attempt, Goto, brokerVars
  <1>26. ASSUME NEW w \in Workers, Republish(w) PROVE AnswersFor(k)'
    <2>1. /\ JobMsg(msg[w].job, msg[w].attempt + 1) \in Bodies
          /\ Published(JobMsg(msg[w].job, msg[w].attempt + 1))
      BY <1>26, RetryMsg, BodyFacts DEF Republish, PublishRetry, Published
    <2>2. Waiting(k) => Waiting(k)'
      BY <2>1, WaitingSteps
    <2>3. ~Owns(k, tok[w])
      BY <1>26 DEF Republish
    <2> QED
      BY <1>26, <2>2, <2>3 DEF Republish, Goto
  <1>27. ASSUME NEW w \in Workers, MarkRetrying(w) PROVE AnswersFor(k)'
    BY <1>27, WaitingSteps DEF MarkRetrying, mark_retrying, Goto, brokerVars
  <1>28. ASSUME NEW w \in Workers, SendToDlq(w) PROVE AnswersFor(k)'
    BY <1>28, WaitingSteps DEF SendToDlq, PublishDlq, Goto
  <1>29. ASSUME NEW w \in Workers, DeadChannel(w) PROVE AnswersFor(k)'
    BY <1>29, WaitingSteps DEF DeadChannel, Forget, UsesChannel, brokerVars
  <1>30. ASSUME NEW w \in Workers, DeadChannelAfterCompletion(w) PROVE AnswersFor(k)'
    BY <1>30, WaitingSteps DEF DeadChannelAfterCompletion, Goto, brokerVars
  <1>31. ASSUME NEW w \in Workers, Renew(w) PROVE AnswersFor(k)'
    BY <1>31, WaitingSteps DEF Renew, renew_job_lease, SetLease, brokerVars, workerVars
  <1>32. ASSUME NEW w \in Workers, Crash(w) PROVE AnswersFor(k)'
    BY <1>32, WaitingSteps DEF Crash, PublishMain, Forget, brokerVars, Published
  <1>33. ASSUME NEW w \in Workers, LoseChannel(w) PROVE AnswersFor(k)'
    BY <1>33, WaitingSteps DEF LoseChannel, PublishMain, Spend, Never, Faults
  <1>34. ASSUME NEW w \in Workers, NEW m \in Bodies, Deliver(w, m) PROVE AnswersFor(k)'
    BY <1>34, WaitingSteps DEF Deliver
  <1>35. ASSUME NEW m \in Bodies, RetryExpires(m) PROVE AnswersFor(k)'
    BY <1>35, WaitingSteps DEF RetryExpires, workerVars
  <1>36. ASSUME NEW m \in Bodies, AdminRequeue(m) PROVE AnswersFor(k)'
    BY <1>36, WaitingSteps DEF AdminRequeue, workerVars, Published
  <1>37. ASSUME NEW m \in Bodies, AdminRequeueAborted(m) PROVE AnswersFor(k)'
    BY <1>37, WaitingSteps DEF AdminRequeueAborted, PublishMain, workerVars, Published
  <1>38. CASE BrokerRestart
    BY <1>38, WaitingSteps DEF BrokerRestart, RestartQueues, workerVars, Spend, Never,
       Faults
  <1>39. CASE AdminReconcile
    BY <1>39, WaitingSteps DEF AdminReconcile, ReconcileRequeued, brokerVars, workerVars
  <1>40. CASE AdminPurge
    BY <1>40, WaitingSteps DEF AdminPurge, workerVars
  <1>41. CASE UNCHANGED vars
    BY <1>41, WaitingSteps DEF vars
  <1> QED
    BY <1>1, <1>2, <1>3, <1>4, <1>5, <1>6, <1>7, <1>8, <1>9, <1>10, <1>11, <1>12, <1>13,
       <1>14, <1>15, <1>16, <1>17, <1>18, <1>19, <1>20, <1>21, <1>22, <1>23, <1>24,
       <1>25, <1>26, <1>27, <1>28, <1>29, <1>30, <1>31, <1>32, <1>33, <1>34, <1>35,
       <1>36, <1>37, <1>38, <1>39, <1>40, <1>41 DEF Next, WorkerStep, DispatcherStep

\* The retry a worker has published stays in the retry queue until the worker
\* has written RETRYING: no TTL and no restart takes it away.
LEMMA NextRetryStillDelayed ==
  ASSUME Never("restart"), SettlesWithinTtl, Typed, RetryStillDelayed, [Next]_vars,
         NEW v \in Workers, At(v, "retrying")'
  PROVE  retry'[JobMsg(msg'[v].job, msg'[v].attempt + 1)] > 0
  <1> DEFINE next == JobMsg(msg[v].job, msg[v].attempt + 1)
             Goal == retry'[JobMsg(msg'[v].job, msg'[v].attempt + 1)] > 0
  <1> SUFFICES Goal
    OBVIOUS
  <1>a. ASSUME At(v, "retrying") PROVE next \in Bodies /\ retry[next] > 0
    BY <1>a, RetryMsg, BodyFacts DEF Typed, HoldsMessage, RetryStillDelayed, At
  <1>b. ASSUME At(v, "retrying"), msg'[v] = msg[v], retry'[next] > 0 PROVE Goal
    BY <1>b
  <1> USE DEF Typed, QueuesOK, WorkersOK, HoldsMessage, At
  <1> HIDE DEF next, Goal
  <1>1. ASSUME NEW j \in Jobs, Enqueue(j) PROVE Goal
    BY <1>1, <1>a, <1>b DEF Enqueue, brokerVars, workerVars
  <1>2. ASSUME NEW j \in Jobs, DispatchPublish(j) PROVE Goal
    BY <1>2, <1>a, <1>b DEF DispatchPublish, workerVars, PublishMain
  <1>3. ASSUME NEW j \in Jobs, DispatchCommit(j) PROVE Goal
    BY <1>3, <1>a, <1>b DEF DispatchCommit, brokerVars, workerVars
  <1>4. ASSUME NEW j \in Jobs, DispatchCrash(j) PROVE Goal
    BY <1>4, <1>a, <1>b DEF DispatchCrash, brokerVars, workerVars
  <1>5. ASSUME NEW j \in Jobs, OrphanedLeaseExpires(j) PROVE Goal
    BY <1>5, <1>a, <1>b DEF OrphanedLeaseExpires, brokerVars, workerVars
  <1>6. ASSUME NEW j \in Jobs, EarlyLeaseExpires(j) PROVE Goal
    BY <1>6, <1>a, <1>b DEF EarlyLeaseExpires, brokerVars, workerVars
  <1>7. ASSUME NEW w \in Workers, RejectInvalid(w) PROVE Goal
    BY <1>7, <1>a, <1>b DEF RejectInvalid, PublishDlq, Goto
  <1>8. ASSUME NEW w \in Workers, Claim(w) PROVE Goal
    BY <1>8, <1>a, <1>b DEF Claim, brokerVars
  <1>9. ASSUME NEW w \in Workers, ClaimMiss(w) PROVE Goal
    BY <1>9, <1>a, <1>b DEF ClaimMiss, Goto, brokerVars
  <1>10. ASSUME NEW w \in Workers, Classify(w) PROVE Goal
    BY <1>10, <1>a, <1>b DEF Classify, Disposition, Goto, brokerVars
  <1>11. ASSUME NEW w \in Workers, Nack(w) PROVE Goal
    BY <1>11, <1>a, <1>b, QueueCounts DEF Nack, PublishRetry, Forget
  <1>12. ASSUME NEW w \in Workers, Ack(w) PROVE Goal
    BY <1>12, <1>a, <1>b DEF Ack, Forget, brokerVars
  <1>13. ASSUME NEW w \in Workers, BumpOnClaim(w) PROVE Goal
    BY <1>13, <1>a, <1>b DEF BumpOnClaim, Goto, brokerVars
  <1>14. ASSUME NEW w \in Workers, ReconcileHit(w) PROVE Goal
    BY <1>14, <1>a, <1>b DEF ReconcileHit, Goto, brokerVars
  <1>15. ASSUME NEW w \in Workers, ReconcileMiss(w) PROVE Goal
    BY <1>15, <1>a, <1>b DEF ReconcileMiss, Goto, brokerVars
  <1>16. ASSUME NEW w \in Workers, ReconcileReadError(w) PROVE Goal
    BY <1>16, <1>a, <1>b DEF ReconcileReadError, Goto, brokerVars
  <1>17. ASSUME NEW w \in Workers, Infer(w) PROVE Goal
    BY <1>17, <1>a, <1>b DEF Infer, Goto, brokerVars
  <1>18. ASSUME NEW w \in Workers, UploadResult(w) PROVE Goal
    BY <1>18, <1>a, <1>b DEF UploadResult, Goto, brokerVars
  <1>19. ASSUME NEW w \in Workers, UploadTelemetry(w) PROVE Goal
    BY <1>19, <1>a, <1>b DEF UploadTelemetry, Goto, brokerVars
  <1>20. ASSUME NEW w \in Workers, Complete(w) PROVE Goal
    BY <1>20, <1>a, <1>b DEF Complete, Goto, brokerVars
  <1>21. ASSUME NEW w \in Workers, CompleteFenced(w) PROVE Goal
    BY <1>21, <1>a, <1>b DEF CompleteFenced, Goto, brokerVars
  <1>22. ASSUME NEW w \in Workers, FailRetryable(w) PROVE Goal
    BY <1>22, <1>a, <1>b DEF FailRetryable, Goto, brokerVars, Running
  <1>23. ASSUME NEW w \in Workers, FailTerminal(w) PROVE Goal
    BY <1>23, <1>a, <1>b DEF FailTerminal, Goto, brokerVars
  <1>24. ASSUME NEW w \in Workers, MarkFailed(w) PROVE Goal
    BY <1>24, <1>a, <1>b DEF MarkFailed, Goto, brokerVars
  <1>25. ASSUME NEW w \in Workers, BumpForRetry(w) PROVE Goal
    BY <1>25, <1>a, <1>b DEF BumpForRetry, Goto, brokerVars
  <1>26. ASSUME NEW w \in Workers, Republish(w) PROVE Goal
    <2>1. CASE v = w
      <3>1. next \in Bodies /\ retry' = Put(retry, next) /\ msg' = msg
        BY <1>26, <2>1, RetryMsg, BodyFacts DEF Republish, PublishRetry, Goto, next
      <3> QED
        BY <3>1, QueueCounts DEF Goal, next
    <2>2. CASE v # w
      <3>1. At(v, "retrying") /\ msg'[v] = msg[v]
        BY <1>26, <2>2 DEF Republish, Goto
      <3>2. JobMsg(msg[w].job, msg[w].attempt + 1) \in Bodies
        BY <1>26, RetryMsg, BodyFacts DEF Republish
      <3> QED
        BY <1>26, <3>1, <3>2, <1>a, <1>b, QueueCounts DEF Republish, PublishRetry
    <2> QED
      BY <2>1, <2>2
  <1>27. ASSUME NEW w \in Workers, MarkRetrying(w) PROVE Goal
    BY <1>27, <1>a, <1>b DEF MarkRetrying, Goto, brokerVars
  <1>28. ASSUME NEW w \in Workers, SendToDlq(w) PROVE Goal
    BY <1>28, <1>a, <1>b DEF SendToDlq, PublishDlq, Goto
  <1>29. ASSUME NEW w \in Workers, DeadChannel(w) PROVE Goal
    BY <1>29, <1>a, <1>b DEF DeadChannel, Forget, brokerVars
  <1>30. ASSUME NEW w \in Workers, DeadChannelAfterCompletion(w) PROVE Goal
    BY <1>30, <1>a, <1>b DEF DeadChannelAfterCompletion, Goto, brokerVars
  <1>31. ASSUME NEW w \in Workers, Renew(w) PROVE Goal
    BY <1>31, <1>a, <1>b DEF Renew, brokerVars, workerVars
  <1>32. ASSUME NEW w \in Workers, Crash(w) PROVE Goal
    BY <1>32, <1>a, <1>b DEF Crash, Forget, brokerVars, PublishMain
  <1>33. ASSUME NEW w \in Workers, LoseChannel(w) PROVE Goal
    BY <1>33, <1>a, <1>b DEF LoseChannel, PublishMain
  <1>34. ASSUME NEW w \in Workers, NEW m \in Bodies, Deliver(w, m) PROVE Goal
    BY <1>34, <1>a, <1>b DEF Deliver, DeliverFrom
  <1>35. ASSUME NEW m \in Bodies, RetryExpires(m) PROVE Goal
    <2>1. At(v, "retrying") /\ msg'[v] = msg[v] /\ m # next
      BY <1>35 DEF RetryExpires, workerVars, next
    <2> QED
      BY <1>35, <2>1, <1>a, <1>b, QueueCounts DEF RetryExpires, RetryTtlOver
  <1>36. ASSUME NEW m \in Bodies, AdminRequeue(m) PROVE Goal
    BY <1>36, <1>a, <1>b DEF AdminRequeue, workerVars
  <1>37. ASSUME NEW m \in Bodies, AdminRequeueAborted(m) PROVE Goal
    BY <1>37, <1>a, <1>b DEF AdminRequeueAborted, workerVars, PublishMain
  <1>38. CASE BrokerRestart
    BY <1>38, <1>a, <1>b DEF BrokerRestart, RestartQueues, workerVars, Spend, Never,
       Faults, RestOK
  <1>39. CASE AdminReconcile
    BY <1>39, <1>a, <1>b DEF AdminReconcile, brokerVars, workerVars
  <1>40. CASE AdminPurge
    BY <1>40, <1>a, <1>b DEF AdminPurge, workerVars
  <1>41. CASE UNCHANGED vars
    BY <1>41, <1>a, <1>b DEF vars
  <1> QED
    BY <1>1, <1>2, <1>3, <1>4, <1>5, <1>6, <1>7, <1>8, <1>9, <1>10, <1>11, <1>12, <1>13,
       <1>14, <1>15, <1>16, <1>17, <1>18, <1>19, <1>20, <1>21, <1>22, <1>23, <1>24,
       <1>25, <1>26, <1>27, <1>28, <1>29, <1>30, <1>31, <1>32, <1>33, <1>34, <1>35,
       <1>36, <1>37, <1>38, <1>39, <1>40, <1>41 DEF Next, WorkerStep, DispatcherStep

\* A job whose row is open is kept.  MarkFailed leaves the marker with its
\* delivery, MarkRetrying relies on the retry published before it, and a worker
\* that acks a NOT_CLAIMABLE delivery never was what kept the job.
LEMMA NextKept ==
  ASSUME Never("channel"), Never("restart"), Never("requeue"),
         Typed, ChannelsOpen, RetryStillDelayed, admin = NoJob, [Next]_vars,
         NEW k \in Jobs,
         jobs[k].status \in {"QUEUED", "FAILED", "RETRYING"} => Kept(k),
         jobs'[k].status \in {"QUEUED", "FAILED", "RETRYING"}
  PROVE  Kept(k)'
  <1>a. /\ \A m \in JobMsgs : m.kind = "job" /\ m.job \in Jobs
        /\ \A m \in Bodies : m.kind = "job" => m \in JobMsgs
        /\ FailureMsg(k) \in Bodies
    BY BodyFacts
  <1> USE <1>a DEF Typed, TableOK, QueuesOK, WorkersOK, RestOK, HoldsMessage,
              ChannelsOpen, Kept, Keeping, HeldBy, Held, At, Row, Running
  <1>1. ASSUME NEW j \in Jobs, Enqueue(j) PROVE Kept(k)'
    BY <1>1, WaitingSteps DEF Enqueue, InsertJob, brokerVars, workerVars
  <1>2. ASSUME NEW j \in Jobs, DispatchPublish(j) PROVE Kept(k)'
    <2>1. JobMsg(j, 1) \in JobMsgs /\ JobMsg(j, 1).job = j /\ Published(JobMsg(j, 1))
      BY <1>2, JobMsgForm, BodyFacts DEF DispatchPublish, PublishMain, Published, Attempts
    <2>2. (Waiting(k) => Waiting(k)') /\ (j = k => Waiting(k)')
      BY <2>1, WaitingSteps, BodyFacts
    <2> QED
      BY <1>2, <2>2 DEF DispatchPublish, PublishMain, workerVars
  <1>3. ASSUME NEW j \in Jobs, DispatchCommit(j) PROVE Kept(k)'
    BY <1>3, WaitingSteps DEF DispatchCommit, brokerVars, workerVars
  <1>4. ASSUME NEW j \in Jobs, DispatchCrash(j) PROVE Kept(k)'
    BY <1>4, WaitingSteps DEF DispatchCrash, brokerVars, workerVars
  <1>5. ASSUME NEW j \in Jobs, OrphanedLeaseExpires(j) PROVE Kept(k)'
    BY <1>5, WaitingSteps DEF OrphanedLeaseExpires, LeaseExpires, SetLease, brokerVars,
       workerVars
  <1>6. ASSUME NEW j \in Jobs, EarlyLeaseExpires(j) PROVE Kept(k)'
    BY <1>6, WaitingSteps DEF EarlyLeaseExpires, LeaseExpires, SetLease, brokerVars,
       workerVars
  <1>7. ASSUME NEW w \in Workers, RejectInvalid(w) PROVE Kept(k)'
    <2>1. Waiting(k)' <=> Waiting(k)
      BY <1>7, WaitingSteps DEF RejectInvalid, PublishDlq
    <2>2. dlq[FailureMsg(k)] > 0 => dlq'[FailureMsg(k)] > 0
      BY <1>7, BodyFacts, QueueCounts DEF RejectInvalid, PublishDlq
    <2> QED
      BY <1>7, <2>1, <2>2 DEF RejectInvalid, ValidMessage, Goto
  <1>8. ASSUME NEW w \in Workers, Claim(w) PROVE Kept(k)'
    BY <1>8, WaitingSteps DEF Claim, ClaimRow, ValidMessage, brokerVars, Claimable
  <1>9. ASSUME NEW w \in Workers, ClaimMiss(w) PROVE Kept(k)'
    BY <1>9, WaitingSteps DEF ClaimMiss, Claimable, ValidMessage, Goto, brokerVars
  <1>10. ASSUME NEW w \in Workers, Classify(w) PROVE Kept(k)'
    BY <1>10, WaitingSteps DEF Classify, Disposition, Goto, brokerVars
  <1>11. ASSUME NEW w \in Workers, Nack(w) PROVE Kept(k)'
    BY <1>11, WaitingSteps DEF Nack, PublishRetry, Forget, Published
  <1>12. ASSUME NEW w \in Workers, Ack(w) PROVE Kept(k)'
    BY <1>12, WaitingSteps DEF Ack, Forget, brokerVars, Acking
  <1>13. ASSUME NEW w \in Workers, BumpOnClaim(w) PROVE Kept(k)'
    BY <1>13, WaitingSteps DEF BumpOnClaim, bump_attempt, Goto, brokerVars
  <1>14. ASSUME NEW w \in Workers, ReconcileHit(w) PROVE Kept(k)'
    BY <1>14, WaitingSteps DEF ReconcileHit, Goto, brokerVars
  <1>15. ASSUME NEW w \in Workers, ReconcileMiss(w) PROVE Kept(k)'
    BY <1>15, WaitingSteps DEF ReconcileMiss, Goto, brokerVars
  <1>16. ASSUME NEW w \in Workers, ReconcileReadError(w) PROVE Kept(k)'
    BY <1>16, WaitingSteps DEF ReconcileReadError, Goto, brokerVars
  <1>17. ASSUME NEW w \in Workers, Infer(w) PROVE Kept(k)'
    BY <1>17, WaitingSteps DEF Infer, Goto, brokerVars
  <1>18. ASSUME NEW w \in Workers, UploadResult(w) PROVE Kept(k)'
    BY <1>18, WaitingSteps DEF UploadResult, Goto, brokerVars
  <1>19. ASSUME NEW w \in Workers, UploadTelemetry(w) PROVE Kept(k)'
    BY <1>19, WaitingSteps DEF UploadTelemetry, Goto, brokerVars
  <1>20. ASSUME NEW w \in Workers, Complete(w) PROVE Kept(k)'
    BY <1>20, WaitingSteps DEF Complete, mark_completed, Goto, brokerVars, Owns
  <1>21. ASSUME NEW w \in Workers, CompleteFenced(w) PROVE Kept(k)'
    BY <1>21, WaitingSteps DEF CompleteFenced, Goto, brokerVars
  <1>22. ASSUME NEW w \in Workers, FailRetryable(w) PROVE Kept(k)'
    BY <1>22, WaitingSteps DEF FailRetryable, Goto, brokerVars
  <1>23. ASSUME NEW w \in Workers, FailTerminal(w) PROVE Kept(k)'
    BY <1>23, WaitingSteps DEF FailTerminal, Goto, brokerVars
  <1>24. ASSUME NEW w \in Workers, MarkFailed(w) PROVE Kept(k)'
    BY <1>24, WaitingSteps DEF MarkFailed, mark_failed, Goto, brokerVars, Owns
  <1>25. ASSUME NEW w \in Workers, BumpForRetry(w) PROVE Kept(k)'
    BY <1>25, WaitingSteps DEF BumpForRetry, bump_attempt, Goto, brokerVars
  <1>26. ASSUME NEW w \in Workers, Republish(w) PROVE Kept(k)'
    <2> DEFINE next == JobMsg(msg[w].job, msg[w].attempt + 1)
    <2>1. next \in JobMsgs /\ next \in Bodies /\ next.job = msg[w].job
      <3>1. msg[w].job \in Jobs /\ msg[w].attempt + 1 \in Attempts
        BY <1>26, RetryMsg, BodyFacts DEF Republish
      <3> QED
        BY <3>1, BodyFacts, JobMsgForm
    <2>2. Published(next)
      BY <1>26 DEF Republish, PublishRetry, Published
    <2> HIDE DEF next
    <2>3. (Waiting(k) => Waiting(k)') /\ (msg[w].job = k => Waiting(k)')
      BY <2>1, <2>2, WaitingSteps
    <2> QED
      BY <1>26, <2>3 DEF Republish, PublishRetry, Goto
  <1>27. ASSUME NEW w \in Workers, MarkRetrying(w) PROVE Kept(k)'
    <2>1. Waiting(k)' <=> Waiting(k)
      BY <1>27, WaitingSteps DEF MarkRetrying, brokerVars
    <2>2. msg[w].job = k => Waiting(k)
      BY <1>27, RetryMsg, BodyFacts DEF MarkRetrying, RetryStillDelayed, Waiting
    <2> QED
      BY <1>27, <2>1, <2>2 DEF MarkRetrying, mark_retrying, Goto, brokerVars
  <1>28. ASSUME NEW w \in Workers, SendToDlq(w) PROVE Kept(k)'
    <2>1. Waiting(k)' <=> Waiting(k)
      BY <1>28, WaitingSteps DEF SendToDlq, PublishDlq
    <2>2. FailureMsg(msg[w].job) \in Bodies
      BY <1>28, BodyFacts DEF SendToDlq
    <2>3. /\ dlq[FailureMsg(k)] > 0 => dlq'[FailureMsg(k)] > 0
          /\ msg[w].job = k => dlq'[FailureMsg(k)] > 0
      BY <1>28, <2>2, QueueCounts DEF SendToDlq, PublishDlq
    <2> QED
      BY <1>28, <2>1, <2>3 DEF SendToDlq, Goto
  <1>29. ASSUME NEW w \in Workers, DeadChannel(w) PROVE Kept(k)'
    BY <1>29, WaitingSteps DEF DeadChannel, Forget, UsesChannel, brokerVars
  <1>30. ASSUME NEW w \in Workers, DeadChannelAfterCompletion(w) PROVE Kept(k)'
    BY <1>30, WaitingSteps DEF DeadChannelAfterCompletion, Goto, brokerVars
  <1>31. ASSUME NEW w \in Workers, Renew(w) PROVE Kept(k)'
    BY <1>31, WaitingSteps DEF Renew, renew_job_lease, SetLease, brokerVars, workerVars
  <1>32. ASSUME NEW w \in Workers, Crash(w) PROVE Kept(k)'
    BY <1>32, WaitingSteps DEF Crash, PublishMain, Forget, brokerVars, Published
  <1>33. ASSUME NEW w \in Workers, LoseChannel(w) PROVE Kept(k)'
    BY <1>33, WaitingSteps DEF LoseChannel, PublishMain, Spend, Never, Faults
  <1>34. ASSUME NEW w \in Workers, NEW m \in Bodies, Deliver(w, m) PROVE Kept(k)'
    BY <1>34, WaitingSteps DEF Deliver, DeliverFrom
  <1>35. ASSUME NEW m \in Bodies, RetryExpires(m) PROVE Kept(k)'
    BY <1>35, WaitingSteps DEF RetryExpires, workerVars, RetryTtlOver
  <1>36. ASSUME NEW m \in Bodies, AdminRequeue(m) PROVE Kept(k)'
    BY <1>36, WaitingSteps DEF AdminRequeue, workerVars, Spend, Never, Faults
  <1>37. ASSUME NEW m \in Bodies, AdminRequeueAborted(m) PROVE Kept(k)'
    BY <1>37, WaitingSteps DEF AdminRequeueAborted, PublishMain, workerVars, Published
  <1>38. CASE BrokerRestart
    BY <1>38, WaitingSteps DEF BrokerRestart, RestartQueues, workerVars, Spend, Never,
       Faults
  <1>39. CASE AdminReconcile
    BY <1>39, WaitingSteps DEF AdminReconcile, ReconcileRequeued, brokerVars, workerVars
  <1>40. CASE AdminPurge
    BY <1>40, WaitingSteps DEF AdminPurge, workerVars, Spend, Never, Faults
  <1>41. CASE UNCHANGED vars
    BY <1>41, WaitingSteps DEF vars
  <1> QED
    BY <1>1, <1>2, <1>3, <1>4, <1>5, <1>6, <1>7, <1>8, <1>9, <1>10, <1>11, <1>12, <1>13,
       <1>14, <1>15, <1>16, <1>17, <1>18, <1>19, <1>20, <1>21, <1>22, <1>23, <1>24,
       <1>25, <1>26, <1>27, <1>28, <1>29, <1>30, <1>31, <1>32, <1>33, <1>34, <1>35,
       <1>36, <1>37, <1>38, <1>39, <1>40, <1>41 DEF Next, WorkerStep, DispatcherStep

-----------------------------------------------------------------------------
\* DeliveryInv is inductive.
THEOREM DeliveryInvariant == Spec => []DeliveryInv
  <1>1. Init => DeliveryInv
    BY InitIInv DEF Init, DeliveryInv, IInv, OwnerAtWork, Owns, QueuedCovered, ChannelsOpen,
       ProcessingCovered, OpenIsKept, RetryStillDelayed, At, JobTableInit, AbsentRow
  <1>2. DeliveryInv /\ [Next]_vars => DeliveryInv'
    <2> SUFFICES ASSUME DeliveryInv, [Next]_vars
                 PROVE  DeliveryInv'
      OBVIOUS
    <2>1. Typed /\ Typed' /\ OwnerAtWork /\ OwnerAtWork'
      BY TypedIsTypeOK, NextTyped, NextOwnerAtWork DEF DeliveryInv
    <2>2. ASSUME Never("channel") PROVE ChannelsOpen /\ ChannelsOpen'
      BY <2>1, <2>2, NextChannelsOpen DEF DeliveryInv
    <2>3. ASSUME Never("requeue") PROVE admin' = NoJob /\ QueuedCovered'
      <3>1. ASSUME NEW k \in Jobs
            PROVE  jobs'[k].status = "QUEUED" => FirstComes(k, JobMsg(k, 1))'
        <4>1. /\ JobMsg(k, 1) \in Bodies /\ JobMsg(k, 1).job = k
              /\ JobMsg(k, 1).kind = "job" /\ Persistent(JobMsg(k, 1))
          BY JobMsgForm DEF Attempts, JobMsg, Persistent
        <4>2. jobs[k].status = "QUEUED" => FirstComes(k, JobMsg(k, 1))
          BY <2>3 DEF DeliveryInv, QueuedCovered
        <4> QED
          BY <2>1, <2>3, <4>1, <4>2, NextFirstComes DEF DeliveryInv
      <3>2. QueuedCovered'
        BY <3>1 DEF QueuedCovered
      <3>3. admin' = NoJob
        BY <2>1, <2>3, NextAdminIdle DEF DeliveryInv, Typed
      <3> QED
        BY <3>2, <3>3
    <2>4. ASSUME Never("channel"), Never("restart") PROVE ProcessingCovered'
      <3>1. ASSUME NEW k \in Jobs, jobs'[k].status = "PROCESSING" PROVE AnswersFor(k)'
        <4>1. jobs[k].status = "PROCESSING" => AnswersFor(k)
          BY <2>4 DEF DeliveryInv, ProcessingCovered
        <4> QED
          BY <2>1, <2>2, <2>4, <3>1, <4>1, NextAnswersFor
      <3> QED
        BY <3>1 DEF ProcessingCovered
    <2>5. ASSUME Never("channel"), Never("restart"), Never("requeue"), SettlesWithinTtl
          PROVE  OpenIsKept' /\ RetryStillDelayed'
      <3>1. OpenIsKept /\ RetryStillDelayed /\ admin = NoJob
        BY <2>5 DEF DeliveryInv
      <3>2. RetryStillDelayed'
        BY <2>1, <2>5, <3>1, NextRetryStillDelayed DEF RetryStillDelayed
      <3>3. OpenIsKept'
        BY <2>1, <2>2, <2>5, <3>1, NextKept DEF OpenIsKept
      <3> QED
        BY <3>2, <3>3
    <2> QED
      BY <2>1, <2>2, <2>3, <2>4, <2>5, TypedIsTypeOK DEF DeliveryInv, Typed, TypeOK, TableOK,
         QueuesOK, WorkersOK, RestOK
  <1> QED
    BY <1>1, <1>2, PTL DEF Spec

\* ADR-0027, the claim a worker died in: as long as no channel is lost under a
\* live worker and the broker does not restart, a PROCESSING row always has a
\* delivery that comes back to it.
THEOREM PipelineProcessingHasDelivery ==
  Never("channel") /\ Never("restart") => (Spec => []ProcessingHasDelivery)
  <1> SUFFICES ASSUME Never("channel"), Never("restart")
               PROVE  Spec => []ProcessingHasDelivery
    OBVIOUS
  <1>1. DeliveryInv => ProcessingHasDelivery
    BY DEF DeliveryInv, ProcessingCovered, AnswersFor, ProcessingHasDelivery, InFlight
  <1> QED
    BY <1>1, DeliveryInvariant, PTL

\* As long as no admin requeues from the DLQ, a QUEUED row is work somebody
\* will be handed, whatever workers, dispatcher, channels and broker do.
THEOREM PipelineQueuedIsDeliverable ==
  Never("requeue") => (Spec => []QueuedIsDeliverable)
  <1> SUFFICES ASSUME Never("requeue")
               PROVE  Spec => []QueuedIsDeliverable
    OBVIOUS
  <1>1. ASSUME DeliveryInv, NEW j \in Jobs, jobs[j].status = "QUEUED"
        PROVE  AwaitsDispatch(j) \/ InFlight(j)
    <2>1. FirstComes(j, JobMsg(j, 1))
      BY <1>1 DEF DeliveryInv, QueuedCovered
    <2>2. JobMsg(j, 1).kind = "job" /\ JobMsg(j, 1).job = j /\ 1 \in Attempts
      BY DEF JobMsg, Attempts
    <2> QED
      BY <2>1, <2>2 DEF FirstComes, AwaitsDispatch, InFlight, Waiting, HeldBy
  <1>2. DeliveryInv => QueuedIsDeliverable
    BY <1>1 DEF QueuedIsDeliverable
  <1> QED
    BY <1>2, DeliveryInvariant, PTL

\* Bounded retries lose no job in silence: crashes, early lease expiries,
\* duplicates and failing reads, in any number, leave every enqueued job
\* completed, waiting for the dispatcher, in flight or recorded in the DLQ.
THEOREM PipelineNoLostWork ==
  Never("channel") /\ Never("restart") /\ Never("requeue") /\ SettlesWithinTtl =>
     (Spec => []NoLostWork)
  <1> SUFFICES ASSUME Never("channel"), Never("restart"), Never("requeue"), SettlesWithinTtl
               PROVE  Spec => []NoLostWork
    OBVIOUS
  <1>1. ASSUME IInv, DeliveryInv, NEW j \in Jobs, jobs[j].status # "ABSENT"
        PROVE  completed[j] \/ AwaitsDispatch(j) \/ InFlight(j) \/ dlq[FailureMsg(j)] > 0
    <2>1. CASE jobs[j].status = "COMPLETED"
      BY <1>1, <2>1 DEF IInv, CompletedIsReleased
    <2>2. CASE jobs[j].status = "PROCESSING"
      BY <1>1, <2>2 DEF DeliveryInv, ProcessingCovered, AnswersFor, InFlight
    <2>3. CASE jobs[j].status \in {"QUEUED", "FAILED", "RETRYING"}
      BY <1>1, <2>3 DEF DeliveryInv, OpenIsKept, Kept, InFlight, AwaitsDispatch
    <2> QED
      BY <1>1, <2>1, <2>2, <2>3 DEF IInv, TypeOK, Row, Statuses
  <1>2. IInv /\ DeliveryInv => NoLostWork
    BY <1>1 DEF NoLostWork
  <1> QED
    BY <1>2, PipelineInvariant, DeliveryInvariant, PTL
=============================================================================
