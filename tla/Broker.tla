------------------------------- MODULE Broker -------------------------------
(***************************************************************************)
(* The RabbitMQ queues of one job type, as declare_topology lays them out  *)
(* (bridge/noc_bridge/queue_topology.py and apps/api/app/core/queue.py):   *)
(*                                                                         *)
(*   main   consumed by the workers; what they nack without requeue is     *)
(*          dead-lettered to retry under the same routing key;             *)
(*   retry  nobody consumes it; each message goes back to main when its    *)
(*          TTL (retry_ttl_ms) is over;                                    *)
(*   dlq    nobody consumes it; only the admin endpoints take from it.     *)
(*                                                                         *)
(* A queue is a bag, the number of copies of each body: the broker may     *)
(* deliver in any order, which covers its FIFO order and redelivery alike. *)
(***************************************************************************)
EXTENDS JobIds

CONSTANT NoJob   \* a body without job_id

VARIABLES main, retry, dlq

brokerVars == <<main, retry, dlq>>

(***************************************************************************)
(* Three kinds of body travel.  A "job" body is valid against              *)
(* job_message.schema.json.  A "failure" body is the diagnostic that       *)
(* _settle_failure writes to the DLQ: it keeps job_id, job_type and        *)
(* attempt (attempt is never read again, 0 here) but none of the other     *)
(* fields the schema requires.  "quarantine" is send_raw_to_dlq's wrapper, *)
(* which has no job_id.                                                    *)
(***************************************************************************)
JobMsg(j, a) == [kind |-> "job", job |-> j, attempt |-> a]
FailureMsg(j) == [kind |-> "failure", job |-> j, attempt |-> 0]
QuarantineMsg == [kind |-> "quarantine", job |-> NoJob, attempt |-> 0]

JobMsgs == {JobMsg(j, a) : j \in Jobs, a \in Attempts}
Bodies == JobMsgs \cup {FailureMsg(j) : j \in Jobs} \cup {QuarantineMsg}

ValidMessage(m) == m.kind = "job"

\* Mutant: the job publish does not ask for Persistent either.
PersistentDiagnosticsOnly(m) == m.attempt = 0

(***************************************************************************)
(* delivery_mode.  Every publisher asks for Persistent except the retry    *)
(* publish of _settle_failure (properties=None), and that is the only      *)
(* publisher of a job body with attempt > 1.                               *)
(***************************************************************************)
Persistent(m) == m.attempt <= 1

Empty == [m \in Bodies |-> 0]
Put(q, m) == [q EXCEPT ![m] = @ + 1]
Take(q, m) == [q EXCEPT ![m] = @ - 1]

BrokerInit == main = Empty /\ retry = Empty /\ dlq = Empty

PublishMain(m) == main' = Put(main, m) /\ UNCHANGED <<retry, dlq>>
PublishRetry(m) == retry' = Put(retry, m) /\ UNCHANGED <<main, dlq>>
PublishDlq(m) == dlq' = Put(dlq, m) /\ UNCHANGED <<main, retry>>

DeliverFrom(m) ==
    /\ main[m] > 0
    /\ main' = Take(main, m)
    /\ UNCHANGED <<retry, dlq>>

RetryTtlOver(m) ==
    /\ retry[m] > 0
    /\ retry' = Take(retry, m)
    /\ main' = Put(main, m)
    /\ UNCHANGED dlq

\* A broker restart keeps durable queues and drops transient messages.
DropTransient(q) == [m \in Bodies |-> IF Persistent(m) THEN q[m] ELSE 0]

RestartQueues ==
    /\ main' = DropTransient(main)
    /\ retry' = DropTransient(retry)
    /\ dlq' = DropTransient(dlq)
=============================================================================
