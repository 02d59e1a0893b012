------------------------------ MODULE Inference ------------------------------
(***************************************************************************)
(* One delivery after another of one job in the worker: the calls to the   *)
(* runtime (hermes.py), the bounded repair of a bad answer, the result     *)
(* that is stored and the check of it that lets a later delivery reuse it  *)
(* (_process_log_triage_message, _process_daily_report_message and         *)
(* _artifact_exists_and_valid in worker.py).                               *)
(*                                                                         *)
(* Claims, leases and retries between deliveries are in JobPipeline, the   *)
(* artifacts of a report in Reports.                                       *)
(***************************************************************************)
EXTENDS Reconciliation, Composition

CONSTANTS
    Logs,             \* the logs a log_triage job may be about
    Answers,          \* the findings and prose the runtime may answer with
    Snapshots,        \* the snapshots a daily_report job may be about
    OutputAttempts,   \* settings.hermes_max_output_attempts
    MaxDeliveries     \* bound on the deliveries of the job

\* At least one attempt is made.
ASSUME InferenceAssumption == {OutputAttempts, MaxDeliveries} \subseteq Nat \ {0}

ASSUME LogsAssumption == Logs \subseteq Seq(LogLines)
ASSUME AnswersAssumption ==
    Answers \subseteq [finds : Seq(FindingRecords), text : Prose]

\* Incidents are frozen once each: their ids are unique columns.
ASSUME SnapshotsAssumption == \A s \in Snapshots :
    /\ s.incidents \in Seq(Incidents)
    /\ \A m, n \in DOMAIN s.incidents : s.incidents[m].id = s.incidents[n].id => m = n

\* The application gives findings of its own the id "unlabeled-" and the family.
\* preprocess_log keeps the families "internal to the worker" (preprocessing.py:266),
\* so the runtime cannot name a finding after one.
ASSUME RuntimeIdsAssumption ==
    \A a \in Answers, l \in Logs : \A n \in DOMAIN a.finds, e \in DOMAIN l :
        a.finds[n].id # UnlabeledId(l[e].family)

VARIABLES
    job,          \* the job's type and its frozen input
    phase,        \* where the current delivery is
    attempt,      \* the output attempt of this delivery
    answer,       \* the runtime's answer, as reconcile_result has left it
    output,       \* what passed validation in this delivery
    stored,       \* jobs/{id}/result.json or report-plan.json
    deliveries

vars == <<job, phase, attempt, answer, output, stored, deliveries>>

Nothing ==
    [finds |-> <<>>, text |-> [sentences |-> 0, fits |-> 0, reads |-> FALSE, cutReads |-> FALSE,
                               needs |-> {}, over |-> {}]]
TriageJobs == {[type |-> "log_triage", log |-> l] : l \in Logs}
ReportJobs == {[type |-> "daily_report", snapshot |-> s] : s \in Snapshots}

Init ==
    /\ job \in TriageJobs \cup ReportJobs
    /\ phase = "delivered"
    /\ attempt = 1
    /\ answer = Nothing
    /\ output = Nothing
    /\ stored = Nothing
    /\ deliveries = 1

Triage == job.type = "log_triage"

-----------------------------------------------------------------------------
(***************************************************************************)
(* The stored result.                                                      *)
(***************************************************************************)

\* It is validated, reconciled once more, and the object that reconciliation
\* was given, not the one it returns, is validated again.  The read succeeds here;
\* what follows a failed one is in Analysis.
_artifact_exists_and_valid ==
    /\ stored # Nothing
    /\ validate_log_triage_result(stored.finds, job.log, stored.text)
    /\ LET again == reconcile_result(stored.finds, job.log, FALSE)
       IN again.outcome = "ok" /\ validate_log_triage_result(again.left, job.log, stored.text)

\* load_saved_plan, and the same validators again.
SavedPlanIsValid == stored # Nothing /\ stored.text.reads

Reusable == IF Triage THEN _artifact_exists_and_valid ELSE SavedPlanIsValid

Reuse ==
    /\ phase = "delivered" /\ Reusable
    /\ phase' = IF Triage THEN "completed" ELSE "stored"
    /\ UNCHANGED <<job, attempt, answer, output, stored, deliveries>>

\* A stored plan that does not validate ends a report; a stored analysis that
\* does not is inferred anew.
Infer ==
    /\ phase = "delivered" /\ ~Reusable
    /\ phase' = IF ~Triage /\ stored # Nothing THEN "terminal" ELSE "ready"
    /\ UNCHANGED <<job, attempt, answer, output, stored, deliveries>>

-----------------------------------------------------------------------------
(***************************************************************************)
(* HermesClient.analyze                                                    *)
(***************************************************************************)

Analyze(a) ==
    /\ phase = "ready"
    /\ Triage \/ a.finds = <<>>
    /\ phase' = "answered"
    /\ answer' = a
    /\ UNCHANGED <<job, attempt, output, stored, deliveries>>

\* Timeouts, unavailability and rate limits are retried with the delivery;
\* failed authentication and an open tool policy are not.
RuntimeFails(end) ==
    /\ phase = "ready"
    /\ end \in {"retryable", "terminal"}
    /\ phase' = end
    /\ UNCHANGED <<job, attempt, answer, output, stored, deliveries>>

NextAttempt ==
    /\ IF attempt < OutputAttempts
       THEN attempt' = attempt + 1 /\ phase' = "ready"
       ELSE attempt' = attempt /\ phase' = "terminal"
    /\ answer' = Nothing

\* HermesInvalidResponse: the answer is not one JSON object.
InvalidResponse ==
    /\ phase = "ready"
    /\ NextAttempt
    /\ UNCHANGED <<job, output, stored, deliveries>>

-----------------------------------------------------------------------------
(***************************************************************************)
(* log_triage: reconcile, validate, and on the last attempt repair.        *)
(***************************************************************************)

Reconciled == reconcile_result(answer.finds, job.log, FALSE)
Good(outcome, finds, text) ==
    outcome = "ok" /\ validate_log_triage_result(finds, job.log, text)
Acceptable == Good(Reconciled.outcome, Reconciled.finds, answer.text)

\* The repair starts from what the first reconciliation left of the answer.
Repaired == reconcile_result(Reconciled.left, job.log, TRUE)
Compacted == compact_log_triage_narrative(Repaired.finds, answer.text)
Repairable == Good(Repaired.outcome, Compacted.finds, Compacted.text)

Keep(finds, text) ==
    /\ output' = [finds |-> finds, text |-> text]
    /\ phase' = "accepted"
    /\ UNCHANGED <<job, attempt, answer, stored, deliveries>>

Accept ==
    /\ phase = "answered" /\ Triage
    /\ Acceptable
    /\ Keep(Reconciled.finds, answer.text)

Reject ==
    /\ phase = "answered" /\ Triage
    /\ Reconciled.outcome # "key_error" /\ ~Acceptable
    /\ attempt < OutputAttempts
    /\ NextAttempt
    /\ UNCHANGED <<job, output, stored, deliveries>>

\* The attempt loop catches ValueError, not KeyError: the delivery fails, and
\* classify_failure calls what it does not know retryable.
KeyErrorEscapes ==
    /\ phase = "answered" /\ Triage
    /\ Reconciled.outcome = "key_error"
    /\ phase' = "retryable"
    /\ UNCHANGED <<job, attempt, answer, output, stored, deliveries>>

LastResort ==
    /\ phase = "answered" /\ Triage
    /\ Reconciled.outcome # "key_error" /\ ~Acceptable
    /\ attempt = OutputAttempts

Repair ==
    /\ LastResort
    /\ Repairable
    /\ Keep(Compacted.finds, Compacted.text)

RepairFails ==
    /\ LastResort
    /\ ~Repairable
    /\ phase' = "terminal"
    /\ UNCHANGED <<job, attempt, answer, output, stored, deliveries>>

-----------------------------------------------------------------------------
(***************************************************************************)
(* daily_report: validate_daily_report_result wants the summary and        *)
(* nothing else, and there is no repair.                                   *)
(***************************************************************************)

AcceptPlan ==
    /\ phase = "answered" /\ ~Triage /\ answer.text.reads
    /\ Keep(<<>>, answer.text)

RejectPlan ==
    /\ phase = "answered" /\ ~Triage /\ ~answer.text.reads
    /\ NextAttempt
    /\ UNCHANGED <<job, output, stored, deliveries>>

-----------------------------------------------------------------------------
\* upload_artifact
Upload ==
    /\ phase = "accepted"
    /\ stored' = output
    /\ phase' = "stored"
    /\ UNCHANGED <<job, attempt, answer, output, deliveries>>

\* compose_report and the renderers (a report), then mark_completed.
Complete ==
    /\ phase = "stored"
    /\ phase' = "completed"
    /\ UNCHANGED <<job, attempt, answer, output, stored, deliveries>>

\* The worker crashes, or its delivery failed and is retried.
Redeliver ==
    /\ phase \in {"ready", "answered", "accepted", "stored", "retryable"}
    /\ deliveries < MaxDeliveries
    /\ deliveries' = deliveries + 1
    /\ phase' = "delivered"
    /\ attempt' = 1
    /\ answer' = Nothing
    /\ output' = Nothing
    /\ UNCHANGED <<job, stored>>

Next ==
    \/ Reuse \/ Infer
    \/ \E a \in Answers : Analyze(a)
    \/ \E end \in {"retryable", "terminal"} : RuntimeFails(end)
    \/ InvalidResponse
    \/ Accept \/ Reject \/ KeyErrorEscapes \/ Repair \/ RepairFails
    \/ AcceptPlan \/ RejectPlan
    \/ Upload \/ Complete \/ Redeliver

Spec == Init /\ [][Next]_vars

-----------------------------------------------------------------------------
(***************************************************************************)
(* What is stored.                                                         *)
(***************************************************************************)

NamesPatterns(finds) == \A n \in DOMAIN finds : ~finds[n].cites
Citing(finds) == {n \in DOMAIN finds : finds[n].cites}

\* The counts of the findings at the positions N, added up.
Total(finds, N) ==
    FoldSet(LAMBDA n, t : t + finds[n].count, 0, {n \in N : finds[n].count # NoCount})

\* reconcile_result: "evidence is not silently discarded" and "all finding counts
\* can reconcile exactly to total_entries".  Whatever the answer grouped, cited
\* twice, named wrongly or left out, accepted or repaired: when no finding cites
\* entries, every line of the log is counted in exactly one finding (or is one of
\* the lines beyond max_patterns, when no finding names those); when some do, every
\* line is cited and counted in exactly one of these.  The findings of such an
\* answer that cite nothing are outside the sum: they keep the runtime's own
\* numbers (the continue in _reconcile_entry_grouped_result), which count lines
\* that are counted elsewhere a second time.
EvidenceIsConserved ==
    Triage /\ output # Nothing =>
        LET finds == output.finds
            named == UNION {finds[n].pids : n \in DOMAIN finds}
        IN IF NamesPatterns(finds)
           THEN Total(finds, DOMAIN finds) =
                  Len(job.log) - (IF Other \in named THEN 0 ELSE CountOf(job.log, Other))
           ELSE /\ UNION {finds[n].entries : n \in Citing(finds)} = DOMAIN job.log
                /\ Total(finds, Citing(finds)) = Len(job.log)

\* worker.py, _artifact_exists_and_valid: a result that was good enough to store
\* is good enough to reuse, so a delivery after a crash that can read it does not
\* pay for a second inference.  Reconciliation has to be idempotent for this.
StoredResultIsReused == stored # Nothing => Reusable

\* preprocessing.py, _compact_narrative: "a verbose provider response cannot turn
\* an otherwise safe deterministic result into a failed job".  On the last attempt
\* an answer whose only fault is its length is repaired.
LongNarrativesAreRepaired ==
    /\ LastResort /\ Reconciled.outcome = "ok"
    /\ FindingsHold(Reconciled.finds, job.log)
    /\ answer.text.reads /\ Supported(Reconciled.finds, answer.text)
    => Repairable

\* It fails in these cases only.  Findings of one family were merged: the answer
\* still has the merged findings next to the one that speaks for them, and the
\* repair rejects their patterns as assigned twice.  Fewer than two sentences of a
\* summary end within its limit, and validation wants two.  What is left of the
\* prose does not read, or two details begin with the same sentences.  The repair
\* drops an unquantified finding whose family another finding has, and with it the
\* evidence for a cause that the prose asserts.
OnlyMergersAndCutsDefeatRepair ==
    \/ LongNarrativesAreRepaired
    \/ NamesPatterns(answer.finds) /\ MergeFamilies(job.log, answer.finds).anew
    \/ answer.text.fits < 2
    \/ ~answer.text.cutReads \/ Repeats(Compacted.finds)
    \/ ~Supported(Repaired.finds, answer.text)

\* compose_report: the document has every frozen incident once, in order, under
\* its own number; an analysis carries its alert's number, a link leads to an
\* analysis that is there, and a screenshot of the preview is the screenshot of
\* the block that shows it.
DocumentIsFaithful ==
    ~Triage /\ phase \in {"stored", "completed"} =>
        LET doc == compose_report(job.snapshot)
            preview == document_to_preview_json(doc)
            blocks == doc.alerts \o doc.analyses
        IN /\ job.snapshot.incident_policy = "all" =>
                [n \in DOMAIN doc.alerts |-> doc.alerts[n].incident]
                    = [n \in DOMAIN job.snapshot.incidents |-> job.snapshot.incidents[n].id]
           /\ \A a \in DOMAIN doc.analyses, b \in DOMAIN doc.alerts :
                doc.analyses[a].incident = doc.alerts[b].incident <=>
                    doc.analyses[a].number = doc.alerts[b].number
           /\ \A n \in DOMAIN doc.navigation : \E a \in DOMAIN doc.analyses :
                doc.analyses[a].bookmark = doc.navigation[n].target /\ doc.analyses[a].available
           /\ \A b \in DOMAIN blocks : \A k \in DOMAIN blocks[b].shots :
                Proxied(preview, preview.blocks[b].index[k]) = blocks[b].shots[k]
=============================================================================
