------------------------------ MODULE Analysis ------------------------------
(***************************************************************************)
(* Log analysis requests, the runs they create and the polls that collect  *)
(* the results (api/v1/routers/analysis.py), composed with the skill       *)
(* registry whose active snapshot every new job is stamped with.           *)
(*                                                                         *)
(* A log_triage Job and its AnalysisRun are inserted and deleted together, *)
(* so they are one record of the sequence jobs, whose index is the job id. *)
(* A daily_report job is a record too: only its stamp matters here, its    *)
(* life is in Reports.  How a job gets to COMPLETED is in JobPipeline; this *)
(* module keeps what the polls can see of it: the status, and which        *)
(* attempt wrote result.json and telemetry.json last.                      *)
(***************************************************************************)
EXTENDS SkillRegistry

CONSTANTS
    Incidents,
    Logs,               \* contents of log files, by checksum
    Requests,           \* the API's request threads
    LogTriage,          \* the skill of log_triage jobs
    DailyReport,        \* the skill of daily_report jobs
    MaxRequests,        \* bound on the requests
    MaxEvents           \* bound on edits of the checkout, workers that outlive their
                        \* lease and failed reads of a stored result, together

\* The two skills of the repository; the bounds are numbers.
ASSUME AnalysisAssumption ==
    /\ Skills = {LogTriage, DailyReport}
    /\ Dependency[LogTriage] = NoSkill /\ Dependency[DailyReport] = LogTriage
    /\ {MaxRequests, MaxEvents} \subseteq Nat

VARIABLES
    incidents,   \* the incidents that exist
    logs,        \* logs[i]: the newest ACTIVE LOG evidence of incident i (uploads
                 \* are in EvidenceLifecycle: it does not change here)
    jobs,        \* the tables jobs and analysis_runs
    store,       \* store[j]: jobs/{id}/*.json and the worker's progress
    req,         \* req[q]: the open transaction of thread q
    ops          \* what the bounds have been spent on

vars == <<disk, snaps, incidents, logs, jobs, store, req, ops>>

Idle == [op |-> "idle"]
NoResult == [attempt |-> 0]

\* What an attempt writes: the analysis of these bytes under this skill.
Output(j, a) == [log |-> jobs[j].log, hash |-> jobs[j].hash, job |-> j, attempt |-> a]

TriageJobs == {j \in DOMAIN jobs : jobs[j].skill = LogTriage}
RunsOf(i) == {j \in TriageJobs : jobs[j].incident = i}
CurrentRuns(i) == {j \in RunsOf(i) : jobs[j].current}

Begin(q, r) ==
    /\ req[q] = Idle
    /\ ops.requests < MaxRequests
    /\ req' = [req EXCEPT ![q] = r]
    /\ ops' = [ops EXCEPT !.requests = @ + 1]

MayHappen == ops.edits + ops.late + ops.reads < MaxEvents

End(q) == req' = [req EXCEPT ![q] = Idle]

-----------------------------------------------------------------------------
(***************************************************************************)
(* request_analysis, in three steps: what it reads up to the registration  *)
(* of the skill's files; the reads that decide between cache and job, and  *)
(* the UPDATE that clears current; the commit.                             *)
(***************************************************************************)

\* An incident without LOG evidence (409) is like one that does not exist (404):
\* the request ends with nothing written.
RequestAnalysis(q, i) ==
    /\ Begin(q, [op |-> "analyse", skill |-> LogTriage, incident |-> i, log |-> logs[i],
                 rows |-> get_or_create_snapshot(LogTriage)])
    /\ i \in incidents
    /\ CanRegister(LogTriage)
    /\ UNCHANGED <<skillVars, incidents, logs, jobs, store>>

\* generate_report resolves its skill the same way, in its own transaction.
RequestReport(q) ==
    /\ Begin(q, [op |-> "report", skill |-> DailyReport,
                 rows |-> get_or_create_snapshot(DailyReport)])
    /\ CanRegister(DailyReport)
    /\ UNCHANGED <<skillVars, incidents, logs, jobs, store>>

\* Mutant: the checksum of the log is left out of the cache key.
CacheHitsAnyLog(log, n, hash) ==
    {j \in TriageJobs : jobs[j].result # NoResult /\ jobs[j].snap = n /\ jobs[j].hash = hash}

\* _find_cached_analysis_run: the newest finished run over the same bytes,
\* under the same snapshot and execution hash.
CacheHits(log, n, hash) ==
    {j \in TriageJobs : /\ jobs[j].result # NoResult
                        /\ jobs[j].log = log
                        /\ jobs[j].snap = n
                        /\ jobs[j].hash = hash}

_find_cached_analysis_run(log, n, hash) ==
    IF CacheHits(log, n, hash) = {} THEN NoResult ELSE jobs[Max(CacheHits(log, n, hash))].result

\* NoActiveSkillSnapshot makes the request fail.
NoActiveSnapshot(q) ==
    /\ req[q].op \in {"analyse", "report"}
    /\ resolve_active_snapshot(req[q].rows, req[q].skill) = {}
    /\ End(q)
    /\ UNCHANGED <<skillVars, incidents, logs, jobs, store, ops>>

\* The active row may be one of the request's own pending rows, which has no
\* id, and no cached run, yet.
ReadActiveSnapshot(q) ==
    /\ req[q].op \in {"analyse", "report"}
    /\ \E n \in resolve_active_snapshot(req[q].rows, req[q].skill) :
         LET own == n > Len(snaps)
             hash == compute_execution_hash(Inserted(snaps, req[q].rows), n)
             stamp == [rows |-> req[q].rows, skill |-> req[q].skill,
                       snap |-> n, own |-> own, hash |-> hash]
         IN req' = [req EXCEPT ![q] =
                IF req[q].op = "report"
                THEN [op |-> "insert_report", stamp |-> stamp]
                ELSE [op |-> "insert_run", stamp |-> stamp,
                      incident |-> req[q].incident, log |-> req[q].log,
                      cached |-> IF own THEN NoResult
                                 ELSE _find_cached_analysis_run(req[q].log, n, hash),
                      cleared |-> RunsOf(req[q].incident)]]
    /\ UNCHANGED <<skillVars, incidents, logs, jobs, store, ops>>

StampedRow(stamp) ==
    IF stamp.own THEN Max(ActiveRows(Inserted(snaps, stamp.rows), stamp.skill)) ELSE stamp.snap

\* A job served from the cache is COMPLETED at once and carries the result of
\* the cached run; any other is QUEUED with its run unfilled.
NewRun(r) ==
    [skill |-> LogTriage, incident |-> r.incident, log |-> r.log,
     snap |-> StampedRow(r.stamp), hash |-> r.stamp.hash,
     status |-> IF r.cached = NoResult THEN "QUEUED" ELSE "COMPLETED",
     current |-> TRUE, result |-> r.cached, telemetry |-> 0]

NewReportJob(r) ==
    [skill |-> DailyReport, snap |-> StampedRow(r.stamp), hash |-> r.stamp.hash,
     status |-> "QUEUED"]

\* attempts have written a result; own is the one at work, late are those that still
\* have telemetry to upload after their lease.
NothingStored == [phase |-> "queued", attempts |-> 0, own |-> 0, late |-> {},
                  result |-> 0, telemetry |-> 0]

\* Mutant: no unique index on the current run of an incident.
MayInsertRunUnchecked(r) ==
    r.incident \in incidents /\ OneActivePerName(Inserted(snaps, r.stamp.rows))

\* What the indexes and the foreign key to incidents let commit.  The UPDATE
\* cannot clear a run that another transaction committed after it.
MayInsertRun(r) ==
    /\ r.incident \in incidents
    /\ CurrentRuns(r.incident) \subseteq r.cleared
    /\ OneActivePerName(Inserted(snaps, r.stamp.rows))

\* Mutant: the job is stamped with a row that is not committed.
CommitRunUnregistered(q) ==
    /\ req[q].op = "insert_run"
    /\ MayInsertRun(req[q])
    /\ jobs' = Append([j \in DOMAIN jobs |->
                          IF j \in req[q].cleared THEN [jobs[j] EXCEPT !.current = FALSE]
                          ELSE jobs[j]],
                      NewRun(req[q]))
    /\ store' = Append(store, NothingStored)
    /\ End(q)
    /\ UNCHANGED <<skillVars, incidents, logs, ops>>

CommitRun(q) ==
    /\ req[q].op = "insert_run"
    /\ MayInsertRun(req[q])
    /\ jobs' = Append([j \in DOMAIN jobs |->
                          IF j \in req[q].cleared THEN [jobs[j] EXCEPT !.current = FALSE]
                          ELSE jobs[j]],
                      NewRun(req[q]))
    /\ store' = Append(store, NothingStored)
    /\ snaps' = Inserted(snaps, req[q].stamp.rows)
    /\ End(q)
    /\ UNCHANGED <<disk, incidents, logs, ops>>

\* _commit_current_analysis: 409 (or 500), and the whole transaction is undone.
RunConflict(q) ==
    /\ req[q].op = "insert_run"
    /\ ~MayInsertRun(req[q])
    /\ End(q)
    /\ UNCHANGED <<skillVars, incidents, logs, jobs, store, ops>>

CommitReportJob(q) ==
    /\ req[q].op = "insert_report"
    /\ OneActivePerName(Inserted(snaps, req[q].stamp.rows))
    /\ jobs' = Append(jobs, NewReportJob(req[q]))
    /\ store' = Append(store, NothingStored)
    /\ snaps' = Inserted(snaps, req[q].stamp.rows)
    /\ End(q)
    /\ UNCHANGED <<disk, incidents, logs, ops>>

ReportConflict(q) ==
    /\ req[q].op = "insert_report"
    /\ ~OneActivePerName(Inserted(snaps, req[q].stamp.rows))
    /\ End(q)
    /\ UNCHANGED <<skillVars, incidents, logs, jobs, store, ops>>

-----------------------------------------------------------------------------
(***************************************************************************)
(* get_analysis_run and list_analysis_runs: _sync_completed_job for one    *)
(* job or for every job of the incident, newest first, then one commit.    *)
(***************************************************************************)

Poll(q, js) ==
    /\ Begin(q, [op |-> "poll", todo |-> {j \in js : jobs[j].status = "COMPLETED"},
                 got |-> <<>>])
    /\ UNCHANGED <<skillVars, incidents, logs, jobs, store>>

GetAnalysisRun(q, j) == Poll(q, {j}) /\ j \in TriageJobs
ListAnalysisRuns(q, i) == Poll(q, RunsOf(i)) /\ i \in incidents /\ RunsOf(i) # {}

\* Only a run that has no result yet is filled, from the latest result.json.
SyncReadsResult(q) ==
    /\ req[q].op = "poll" /\ req[q].todo # {}
    /\ LET j == Max(req[q].todo) IN
       req' = [req EXCEPT ![q] =
           IF jobs[j].result = NoResult
           THEN [op |-> "telemetry", todo |-> @.todo \ {j}, got |-> @.got,
                 job |-> j, result |-> Output(j, store[j].result)]
           ELSE [op |-> "poll", todo |-> @.todo \ {j}, got |-> @.got]]
    /\ UNCHANGED <<skillVars, incidents, logs, jobs, store, ops>>

\* The object store fails: the run stays unfilled until the next poll.
SyncFindsNoResult(q) ==
    /\ req[q].op = "poll" /\ req[q].todo # {}
    /\ req' = [req EXCEPT ![q].todo = @ \ {Max(@)}]
    /\ UNCHANGED <<skillVars, incidents, logs, jobs, store, ops>>

\* telemetry.json is read on its own, and missing telemetry is no error.
SyncReadsTelemetry(q) ==
    /\ req[q].op = "telemetry"
    /\ \E t \in {0, store[req[q].job].telemetry} :
         req' = [req EXCEPT ![q] =
             [op |-> "poll", todo |-> @.todo,
              got |-> Append(@.got, [job |-> @.job, result |-> @.result, telemetry |-> t])]]
    /\ UNCHANGED <<skillVars, incidents, logs, jobs, store, ops>>

\* The UPDATE goes by primary key, whatever another poll has written since; it sets
\* the telemetry columns only if telemetry was there.
Filled(job, j, got) ==
    IF \E k \in DOMAIN got : got[k].job = j
    THEN LET g == CHOOSE x \in {got[k] : k \in DOMAIN got} : x.job = j
         IN [job EXCEPT !.result = g.result,
                        !.telemetry = IF g.telemetry = 0 THEN @ ELSE g.telemetry]
    ELSE job

CommitPoll(q) ==
    /\ req[q].op = "poll" /\ req[q].todo = {}
    /\ jobs' = [j \in DOMAIN jobs |-> Filled(jobs[j], j, req[q].got)]
    /\ End(q)
    /\ UNCHANGED <<skillVars, incidents, logs, store, ops>>

-----------------------------------------------------------------------------
(***************************************************************************)
(* The worker, as the polls see it: result.json, then telemetry.json, then *)
(* COMPLETED.  A later attempt of the job that can read the result only    *)
(* marks the row.  A worker that has lost its lease uploads all the same.  *)
(***************************************************************************)

\* claim_job takes up every row that is not settled; QUEUED stands for them.
Working(j) == j \in TriageJobs /\ jobs[j].status = "QUEUED"

\* Mutant: claim_job hands out a row that is COMPLETED already.
NewResultAlways(j) ==
    /\ j \in TriageJobs /\ store[j].phase = "queued"
    /\ LET n == store[j].attempts + 1 IN
       store' = [store EXCEPT ![j] = [store[j] EXCEPT !.phase = "result", !.own = n,
                                                      !.attempts = n, !.result = n]]

\* The attempt in the queue asks the runtime and uploads its result.
NewResult(j) ==
    /\ Working(j) /\ store[j].phase = "queued"
    /\ materialize_snapshot(LogTriage, jobs[j].snap, jobs[j].hash)
    /\ LET n == store[j].attempts + 1 IN
       store' = [store EXCEPT ![j] = [store[j] EXCEPT !.phase = "result", !.own = n,
                                                      !.attempts = n, !.result = n]]

Infer(j) ==
    /\ store[j].result = 0
    /\ NewResult(j)
    /\ UNCHANGED <<skillVars, incidents, logs, jobs, req, ops>>

\* object_exists and _artifact_exists_and_valid take every error for "no result":
\* a redelivered job is inferred over its stored result.
InferAgain(j) ==
    /\ store[j].result # 0 /\ MayHappen
    /\ NewResult(j)
    /\ ops' = [ops EXCEPT !.reads = @ + 1]
    /\ UNCHANGED <<skillVars, incidents, logs, jobs, req>>

UploadTelemetry(j) ==
    /\ Working(j) /\ store[j].phase = "result"
    /\ store' = [store EXCEPT ![j] = [store[j] EXCEPT !.phase = "telemetry",
                                                      !.telemetry = store[j].own]]
    /\ UNCHANGED <<skillVars, incidents, logs, jobs, req, ops>>

EndAttempt(j) == store' = [store EXCEPT ![j] = [store[j] EXCEPT !.phase = "queued", !.own = 0]]

\* mark_completed, at the end of an attempt or by reconciliation.
MarkCompleted(j) ==
    /\ Working(j)
    /\ store[j].phase = "telemetry" \/ (store[j].phase = "queued" /\ store[j].result # 0)
    /\ jobs' = [jobs EXCEPT ![j].status = "COMPLETED"]
    /\ EndAttempt(j)
    /\ UNCHANGED <<skillVars, incidents, logs, req, ops>>

\* The worker dies or fails, and the delivery or its retry comes back.
CrashWorker(j) ==
    /\ Working(j) /\ store[j].phase \in {"result", "telemetry"}
    /\ EndAttempt(j)
    /\ UNCHANGED <<skillVars, incidents, logs, jobs, req, ops>>

\* A terminal failure, or one at the last attempt, in any phase.
MarkFailed(j) ==
    /\ Working(j)
    /\ jobs' = [jobs EXCEPT ![j].status = "FAILED"]
    /\ EndAttempt(j)
    /\ UNCHANGED <<skillVars, incidents, logs, req, ops>>

\* worker.py:354: nothing fences the uploads of a worker whose lease is gone.
LateUpload(j) ==
    /\ j \in TriageJobs /\ store[j].attempts # 0 /\ MayHappen
    /\ LET n == store[j].attempts + 1 IN
       store' = [store EXCEPT ![j] = [store[j] EXCEPT !.attempts = n, !.result = n,
                                                      !.late = @ \cup {n}]]
    /\ ops' = [ops EXCEPT !.late = @ + 1]
    /\ UNCHANGED <<skillVars, incidents, logs, jobs, req>>

LateTelemetry(j) ==
    /\ j \in TriageJobs
    /\ \E n \in store[j].late :
         store' = [store EXCEPT ![j] = [store[j] EXCEPT !.telemetry = n, !.late = @ \ {n}]]
    /\ UNCHANGED <<skillVars, incidents, logs, jobs, req, ops>>

-----------------------------------------------------------------------------
(***************************************************************************)
(* activate_skill_version and list_skills, the registry's own requests.    *)
(***************************************************************************)

Activating(q) == req[q].op \in {"activate", "deactivated"}

\* set_active_snapshot reads the target row first, and validates it.
ActivateSkillVersion(q, s, v) ==
    /\ req[q] = Idle /\ ops.requests < MaxRequests
    /\ \E n \in RowsOf(snaps, s) :
         /\ snaps[n].version = v
         /\ snaps[n].edition \in Valid
         /\ req' = [req EXCEPT ![q] = [op |-> "activate", target |-> n, was |-> snaps[n].active]]
    /\ ops' = [ops EXCEPT !.requests = @ + 1,
                          !.overlap = @ \/ \E p \in Requests : Activating(p)]
    /\ UNCHANGED <<skillVars, incidents, logs, jobs, store>>

\* Mutant: the target itself is among the rows that are cleared.
ReadAllVersions(q) ==
    /\ req[q].op = "activate"
    /\ req' = [req EXCEPT ![q] = [op |-> "deactivated", target |-> @.target, was |-> @.was,
                                  others |-> ActiveRows(snaps, snaps[@.target].skill)]]
    /\ UNCHANGED <<skillVars, incidents, logs, jobs, store, ops>>

\* Then it reads the other rows of the skill and clears the active ones.
ReadOtherVersions(q) ==
    /\ req[q].op = "activate"
    /\ LET others == ActiveRows(snaps, snaps[req[q].target].skill) \ {req[q].target}
       IN req' = [req EXCEPT ![q] = [op |-> "deactivated", target |-> @.target,
                                     was |-> @.was, others |-> others]]
    /\ UNCHANGED <<skillVars, incidents, logs, jobs, store, ops>>

\* The ORM writes is_active of the target only if the row it read was inactive.
Activated(r) ==
    [n \in DOMAIN snaps |->
        IF n \in r.others THEN [snaps[n] EXCEPT !.active = FALSE]
        ELSE IF n = r.target /\ ~r.was THEN [snaps[n] EXCEPT !.active = TRUE]
        ELSE snaps[n]]

CommitActivation(q) ==
    /\ req[q].op = "deactivated"
    /\ OneActivePerName(Activated(req[q]))
    /\ snaps' = Activated(req[q])
    /\ End(q)
    /\ UNCHANGED <<disk, incidents, logs, jobs, store, ops>>

ActivationConflict(q) ==
    /\ req[q].op = "deactivated"
    /\ ~OneActivePerName(Activated(req[q]))
    /\ End(q)
    /\ UNCHANGED <<skillVars, incidents, logs, jobs, store, ops>>

\* list_skills registers both skills, the dependency first.
ListSkills(q) ==
    /\ LET parent == get_or_create_snapshot(DailyReport)
       IN Begin(q, [op |-> "list",
                    rows |-> IF ActiveRows(snaps, LogTriage) = {} THEN parent
                             ELSE get_or_create_snapshot(LogTriage) \o parent])
    /\ CanRegister(LogTriage) /\ CanRegister(DailyReport)
    /\ UNCHANGED <<skillVars, incidents, logs, jobs, store>>

CommitListSkills(q) ==
    /\ req[q].op = "list"
    /\ LET tab == Inserted(snaps, req[q].rows)
       IN snaps' = IF OneActivePerName(tab) THEN tab ELSE snaps
    /\ End(q)
    /\ UNCHANGED <<disk, incidents, logs, jobs, store, ops>>

-----------------------------------------------------------------------------
(***************************************************************************)
(* What happens around the requests.                                       *)
(***************************************************************************)

\* delete_incident: an analysis run protects the evidence it refers to, so
\* only an incident without runs can go.
DeleteIncident(i) ==
    /\ i \in incidents /\ RunsOf(i) = {}
    /\ ops.requests < MaxRequests
    /\ ops' = [ops EXCEPT !.requests = @ + 1]
    /\ incidents' = incidents \ {i}
    /\ UNCHANGED <<skillVars, logs, jobs, store, req>>

\* Bounded like the requests: only a request reads the checkout.
Edit(s, e) ==
    /\ MayHappen /\ ops.requests < MaxRequests
    /\ EditFiles(s, e)
    /\ ops' = [ops EXCEPT !.edits = @ + 1]
    /\ UNCHANGED <<incidents, logs, jobs, store, req>>

Init ==
    /\ SkillInit
    /\ incidents = Incidents
    /\ logs \in [Incidents -> Logs]
    /\ jobs = <<>>
    /\ store = <<>>
    /\ req = [q \in Requests |-> Idle]
    /\ ops = [requests |-> 0, edits |-> 0, late |-> 0, reads |-> 0, overlap |-> FALSE]

Step(q) ==
    \/ NoActiveSnapshot(q) \/ ReadActiveSnapshot(q)
    \/ CommitRun(q) \/ RunConflict(q) \/ CommitReportJob(q) \/ ReportConflict(q)
    \/ SyncReadsResult(q) \/ SyncFindsNoResult(q) \/ SyncReadsTelemetry(q) \/ CommitPoll(q)
    \/ ReadOtherVersions(q) \/ CommitActivation(q) \/ ActivationConflict(q)
    \/ CommitListSkills(q)

WorkerStep(j) ==
    \/ Infer(j) \/ InferAgain(j) \/ UploadTelemetry(j) \/ MarkCompleted(j) \/ CrashWorker(j)
    \/ MarkFailed(j) \/ LateUpload(j) \/ LateTelemetry(j)

Next ==
    \/ \E q \in Requests :
         \/ \E i \in Incidents : RequestAnalysis(q, i) \/ ListAnalysisRuns(q, i)
         \/ \E j \in DOMAIN jobs : GetAnalysisRun(q, j)
         \/ \E s \in Skills : \E v \in {snaps[n].version : n \in RowsOf(snaps, s)} :
              ActivateSkillVersion(q, s, v)
         \/ RequestReport(q) \/ ListSkills(q) \/ Step(q)
    \/ \E j \in DOMAIN jobs : WorkerStep(j)
    \/ \E i \in Incidents : DeleteIncident(i)
    \/ \E s \in Skills, e \in Editions : Edit(s, e)

Spec == Init /\ [][Next]_vars

-----------------------------------------------------------------------------
(***************************************************************************)
(* What the runs and the registry promise.                                 *)
(***************************************************************************)

Hash == [own : Editions, child : Seq(Editions)]
Result == [log : Logs, hash : Hash, job : Nat, attempt : Nat]

TriageJob == [skill : {LogTriage}, incident : Incidents, log : Logs, snap : Nat, hash : Hash,
              status : {"QUEUED", "COMPLETED", "FAILED"}, current : BOOLEAN,
              result : Result \cup {NoResult}, telemetry : Nat]
ReportJob == [skill : {DailyReport}, snap : Nat, hash : Hash, status : {"QUEUED"}]
Stored == [phase : {"queued", "result", "telemetry"}, attempts : Nat, own : Nat,
           late : SUBSET Nat, result : Nat, telemetry : Nat]

\* The rows of the tables, the objects of a job and what the bounds count.
TypeOK ==
    /\ SkillTypeOK
    /\ incidents \subseteq Incidents /\ logs \in [Incidents -> Logs]
    /\ jobs \in Seq(TriageJob \cup ReportJob)
    /\ store \in Seq(Stored) /\ Len(store) = Len(jobs)
    /\ DOMAIN req = Requests
    /\ ops \in [requests : 0 .. MaxRequests, edits : 0 .. MaxEvents, late : 0 .. MaxEvents,
                reads : 0 .. MaxEvents, overlap : BOOLEAN]

\* reports.py reads "the" current run of an incident (_build_snapshot) and
\* incidents.py derives its status from it.  Whatever requests race, an incident
\* that was ever analysed has exactly one current run: the losing request neither
\* adds a second one nor leaves the incident without any.
OneCurrentRun ==
    \A i \in Incidents : RunsOf(i) # {} => Cardinality(CurrentRuns(i)) = 1

\* analysis.py, _find_cached_analysis_run: "this is the same log, analyzed the
\* same way".  The result of a run, polled or copied from the cache of another
\* incident, is an analysis of the bytes and of the skill that the run records.
ResultMatchesInput ==
    \A j \in TriageJobs : jobs[j].result # NoResult =>
        /\ jobs[j].result.log = jobs[j].log
        /\ jobs[j].result.hash = jobs[j].hash
        /\ jobs[j].result.job = j \/ jobs[jobs[j].result.job].status = "COMPLETED"

\* "result_json is only ever set once": two polls can both find the run
\* unfilled, so the second one writes too.  It writes something else only if a
\* worker that had lost its lease replaced result.json in between: an inference
\* over a stored result that could not be read ends before the row is COMPLETED.
\* The telemetry belongs to the attempt of the result unless a worker was late or
\* such a read failed.  (The reopening of a COMPLETED row by the unfenced
\* mark_retrying, which takes a lost lease or a settlement slower than the retry
\* delay, is a step of JobPipeline and not of this module.)
OnlyLateWorkersChangeResults ==
    [][\A j \in TriageJobs : ops.late = 0 /\ jobs[j].result # NoResult =>
          /\ jobs'[j].result = jobs[j].result
          /\ ops.reads = 0 => jobs[j].telemetry \in {0, jobs[j].result.attempt}]_vars

\* skill_registry.py: a job runs the snapshot it was stamped with, "even if v4
\* was activated and the on-disk files rewritten before this job ever ran".  The
\* worker's recomputed identity never refuses a job.
StampedJobsStayRunnable ==
    \A j \in DOMAIN jobs : materialize_snapshot(jobs[j].skill, jobs[j].snap, jobs[j].hash)

\* registry.py, get_or_create_snapshot: "there must always be exactly one active
\* snapshot once a skill has any history at all".
AlwaysOneActive == ExactlyOneActive(snaps)

\* Nothing but two activations that overlap can leave a skill without an active
\* snapshot: no registration, no first use of a skill by two requests at once,
\* no activation on its own, whatever fails to commit.
OnlyOverlapLosesActive == ops.overlap \/ AlwaysOneActive

(***************************************************************************)
(* The inductive invariant: what an open transaction has read is still     *)
(* true, in the form in which its commit relies on it.                     *)
(***************************************************************************)
(***************************************************************************)
(* The registry.  Rows that wait for their commit: a pin is the id of a    *)
(* committed row or means the row before, and a skill whose first row is   *)
(* still missing will get an active one.                                   *)
(***************************************************************************)
Pending(tab, rows) ==
    /\ rows \in Seq(SnapRow)
    /\ \A k \in DOMAIN rows :
         /\ rows[k].pin \in {NoPin} \cup DOMAIN tab \/ (rows[k].pin = OwnChild /\ k > 1)
         /\ RowsOf(tab, rows[k].skill) = {} => rows[k].active

\* The stamp names a committed row, or a pending one that will be the skill's
\* only active row; its hash is the hash of that row.
StampHolds(stamp) ==
    /\ Pending(snaps, stamp.rows)
    /\ IF stamp.own
       THEN \E k \in DOMAIN stamp.rows :
              /\ stamp.rows[k].skill = stamp.skill /\ stamp.rows[k].active
              /\ stamp.hash = compute_execution_hash(Inserted(snaps, stamp.rows), Len(snaps) + k)
       ELSE materialize_snapshot(stamp.skill, stamp.snap, stamp.hash)

\* What a request has read of the registry.
RegistryReq(r) ==
    /\ r.op \in {"analyse", "report", "list"} => Pending(snaps, r.rows)
    /\ r.op = "analyse" => r.skill = LogTriage
    /\ r.op = "report" => r.skill = DailyReport
    /\ r.op \in {"insert_run", "insert_report"} => StampHolds(r.stamp)
    /\ r.op = "insert_run" => r.stamp.skill = LogTriage
    /\ r.op = "insert_report" => r.stamp.skill = DailyReport

RegistryInv ==
    /\ PinsPointBack(snaps)
    /\ OneActivePerName(snaps)
    /\ StampedJobsStayRunnable
    /\ \A q \in Requests : RegistryReq(req[q])

\* An activation changes rows of one skill, and without an overlap it is the
\* only one and the row it activates is as it was read.
ActivationInv ==
    /\ OnlyOverlapLosesActive
    /\ \A q \in Requests : Activating(q) =>
         /\ req[q].target \in DOMAIN snaps
         /\ req[q].op = "deactivated" =>
              req[q].others \subseteq RowsOf(snaps, snaps[req[q].target].skill) \ {req[q].target}
         /\ ~ops.overlap =>
              /\ req[q].was = snaps[req[q].target].active
              /\ \A p \in Requests : Activating(p) => p = q

\* The UPDATE of an open request touches runs of its incident only.
CurrentReq(r) ==
    /\ r.op \in {"analyse", "insert_run"} => r.incident \in Incidents /\ r.log \in Logs
    /\ r.op = "insert_run" => r.cleared \subseteq RunsOf(r.incident)

CurrentInv ==
    /\ OneCurrentRun
    /\ \A q \in Requests : CurrentReq(req[q])

(***************************************************************************)
(* The results.  A result in hand is the output of a completed job; as     *)
(* long as no worker was late it is still the stored one, and whoever      *)
(* filled the run in the meantime wrote the same.                          *)
(***************************************************************************)
Done(j) == j \in TriageJobs /\ jobs[j].status = "COMPLETED"

OutputFor(r, log, hash) ==
    r \in Result /\ r.log = log /\ r.hash = hash /\ r.job \in DOMAIN jobs /\ Done(r.job)

Fetched(j, r) ==
    /\ Done(j) /\ store[j].result # 0
    /\ r \in Result /\ r = Output(j, r.attempt)
    /\ ops.late = 0 => r.attempt = store[j].result /\ jobs[j].result \in {NoResult, r}

\* An attempt that has got past its result has stored one, and without late workers
\* and failed reads it is the first and the only one.
FirstOnly == ops.late = 0 /\ ops.reads = 0

StoreInv ==
    \A j \in DOMAIN jobs :
        /\ store[j].phase # "queued" => store[j].result # 0
        /\ ops.late = 0 => store[j].late = {}
        /\ FirstOnly => /\ store[j].result = store[j].attempts
                        /\ {store[j].attempts, store[j].own, store[j].telemetry} \subseteq {0, 1}

\* A completed job has a result to be polled, or its run has been filled from one.
FilledInv ==
    \A j \in TriageJobs :
        /\ jobs[j].result = NoResult /\ Done(j) => store[j].result # 0
        /\ jobs[j].result # NoResult =>
              Done(j) /\ OutputFor(jobs[j].result, jobs[j].log, jobs[j].hash)
        /\ jobs[j].result = NoResult => jobs[j].telemetry = 0
        /\ jobs[j].result # NoResult /\ FirstOnly =>
              jobs[j].telemetry \in {0, jobs[j].result.attempt}

\* What a request has read of the results of other runs.
PollReq(r) ==
    /\ r.op = "insert_run" => r.cached = NoResult \/ OutputFor(r.cached, r.log, r.stamp.hash)
    /\ r.op = "poll" => r = [op |-> "poll", todo |-> r.todo, got |-> r.got]
    /\ r.op \in {"poll", "telemetry"} =>
         /\ \A j \in r.todo : Done(j)
         /\ r.got \in Seq([job : Nat, result : Result, telemetry : Nat])
         /\ \A k \in DOMAIN r.got :
              /\ Fetched(r.got[k].job, r.got[k].result)
              /\ FirstOnly => r.got[k].telemetry \in {0, 1}
    /\ r.op = "telemetry" => Fetched(r.job, r.result)

PollInv == \A q \in Requests : PollReq(req[q])

IInv ==
    /\ TypeOK
    /\ RegistryInv
    /\ ActivationInv
    /\ CurrentInv
    /\ StoreInv /\ FilledInv /\ PollInv
=============================================================================
