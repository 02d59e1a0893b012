------------------------------- MODULE Reports -------------------------------
(***************************************************************************)
(* Shifts, incidents and daily reports: the requests of shifts.py,         *)
(* incidents.py and reports.py that write, and the daily-report worker     *)
(* (worker.py, daily_report.py, storage.py, mark_completed in db.py).      *)
(*                                                                         *)
(* A request is one transaction.  What others can observe of an open one   *)
(* is its locks: generate_report holds the shift row FOR UPDATE, so that   *)
(* no one else updates the row or, through the foreign key, inserts an     *)
(* incident of the shift; create_incident holds an advisory lock and, from *)
(* its INSERT on, the shift row FOR KEY SHARE.                             *)
(*                                                                         *)
(* A Report and its Job are one record of the sequence reports.  The plan  *)
(* a worker's inference returns is the number of the attempt that asked    *)
(* for it; a stored artifact is the version the bucket gave it and the     *)
(* plan it was rendered from.                                              *)
(***************************************************************************)
EXTENDS Integers, Sequences, FiniteSets, FiniteSetsExt

CONSTANTS
    Shifts, NoShift,
    Incidents,
    Evidenced,      \* the incidents that have evidence
    Requests,       \* the API's request threads
    MaxRequests,    \* bound on the requests
    MaxAttempts,    \* bound on the workers that take up a job
    MaxWork,        \* bound on the requests and those workers together
    MaxLate,        \* bound on claims of a job that another worker is at work on
    MaxReadErrors   \* bound on failed reads of stored plans, and of stored artifacts

\* Bounds are numbers, incidents finitely many, and no shift is called NoShift.
ASSUME ReportsAssumption ==
    /\ IsFiniteSet(Incidents)
    /\ NoShift \notin Shifts /\ Evidenced \subseteq Incidents
    /\ {MaxRequests, MaxAttempts, MaxWork, MaxLate, MaxReadErrors} \subseteq Nat

VARIABLES
    shifts,      \* shifts[s]: "absent", "active" or "ended"
    incidents,   \* incidents[i]: [shift, number] or NoRow
    reports,     \* the tables reports, report_snapshots and jobs
    bucket,      \* bucket[r]: what the object store holds for report r
    attempts,    \* attempts[r]: the workers that took up the job, in order
    req,         \* req[q]: the open transaction of thread q
    ops          \* what the bounds have been spent on

vars == <<shifts, incidents, reports, bucket, attempts, req, ops>>
deskVars == <<shifts, incidents, req>>

Idle == [op |-> "idle"]
NoRow == [shift |-> NoShift, number |-> 0]

Exists(i) == incidents[i] # NoRow
IncidentsOf(s) == {i \in Incidents : Exists(i) /\ incidents[i].shift = s}
ReportsOf(s) == {r \in DOMAIN reports : reports[r].shift = s}
ActiveShifts == {s \in Shifts : shifts[s] = "active"}

\* What the bounds leave for one more request, or one more worker.
TakenUp == FoldSet(LAMBDA r, n : n + Len(attempts[r]), 0, DOMAIN attempts)
MayRequest == ops.requests < MaxRequests /\ ops.requests + TakenUp < MaxWork
MayTakeUp == TakenUp < MaxAttempts /\ ops.requests + TakenUp < MaxWork

Begin(q, r) ==
    /\ req[q] = Idle
    /\ MayRequest
    /\ req' = [req EXCEPT ![q] = r]
    /\ ops' = [ops EXCEPT !.requests = @ + 1]

End(q) == req' = [req EXCEPT ![q] = Idle]

(***************************************************************************)
(* Locks.                                                                  *)
(***************************************************************************)

LockedForUpdate(s) == \E q \in Requests : req[q].op \in {"frozen", "uploaded"} /\ req[q].shift = s
LockedForKeyShare(s) == \E q \in Requests : req[q].op = "inserted" /\ req[q].shift = s
DisplayIdLock == \E q \in Requests : req[q].op = "inserted"

-----------------------------------------------------------------------------
(***************************************************************************)
(* shifts.py                                                               *)
(***************************************************************************)

\* open_shift reads the active shift, if there is one.
OpenShift(q, s) ==
    /\ shifts[s] = "absent"
    /\ \A p \in Requests : req[p].op = "open" => req[p].shift # s
    /\ \E current \in IF ActiveShifts = {} THEN {NoShift} ELSE ActiveShifts :
         Begin(q, [op |-> "open", shift |-> s, current |-> current])
    /\ UNCHANGED <<shifts, incidents, reports, bucket, attempts>>

\* Mutant: no unique index on the active shift.
MayOpenAlways(r) == TRUE

\* The partial unique index admits one active shift.
MayOpen(r) == ActiveShifts \subseteq {r.current}

\* The flush ends the shift it read and inserts the new one.  (An UPDATE of no key
\* column waits for FOR UPDATE, not for FOR KEY SHARE.)
CommitOpenShift(q) ==
    /\ req[q].op = "open" /\ MayOpen(req[q])
    /\ ~LockedForUpdate(req[q].current)
    /\ shifts' = [s \in Shifts |-> CASE s = req[q].shift -> "active"
                                     [] s = req[q].current -> "ended"
                                     [] OTHER -> shifts[s]]
    /\ End(q)
    /\ UNCHANGED <<incidents, reports, bucket, attempts, ops>>

\* 409: another shift was opened in between.
OpenConflict(q) ==
    /\ req[q].op = "open" /\ ~MayOpen(req[q])
    /\ End(q)
    /\ UNCHANGED <<shifts, incidents, reports, bucket, attempts, ops>>

CloseShift(s) ==
    /\ shifts[s] = "active" /\ MayRequest
    /\ ~LockedForUpdate(s)
    /\ shifts' = [shifts EXCEPT ![s] = "ended"]
    /\ ops' = [ops EXCEPT !.requests = @ + 1]
    /\ UNCHANGED <<incidents, reports, bucket, attempts, req>>

-----------------------------------------------------------------------------
(***************************************************************************)
(* incidents.py                                                            *)
(***************************************************************************)

\* _next_display_id: one more than the highest number in use.
_next_display_id == Max({0} \cup {incidents[i].number : i \in Incidents}) + 1

\* create_incident reads the active shift before it takes the lock.
CreateIncident(q, i) ==
    /\ ~Exists(i)
    /\ \A p \in Requests : req[p].op \in {"create", "inserted"} => req[p].incident # i
    /\ \E s \in IF ActiveShifts = {} THEN {NoShift} ELSE ActiveShifts :
         Begin(q, [op |-> "create", incident |-> i, shift |-> s])
    /\ UNCHANGED <<shifts, incidents, reports, bucket, attempts>>

\* Mutants: no advisory lock; no lock of the shift row.
InsertIncidentUnlocked(q) ==
    /\ req[q].op = "create"
    /\ ~LockedForUpdate(req[q].shift)
    /\ req' = [req EXCEPT ![q] = [op |-> "inserted", incident |-> @.incident,
                                  shift |-> @.shift, number |-> _next_display_id]]
    /\ UNCHANGED <<shifts, incidents, reports, bucket, attempts, ops>>

InsertIncidentPastFreeze(q) ==
    /\ req[q].op = "create"
    /\ ~DisplayIdLock
    /\ req' = [req EXCEPT ![q] = [op |-> "inserted", incident |-> @.incident,
                                  shift |-> @.shift, number |-> _next_display_id]]
    /\ UNCHANGED <<shifts, incidents, reports, bucket, attempts, ops>>

\* pg_advisory_xact_lock, the number, and the INSERT with its foreign key.
InsertIncident(q) ==
    /\ req[q].op = "create"
    /\ ~DisplayIdLock
    /\ ~LockedForUpdate(req[q].shift)
    /\ req' = [req EXCEPT ![q] = [op |-> "inserted", incident |-> @.incident,
                                  shift |-> @.shift, number |-> _next_display_id]]
    /\ UNCHANGED <<shifts, incidents, reports, bucket, attempts, ops>>

CommitIncident(q) ==
    /\ req[q].op = "inserted"
    /\ incidents' = [incidents EXCEPT ![req[q].incident] =
                        [shift |-> req[q].shift, number |-> req[q].number]]
    /\ End(q)
    /\ UNCHANGED <<shifts, reports, bucket, attempts, ops>>

\* delete_incident; a snapshot protects the evidence that it refers to, and so an
\* incident that has any.
DeleteIncident(i) ==
    /\ Exists(i) /\ MayRequest
    /\ i \in Evidenced => \A r \in DOMAIN reports : i \notin reports[r].frozen
    /\ incidents' = [incidents EXCEPT ![i] = NoRow]
    /\ ops' = [ops EXCEPT !.requests = @ + 1]
    /\ UNCHANGED <<shifts, reports, bucket, attempts, req>>

-----------------------------------------------------------------------------
(***************************************************************************)
(* generate_report                                                         *)
(***************************************************************************)

_allocate_report_version(s) == Max({0} \cup {reports[r].version : r \in ReportsOf(s)}) + 1

\* _build_snapshot freezes the incidents of the shift, with their analyses.
_build_snapshot(s) == IncidentsOf(s)

\* Mutant: the shift is read without FOR UPDATE.
GenerateReportUnlocked(q, s) ==
    /\ shifts[s] # "absent"
    /\ Begin(q, [op |-> "frozen", shift |-> s, version |-> _allocate_report_version(s),
                 frozen |-> _build_snapshot(s)])
    /\ UNCHANGED <<shifts, incidents, reports, bucket, attempts>>

\* _lock_shift_or_404, and what is read under the lock.
GenerateReport(q, s) ==
    /\ shifts[s] # "absent"
    /\ ~LockedForUpdate(s) /\ ~LockedForKeyShare(s)
    /\ Begin(q, [op |-> "frozen", shift |-> s, version |-> _allocate_report_version(s),
                 frozen |-> _build_snapshot(s)])
    /\ UNCHANGED <<shifts, incidents, reports, bucket, attempts>>

\* The snapshot goes to the object store before anything is committed.
UploadSnapshot(q) ==
    /\ req[q].op = "frozen"
    /\ req' = [req EXCEPT ![q].op = "uploaded"]
    /\ UNCHANGED <<shifts, incidents, reports, bucket, attempts, ops>>

\* The object store or the API process fails: the transaction is gone.
GenerateFails(q) ==
    /\ req[q].op \in {"frozen", "uploaded"}
    /\ End(q)
    /\ UNCHANGED <<shifts, incidents, reports, bucket, attempts, ops>>

NoArtifact == [version |-> 0, plan |-> 0]
NoArtifacts == [report |-> NoArtifact, document |-> NoArtifact, screenshots |-> NoArtifact]
Empty == [plan |-> 0, artifacts |-> NoArtifacts]

CommitReport(q) ==
    /\ req[q].op = "uploaded"
    /\ reports' = Append(reports,
           [shift |-> req[q].shift, version |-> req[q].version, frozen |-> req[q].frozen,
            status |-> "QUEUED", owner |-> 0, pinned |-> NoArtifacts, output |-> 0])
    /\ bucket' = Append(bucket, Empty)
    /\ attempts' = Append(attempts, <<>>)
    /\ End(q)
    /\ UNCHANGED <<shifts, incidents, ops>>

-----------------------------------------------------------------------------
(***************************************************************************)
(* The daily-report worker: _process_daily_report_message between the      *)
(* claim of the job and its settlement.                                    *)
(***************************************************************************)

Pc(r, a) == attempts[r][a].pc
Become(r, a, w) == attempts' = [attempts EXCEPT ![r][a] = w]
Goto(r, a, pc) == Become(r, a, [attempts[r][a] EXCEPT !.pc = pc])
Over == [pc |-> "over", plan |-> 0, found |-> NoArtifacts]
Stop(r, a) == Become(r, a, Over)
Write(r, row) == reports' = [reports EXCEPT ![r] = row]
Running(r, a) == Pc(r, a) # "over"

\* Between claim_job and _settle_failure.
Settled == {"failed", "over"}
Working(r, a) == Pc(r, a) \notin Settled

\* claim_job.  A lease that no live worker renews runs out.  A second worker joins
\* one that is still at work if that one's lease runs out, or if the row was set to
\* RETRYING under it.
Claim(r) ==
    LET held == \E a \in DOMAIN attempts[r] : Working(r, a) IN
    /\ reports[r].status # "COMPLETED"
    /\ MayTakeUp
    /\ held => ops.late < MaxLate
    /\ Write(r, [reports[r] EXCEPT !.status = "PROCESSING", !.owner = Len(attempts[r]) + 1])
    /\ attempts' = [attempts EXCEPT ![r] =
           Append(@, [pc |-> "claimed", plan |-> 0, found |-> NoArtifacts])]
    /\ ops' = IF held THEN [ops EXCEPT !.late = @ + 1] ELSE ops
    /\ UNCHANGED <<deskVars, bucket>>

\* load_saved_plan
LoadSavedPlan(r, a) ==
    /\ Pc(r, a) = "claimed" /\ bucket[r].plan # 0
    /\ Become(r, a, [attempts[r][a] EXCEPT !.pc = "planned", !.plan = bucket[r].plan])
    /\ UNCHANGED <<deskVars, reports, bucket, ops>>

\* No plan yet: the runtime is asked for one.
Analyze(r, a) ==
    /\ Pc(r, a) = "claimed" /\ bucket[r].plan = 0
    /\ Become(r, a, [attempts[r][a] EXCEPT !.pc = "answered", !.plan = a])
    /\ UNCHANGED <<deskVars, reports, bucket, ops>>

\* load_saved_plan takes every error for "no plan".
AnalyzeAgain(r, a) ==
    /\ Pc(r, a) = "claimed" /\ bucket[r].plan # 0 /\ ops.reads < MaxReadErrors
    /\ Become(r, a, [attempts[r][a] EXCEPT !.pc = "answered", !.plan = a])
    /\ ops' = [ops EXCEPT !.reads = @ + 1]
    /\ UNCHANGED <<deskVars, reports, bucket>>

SavePlan(r, a) ==
    /\ Pc(r, a) = "answered"
    /\ bucket' = [bucket EXCEPT ![r].plan = attempts[r][a].plan]
    /\ Goto(r, a, "planned")
    /\ UNCHANGED <<deskVars, reports, ops>>

\* Mutant: the DOCX alone counts as a rendered report.
CompleteReportOnly(artifacts) == artifacts.report # NoArtifact

\* existing_report_artifacts: all three, or none of them counts.
Complete(artifacts) == \A k \in DOMAIN artifacts : artifacts[k] # NoArtifact

FindArtifacts(r, a) ==
    /\ Pc(r, a) = "planned" /\ Complete(bucket[r].artifacts)
    /\ Become(r, a, [attempts[r][a] EXCEPT !.pc = "rendered", !.found = bucket[r].artifacts])
    /\ UNCHANGED <<deskVars, reports, bucket, ops>>

Render(r, a) ==
    /\ Pc(r, a) = "planned" /\ ~Complete(bucket[r].artifacts)
    /\ Goto(r, a, "report")
    /\ UNCHANGED <<deskVars, reports, bucket, ops>>

\* existing_report_artifacts takes every error for "not rendered".
RenderAgain(r, a) ==
    /\ Pc(r, a) = "planned" /\ Complete(bucket[r].artifacts) /\ ops.misses < MaxReadErrors
    /\ Goto(r, a, "report")
    /\ ops' = [ops EXCEPT !.misses = @ + 1]
    /\ UNCHANGED <<deskVars, reports, bucket>>

\* upload_artifact_metadata: a new version of the object, which is read back.
After == [report |-> "document", document |-> "screenshots", screenshots |-> "rendered"]

Upload(r, a, kind) ==
    LET new == [version |-> bucket[r].artifacts[kind].version + 1, plan |-> attempts[r][a].plan] IN
    /\ Pc(r, a) = kind
    /\ bucket' = [bucket EXCEPT ![r].artifacts[kind] = new]
    /\ Become(r, a, [attempts[r][a] EXCEPT !.pc = After[kind], !.found[kind] = new])
    /\ UNCHANGED <<deskVars, reports, ops>>

\* mark_completed writes the row and the report's artifact identities in one
\* transaction, fenced by the claim token.
MarkCompleted(r, a) ==
    /\ Pc(r, a) = "rendered" /\ reports[r].owner = a
    /\ Write(r, [reports[r] EXCEPT !.status = "COMPLETED", !.owner = 0,
                                   !.pinned = attempts[r][a].found,
                                   !.output = attempts[r][a].plan])
    /\ Stop(r, a)
    /\ UNCHANGED <<deskVars, bucket, ops>>

\* mark_failed, fenced by the claim token.
Failed(r, a) ==
    IF reports[r].owner = a THEN [reports[r] EXCEPT !.status = "FAILED", !.owner = 0]
    ELSE reports[r]

\* _settle_failure of a terminal failure; what follows mark_failed is the broker's.
SettleTerminal(r, a) ==
    /\ Pc(r, a) \in {"claimed", "planned", "report"}
    /\ Write(r, Failed(r, a))
    /\ Stop(r, a)
    /\ UNCHANGED <<deskVars, bucket, ops>>

\* _settle_failure of any other failure, or after the fence refused the completion:
\* mark_failed, and then the retry is published: it can be claimed from here on.
SettleRetry(r, a) ==
    /\ Working(r, a)
    /\ Pc(r, a) = "rendered" => reports[r].owner # a
    /\ Write(r, Failed(r, a))
    /\ Become(r, a, [Over EXCEPT !.pc = "failed"])
    /\ UNCHANGED <<deskVars, bucket, ops>>

\* ... and mark_retrying, which goes by id alone.
MarkRetrying(r, a) ==
    /\ Pc(r, a) = "failed"
    /\ Write(r, [reports[r] EXCEPT !.status = "RETRYING", !.owner = 0])
    /\ Stop(r, a)
    /\ UNCHANGED <<deskVars, bucket, ops>>

CrashWorker(r, a) ==
    /\ Running(r, a)
    /\ Stop(r, a)
    /\ UNCHANGED <<deskVars, reports, bucket, ops>>

-----------------------------------------------------------------------------
Init ==
    /\ \E open \in {{}} \cup {{s} : s \in Shifts}, old \in {{}} \cup {{i} : i \in Incidents} :
         /\ old # {} => open # {}
         /\ shifts = [s \in Shifts |-> IF s \in open THEN "active" ELSE "absent"]
         /\ incidents = [i \in Incidents |->
                IF i \in old THEN [shift |-> CHOOSE s \in open : TRUE, number |-> 1] ELSE NoRow]
    /\ reports = <<>>
    /\ bucket = <<>>
    /\ attempts = <<>>
    /\ req = [q \in Requests |-> Idle]
    /\ ops = [requests |-> 0, late |-> 0, reads |-> 0, misses |-> 0]

DeskStep(q) ==
    \/ CommitOpenShift(q) \/ OpenConflict(q) \/ InsertIncident(q) \/ CommitIncident(q)
    \/ UploadSnapshot(q) \/ GenerateFails(q) \/ CommitReport(q)

WorkerStep(r, a) ==
    \/ LoadSavedPlan(r, a) \/ Analyze(r, a) \/ AnalyzeAgain(r, a) \/ SavePlan(r, a)
    \/ FindArtifacts(r, a) \/ Render(r, a) \/ RenderAgain(r, a)
    \/ \E kind \in DOMAIN After : Upload(r, a, kind)
    \/ MarkCompleted(r, a) \/ SettleTerminal(r, a) \/ SettleRetry(r, a) \/ MarkRetrying(r, a)
    \/ CrashWorker(r, a)

Next ==
    \/ \E q \in Requests :
         \/ \E s \in Shifts : OpenShift(q, s) \/ GenerateReport(q, s)
         \/ \E i \in Incidents : CreateIncident(q, i)
         \/ DeskStep(q)
    \/ \E s \in Shifts : CloseShift(s)
    \/ \E i \in Incidents : DeleteIncident(i)
    \/ \E r \in DOMAIN reports :
         Claim(r) \/ \E a \in DOMAIN attempts[r] : WorkerStep(r, a)

Spec == Init /\ [][Next]_vars

-----------------------------------------------------------------------------
(***************************************************************************)
(* What a report promises.                                                 *)
(***************************************************************************)

Statuses == {"QUEUED", "PROCESSING", "RETRYING", "FAILED", "COMPLETED"}
Artifact == [version : Nat, plan : Nat]
Artifacts == [report : Artifact, document : Artifact, screenshots : Artifact]
ReportRow == [shift : Shifts, version : Nat, frozen : SUBSET Incidents, status : Statuses,
              owner : Nat, pinned : Artifacts, output : Nat]
Stored == [plan : Nat, artifacts : Artifacts]
Attempt == [pc : {"claimed", "answered", "planned", "rendered", "failed", "over"} \cup DOMAIN After,
            plan : Nat, found : Artifacts]

\* The transactions that can be open.
Opening == [op : {"open"}, shift : Shifts, current : Shifts \cup {NoShift}]
Creation == [op : {"create"}, incident : Incidents, shift : Shifts \cup {NoShift}]
Insertion == [op : {"inserted"}, incident : Incidents, shift : Shifts \cup {NoShift},
              number : Nat \ {0}]
Generation == [op : {"frozen", "uploaded"}, shift : Shifts, version : Nat, frozen : SUBSET Incidents]

\* The types; an object and a list of attempts belong to every report, and at most
\* one shift is active.
TypeOK ==
    /\ shifts \in [Shifts -> {"absent", "active", "ended"}]
    /\ incidents \in [Incidents -> [shift : Shifts \cup {NoShift}, number : Nat]]
    /\ reports \in Seq(ReportRow) /\ bucket \in Seq(Stored) /\ attempts \in Seq(Seq(Attempt))
    /\ Len(bucket) = Len(reports) /\ Len(attempts) = Len(reports)
    /\ \A r \in DOMAIN reports : reports[r].owner <= Len(attempts[r])
    /\ req \in [Requests -> {Idle} \cup Opening \cup Creation \cup Insertion \cup Generation]
    /\ ops \in [requests : Nat, late : Nat, reads : Nat, misses : Nat]
    /\ \A s, t \in ActiveShifts : s = t

\* _allocate_report_version: the reports of a shift are numbered 1, 2, 3, with
\* no number twice and none left out, in spite of concurrent and failed
\* generations; so the unique constraint is never what stops a request.
VersionsAreGapless ==
    \A s \in Shifts :
        /\ {reports[r].version : r \in ReportsOf(s)} = 1..Cardinality(ReportsOf(s))
        /\ \A q \in Requests : req[q].op \in {"frozen", "uploaded"} /\ req[q].shift = s =>
             req[q].version = Cardinality(ReportsOf(s)) + 1

\* create_incident's advisory lock: no two open creations have, and no existing
\* incident has, the number that is about to be committed, so that the retry on
\* IntegrityError is never needed.
DisplayIdsDoNotCollide ==
    \A q \in Requests : req[q].op = "inserted" =>
        /\ \A i \in Incidents : incidents[i].number # req[q].number
        /\ \A p \in Requests : req[p].op = "inserted" /\ p # q => req[p].number # req[q].number

\* "One JSON document of this shift's incidents": while a generation is open, no
\* incident of the shift is committed that its snapshot does not have.  The lock
\* on the shift row is what keeps concurrent creations out.
FrozenIsComplete ==
    \A q \in Requests : req[q].op \in {"frozen", "uploaded"} =>
        IncidentsOf(req[q].shift) \subseteq req[q].frozen

\* What the row locks and the advisory lock keep apart.
LocksExclude ==
    \A p, q \in Requests :
        /\ req[p].op \in {"frozen", "uploaded"} /\ req[q].op \in {"frozen", "uploaded"}
             /\ req[p].shift = req[q].shift => p = q
        /\ req[p].op \in {"frozen", "uploaded"} /\ req[q].op = "inserted" =>
             req[p].shift # req[q].shift
        /\ req[p].op = "inserted" /\ req[q].op = "inserted" => p = q

\* Neither versions, nor display ids, nor snapshots are safe without the locks
\* that the code takes for them.
DeskInv ==
    /\ TypeOK
    /\ LocksExclude
    /\ VersionsAreGapless
    /\ DisplayIdsDoNotCollide
    /\ FrozenIsComplete

\* What a report pins is all there.  It is from one plan unless both a saved plan
\* and a complete set of artifacts went unread, and from the recorded plan unless a
\* saved plan did.
Pinned(row, errors) ==
    /\ Complete(row.pinned)
    /\ errors.reads = 0 \/ errors.misses = 0 =>
         \A k \in DOMAIN After : row.pinned[k].plan = row.pinned.report.plan
    /\ errors.reads = 0 => row.output = row.pinned.report.plan

\* production-hardening.md: "The DOCX and preview are produced from the same
\* composed document in one runtime-support execution".  What a report pins is all
\* there and from one plan, after any crashes and retries, as long as no two
\* workers were at work on it at once, unless two kinds of reads failed: a saved
\* plan that could not be read gave a second plan, and a complete set of artifacts
\* that could not be read was overwritten in part.  The plan is the one whose hash
\* the row records unless a saved plan could not be read.
PinnedFromOnePlan ==
    \A r \in DOMAIN reports : reports[r].status = "COMPLETED" /\ ops.late = 0 =>
        Pinned(reports[r], ops)

(***************************************************************************)
(* Why it is so, for one report: its row, what the object store holds for  *)
(* it, its attempts, and the reads that have failed.                       *)
(***************************************************************************)
Plans == {"planned", "rendered"} \cup DOMAIN After

Has(obj, k) == obj.artifacts[k] # NoArtifact

\* What is stored was uploaded in order; all three are of one plan unless both
\* kinds of reads failed, and that is the saved one unless it could not be read.
StoredInOrder(obj, errors) ==
    /\ Has(obj, "screenshots") => Has(obj, "document")
    /\ Has(obj, "document") => Has(obj, "report")
    /\ Has(obj, "screenshots") /\ errors.misses = 0 =>
         \A k \in DOMAIN After : obj.artifacts[k].plan = obj.artifacts.report.plan
    /\ errors.reads = 0 =>
         \A k \in DOMAIN After : Has(obj, k) => obj.plan # 0 /\ obj.artifacts[k].plan = obj.plan

\* What a worker holds is what it has uploaded, or has found complete.
Uploaded(w, obj, k) ==
    /\ Has(obj, k) /\ obj.artifacts[k].plan = w.plan
    /\ w.found[k] = obj.artifacts[k]

AtWork(w, obj, errors) ==
    /\ w.pc = "answered" => w.plan # 0 /\ (errors.reads = 0 => obj.plan = 0)
    /\ w.pc \in Plans /\ errors.reads = 0 => w.plan = obj.plan /\ obj.plan # 0
    /\ w.pc \in DOMAIN After /\ errors.misses = 0 => ~Has(obj, "screenshots")
    /\ w.pc \in {"document", "screenshots"} => Uploaded(w, obj, "report")
    /\ w.pc = "screenshots" => Uploaded(w, obj, "document")
    /\ w.pc = "rendered" => Has(obj, "screenshots") /\ w.found = obj.artifacts

\* As long as no second worker joins one at work, there is only one.
OneAtWork(row, obj, ws, errors) ==
    /\ StoredInOrder(obj, errors)
    /\ \A a \in DOMAIN ws : ws[a].pc \notin Settled =>
         /\ AtWork(ws[a], obj, errors)
         /\ \A b \in DOMAIN ws : ws[b].pc \notin Settled => b = a
    /\ row.status = "COMPLETED" => Pinned(row, errors)

PlanInv ==
    ops.late = 0 =>
        \A r \in DOMAIN reports : OneAtWork(reports[r], bucket[r], attempts[r], ops)

\* The invariant of the proofs.
IInv == DeskInv /\ PlanInv
=============================================================================
