# noc-report: TLA+ models, model checking and proofs

noc-report is a NOC shift-report system: a FastAPI service over PostgreSQL and
MinIO, AI workers ("runtime support", `src/bridge`) fed through RabbitMQ, and a
React client. This directory holds TLA+ models of the parts in which
transactions, messages and object-store writes interleave, the TLC
configurations that check them, and TLAPS proofs of what matters most.

`PROJECT.json` lists components, runs, mutants, the map from definitions to
source lines, findings, hazards and theorems. Paths below are relative to `src/`.

## 1. Inventory

Nothing in the system spans two stores atomically: the database, the broker and
the object store are written one after the other, by processes that may die in
between, and rows are shared by concurrent requests under READ COMMITTED.

| Component | State | Operations | Hard behaviour | What makes it correct |
|---|---|---|---|---|
| Job enqueue `apps/api/app/jobs.py` | `jobs`, `outbox_events` | `enqueue_job` in the caller's transaction | row without message, message without row | a QUEUED row is work somebody will be handed |
| Outbox `outbox.py`, `outbox_worker.py` | `outbox_events`, row locks | dispatch a row per transaction, purge old rows | two dispatchers, death between confirm and commit, poison rows | at-least-once channel, no starvation |
| Broker topology `core/queue.py`, `bridge/noc_bridge/queue_topology.py` | main, retry, DLQ per job type | publish, deliver, TTL, dead-letter | redelivery, restart, transient messages | no job without a delivery |
| Job rows, claims, leases `bridge/noc_bridge/db.py` | status, attempt, claim token, lease | `claim_job`, `renew_job_lease`, `mark_*` | expired leases, stale owners | one owner, fenced settlement |
| AI worker `bridge/noc_bridge/worker.py` | its delivery, its token | `handle_delivery`, `_settle_failure`, `_LeaseRenewer` | death at any point, duplicates, reconciliation | no lost job, no second paid inference |
| Admin DLQ controls `routers/admin.py` | DLQ, job rows | requeue, purge | races with running workers | a completed job stays completed |
| Evidence `routers/evidence.py`, `evidence_lifecycle.py`, `evidence_purge_worker.py` | intents, evidence rows, object versions | upload URL, complete, delete, two sweeps | presigned PUTs that cannot be revoked, references taken during a purge | live evidence has its bytes, referenced bytes stay, tombstones go |
| Analysis `routers/analysis.py` | analysis runs, cache | request, poll and sync | two current runs, concurrent polls, a worker that outlives its claim | one current run, a result belongs to its log and skill |
| Reports `routers/reports.py`, `bridge/noc_bridge/daily_report.py` | reports, snapshots, pinned artifacts | generate, plan, render, pin, preview | version allocation, incidents created during a freeze, re-uploaded artifacts | gapless versions, complete snapshots, artifacts of one plan |
| Incidents, shifts `routers/incidents.py`, `shifts.py` | incidents, shifts, display ids | create, update, delete, open, close | concurrent allocation | unique ids, one open shift |
| OCR, local prefill `routers/ocr.py`, `incident_prefill.py`, `local_inference.py` | prefill and OCR runs, the model's queue | run, prefill, attach | bounded single-flight queue, unlocked attachment | suggestions survive every failure, no place is lost |
| Sessions `routers/auth.py`, `web/src/lib/http.ts` | refresh sessions | login, refresh, logout | rotation against logout and concurrent tabs | one live successor per session |
| Skills `skills/*`, `bridge/noc_bridge/skill_registry.py` | snapshots, activation | resolve, activate, verify | activation during requests | a job runs the snapshot it was stamped with |
| Reconciliation, validation, composition `sandbox/preprocessing.py`, `bridge/noc_bridge/validation.py`, `report_composition.py` | none | pure functions | answers that group, repeat or omit evidence; in-place edits | every log line is counted once, stored results stay valid, the preview shows the document |
| DOCX layout, the Hermes request, health probes, CRUD of users, search, dashboards, the web pages | | | formatting, I/O, read-only queries, single-row updates | not modelled |

How they interact: a request commits a `Job` and an `OutboxEvent` together; the
dispatcher publishes the event; RabbitMQ delivers it to one serial worker, which
claims the row with a token and a lease, reads evidence by its pinned version,
infers, uploads `result.json` and completes the row under its token; a poll of
the API copies the result into the analysis run or the report; evidence is kept
as long as an OCR run, an analysis run or a report snapshot refers to it.

## 2. Plan

1. Job pipeline and outbox: `JobTable`, `Broker`, `JobPipeline`, `AtLeastOnce`,
   `Outbox` (done, every safety property proved).
2. Evidence lifecycle: `EvidenceLifecycle` (done, with proofs).
3. Analysis over the skill registry, reports with shifts and display ids:
   `SkillRegistry`, `Analysis`, `Reports` (done, with proofs).
4. The pure rules of preprocessing, validation and report composition as
   operators, and the attempt loop that drives them: `Reconciliation`,
   `Composition`, `Inference` (done, with proofs).
5. OCR, the local model's queue and attachment: `Prefill` (done, with proofs).
6. Sessions (refresh rotation, logout, two tabs).
7. The pipeline's own outbox as an instance of `AtLeastOnce`.

## 3. Modules

| Module | Models | Uses |
|---|---|---|
| `JobIds` | constants shared by the pipeline: jobs, attempts | |
| `JobTable` | the `jobs` rows and every UPDATE on them (`db.py`, `jobs.py`, `admin.py`) | `JobIds` |
| `Broker` | main, retry and DLQ as bags of messages, persistence, TTL | `JobIds` |
| `JobPipeline` | enqueue, dispatcher, workers, leases, admin, faults | `JobTable`, `Broker` |
| `AtLeastOnce` | abstract: committed events are owed until a copy was accepted | |
| `Outbox` | dispatch and retention with row locks and failures | refines `AtLeastOnce` |
| `EvidenceLifecycle` | intents, presigned PUTs, completion, references, deletions, sweeps | |
| `SkillRegistry` | snapshots, dependency pins, activation state, the worker's check (operators) | |
| `Analysis` | analysis requests, cache, polls, activations, the worker's uploads | `SkillRegistry` |
| `Reports` | shifts, incidents, report generation under its locks, the daily-report worker | |
| `Ordered` | a set of numbers in ascending order, a sequence at some positions (operators) | |
| `Reconciliation` | pattern manifest, both reconciliations, repair, validation (operators) | `Ordered` |
| `Composition` | report document, numbers, links, screenshots, JSON preview (operators) | `Ordered` |
| `Inference` | the output attempts of both workers, reuse after a redelivery | `Reconciliation`, `Composition` |
| `Prefill` | screenshots before an incident: rules, local model queue, attachment | |
| `MC*` | instances for TLC | |
| `OutboxProofs`, `EvidenceProofs`, `JobPipelineProofs`, `ReportsProofs`, `AnalysisProofs`, `PrefillProofs`, `InferenceProofs` | theorems about the module of that name | the last four `FiniteFacts` |
| `FiniteFacts` | lemmas about maxima, cardinalities and sums over finite sets of numbers, and induction | |

**JobPipeline.** One job type; the queues of the two types are disjoint and
served by separate worker processes. A worker's `pc` stands between two of its
externally visible steps: a committed transaction, an object-store write or a
broker operation is one step. `Claim` is `claim_job`'s UPDATE, `ClaimMiss` and
`Classify` its classifying SELECT, which sees a later snapshot. `ReconcileHit`
and `ReconcileMiss` are `_artifact_exists_and_valid`; `Infer`, `UploadResult`,
`UploadTelemetry` and `Complete` the rest of the good path; `FailRetryable` and
`FailTerminal` are any exception, classified by `classify_failure`; `MarkFailed`
to `SendToDlq` are `_settle_failure`. A lost channel (`LoseChannel`) requeues the
delivery while the worker goes on and finds out at its next broker operation.
Environment faults come from `Budget`, one bound per kind.

**Outbox.** `SelectRow` is the SELECT ... FOR UPDATE SKIP LOCKED of one row,
`MarkPublished` and `MarkErrored` commit and release it. `PublishInterrupted`
is a publish whose confirm is lost: the broker may hold a copy. `CleanupSelect`
and `CleanupDelete` are the retention batch.

**EvidenceLifecycle.** Uploads of one incident. `hold[u]` is a `complete_upload`
that has locked the intent; `spc[s]` in `PurgeLocked` or `CleanLocked` a sweeper
that has locked a row. Requests read without a lock, so `ReadForReference` and
`CommitReference`, and the check of a deletion and its commit, are separate
steps. The row UPDATE that `request_purge` flushes and the commit that publishes
it are one step: nobody else sees the flushed row, and a competing writer that
waits for it acts after the commit. An OCR run or analysis run has a foreign key
to the evidence row, so its INSERT waits for a sweeper's FOR UPDATE lock; a
report snapshot holds the id in JSON and does not. An object's versions are
numbered by the PUTs that made them. `protected` is a history variable: a
reference was committed while the bytes were there and no deletion had passed
its own check.

**SkillRegistry and Analysis.** An edition is the hash of a skill's three files; a
row of `skill_snapshots` pins the id of its dependency's row. A request registers
the files it finds (`get_or_create_snapshot`), then reads the active row
(`ReadActiveSnapshot`), then commits; in between other requests commit, and the
partial unique indexes (`OneActivePerName`, `MayInsertRun`) decide who loses. A
log_triage `Job` and its `AnalysisRun` are one record. `Poll`, `SyncReadsResult`,
`SyncReadsTelemetry` and `CommitPoll` are `_sync_completed_job`, whose reads of the
object store and whose UPDATE others can come between. An attempt of the worker
infers (`NewResult`) when nothing is stored (`Infer`) or when what is stored cannot
be read (`InferAgain`: every error counts as "absent"); `own` is the attempt at
work, `late` one whose claim was taken over and that still uploads (`LateUpload`,
`LateTelemetry`). `MaxEvents` bounds edits of the files, late workers and failed
reads together. `ops.overlap` records that two activations of one skill were open
together.

**Reports.** A request is a transaction whose locks others observe:
`LockedForUpdate` (generate_report's shift row), `LockedForKeyShare` (the foreign
key of an inserted incident), `DisplayIdLock` (the advisory lock). An attempt of
the worker loads the saved plan or infers one, finds a complete set of artifacts
or renders, uploads three objects one by one and pins the versions it read back.
Both reads take every error for "absent": `AnalyzeAgain` (`ops.reads`) makes a
second plan, `RenderAgain` (`ops.misses`) renders over a complete set. A failed
attempt marks the row and publishes its retry (`SettleRetry`); the UPDATE of
`MarkRetrying` comes later, and the retry may be claimed in between. A plan is named
by the attempt that made it. `MaxWork` bounds requests and attempts together.

**Reconciliation, Composition and Inference.** A log line is its template, cause
family and trace; a finding is what it cites (entries or patterns), its count, its
group and the signature of its detail text. The prose around them (`Prose`) is how
many sentences the summary has and how many end within its limit, which details are
over theirs and what is left of those, whether the whole and the cut text read as
sentences, and which findings its causes need. `reconcile_result` follows the code's
order: claim, merge families, merge repeated details, attach hinted, append what
was omitted, promote. Where the code edits findings in place the operators return
both the result and what is left of the answer (`left`), because the repair
starts from the latter. `Inference` is the loop around them: an answer, an invalid
response, a rejection with another attempt, the last resort, the upload, a crash
and a delivery that reuses what is stored. `Composition` keeps which incident,
analysis, number, link and screenshot a document shows and where the preview
looks it up.

**Prefill.** A text is what the rules make of it. `Queue`, `Busy`, `TakeSlot` and
`Release` are the semaphore and the lock of `OllamaLocalInference`; `Attach` and
`CommitAttach` are separate because nothing locks the prefill row between them.
`ops.overlap` records screenshots with two open attachments.

Each behaviour that a comment calls a *Mutant* is a plausible slip in the
definition after it, which the named property must notice; mutants are used by
no specification.

## 4. Runs

| Run | Instance | Shows |
|---|---|---|
| `outbox` | 3 events (1 never routable), 2 dispatchers, batch 2, 1 crash, 1 publish error | `IInv`; retention deletes only what the broker accepted; second copies only by failures; refinement of `AtLeastOnce`; a poison row starves nobody |
| `pipeline_crash` | 1 job, 2 workers, 2 attempts, 2 crashes, 1 early expiry, 1 duplicate | `DeliveryInv`, no lost work, every PROCESSING row has a delivery |
| `pipeline_broker` | the same with a lost channel and a broker restart | `IInv`, one owner, QUEUED is deliverable, no inference after completion |
| `pipeline_admin` | DLQ requeues and purges, one request dying, 1 duplicate, 1 failed read | completed jobs keep their result and are not taken back |
| `pipeline_liveness` | 1 crash, fair | every job settles, PROCESSING ends |
| `evidence` | 1 upload, 2 PUTs, 2 requests, 1 sweeper, 1 fault, fair | `IInv`, live evidence has its bytes, PURGED is gone, timely references protect, abandoned uploads are settled |
| `evidence_sweep` | 2 rows, sweep of 2, 2 requests, 1 fault, fair | a protected tombstone does not starve another |
| `analysis` | 2 skills (one depends on the other), 3 editions of which 1 is invalid, an empty registry or one with a draft, 2 incidents, 2 logs, 2 threads, 3 requests, and 1 edit, late worker or failed read | `IInv`, one current run, results match log and skill, stamped jobs stay runnable, what can lose the active snapshot or change a result |
| `reports` | 2 shifts, 2 incidents, 2 threads, 3 requests, 3 attempts (4 together), 1 late lease, 1 unreadable plan and 1 unreadable set of artifacts | `IInv`, gapless versions, display ids, complete snapshots, artifacts of one plan |
| `inference` | 7 logs of up to 3 lines, 2 pattern places, answers of up to 3 findings with prose within and over the limits, 2 attempts, 2 deliveries; reports of 2 incidents under 3 coverage policies | evidence is conserved, stored results are reused, what can defeat the repair, the preview is faithful |
| `prefill` | 3 threads, a queue of 2, 4 requests, 2 incidents, 1 restart, fair | suggestions survive, the queue keeps its bound, requests end, when two rows share a screenshot |
| `viol_requeue` | 1 requeue | a requeued DLQ record strands the row as QUEUED |

**Why the bounds are enough to be interesting.** Jobs meet only through free
workers and tokens, so one job with two workers and two attempts already has a
first delivery, a retry, a redelivery and a duplicate in flight at once, and the
third token lets a job be reclaimed twice. The theorems cover any number of
jobs. Two PUTs per URL make `head_object` and the pinned version differ; two
requests are a deletion and a reference, or two deletions, of one row; two rows
are needed only for starvation. The outbox needs two dispatchers to fight for
a row and a batch smaller than the number of rows. Three requests of two threads
are two that race and one that comes before or after; the draft in the initial
registry lets two activations race within that bound. A third attempt is what it
takes to pin artifacts of two plans: one attempt completes a set and dies, one
renders over it and dies, one pins. Two pattern places over
three templates make one pattern overflow into "other"; the findings cover every
way to cite, name, double-count, hint at and omit evidence, and three findings
occur where details repeat crosswise. Three threads are the fewest that fill a
queue of two. Symmetry is used only in
safety runs, over workers, tokens, threads and alike data.

`CHECK_DEADLOCK FALSE` is set where the system may come to rest: all jobs are
settled, all requests are answered and the budgets are used up.

**Fairness.** A worker that has a delivery goes on or crashes (WF of its steps;
`hermes` calls have a timeout). The dispatcher and the sweeper are endless poll
loops that survive exceptions (WF). The broker offers a message of a FIFO queue
to an idle consumer: strong fairness, because a worker is idle again and again
rather than for ever. A TTL and a lease nobody renews run out (WF). A completion
does not hold its row lock for ever: the request ends or its connection does
(WF). A prefill request makes its own steps: OCR ends, and a call of the model
answers, fails or times out (WF of `Progress`). Clients, admins, faults and clocks that only make things harder are never
obliged.

**Timing assumption.** `SettlesWithinTtl` says that the UPDATE of
`mark_retrying`, which follows the publish of the retry, takes less than the
30 s the retry waits. Without it the unfenced UPDATE can hit the row of the next
attempt and `NoLostWork` fails.

**Findings.** `viol_requeue` is a run: TLC finds the requeued DLQ record that
strands its row as QUEUED. The models show further disagreements between code and
documents; each follows from the named actions.

* `mark_retrying` has no fence (`db.py:193`): a worker that settles a duplicate
  takes a COMPLETED row back to RETRYING (`MarkRetrying`), though `db.py:86-87`
  calls COMPLETED terminal. `CompletedNotReclaimed` and `OnceCompletedHasResult`
  say what still holds.
* A retry is published as a transient message (`worker.py:637`): a worker crash
  and a broker restart lose the only delivery, against
  `docs/production-hardening.md:149-150`. `ProcessingHasDelivery` is checked
  without restarts for this reason.
* `request_purge` checks references without a lock that a referencing transaction
  takes (`evidence_lifecycle.py:63`): bytes that an analysis run refers to can be
  deleted, against `docs/production-hardening.md:18-19`. `ProtectedIsKept` states
  the part that holds.
* `delete_incident` detaches every evidence row (`incidents.py:406`), also one
  that an upload completed after its SELECT: an ACTIVE row without incident that
  no sweep purges, against ADR 0025:20.
* Two overlapping activations can leave a skill without an active snapshot
  (`registry.py:331` reads without a lock), against `registry.py:155`;
  `OnlyOverlapLosesActive` shows that nothing else can.
* `_compact_narrative` says that "a verbose provider response cannot turn an
  otherwise safe deterministic result into a failed job". It can:
  `OnlyMergersAndCutsDefeatRepair` lists the ways, each of which TLC shows to be
  needed. Findings of one family were merged (`preprocessing.py:811` edits in place,
  `worker.py:324` starts from the rest). Fewer than two sentences of a summary end
  within 800 characters: `preprocessing.py:374-377` leaves one, `validation.py:209`
  wants two. What is left does not read, or two details begin with the same
  sentences and are equal once cut (`validation.py:134`). The repair dropped an
  unquantified finding that was the evidence for a cause the prose asserts.
* A finding that names both "unquantified" and a pattern raises KeyError, which
  escapes the attempt loop and is retried with the delivery (`KeyErrorEscapes`).
* In an answer that cites entries, a finding without entries keeps the counts the
  model gave it (`preprocessing.py:579-580`), against `reconcile_result`'s
  docstring, and counts lines a second time. `EvidenceIsConserved` says of such an
  answer that the findings that do cite account for every line exactly once.
* "The DOCX and preview are produced from the same composed document"
  (`docs/production-hardening.md:32-33`) fails without any late worker when a saved
  plan and a complete set of artifacts both go unread: the second plan is rendered
  over the first, a crash after the report's upload leaves two plans in the bucket,
  and the next attempt finds the set complete and pins it (`RenderAgain`).
  `PinnedFromOnePlan` excludes exactly that and late leases.
* A recovery date that `fromisoformat` refuses is recorded as OCR_FAILED
  (`incident_prefill.py:192`, `DateFails`), though `ocr.py:158` keeps OCR failure
  distinct from mapper failure.
* `attach_prefill_to_incident` returns a purged row as the existing evidence, and
  a screenshot attached again after its incident was deleted shares its object
  with a tombstone, whose purge deletes the bytes;
  `OnlyReattachedShotsLoseBytes` names the two ways to share.
* `docs/production-hardening.md:152` has non-claimable rows quarantined to the
  DLQ, while `worker.py:710` acks them.

Weaknesses that no document contradicts: `generate_report` freezes an analysis
that is completed but not yet polled as missing; a display id is used again after
the highest one is deleted; a daily-report worker that lost its lease mixes its
artifacts with the new owner's; a stored analysis that cannot be read is inferred
again and replaced, and a crash before the second upload leaves telemetry of another attempt; a saved plan that cannot be read back is replaced,
and the recorded output hash is then not that of the rendered plan; one invalid
edition in the checkout fails every request of its skill; the object of a prefill
request that dies stays in the bucket.

## 5. Proofs

All theorems hold for every value of the constants that satisfies the named
assumptions (finite bounds, distinct "none" values).

* **Outbox** (`OutboxProofs`). `IInv`: a dispatcher that publishes holds the lock
  of a pending row, a row marked published was confirmed, an absent row was
  never sent, and the copies of a pending row are counted by failures. The locks
  are what makes it inductive: without `PublisherHoldsLock`, a second dispatcher
  could settle the row between confirm and commit. From it follow
  `DeletedWasPublished`, `DuplicatesOnlyByFailure` and the safety part of
  `AtLeastOnce` (`OutboxImplementsAtLeastOnce`: initial states map, every action
  maps to a step or a stutter).
* **JobPipeline** (`JobPipelineProofs`). `IInv` adds to the types: a worker past
  its claim holds a valid job message with an attempt left if it may publish it
  (`HoldsMessage`), tokens of two workers differ (`TokensDiffer`), a result is
  uploaded before completion (`UploadedBeforeCompletion`), a COMPLETED row has no
  token, so that no stale worker passes its fence (`CompletedIsReleased`), and a
  job once completed has its result even after `mark_retrying` reopened it
  (`OnceCompletedHasResult`). Consequences: `OneOwner`, `CompletedHasResult`,
  `CompletedNotReclaimed` and, with no failing reads,
  `NoInferenceAfterCompletion`.
* **EvidenceLifecycle** (`EvidenceProofs`). `IInv` adds to the three properties:
  versions and pins are bounded by the PUTs, so that no later PUT makes a deleted
  version again (`VersionsArePuts`); `complete_upload` and the sweep never hold
  one intent, nor two sweepers (`IntentLocks`); whatever is being purged is a
  tombstone, or will be one at the request's commit (`RequestsPurgeTombstones`,
  `SweepersPurgeTombstones`); and no deletion is past its check of a protected
  row (`ProtectedIsReferenced`). One lemma per conjunct, one step per action
  that can disturb it.
* **Deliveries of the pipeline** (`JobPipelineProofs`). `DeliveryInv` says where
  the delivery of an unsettled job can be. A worker that still has its row's
  token is between its claim and its settlement (`OwnerAtWork`); a QUEUED row was never claimed, so its
  first message is still to be published, in main or with a worker that has not
  looked at the row (`QueuedCovered`); a PROCESSING row has a waiting message, a
  worker that is about to find the row busy, or its owner with the owner's own
  delivery (`ProcessingCovered`); and a row that a delivery would be acked for as
  NOT_CLAIMABLE is kept by something else than that delivery (`OpenIsKept`), for
  which `mark_retrying` has to come before the retry it announces
  (`RetryStillDelayed`). `NoLostWork` and its two companions say only that some
  delivery exists; whether the next step may give it up depends on which one it
  is, and that is what the strengthening records. Crashes, early lease expiries,
  duplicates and failing reads are unbounded. The hypotheses on the other faults
  are needed: TLC shows that one lost channel breaks `NoLostWork` (its owner fails
  the row, the requeued delivery is acked, and the owner cannot publish) and
  `ProcessingHasDelivery` (a worker without channel still claims); that a broker
  restart drops the transient retry; that one DLQ requeue strands a QUEUED row
  (`viol_requeue`); and that without `SettlesWithinTtl` a late `mark_retrying`
  loses the job.
* **Reports** (`ReportsProofs`). `DeskInv` adds to the types and to three of the
  properties what the locks exclude (`LocksExclude`): two generations of one
  shift, a generation and an inserted incident of its shift, two inserted
  incidents. None of the properties is inductive without it: a report's version
  is one more than the reports there are only because no one else who read that
  number is under way, and a snapshot stays complete only because no incident of
  its shift can be committed. That a fresh display id is above all others rests on
  the existence of a maximum of a finite set, which is derived from the
  well-foundedness of the numbers (`MaxIsUpper`). The proof assumes finitely many
  incidents. `PlanInv` is what `PinnedFromOnePlan` needs of the worker: as long as
  no two workers were at work at once, the owner of a row is the only attempt at
  work (`OneAtWork`), the three objects are uploaded in order and, once the last
  is there, are of one plan (`StoredInOrder`), and what the attempt holds at each
  step is what it uploaded or found complete (`AtWork`). Crashes may come anywhere,
  since every half-finished set lacks the last object, or replaces one of the same
  plan: a set is rendered over only after a failed read of it (`ops.misses`), and by
  another plan only after a failed read of the plan (`ops.reads`). `StoredInOrder`
  and `AtWork` therefore have two halves, one without the first kind of failure and
  one without the second; each gives one plan. `IInv` is `DeskInv` and `PlanInv`.
* **Analysis** (`AnalysisProofs`). Every request reads, lets others commit and
  then commits; `IInv` says of each read in which form it is still true.
  Registry: a pin points back to a committed row or to the row before it in the
  same transaction, a skill without rows will get an active one, and a stamp names
  a row whose recomputed hash is the stamp's (`Pending`, `StampHolds`); inserting
  rows after it and activating others leave that hash alone, which gives
  `StampedJobsStayRunnable`. Activation: without an overlap the open activation is
  the only one and its target is as it was read, which gives
  `OnlyOverlapLosesActive`. Runs: the UPDATE of an open request clears only runs
  of its own incident and the partial unique index decides between two, which
  gives `OneCurrentRun`. Results: what a poll or the cache holds is the output of
  a completed job, and until a late worker uploads it is the result that was stored
  when the job was completed, which no attempt replaces any more: a failed read
  leads to another inference only before that (`Fetched`, `FilledInv`, `StoreInv`).
  Without failed reads it is the first attempt's, with its telemetry (`FirstOnly`).
  This gives `ResultMatchesInput` and the
  action property `OnlyLateWorkersChangeResults`: two polls that overlap write the
  same.
* **Prefill** (`PrefillProofs`). `IInv` has four parts: the types; that a request
  that builds a prefill is its only user and that what it is about to commit
  keeps the rules' suggestions (`BuildInv`); that the places of the queue are
  exactly those of the requests that wait or ask, one of which asks (`QueueInv`);
  and that without overlapping attachments a screenshot has at most one row that
  belongs to an incident, and none while an attachment is open (`ShotInv`). It
  gives `SuggestionsSurvive`, `OnlyReattachedShotsLoseBytes` and the bound of the
  queue (`QueueIsBounded`, the safety half of `EveryRequestEnds`) for any number
  of threads, texts, fields, requests and restarts. TLC finds no violation of
  this `IInv` on the instance of the run `prefill` either.

* **Inference** (`InferenceProofs`), with `Reconciliation` and `Composition`. The
  results are about every log, every answer and every snapshot, so most of the
  module is about what the operators compute. A fold is unfolded into the sequence
  of its accumulators (`IterationExists`, and one lemma for each fold such as
  `AttachFold`), and an invariant of the accumulators is carried along that
  sequence. The induction is `EachNumber` of `FiniteFacts`, which takes a set
  instead of a predicate and follows from the well-foundedness of the numbers.
  Sums over sets are handled in the same way (`SumFold`, `SumIsUnique`).
  * Entries. After every finding the claimed entries are whole families and are
    divided among the findings so far (`Accounted`); what is left over is a finding
    for each family and one for the rest, so the findings divide the log.
  * Patterns. `Named` (known patterns, or unquantified) comes out of the claims;
    that no two findings share a family (`Separate`) out of `MergeFamilies`, whose
    components are least closed sets. `MergeRepeated`, `AttachHinted`,
    `AppendOmitted` and `Finished` each preserve `Separate`, and the last two leave
    findings that name every kept pattern with its count (`Reconciles`). Since
    families are apart, the lines are, too, and the counts add up to the log.
  * Again. Findings that reconcile and are distinct are claimed as they are, merged
    with nothing and extended by nothing: only their order changes, which
    validation does not see. `Sound` is what validation wants and what every stage
    of the repair preserves.
  * Cuts. Cutting the prose changes the details of findings and nothing else
    (`SameButDetails`), so counts and families stay (`CutIsGrounded`); what is left
    is valid if it reads, has two sentences and no details that repeat
    (`CutStillHolds`, `CutIsReadable`).

  Mixed answers need no case of their own for the sums: `Accounted` is about the
  findings that cite, and the others keep what they came with.

  `IInv` of the worker says only: an answer that is being looked at is one of the
  runtime's, and what the delivery holds and what is stored is nothing, a report's
  summary, or a validated analysis that is `Grounded` (`Accounted` or `Reconciles`).
  None of the properties is inductive without `Grounded`: that a stored result
  passes the check again cannot be told from its having passed it once. From it
  follow `EvidenceIsConserved`, `StoredResultIsReused`,
  `OnlyMergersAndCutsDefeatRepair` and `DocumentIsFaithful`; TLC finds no violation
  of this `IInv` on the instance of the run `inference` either. The assumptions are
  the types of logs, answers and snapshots, the uniqueness of incident ids (a
  primary key), and, for the third property only, that the runtime names no finding
  `unlabeled-<family>` (`RuntimeIdsAssumption`; the families stay "internal to the
  worker", `sandbox/preprocessing.py:266`). It is needed: three findings whose
  details repeat crosswise, English against Chinese, lose the patterns of one of
  them in the repair, `AppendOmitted` brings them back under that id, and a
  finding that already had it would make the repaired result invalid.

Only model-checked: everything under fairness, which is out of the prover's reach:
`EveryJobSettles`, `ProcessingEnds`, `EveryEventIsSent`, `TombstonesArePurged`,
`AbandonedIsSettled` and the second half of `EveryRequestEnds`. Every safety
property that a run checks is also a theorem.

## 6. Left out

* `mark_started` (no caller on the pipeline's paths), and a completion whose
  commit was applied but not confirmed.
* `handle_delivery`'s branch for a message of another job type: no publisher
  puts one on this queue.
* The wording of logs, answers, reports and manifests; the DOCX layout; OCR's
  regular expressions beyond how well a field is resolved.
* The sweep's branch for an intent whose object key does not match its columns,
  and the order in which a sweep takes due rows (the model allows any).
* A tombstone whose storage purge fails for ever: it is not added to the sweep's
  skip set and could starve younger rows; storage errors are bounded here.
* `update_incident` (one row, last writer wins), the listing and download
  endpoints, the legacy sync of a report without pinned artifacts (every
  completion pins them in its own transaction), manifests that name a dependency
  version (none does).
* `delete_incident` deletes the outbox rows of the incident's jobs with the jobs
  (`incidents.py:401`), also unpublished ones: the outbox promises delivery of
  events whose job is still there.
* The reopening of a COMPLETED row by `mark_retrying` is in `JobPipeline` and
  `Reports`; in `Analysis` a completed job stays completed. A reopened job whose
  stored result then goes unread would be inferred once more under a poll.
* In `Inference`, a read of the stored result that fails (`worker.py:196`, `206`);
  it is `ReconcileReadError` in `JobPipeline` and `InferAgain` in `Analysis`.
* A finding that lists one pattern twice (`preprocessing.py:749`): patterns are
  sets. One summary stands for the two languages, the one that fares worse. The
  verdict on the prose of a finding that is merged away still counts.
* The ValueError of `build_analysis_presentation` that ends a report
  (`report_composition.py:183`), raised for a presentation contract that the worker
  does not know.
* Sessions, administration of users and roles, health probes, search, analytics,
  dashboards and the web client.
