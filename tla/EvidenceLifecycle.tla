------------------------- MODULE EvidenceLifecycle -------------------------
(***************************************************************************)
(* Evidence of one incident, from the upload intent to the purge of its    *)
(* bytes (apps/api/app/api/v1/routers/evidence.py, evidence_lifecycle.py,  *)
(* evidence_purge_worker.py, and delete_incident of incidents.py).         *)
(*                                                                         *)
(* Two stores are written by separate steps: the database (intents,        *)
(* evidence rows, references) and the versioned MinIO bucket, to which     *)
(* browsers PUT through presigned URLs the API cannot take back.  An       *)
(* upload id names the intent, its object key and, after completion, its   *)
(* Evidence row, since an intent completes at most once.                   *)
(*                                                                         *)
(* Every statement of a handler sees committed rows only (READ COMMITTED); *)
(* what a handler read and then relies on is kept in its own state.  A     *)
(* FOR UPDATE lock is held from the step that takes it to the step that    *)
(* commits or rolls back.                                                  *)
(***************************************************************************)
EXTENDS Integers, FiniteSets

CONSTANTS
    Uploads,      \* upload ids
    Existing,     \* the uploads completed, with one PUT, before we look
    Requests,     \* API requests that reference or delete evidence
    Sweepers,     \* evidence-purge-worker threads
    NoUpload,
    Kinds,        \* what may reference evidence: subset of AllKinds
    SweepLimit,   \* limit of one sweep
    MaxPuts,      \* bound on the PUTs to one presigned URL
    MaxFaults     \* bound on storage errors and process deaths

AllKinds == {"ocr", "analysis", "snapshot"}

ASSUME NoUploadAssumption == NoUpload \notin Uploads
ASSUME KindsAssumption == Kinds \subseteq AllKinds
ASSUME ExistingAssumption == Existing \subseteq Uploads
ASSUME EvidenceBounds == SweepLimit \in Nat /\ MaxPuts \in Nat \ {0} /\ MaxFaults \in Nat

VARIABLES
    incident,   \* the incident row exists
    intent,     \* intent[u]: EvidenceUploadIntent.state
    due,        \* due[u]: expires_at <= now
    url,        \* url[u]: MinIO still accepts the presigned PUT
    puts,       \* puts[u]: PUTs so far; the last one made version puts[u]
    versions,   \* versions[u]: versions stored under the object key
    evidence,   \* evidence[u]: Evidence.lifecycle_state
    pinned,     \* pinned[u]: Evidence.version_id
    refs,       \* refs[u]: kinds of committed rows that refer to the evidence
    hold,       \* hold[u]: where complete_upload is that has locked the intent
    head,       \* head[u]: the version its head_object returned
    rpc, target, todo, dirty,    \* the requests
    spc, cur, skip, left,        \* the sweepers
    faults,
    protected   \* history: a reference was committed in time, see CommitReference

intentVars == <<incident, intent, due, url, hold, head>>
storeVars == <<puts, versions>>
rowVars == <<evidence, pinned, refs, protected>>
requestVars == <<rpc, target, todo, dirty>>
sweepVars == <<spc, cur, skip, left>>
vars == <<incident, intent, due, url, puts, versions, evidence, pinned, refs, hold, head,
          rpc, target, todo, dirty, spc, cur, skip, left, faults, protected>>

PurgeLocked == {"check", "purge", "commit"}   \* the sweeper locks an evidence row
CleanLocked == {"clean", "cleaned"}           \* the sweeper locks an intent row

TypeOK ==
    /\ incident \in BOOLEAN
    /\ intent \in [Uploads -> {"none", "OPEN", "EXPIRED", "COMPLETED", "CLEANED", "deleted"}]
    /\ due \in [Uploads -> BOOLEAN] /\ url \in [Uploads -> BOOLEAN]
    /\ puts \in [Uploads -> 0 .. MaxPuts]
    /\ versions \in [Uploads -> SUBSET (1 .. MaxPuts)]
    /\ evidence \in [Uploads -> {"none", "ACTIVE", "PURGE_PENDING", "PURGED"}]
    /\ pinned \in [Uploads -> 0 .. MaxPuts]
    /\ refs \in [Uploads -> SUBSET Kinds]
    /\ hold \in [Uploads -> {"free", "locked", "stored"}]
    /\ head \in [Uploads -> 0 .. MaxPuts]
    /\ rpc \in [Requests -> {"idle", "reference", "checked", "checkedIncident",
                             "purging", "purged"}]
    /\ target \in [Requests -> Uploads \cup {NoUpload}]
    /\ todo \in [Requests -> SUBSET Uploads] /\ dirty \in [Requests -> SUBSET Uploads]
    /\ spc \in [Sweepers -> {"idle", "pending", "intents"} \cup PurgeLocked \cup CleanLocked]
    /\ cur \in [Sweepers -> Uploads \cup {NoUpload}]
    /\ skip \in [Sweepers -> SUBSET Uploads]
    /\ left \in [Sweepers -> 0 .. SweepLimit]
    /\ faults \in 0 .. MaxFaults
    /\ protected \in [Uploads -> BOOLEAN]

Init ==
    /\ incident = TRUE
    /\ intent = [u \in Uploads |-> IF u \in Existing THEN "COMPLETED" ELSE "none"]
    /\ evidence = [u \in Uploads |-> IF u \in Existing THEN "ACTIVE" ELSE "none"]
    /\ puts = [u \in Uploads |-> IF u \in Existing THEN 1 ELSE 0]
    /\ pinned = puts
    /\ versions = [u \in Uploads |-> IF u \in Existing THEN {1} ELSE {}]
    /\ due = [u \in Uploads |-> u \in Existing] /\ url = [u \in Uploads |-> FALSE]
    /\ refs = [u \in Uploads |-> {}]
    /\ hold = [u \in Uploads |-> "free"] /\ head = [u \in Uploads |-> 0]
    /\ rpc = [r \in Requests |-> "idle"] /\ target = [r \in Requests |-> NoUpload]
    /\ todo = [r \in Requests |-> {}] /\ dirty = [r \in Requests |-> {}]
    /\ spc = [s \in Sweepers |-> "idle"] /\ cur = [s \in Sweepers |-> NoUpload]
    /\ skip = [s \in Sweepers |-> {}] /\ left = [s \in Sweepers |-> 0]
    /\ faults = 0
    /\ protected = [u \in Uploads |-> FALSE]

Fault == faults < MaxFaults /\ faults' = faults + 1

\* Some sweeper holds the FOR UPDATE lock of the row.
EvidenceLocked(u) == \E s \in Sweepers : spc[s] \in PurgeLocked /\ cur[s] = u
IntentSwept(u) == \E s \in Sweepers : spc[s] \in CleanLocked /\ cur[s] = u

\* Mutant: complete_upload reads the intent without FOR UPDATE.
IntentFreeUnlocked(u) == ~IntentSwept(u)

IntentFree(u) == hold[u] = "free" /\ ~IntentSwept(u)

-----------------------------------------------------------------------------
(***************************************************************************)
(* The upload.                                                             *)
(***************************************************************************)
request_upload_url(u) ==
    /\ incident /\ intent[u] = "none"
    /\ intent' = [intent EXCEPT ![u] = "OPEN"]
    /\ url' = [url EXCEPT ![u] = TRUE]
    /\ UNCHANGED <<incident, due, hold, head, storeVars, rowVars, requestVars, sweepVars, faults>>

\* The browser uses the URL; a second PUT makes a second version.
ClientPut(u) ==
    /\ url[u] /\ puts[u] < MaxPuts
    /\ puts' = [puts EXCEPT ![u] = @ + 1]
    /\ versions' = [versions EXCEPT ![u] = @ \cup {puts[u] + 1}]
    /\ UNCHANGED <<intentVars, rowVars, requestVars, sweepVars, faults>>

IntentExpires(u) ==
    /\ intent[u] # "none" /\ ~due[u]
    /\ due' = [due EXCEPT ![u] = TRUE]
    /\ UNCHANGED <<incident, intent, url, hold, head, storeVars, rowVars, requestVars, sweepVars, faults>>

\* Both live 15 minutes and the URL is signed after expires_at is fixed, so
\* the URL is the one that lives longer.
UrlExpires(u) ==
    /\ url[u] /\ due[u]
    /\ url' = [url EXCEPT ![u] = FALSE]
    /\ UNCHANGED <<incident, intent, due, hold, head, storeVars, rowVars, requestVars, sweepVars, faults>>

(***************************************************************************)
(* complete_upload.  A repeated completion, and one of an intent that is   *)
(* not OPEN, change nothing.                                               *)
(***************************************************************************)
CompleteExpired(u) ==
    /\ incident /\ IntentFree(u)
    /\ intent[u] = "OPEN" /\ due[u]
    /\ intent' = [intent EXCEPT ![u] = "EXPIRED"]
    /\ UNCHANGED <<incident, due, url, hold, head, storeVars, rowVars, requestVars, sweepVars, faults>>

CompleteLock(u) ==
    /\ incident /\ IntentFree(u)
    /\ intent[u] = "OPEN" /\ ~due[u]
    /\ hold' = [hold EXCEPT ![u] = "locked"]
    /\ UNCHANGED <<incident, intent, due, url, head, storeVars, rowVars, requestVars, sweepVars, faults>>

\* head_object names the latest version.
CompleteHead(u) ==
    /\ hold[u] = "locked"
    /\ \E v \in versions[u] :
          /\ \A w \in versions[u] : w <= v
          /\ head' = [head EXCEPT ![u] = v]
    /\ hold' = [hold EXCEPT ![u] = "stored"]
    /\ UNCHANGED <<incident, intent, due, url, storeVars, rowVars, requestVars, sweepVars, faults>>

Release(u) ==
    /\ hold' = [hold EXCEPT ![u] = "free"]
    /\ head' = [head EXCEPT ![u] = 0]

\* Wrong size or type: that version is deleted, the intent stays OPEN.
CompleteReject(u) ==
    /\ hold[u] = "stored"
    /\ versions' = [versions EXCEPT ![u] = @ \ {head[u]}]
    /\ Release(u)
    /\ UNCHANGED <<incident, intent, due, url, puts, rowVars, requestVars, sweepVars, faults>>

\* Nothing was uploaded, the object store answers an error, the request dies.
CompleteAbort(u) ==
    /\ hold[u] # "free"
    /\ Release(u)
    /\ UNCHANGED <<incident, intent, due, url, storeVars, rowVars, requestVars, sweepVars, faults>>

\* The Evidence row with its pinned version and the COMPLETED intent, at once.
CompleteCommit(u) ==
    /\ hold[u] = "stored"
    /\ evidence' = [evidence EXCEPT ![u] = "ACTIVE"]
    /\ pinned' = [pinned EXCEPT ![u] = head[u]]
    /\ intent' = [intent EXCEPT ![u] = "COMPLETED"]
    /\ Release(u)
    /\ UNCHANGED <<incident, due, url, storeVars, refs, protected, requestVars, sweepVars, faults>>

-----------------------------------------------------------------------------
(***************************************************************************)
(* References: request_analysis, run_ocr_on_evidence and the snapshot of   *)
(* generate_report read ACTIVE evidence without a lock and commit a row    *)
(* that refers to it later.                                                *)
(***************************************************************************)
ReadForReference(r, u) ==
    /\ rpc[r] = "idle" /\ evidence[u] = "ACTIVE"
    /\ rpc' = [rpc EXCEPT ![r] = "reference"]
    /\ target' = [target EXCEPT ![r] = u]
    /\ UNCHANGED <<intentVars, storeVars, rowVars, todo, dirty, sweepVars, faults>>

\* A deletion of u has passed its reference check and is still running.
PurgeUnderWay(u) ==
    \/ \E r \in Requests : u \in todo[r]
    \/ \E s \in Sweepers : spc[s] \in {"purge", "commit"} /\ cur[s] = u

EndRequest(r) ==
    /\ rpc' = [rpc EXCEPT ![r] = "idle"]
    /\ target' = [target EXCEPT ![r] = NoUpload]
    /\ todo' = [todo EXCEPT ![r] = {}]
    /\ dirty' = [dirty EXCEPT ![r] = {}]

\* OCR and analysis rows have a foreign key to the evidence row, so their
\* INSERT waits for a sweeper's FOR UPDATE lock; a snapshot keeps the id in
\* JSON and waits for nobody.  protected remembers that the reference came in
\* time: the bytes were there and no deletion had passed its reference check.
CommitReference(r, k) ==
    /\ rpc[r] = "reference"
    /\ k = "analysis" => incident
    /\ k # "snapshot" => ~EvidenceLocked(target[r])
    /\ refs' = [refs EXCEPT ![target[r]] = @ \cup {k}]
    /\ protected' = [protected EXCEPT ![target[r]] =
                        @ \/ (pinned[target[r]] \in versions[target[r]] /\ ~PurgeUnderWay(target[r]))]
    /\ EndRequest(r)
    /\ UNCHANGED <<intentVars, storeVars, evidence, pinned, sweepVars, faults>>

-----------------------------------------------------------------------------
(***************************************************************************)
(* delete_evidence and delete_incident: request_purge checks the           *)
(* references, the commit makes the tombstones, then storage is deleted    *)
(* and each tombstone is marked PURGED in a transaction of its own.        *)
(***************************************************************************)

\* Mutant: a deletion does not look for references.
PurgeableAlways(u) == evidence[u] # "none"

\* request_purge does not raise EvidenceReferencedError.
Purgeable(u) == evidence[u] = "PURGED" \/ (evidence[u] # "none" /\ refs[u] = {})

CheckPurge(r, S, next) ==
    /\ \A u \in S : Purgeable(u)
    /\ rpc' = [rpc EXCEPT ![r] = next]
    /\ todo' = [todo EXCEPT ![r] = S]
    /\ dirty' = [dirty EXCEPT ![r] = {u \in S : evidence[u] = "ACTIVE"}]
    /\ UNCHANGED target

delete_evidence(r, u) ==
    /\ rpc[r] = "idle" /\ evidence[u] # "none"
    /\ CheckPurge(r, {u}, "checked")
    /\ UNCHANGED <<intentVars, storeVars, rowVars, sweepVars, faults>>

delete_incident(r) ==
    /\ rpc[r] = "idle" /\ incident
    /\ CheckPurge(r, {u \in Uploads : evidence[u] # "none"}, "checkedIncident")
    /\ UNCHANGED <<intentVars, storeVars, rowVars, sweepVars, faults>>

\* The UPDATE writes what the request saw ACTIVE, whatever the row is by now.
Tombstones(r) == [u \in Uploads |-> IF u \in dirty[r] THEN "PURGE_PENDING" ELSE evidence[u]]

ToPurge(r) ==
    /\ rpc' = [rpc EXCEPT ![r] = IF todo[r] = {} THEN "idle" ELSE "purging"]
    /\ dirty' = [dirty EXCEPT ![r] = {}]
    /\ UNCHANGED <<target, todo>>

CommitDeletion(r) ==
    /\ rpc[r] = "checked"
    /\ \A u \in dirty[r] : ~EvidenceLocked(u)
    /\ evidence' = Tombstones(r)
    /\ ToPurge(r)
    /\ UNCHANGED <<intentVars, storeVars, pinned, refs, protected, sweepVars, faults>>

\* Runs and intents of the incident go with it; report snapshots stay, and
\* so do OCR runs of evidence the request has not seen.
CommitIncidentDeletion(r) ==
    /\ rpc[r] = "checkedIncident" /\ incident
    /\ \A u \in Uploads : ~EvidenceLocked(u) /\ IntentFree(u)
    /\ incident' = FALSE
    /\ evidence' = Tombstones(r)
    /\ refs' = [u \in Uploads |->
                   refs[u] \ IF u \in todo[r] THEN {"ocr", "analysis"} ELSE {"analysis"}]
    /\ protected' = [u \in Uploads |-> protected[u] /\ refs'[u] # {}]
    /\ intent' = [u \in Uploads |-> IF intent[u] = "none" THEN "none" ELSE "deleted"]
    /\ ToPurge(r)
    /\ UNCHANGED <<due, url, hold, head, storeVars, pinned, sweepVars, faults>>

\* purge_storage deletes the pinned version; a missing one is a success.
PurgeStorage(r, u) ==
    /\ rpc[r] = "purging" /\ u \in todo[r]
    /\ versions' = [versions EXCEPT ![u] = @ \ {pinned[u]}]
    /\ rpc' = [rpc EXCEPT ![r] = "purged"]
    /\ target' = [target EXCEPT ![r] = u]
    /\ UNCHANGED <<intentVars, puts, rowVars, todo, dirty, sweepVars, faults>>

Done(r, u) ==
    /\ rpc' = [rpc EXCEPT ![r] = IF todo[r] = {u} THEN "idle" ELSE "purging"]
    /\ target' = [target EXCEPT ![r] = NoUpload]
    /\ todo' = [todo EXCEPT ![r] = @ \ {u}]
    /\ UNCHANGED dirty

\* Mutant: a storage error is taken for a success.
PurgeErrorIgnored(r, u) ==
    /\ rpc[r] = "purging" /\ u \in todo[r]
    /\ Fault
    /\ rpc' = [rpc EXCEPT ![r] = "purged"]
    /\ target' = [target EXCEPT ![r] = u]
    /\ UNCHANGED <<intentVars, storeVars, rowVars, todo, dirty, sweepVars>>

\* A storage error: the tombstone stays for the sweep.
PurgeStorageFails(r, u) ==
    /\ rpc[r] = "purging" /\ u \in todo[r]
    /\ Fault
    /\ Done(r, u)
    /\ UNCHANGED <<intentVars, storeVars, rowVars, sweepVars>>

mark_purged(r) ==
    /\ rpc[r] = "purged" /\ ~EvidenceLocked(target[r])
    /\ evidence' = [evidence EXCEPT ![target[r]] = "PURGED"]
    /\ Done(r, target[r])
    /\ UNCHANGED <<intentVars, storeVars, pinned, refs, protected, sweepVars, faults>>

\* A handler that has committed nothing is refused, conflicts or dies.
RequestRollsBack(r) ==
    /\ rpc[r] \in {"reference", "checked", "checkedIncident"}
    /\ EndRequest(r)
    /\ UNCHANGED <<intentVars, storeVars, rowVars, sweepVars, faults>>

\* ... and one that dies later leaves its tombstones for the sweep.
RequestDies(r) ==
    /\ rpc[r] \in {"purging", "purged"}
    /\ Fault
    /\ EndRequest(r)
    /\ UNCHANGED <<intentVars, storeVars, rowVars, sweepVars>>

-----------------------------------------------------------------------------
(***************************************************************************)
(* The sweepers: sweep_pending_purges, then sweep_abandoned_upload_intents.*)
(* Both take the oldest row first; here they take any, which leaves open   *)
(* in which order rows became due.                                         *)
(***************************************************************************)
SweepTo(s, to) ==
    /\ spc' = [spc EXCEPT ![s] = to]
    /\ cur' = [cur EXCEPT ![s] = NoUpload]
    /\ UNCHANGED left

StartSweep(s) ==
    /\ spc[s] = "idle"
    /\ spc' = [spc EXCEPT ![s] = "pending"]
    /\ left' = [left EXCEPT ![s] = SweepLimit]
    /\ skip' = [skip EXCEPT ![s] = {}]
    /\ UNCHANGED <<intentVars, storeVars, rowVars, requestVars, cur, faults>>

PendingRows(s) ==
    {u \in Uploads : evidence[u] = "PURGE_PENDING" /\ ~EvidenceLocked(u) /\ u \notin skip[s]}

SelectPending(s) ==
    /\ spc[s] = "pending" /\ left[s] > 0
    /\ \E u \in PendingRows(s) : cur' = [cur EXCEPT ![s] = u]
    /\ spc' = [spc EXCEPT ![s] = "check"]
    /\ left' = [left EXCEPT ![s] = @ - 1]
    /\ UNCHANGED <<intentVars, storeVars, rowVars, requestVars, skip, faults>>

\* Mutant: the sweep trusts the check of the deletion request.
SweepUnreferencedAlways(s) ==
    /\ spc[s] = "check"
    /\ spc' = [spc EXCEPT ![s] = "purge"]
    /\ UNCHANGED <<intentVars, storeVars, rowVars, requestVars, cur, skip, left, faults>>

SweepUnreferenced(s) ==
    /\ spc[s] = "check" /\ refs[cur[s]] = {}
    /\ spc' = [spc EXCEPT ![s] = "purge"]
    /\ UNCHANGED <<intentVars, storeVars, rowVars, requestVars, cur, skip, left, faults>>

\* Mutant: a protected row is selected again in the same sweep.
SweepReferencedForgetting(s) ==
    /\ spc[s] = "check" /\ refs[cur[s]] # {}
    /\ SweepTo(s, "pending")
    /\ UNCHANGED <<intentVars, storeVars, rowVars, requestVars, skip, faults>>

SweepReferenced(s) ==
    /\ spc[s] = "check" /\ refs[cur[s]] # {}
    /\ skip' = [skip EXCEPT ![s] = @ \cup {cur[s]}]
    /\ SweepTo(s, "pending")
    /\ UNCHANGED <<intentVars, storeVars, rowVars, requestVars, faults>>

SweepPurge(s) ==
    /\ spc[s] = "purge"
    /\ versions' = [versions EXCEPT ![cur[s]] = @ \ {pinned[cur[s]]}]
    /\ spc' = [spc EXCEPT ![s] = "commit"]
    /\ UNCHANGED <<intentVars, puts, rowVars, requestVars, cur, skip, left, faults>>

\* purge_storage raises: rollback, and the row may be selected again.
SweepPurgeFails(s) ==
    /\ spc[s] = "purge"
    /\ Fault
    /\ SweepTo(s, "pending")
    /\ UNCHANGED <<intentVars, storeVars, rowVars, requestVars, skip>>

SweepCommit(s) ==
    /\ spc[s] = "commit"
    /\ evidence' = [evidence EXCEPT ![cur[s]] = "PURGED"]
    /\ SweepTo(s, "pending")
    /\ UNCHANGED <<intentVars, storeVars, pinned, refs, protected, requestVars, skip, faults>>

ToIntents(s) ==
    /\ spc[s] = "pending"
    /\ left[s] = 0 \/ PendingRows(s) = {}
    /\ spc' = [spc EXCEPT ![s] = "intents"]
    /\ left' = [left EXCEPT ![s] = SweepLimit]
    /\ skip' = [skip EXCEPT ![s] = {}]
    /\ UNCHANGED <<intentVars, storeVars, rowVars, requestVars, cur, faults>>

\* Mutant: only OPEN intents are swept.
AbandonedOpen(s) ==
    {u \in Uploads : intent[u] = "OPEN" /\ due[u] /\ IntentFree(u) /\ u \notin skip[s]}

Abandoned(s) ==
    {u \in Uploads : intent[u] \in {"OPEN", "EXPIRED"} /\ due[u] /\ IntentFree(u) /\ u \notin skip[s]}

SelectAbandoned(s) ==
    /\ spc[s] = "intents" /\ left[s] > 0
    /\ \E u \in Abandoned(s) : cur' = [cur EXCEPT ![s] = u]
    /\ spc' = [spc EXCEPT ![s] = "clean"]
    /\ left' = [left EXCEPT ![s] = @ - 1]
    /\ UNCHANGED <<intentVars, storeVars, rowVars, requestVars, skip, faults>>

\* delete_object_versions; the Evidence that would forbid it never exists.
CleanVersions(s) ==
    /\ spc[s] = "clean"
    /\ IF evidence[cur[s]] # "none"
       THEN /\ intent' = [intent EXCEPT ![cur[s]] = "COMPLETED"]
            /\ SweepTo(s, "intents")
            /\ UNCHANGED versions
       ELSE /\ versions' = [versions EXCEPT ![cur[s]] = {}]
            /\ spc' = [spc EXCEPT ![s] = "cleaned"]
            /\ UNCHANGED <<intent, cur, left>>
    /\ UNCHANGED <<incident, due, url, hold, head, puts, rowVars, requestVars, skip, faults>>

\* A storage or database error: rollback, and not again in this sweep.
CleanFails(s) ==
    /\ spc[s] \in CleanLocked
    /\ Fault
    /\ skip' = [skip EXCEPT ![s] = @ \cup {cur[s]}]
    /\ SweepTo(s, "intents")
    /\ UNCHANGED <<intentVars, storeVars, rowVars, requestVars>>

CleanCommit(s) ==
    /\ spc[s] = "cleaned"
    /\ intent' = [intent EXCEPT ![cur[s]] = "CLEANED"]
    /\ SweepTo(s, "intents")
    /\ UNCHANGED <<incident, due, url, hold, head, storeVars, rowVars, requestVars, skip, faults>>

EndSweep(s) ==
    /\ spc[s] = "intents"
    /\ left[s] = 0 \/ Abandoned(s) = {}
    /\ SweepTo(s, "idle")
    /\ UNCHANGED <<intentVars, storeVars, rowVars, requestVars, skip, faults>>

SweeperDies(s) ==
    /\ spc[s] \in {"commit", "cleaned"}
    /\ Fault
    /\ SweepTo(s, "idle")
    /\ UNCHANGED <<intentVars, storeVars, rowVars, requestVars, skip>>

-----------------------------------------------------------------------------
CompleteStep(u) ==
    CompleteHead(u) \/ CompleteReject(u) \/ CompleteAbort(u) \/ CompleteCommit(u)

SweeperStep(s) ==
    \/ StartSweep(s) \/ SelectPending(s) \/ SweepUnreferenced(s) \/ SweepReferenced(s)
    \/ SweepPurge(s) \/ SweepCommit(s) \/ ToIntents(s)
    \/ SelectAbandoned(s) \/ CleanVersions(s) \/ CleanCommit(s) \/ EndSweep(s)

Next ==
    \/ \E u \in Uploads :
          \/ request_upload_url(u) \/ ClientPut(u) \/ IntentExpires(u) \/ UrlExpires(u)
          \/ CompleteExpired(u) \/ CompleteLock(u) \/ CompleteStep(u)
    \/ \E r \in Requests :
          \/ \E u \in Uploads : \/ ReadForReference(r, u) \/ delete_evidence(r, u)
                                \/ PurgeStorage(r, u) \/ PurgeStorageFails(r, u)
          \/ \E k \in Kinds : CommitReference(r, k)
          \/ delete_incident(r) \/ CommitDeletion(r) \/ CommitIncidentDeletion(r)
          \/ mark_purged(r) \/ RequestRollsBack(r) \/ RequestDies(r)
    \/ \E s \in Sweepers : SweeperStep(s) \/ SweepPurgeFails(s) \/ CleanFails(s) \/ SweeperDies(s)

Spec == Init /\ [][Next]_vars

\* The sweep thread never ends, and a completion does not keep its lock for
\* ever; nobody else is obliged to anything.
FairSpec ==
    /\ Spec
    /\ \A s \in Sweepers : WF_vars(SweeperStep(s))
    /\ \A u \in Uploads : WF_vars(CompleteStep(u))

-----------------------------------------------------------------------------
\* evidence_lifecycle.py: no "live record whose bytes disappeared underneath
\* it".  ACTIVE evidence has the bytes it was completed with, whatever
\* uploads, sweeps and deletions ran meanwhile.
ActiveHasBytes ==
    \A u \in Uploads : evidence[u] = "ACTIVE" => pinned[u] \in versions[u]

\* PURGED is written only after the exact version is gone.
PurgedIsGone ==
    \A u \in Uploads : evidence[u] = "PURGED" => pinned[u] \notin versions[u]

\* A reference protects the bytes for as long as it exists, if it was
\* committed before a deletion had passed its own reference check.
ProtectedIsKept ==
    \A u \in Uploads : protected[u] => pinned[u] \in versions[u]

\* production-hardening.md: a protected tombstone is skipped "so later
\* eligible rows are still processed".  A tombstone is purged in the end, or
\* something refers to it.
TombstonesArePurged ==
    SweepLimit >= Cardinality(Uploads) =>
        \A u \in Uploads : evidence[u] = "PURGE_PENDING" ~> (evidence[u] = "PURGED" \/ refs[u] # {})

\* An upload that was never completed is cleaned in the end.
AbandonedIsSettled ==
    \A u \in Uploads : intent[u] \in {"OPEN", "EXPIRED"} /\ due[u] ~>
                           intent[u] \in {"COMPLETED", "CLEANED", "deleted"}

(***************************************************************************)
(* The inductive invariant behind the three safety properties.             *)
(***************************************************************************)

\* Versions are numbered by the PUTs, so no PUT makes a deleted one again.
VersionsArePuts ==
    \A u \in Uploads :
        /\ \A v \in versions[u] : v <= puts[u]
        /\ pinned[u] <= puts[u]

\* complete_upload and the sweep never hold the same intent, and both hold
\* only intents without Evidence.
IntentLocks ==
    /\ \A u \in Uploads :
          /\ hold[u] # "free" => intent[u] = "OPEN" /\ ~IntentSwept(u)
          /\ hold[u] = "stored" => head[u] \in versions[u]
          /\ intent[u] \in {"none", "OPEN", "EXPIRED", "CLEANED"} => evidence[u] = "none"
    /\ \A s \in Sweepers : spc[s] \in CleanLocked =>
          /\ cur[s] \in Uploads /\ intent[cur[s]] \in {"OPEN", "EXPIRED"}
          /\ \A t \in Sweepers : spc[t] \in CleanLocked /\ cur[t] = cur[s] => t = s

\* Only tombstones are purged.
RequestsPurgeTombstones ==
    \A r \in Requests :
        /\ rpc[r] \in {"idle", "reference"} => todo[r] = {}
        /\ rpc[r] = "reference" => target[r] \in Uploads /\ evidence[target[r]] # "none"
        /\ dirty[r] \subseteq todo[r]
        /\ \A u \in todo[r] : /\ evidence[u] # "none"
                              /\ evidence[u] = "ACTIVE" => u \in dirty[r]
        /\ rpc[r] \in {"purging", "purged"} => dirty[r] = {}
        /\ rpc[r] = "purged" => target[r] \in todo[r] /\ pinned[target[r]] \notin versions[target[r]]

SweepersPurgeTombstones ==
    \A s \in Sweepers :
        /\ spc[s] \in PurgeLocked =>
              /\ cur[s] \in Uploads /\ evidence[cur[s]] = "PURGE_PENDING"
              /\ \A t \in Sweepers : spc[t] \in PurgeLocked /\ cur[t] = cur[s] => t = s
        /\ spc[s] = "commit" => pinned[cur[s]] \notin versions[cur[s]]

\* No deletion is past its check of a protected row.
ProtectedIsReferenced ==
    \A u \in Uploads : protected[u] =>
        refs[u] # {} /\ evidence[u] # "none" /\ ~PurgeUnderWay(u)

IInv ==
    /\ TypeOK
    /\ VersionsArePuts
    /\ IntentLocks
    /\ RequestsPurgeTombstones
    /\ SweepersPurgeTombstones
    /\ ProtectedIsReferenced
    /\ ActiveHasBytes /\ PurgedIsGone /\ ProtectedIsKept

=============================================================================
