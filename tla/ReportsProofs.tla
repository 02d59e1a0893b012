---------------------------- MODULE ReportsProofs ----------------------------
(***************************************************************************)
(* DeskInv of Reports is inductive: what the shift row's lock and the         *)
(* advisory lock exclude keeps versions gapless, display ids apart and     *)
(* snapshots complete, for any number of shifts, incidents, threads and    *)
(* workers.                                                                *)
(***************************************************************************)
EXTENDS Reports, FiniteFacts

(***************************************************************************)
(* The numbers that _next_display_id and _allocate_report_version give.    *)
(***************************************************************************)

\* _next_display_id is a number above all that are in use.
LEMMA NextDisplayId ==
  ASSUME TypeOK
  PROVE  /\ _next_display_id \in Nat \ {0}
         /\ \A i \in Incidents : incidents[i].number < _next_display_id
  <1> DEFINE T == {incidents[i].number : i \in Incidents}
             f == [i \in Incidents |-> incidents[i].number]
  <1>1. T \subseteq Nat
    BY DEF TypeOK
  <1>2. f \in Surjection(Incidents, T)
    BY DEF Surjection
  <1>3. IsFiniteSet(T)
    <2> HIDE DEF T, f
    <2> QED
      BY <1>2, FS_Surjection, ReportsAssumption
  <1>4. IsFiniteSet({0} \cup T)
    <2> HIDE DEF T, f
    <2>1. T \cup {0} = {0} \cup T
      OBVIOUS
    <2> QED
      BY <1>3, <2>1, FS_AddElement
  <1>5. Max({0} \cup T) \in {0} \cup T /\ \A y \in {0} \cup T : Max({0} \cup T) >= y
    <2> HIDE DEF T, f
    <2> QED
      BY <1>1, <1>4, MaxIsUpper
  <1>6. _next_display_id = Max({0} \cup T) + 1
    BY DEF _next_display_id
  <1>7. \A i \in Incidents : incidents[i].number \in T
    OBVIOUS
  <1> DEFINE M == Max({0} \cup T)
  <1> HIDE DEF T, f
  <1>8. M \in {0} \cup T /\ (\A y \in T : M >= y) /\ _next_display_id = M + 1
    BY <1>5, <1>6
  <1> HIDE DEF M
  <1>9. M \in Nat
    BY <1>1, <1>8
  <1>10. \A i \in Incidents : incidents[i].number \in Nat /\ incidents[i].number <= M
    BY <1>1, <1>7, <1>8, <1>9
  <1> QED
    BY <1>8, <1>9, <1>10

\* The reports of a shift are finitely many.
LEMMA ReportsOfFinite ==
  ASSUME TypeOK, NEW s \in Shifts
  PROVE  IsFiniteSet(ReportsOf(s)) /\ Cardinality(ReportsOf(s)) \in Nat
  <1>1. ReportsOf(s) \in SUBSET (1..Len(reports)) /\ Len(reports) \in Nat
    <2>1. reports \in Seq(ReportRow)
      BY DEF TypeOK
    <2> QED
      BY <2>1 DEF ReportsOf
  <1>2. IsFiniteSet(1..Len(reports))
    BY <1>1, FS_Interval
  <1> QED
    BY <1>1, <1>2, FS_Subset, FS_CardinalityType

\* _allocate_report_version: one more than there are.
LEMMA NextVersion ==
  ASSUME TypeOK, VersionsAreGapless, NEW s \in Shifts
  PROVE  _allocate_report_version(s) = Cardinality(ReportsOf(s)) + 1
  <1>1. Cardinality(ReportsOf(s)) \in Nat
    BY ReportsOfFinite
  <1>2. {reports[r].version : r \in ReportsOf(s)} = 1..Cardinality(ReportsOf(s))
    BY DEF VersionsAreGapless
  <1> QED
    BY <1>1, <1>2, MaxOfInterval DEF _allocate_report_version

(***************************************************************************)
(* Types.                                                                  *)
(***************************************************************************)

\* An attempt that is replaced by one of the type.
LEMMA AttemptsType ==
  ASSUME TypeOK, NEW r \in DOMAIN reports, NEW a \in DOMAIN attempts[r], NEW x \in Attempt,
         Become(r, a, x)
  PROVE  /\ attempts' \in Seq(Seq(Attempt)) /\ Len(attempts') = Len(attempts)
         /\ \A k \in DOMAIN reports : Len(attempts'[k]) = Len(attempts[k])
  <1>1. /\ attempts \in Seq(Seq(Attempt)) /\ r \in 1..Len(attempts)
        /\ DOMAIN reports = 1..Len(attempts)
    BY DEF TypeOK
  <1>2. attempts[r] \in Seq(Attempt)
    BY <1>1
  <1>3. [attempts[r] EXCEPT ![a] = x] \in Seq(Attempt)
        /\ Len([attempts[r] EXCEPT ![a] = x]) = Len(attempts[r])
    BY <1>2
  <1> QED
    BY <1>1, <1>3 DEF Become

\* What a worker's steps start from.
LEMMA WorkerTypes ==
  ASSUME TypeOK, NEW r \in DOMAIN reports, NEW a \in DOMAIN attempts[r]
  PROVE  /\ attempts[r] \in Seq(Attempt) /\ attempts[r][a] \in Attempt /\ a \in Nat
         /\ a <= Len(attempts[r]) /\ r \in DOMAIN attempts /\ r \in DOMAIN bucket
         /\ reports[r] \in ReportRow /\ bucket[r] \in Stored
  <1>1. /\ attempts \in Seq(Seq(Attempt)) /\ reports \in Seq(ReportRow) /\ bucket \in Seq(Stored)
        /\ Len(bucket) = Len(reports) /\ Len(attempts) = Len(reports)
    BY DEF TypeOK
  <1>2. r \in DOMAIN attempts /\ r \in DOMAIN bucket
    BY <1>1
  <1>3. attempts[r] \in Seq(Attempt) /\ reports[r] \in ReportRow /\ bucket[r] \in Stored
    BY <1>1, <1>2
  <1> QED
    BY <1>2, <1>3

\* What reports are numbered by stays.
SameRows ==
    /\ Len(reports') = Len(reports)
    /\ \A k \in DOMAIN reports :
         reports'[k].shift = reports[k].shift /\ reports'[k].version = reports[k].version

\* A row that is replaced by one of the type.
LEMMA RowWritten ==
  ASSUME TypeOK, NEW r \in DOMAIN reports, NEW row \in ReportRow, Write(r, row),
         row.shift = reports[r].shift, row.version = reports[r].version
  PROVE  /\ reports' \in Seq(ReportRow) /\ SameRows
         /\ reports'[r] = row /\ \A k \in DOMAIN reports : k # r => reports'[k] = reports[k]
  <1>1. reports \in Seq(ReportRow)
    BY DEF TypeOK
  <1>2. /\ reports' \in Seq(ReportRow) /\ Len(reports') = Len(reports)
        /\ reports'[r] = row /\ \A k \in DOMAIN reports : k # r => reports'[k] = reports[k]
    BY <1>1 DEF Write
  <1> QED
    BY <1>2 DEF SameRows

\* A step of a worker, by what it writes.
LEMMA AttemptStep ==
  ASSUME TypeOK, NEW r \in DOMAIN reports, NEW a \in DOMAIN attempts[r], NEW x \in Attempt,
         Become(r, a, x),
         UNCHANGED <<shifts, incidents, req>>,
         ops' \in [requests : Nat, late : Nat, reads : Nat, misses : Nat],
         bucket' \in Seq(Stored), Len(bucket') = Len(bucket),
         reports' \in Seq(ReportRow), SameRows,
         \A k \in DOMAIN reports : reports'[k].owner <= Len(attempts[k])
  PROVE  TypeOK'
  <1>1. /\ attempts' \in Seq(Seq(Attempt)) /\ Len(attempts') = Len(attempts)
        /\ \A k \in DOMAIN reports : Len(attempts'[k]) = Len(attempts[k])
    BY AttemptsType
  <1>2. DOMAIN reports' = DOMAIN reports /\ Len(reports') = Len(reports)
    BY DEF TypeOK, SameRows
  <1>3. \A k \in DOMAIN reports' : reports'[k].owner <= Len(attempts'[k])
    BY <1>1, <1>2
  <1> QED
    BY <1>1, <1>2, <1>3 DEF TypeOK, ActiveShifts

\* Settling a job ends the attempt and releases the row.
LEMMA SettleStep ==
  ASSUME TypeOK, NEW r \in DOMAIN reports, NEW a \in DOMAIN attempts[r], NEW row \in ReportRow,
         Write(r, row), row.owner <= Len(attempts[r]),
         row.shift = reports[r].shift, row.version = reports[r].version,
         Stop(r, a) \/ Become(r, a, [Over EXCEPT !.pc = "failed"]),
         UNCHANGED <<shifts, incidents, req, bucket, ops>>
  PROVE  TypeOK' /\ SameRows
  <1>1. Over \in Attempt /\ [Over EXCEPT !.pc = "failed"] \in Attempt
    BY DEF Over, Attempt, NoArtifacts, NoArtifact, Artifacts, Artifact
  <1>2. /\ reports' \in Seq(ReportRow) /\ SameRows
        /\ reports'[r] = row /\ \A k \in DOMAIN reports : k # r => reports'[k] = reports[k]
    BY RowWritten
  <1>3. \A k \in DOMAIN reports : reports'[k].owner <= Len(attempts[k])
    BY <1>2 DEF TypeOK
  <1>4. ops' \in [requests : Nat, late : Nat, reads : Nat, misses : Nat] /\ bucket' \in Seq(Stored)
        /\ Len(bucket') = Len(bucket)
    BY DEF TypeOK
  <1> QED
    BY <1>1, <1>2, <1>3, <1>4, AttemptStep DEF Stop

\* A step that writes no row.
LEMMA QuietStep ==
  ASSUME TypeOK, NEW r \in DOMAIN reports, NEW a \in DOMAIN attempts[r], NEW x \in Attempt,
         Become(r, a, x), UNCHANGED <<shifts, incidents, req, reports>>,
         ops' \in [requests : Nat, late : Nat, reads : Nat, misses : Nat],
         bucket' \in Seq(Stored), Len(bucket') = Len(bucket)
  PROVE  TypeOK' /\ SameRows
  <1>1. SameRows
    BY DEF SameRows
  <1>2. reports' \in Seq(ReportRow) /\ \A k \in DOMAIN reports : reports'[k].owner <= Len(attempts[k])
    BY DEF TypeOK
  <1> QED
    BY <1>1, <1>2, AttemptStep

\* The steps of a worker keep the types, and how the reports are numbered.
LEMMA WorkerTypeOK ==
  ASSUME TypeOK, NEW r \in DOMAIN reports, NEW a \in DOMAIN attempts[r], WorkerStep(r, a)
  PROVE  TypeOK' /\ SameRows
  <1> DEFINE w == attempts[r][a]
  <1>1. /\ attempts[r] \in Seq(Attempt) /\ w \in Attempt /\ a \in Nat
        /\ a <= Len(attempts[r]) /\ r \in DOMAIN attempts /\ r \in DOMAIN bucket
        /\ reports[r] \in ReportRow /\ bucket[r] \in Stored
    BY WorkerTypes
  <1>2. /\ ops \in [requests : Nat, late : Nat, reads : Nat, misses : Nat] /\ bucket \in Seq(Stored)
        /\ reports[r].owner <= Len(attempts[r]) /\ Len(attempts[r]) \in Nat
    BY <1>1 DEF TypeOK
  <1>3. Over \in Attempt
    BY DEF Over, Attempt, NoArtifacts, NoArtifact, Artifacts, Artifact
  <1>4. CASE LoadSavedPlan(r, a)
    <2>1. [w EXCEPT !.pc = "planned", !.plan = bucket[r].plan] \in Attempt
      BY <1>1 DEF Attempt, Stored
    <2> QED
      BY <1>2, <1>4, <2>1, QuietStep DEF LoadSavedPlan, deskVars
  <1>5. ASSUME Analyze(r, a) \/ AnalyzeAgain(r, a)
        PROVE  TypeOK' /\ SameRows
    <2>1. [w EXCEPT !.pc = "answered", !.plan = a] \in Attempt
      BY <1>1 DEF Attempt
    <2>2. ops' \in [requests : Nat, late : Nat, reads : Nat, misses : Nat]
      BY <1>2, <1>5 DEF Analyze, AnalyzeAgain
    <2>3. /\ Become(r, a, [w EXCEPT !.pc = "answered", !.plan = a])
          /\ UNCHANGED <<shifts, incidents, req, reports, bucket>>
      BY <1>5 DEF Analyze, AnalyzeAgain, deskVars
    <2> QED
      BY <1>2, <2>1, <2>2, <2>3, QuietStep
  <1>7. CASE SavePlan(r, a)
    <2>1. [w EXCEPT !.pc = "planned"] \in Attempt
      BY <1>1 DEF Attempt
    <2>2. [bucket[r] EXCEPT !.plan = w.plan] \in Stored
      BY <1>1 DEF Attempt, Stored
    <2>3. bucket' \in Seq(Stored) /\ Len(bucket') = Len(bucket)
      BY <1>1, <1>2, <1>7, <2>2 DEF SavePlan
    <2> QED
      BY <1>2, <1>7, <2>1, <2>3, QuietStep DEF SavePlan, Goto, deskVars
  <1>8. CASE FindArtifacts(r, a)
    <2>1. [w EXCEPT !.pc = "rendered", !.found = bucket[r].artifacts] \in Attempt
      BY <1>1 DEF Attempt, Stored
    <2> QED
      BY <1>2, <1>8, <2>1, QuietStep DEF FindArtifacts, deskVars
  <1>9. ASSUME Render(r, a) \/ RenderAgain(r, a)
        PROVE  TypeOK' /\ SameRows
    <2>1. [w EXCEPT !.pc = "report"] \in Attempt
      BY <1>1 DEF Attempt, After
    <2>2. ops' \in [requests : Nat, late : Nat, reads : Nat, misses : Nat]
      BY <1>2, <1>9 DEF Render, RenderAgain
    <2>3. /\ Become(r, a, [w EXCEPT !.pc = "report"])
          /\ UNCHANGED <<shifts, incidents, req, reports, bucket>>
      BY <1>9 DEF Render, RenderAgain, Goto, deskVars
    <2> QED
      BY <1>2, <2>1, <2>2, <2>3, QuietStep
  <1>10. ASSUME NEW kind \in DOMAIN After, Upload(r, a, kind)
         PROVE  TypeOK' /\ SameRows
    <2> DEFINE new == [version |-> bucket[r].artifacts[kind].version + 1, plan |-> w.plan]
    <2>1. kind \in {"report", "document", "screenshots"}
      BY DEF After
    <2>2. new \in Artifact
      <3>1. bucket[r].artifacts \in Artifacts /\ w.plan \in Nat
        BY <1>1 DEF Stored, Attempt
      <3>2. bucket[r].artifacts[kind] \in Artifact
        BY <2>1, <3>1 DEF Artifacts
      <3> QED
        BY <3>1, <3>2 DEF Artifact
    <2>3. After[kind] \in {"rendered"} \cup DOMAIN After
      BY <2>1 DEF After
    <2>4. Become(r, a, [w EXCEPT !.pc = After[kind], !.found[kind] = new])
          /\ bucket' = [bucket EXCEPT ![r].artifacts[kind] = new]
      BY <1>10 DEF Upload
    <2> HIDE DEF new
    <2>5. [w.found EXCEPT ![kind] = new] \in Artifacts
          /\ [bucket[r].artifacts EXCEPT ![kind] = new] \in Artifacts
      BY <1>1, <2>1, <2>2 DEF Artifacts, Attempt, Stored
    <2>6. [w EXCEPT !.pc = After[kind], !.found[kind] = new] \in Attempt
      BY <1>1, <2>3, <2>5 DEF Attempt
    <2>7. [bucket[r] EXCEPT !.artifacts[kind] = new] \in Stored
      BY <1>1, <2>5 DEF Stored
    <2>8. bucket' \in Seq(Stored) /\ Len(bucket') = Len(bucket)
      BY <1>1, <1>2, <2>4, <2>7
    <2>9. UNCHANGED <<shifts, incidents, req, reports, ops>>
      BY <1>10 DEF Upload, deskVars
    <2> QED
      BY <1>2, <2>4, <2>6, <2>8, <2>9, QuietStep
  <1>11. CASE MarkCompleted(r, a)
    <2> DEFINE row == [reports[r] EXCEPT !.status = "COMPLETED", !.owner = 0,
                                         !.pinned = w.found, !.output = w.plan]
    <2>1. row \in ReportRow
      BY <1>1 DEF ReportRow, Attempt, Statuses
    <2>2. row.owner = 0 /\ row.shift = reports[r].shift /\ row.version = reports[r].version
      BY <1>1 DEF ReportRow
    <2>3. Write(r, row) /\ Stop(r, a) /\ UNCHANGED <<shifts, incidents, req, bucket, ops>>
      BY <1>11 DEF MarkCompleted, deskVars
    <2> HIDE DEF row
    <2> QED
      BY <1>2, <2>1, <2>2, <2>3, SettleStep
  <1>12. ASSUME SettleTerminal(r, a) \/ SettleRetry(r, a)
         PROVE  TypeOK' /\ SameRows
    <2>1. Failed(r, a) \in ReportRow
      BY <1>1 DEF Failed, ReportRow, Statuses
    <2>2. /\ Failed(r, a).owner <= Len(attempts[r])
          /\ Failed(r, a).shift = reports[r].shift /\ Failed(r, a).version = reports[r].version
      BY <1>1, <1>2 DEF Failed, ReportRow
    <2>3. /\ Write(r, Failed(r, a)) /\ UNCHANGED <<shifts, incidents, req, bucket, ops>>
          /\ Stop(r, a) \/ Become(r, a, [Over EXCEPT !.pc = "failed"])
      BY <1>12 DEF SettleTerminal, SettleRetry, deskVars
    <2>4. PICK row : row = Failed(r, a)
      OBVIOUS
    <2> QED
      BY <2>1, <2>2, <2>3, <2>4, SettleStep
  <1>13. CASE MarkRetrying(r, a)
    <2> DEFINE row == [reports[r] EXCEPT !.status = "RETRYING", !.owner = 0]
    <2>1. row \in ReportRow
      BY <1>1 DEF ReportRow, Statuses
    <2>2. row.owner = 0 /\ row.shift = reports[r].shift /\ row.version = reports[r].version
      BY <1>1 DEF ReportRow
    <2>3. Write(r, row) /\ Stop(r, a) /\ UNCHANGED <<shifts, incidents, req, bucket, ops>>
      BY <1>13 DEF MarkRetrying, deskVars
    <2> HIDE DEF row
    <2> QED
      BY <1>2, <2>1, <2>2, <2>3, SettleStep
  <1>14. CASE CrashWorker(r, a)
    BY <1>2, <1>3, <1>14, QuietStep DEF CrashWorker, Stop, deskVars
  <1> QED
    BY <1>4, <1>5, <1>7, <1>8, <1>9, <1>10, <1>11, <1>12, <1>13, <1>14 DEF WorkerStep

\* claim_job keeps the types, and how the reports are numbered.
LEMMA ClaimTypeOK ==
  ASSUME TypeOK, NEW r \in DOMAIN reports, Claim(r)
  PROVE  TypeOK' /\ SameRows
  <1> DEFINE new == [pc |-> "claimed", plan |-> 0, found |-> NoArtifacts]
             row == [reports[r] EXCEPT !.status = "PROCESSING", !.owner = Len(attempts[r]) + 1]
  <1>1. /\ attempts \in Seq(Seq(Attempt)) /\ reports \in Seq(ReportRow)
        /\ Len(attempts) = Len(reports) /\ Len(bucket) = Len(reports)
        /\ \A k \in DOMAIN reports : reports[k].owner <= Len(attempts[k])
        /\ bucket \in Seq(Stored) /\ ops \in [requests : Nat, late : Nat, reads : Nat, misses : Nat]
    BY DEF TypeOK
  <1>2. r \in DOMAIN attempts /\ attempts[r] \in Seq(Attempt) /\ reports[r] \in ReportRow
    BY <1>1
  <1>3. new \in Attempt
    BY DEF Attempt, NoArtifacts, NoArtifact, Artifacts, Artifact
  <1>4. row \in ReportRow /\ row.shift = reports[r].shift /\ row.version = reports[r].version
        /\ row.owner = Len(attempts[r]) + 1
    <2>1. Len(attempts[r]) + 1 \in Nat
      BY <1>2
    <2> QED
      BY <1>2, <2>1 DEF ReportRow, Statuses
  <1>5. Write(r, row) /\ UNCHANGED <<shifts, incidents, req, bucket>>
    BY DEF Claim, deskVars
  <1>6. ops' \in [requests : Nat, late : Nat, reads : Nat, misses : Nat]
    <2>1. ops' = [ops EXCEPT !.late = @ + 1] \/ ops' = ops
      BY DEF Claim
    <2> QED
      BY <1>1, <2>1
  <1>7. /\ attempts' \in Seq(Seq(Attempt)) /\ Len(attempts') = Len(attempts)
        /\ Len(attempts'[r]) = Len(attempts[r]) + 1
        /\ \A k \in DOMAIN reports : k # r => attempts'[k] = attempts[k]
    <2> DEFINE more == Append(attempts[r], new)
    <2>1. attempts' = [attempts EXCEPT ![r] = more]
      BY DEF Claim
    <2>2. more \in Seq(Attempt) /\ Len(more) = Len(attempts[r]) + 1
      <3> HIDE DEF new
      <3> QED
        BY <1>2, <1>3
    <2> HIDE DEF more
    <2>3. DOMAIN attempts = DOMAIN reports
      BY <1>1
    <2>4. attempts' \in Seq(Seq(Attempt)) /\ Len(attempts') = Len(attempts)
      BY <1>1, <1>2, <2>1, <2>2
    <2>5. attempts'[r] = more /\ \A k \in DOMAIN attempts : k # r => attempts'[k] = attempts[k]
      BY <1>1, <1>2, <2>1
    <2> QED
      BY <2>2, <2>3, <2>4, <2>5
  <1> HIDE DEF new, row
  <1>9. /\ reports' \in Seq(ReportRow) /\ SameRows
        /\ reports'[r] = row /\ \A k \in DOMAIN reports : k # r => reports'[k] = reports[k]
    BY <1>4, <1>5, RowWritten
  <1>10. Len(reports') = Len(reports) /\ DOMAIN reports' = DOMAIN reports
    BY <1>1, <1>9 DEF SameRows
  <1>11. \A k \in DOMAIN reports' : reports'[k].owner <= Len(attempts'[k])
    <2> SUFFICES ASSUME NEW k \in DOMAIN reports
                 PROVE  reports'[k].owner <= Len(attempts'[k])
      BY <1>10
    <2>1. CASE k = r
      BY <1>2, <1>4, <1>7, <1>9, <2>1
    <2>2. CASE k # r
      BY <1>1, <1>7, <1>9, <2>2
    <2> QED
      BY <2>1, <2>2
  <1>12. TypeOK'
    <2>1. bucket' = bucket /\ Len(attempts') = Len(reports') /\ Len(bucket') = Len(reports')
      BY <1>1, <1>5, <1>7, <1>10
    <2> QED
      BY <1>5, <1>6, <1>7, <1>9, <1>11, <2>1 DEF TypeOK, ActiveShifts
  <1> QED
    BY <1>9, <1>12

\* A request thread whose transaction is replaced by one of the type.
Transaction == {Idle} \cup Opening \cup Creation \cup Insertion \cup Generation

LEMMA ReqType ==
  ASSUME TypeOK, NEW q \in Requests, NEW x \in Transaction, req' = [req EXCEPT ![q] = x]
  PROVE  /\ req' \in [Requests -> Transaction] /\ req'[q] = x
         /\ \A p \in Requests : p # q => req'[p] = req[p]
  BY DEF TypeOK, Transaction

\* A request changes the desk's variables and nothing of the workers'.
LEMMA DeskStepTypeOK ==
  ASSUME TypeOK, UNCHANGED <<reports, bucket, attempts>>,
         shifts' \in [Shifts -> {"absent", "active", "ended"}],
         incidents' \in [Incidents -> [shift : Shifts \cup {NoShift}, number : Nat]],
         req' \in [Requests -> Transaction],
         ops' \in [requests : Nat, late : Nat, reads : Nat, misses : Nat],
         \A s, t \in ActiveShifts' : s = t
  PROVE  TypeOK'
  BY DEF TypeOK, Transaction

\* One transaction is replaced by another, and nothing is committed.
LEMMA ReqStepTypeOK ==
  ASSUME TypeOK, NEW q \in Requests, NEW x \in Transaction, req' = [req EXCEPT ![q] = x],
         ops' \in [requests : Nat, late : Nat, reads : Nat, misses : Nat],
         UNCHANGED <<shifts, incidents, reports, bucket, attempts>>
  PROVE  TypeOK'
  <1>1. req' \in [Requests -> Transaction]
    BY ReqType
  <1> QED
    BY <1>1 DEF TypeOK, Transaction, ActiveShifts

\* Only a transaction that neither numbers nor locks is touched.
Unlocking(x) == x.op \notin {"frozen", "uploaded", "inserted"}

\* Ending a transaction, or beginning one that holds no lock, disturbs nothing.
LEMMA UnlockedKeepsInv ==
  ASSUME DeskInv, NEW q \in Requests, NEW x \in Transaction, Unlocking(x),
         req' = [req EXCEPT ![q] = x], UNCHANGED <<incidents, reports>>
  PROVE  LocksExclude' /\ VersionsAreGapless' /\ DisplayIdsDoNotCollide' /\ FrozenIsComplete'
  <1>1. /\ req'[q] = x /\ x.op \notin {"frozen", "uploaded", "inserted"}
        /\ \A p \in Requests : p # q => req'[p] = req[p]
    BY ReqType DEF DeskInv, Unlocking
  <1>2. LocksExclude'
    BY <1>1 DEF DeskInv, LocksExclude
  <1>3. VersionsAreGapless'
    <2>1. \A s : ReportsOf(s)' = ReportsOf(s)
      BY DEF ReportsOf
    <2> QED
      BY <1>1, <2>1 DEF DeskInv, VersionsAreGapless
  <1>4. DisplayIdsDoNotCollide'
    BY <1>1 DEF DeskInv, DisplayIdsDoNotCollide
  <1>5. FrozenIsComplete'
    <2>1. \A s : IncidentsOf(s)' = IncidentsOf(s)
      BY DEF IncidentsOf, Exists
    <2> QED
      BY <1>1, <2>1 DEF DeskInv, FrozenIsComplete
  <1> QED
    BY <1>2, <1>3, <1>4, <1>5

\* What the workers do leaves the desk's promises alone.
LEMMA WorkersKeepInv ==
  ASSUME DeskInv, SameRows, UNCHANGED <<shifts, incidents, req>>, TypeOK'
  PROVE  DeskInv'
  <1>1. DOMAIN reports' = DOMAIN reports
    BY DEF DeskInv, TypeOK, SameRows
  <1>2. \A s : ReportsOf(s)' = ReportsOf(s)
    BY <1>1 DEF ReportsOf, SameRows
  <1>3. \A s : {reports'[r].version : r \in ReportsOf(s)} = {reports[r].version : r \in ReportsOf(s)}
    BY DEF ReportsOf, SameRows
  <1>4. VersionsAreGapless'
    BY <1>2, <1>3 DEF DeskInv, VersionsAreGapless
  <1>5. LocksExclude' /\ DisplayIdsDoNotCollide'
    BY DEF DeskInv, LocksExclude, DisplayIdsDoNotCollide
  <1>6. FrozenIsComplete'
    BY DEF DeskInv, FrozenIsComplete, IncidentsOf, Exists
  <1> QED
    BY <1>4, <1>5, <1>6 DEF DeskInv

\* The counter of requests stays a number.
LEMMA OpsCount ==
  ASSUME TypeOK, ops' = [ops EXCEPT !.requests = @ + 1]
  PROVE  ops' \in [requests : Nat, late : Nat, reads : Nat, misses : Nat]
  <1>1. ops \in [requests : Nat, late : Nat, reads : Nat, misses : Nat]
    BY DEF TypeOK
  <1> QED
    BY <1>1

\* open_shift's read
LEMMA OpenShiftInv ==
  ASSUME DeskInv, NEW q \in Requests, NEW s \in Shifts, OpenShift(q, s)
  PROVE  DeskInv'
  <1>1. PICK current \in Shifts \cup {NoShift} :
          Begin(q, [op |-> "open", shift |-> s, current |-> current])
    BY DEF OpenShift, ActiveShifts
  <1> DEFINE x == [op |-> "open", shift |-> s, current |-> current]
  <1>2. x \in Transaction /\ Unlocking(x)
    BY DEF Transaction, Opening, Unlocking
  <1>3. req' = [req EXCEPT ![q] = x] /\ ops' = [ops EXCEPT !.requests = @ + 1]
        /\ UNCHANGED <<shifts, incidents, reports, bucket, attempts>>
    BY <1>1 DEF Begin, OpenShift
  <1> HIDE DEF x
  <1>4. TypeOK'
    BY <1>2, <1>3, OpsCount, ReqStepTypeOK DEF DeskInv
  <1> QED
    BY <1>2, <1>3, <1>4, UnlockedKeepsInv DEF DeskInv

\* A transaction is over.
LEMMA IdleIsUnlocked == Idle \in Transaction /\ Unlocking(Idle)
  BY DEF Transaction, Idle, Unlocking

\* open_shift's flush: the index admits it only when the shift that it ends is the
\* only active one.
LEMMA CommitOpenShiftInv ==
  ASSUME DeskInv, NEW q \in Requests, CommitOpenShift(q)
  PROVE  DeskInv'
  <1>1. req' = [req EXCEPT ![q] = Idle] /\ UNCHANGED <<incidents, reports, bucket, attempts, ops>>
    BY DEF CommitOpenShift, End
  <1>2. req' \in [Requests -> Transaction]
    BY <1>1, IdleIsUnlocked, ReqType DEF DeskInv
  <1>3. /\ shifts' = [s \in Shifts |-> CASE s = req[q].shift -> "active"
                                         [] s = req[q].current -> "ended"
                                         [] OTHER -> shifts[s]]
        /\ ActiveShifts \subseteq {req[q].current}
    BY DEF CommitOpenShift, MayOpen
  <1>4. shifts \in [Shifts -> {"absent", "active", "ended"}]
    BY DEF DeskInv, TypeOK
  <1>5. shifts' \in [Shifts -> {"absent", "active", "ended"}]
    BY <1>3, <1>4
  <1>6. \A s \in ActiveShifts' : s = req[q].shift
    BY <1>3, <1>4 DEF ActiveShifts
  <1>7. TypeOK'
    BY <1>1, <1>2, <1>5, <1>6, DeskStepTypeOK DEF DeskInv, TypeOK
  <1> QED
    BY <1>1, <1>7, IdleIsUnlocked, UnlockedKeepsInv DEF DeskInv

\* A transaction that is rolled back.
LEMMA RollbackInv ==
  ASSUME DeskInv, NEW q \in Requests, OpenConflict(q) \/ GenerateFails(q)
  PROVE  DeskInv'
  <1>1. req' = [req EXCEPT ![q] = Idle]
        /\ UNCHANGED <<shifts, incidents, reports, bucket, attempts, ops>>
    BY DEF OpenConflict, GenerateFails, End
  <1>2. ops' \in [requests : Nat, late : Nat, reads : Nat, misses : Nat]
    BY <1>1 DEF DeskInv, TypeOK
  <1>3. TypeOK'
    BY <1>1, <1>2, IdleIsUnlocked, ReqStepTypeOK DEF DeskInv
  <1> QED
    BY <1>1, <1>3, IdleIsUnlocked, UnlockedKeepsInv DEF DeskInv

\* close_shift
LEMMA CloseShiftInv ==
  ASSUME DeskInv, NEW s \in Shifts, CloseShift(s)
  PROVE  DeskInv'
  <1>1. shifts' = [shifts EXCEPT ![s] = "ended"] /\ ops' = [ops EXCEPT !.requests = @ + 1]
        /\ UNCHANGED <<incidents, reports, bucket, attempts, req>>
    BY DEF CloseShift
  <1>2. shifts \in [Shifts -> {"absent", "active", "ended"}] /\ \A t, u \in ActiveShifts : t = u
    BY DEF DeskInv, TypeOK
  <1>3. shifts' \in [Shifts -> {"absent", "active", "ended"}]
    BY <1>1, <1>2
  <1>4. ActiveShifts' \subseteq ActiveShifts
    BY <1>1, <1>2 DEF ActiveShifts
  <1>5. TypeOK'
    BY <1>1, <1>2, <1>3, <1>4, OpsCount, DeskStepTypeOK DEF DeskInv, TypeOK, Transaction
  <1>6. LocksExclude' /\ DisplayIdsDoNotCollide'
    BY <1>1 DEF DeskInv, LocksExclude, DisplayIdsDoNotCollide
  <1>7. VersionsAreGapless'
    BY <1>1 DEF DeskInv, VersionsAreGapless, ReportsOf
  <1>8. FrozenIsComplete'
    BY <1>1 DEF DeskInv, FrozenIsComplete, IncidentsOf, Exists
  <1> QED
    BY <1>5, <1>6, <1>7, <1>8 DEF DeskInv

\* create_incident's reads
LEMMA CreateIncidentInv ==
  ASSUME DeskInv, NEW q \in Requests, NEW i \in Incidents, CreateIncident(q, i)
  PROVE  DeskInv'
  <1>1. PICK s \in Shifts \cup {NoShift} :
          Begin(q, [op |-> "create", incident |-> i, shift |-> s])
    BY DEF CreateIncident, ActiveShifts
  <1> DEFINE x == [op |-> "create", incident |-> i, shift |-> s]
  <1>2. x \in Transaction /\ Unlocking(x)
    BY DEF Transaction, Creation, Unlocking
  <1>3. req' = [req EXCEPT ![q] = x] /\ ops' = [ops EXCEPT !.requests = @ + 1]
        /\ UNCHANGED <<shifts, incidents, reports, bucket, attempts>>
    BY <1>1 DEF Begin, CreateIncident
  <1> HIDE DEF x
  <1>4. TypeOK'
    BY <1>2, <1>3, OpsCount, ReqStepTypeOK DEF DeskInv
  <1> QED
    BY <1>2, <1>3, <1>4, UnlockedKeepsInv DEF DeskInv

\* The INSERT: the advisory lock makes it the only one, and the shift row's lock
\* keeps it out of a shift that is being frozen.
LEMMA InsertIncidentInv ==
  ASSUME DeskInv, NEW q \in Requests, InsertIncident(q)
  PROVE  DeskInv'
  <1> DEFINE n == _next_display_id
             x == [op |-> "inserted", incident |-> req[q].incident,
                   shift |-> req[q].shift, number |-> n]
  <1>1. n \in Nat \ {0} /\ \A i \in Incidents : incidents[i].number < n /\ incidents[i].number \in Nat
    BY NextDisplayId DEF DeskInv, TypeOK
  <1> HIDE DEF n
  <1>2. req \in [Requests -> Transaction] /\ req[q].op = "create"
    BY DEF DeskInv, TypeOK, Transaction, InsertIncident
  <1>3. req[q] \in Creation
    BY <1>2 DEF Transaction, Idle, Opening, Creation, Insertion, Generation
  <1>4. x \in Transaction
    BY <1>1, <1>3 DEF Transaction, Creation, Insertion
  <1>5. req' = [req EXCEPT ![q] = x] /\ UNCHANGED <<shifts, incidents, reports, bucket, attempts, ops>>
    BY <1>2 DEF InsertIncident, n
  <1>6. ops' \in [requests : Nat, late : Nat, reads : Nat, misses : Nat]
    BY <1>5 DEF DeskInv, TypeOK
  <1>7. x.op = "inserted" /\ x.shift = req[q].shift /\ x.number = n
    OBVIOUS
  <1> HIDE DEF x
  <1>8. TypeOK'
    BY <1>4, <1>5, <1>6, ReqStepTypeOK DEF DeskInv
  <1>9. req'[q] = x /\ \A p \in Requests : p # q => req'[p] = req[p]
    BY <1>4, <1>5, ReqType DEF DeskInv
  <1>10. /\ \A p \in Requests : req[p].op # "inserted"
         /\ \A p \in Requests : req[p].op \in {"frozen", "uploaded"} => req[p].shift # req[q].shift
    BY DEF InsertIncident, DisplayIdLock, LockedForUpdate
  <1>11. LocksExclude'
    BY <1>7, <1>9, <1>10 DEF DeskInv, LocksExclude
  <1>12. VersionsAreGapless'
    <2>1. \A s : ReportsOf(s)' = ReportsOf(s)
      BY <1>5 DEF ReportsOf
    <2> QED
      BY <1>5, <1>7, <1>9, <2>1 DEF DeskInv, VersionsAreGapless
  <1>13. DisplayIdsDoNotCollide'
    BY <1>1, <1>5, <1>7, <1>9, <1>10 DEF DisplayIdsDoNotCollide
  <1>14. FrozenIsComplete'
    <2>1. \A s : IncidentsOf(s)' = IncidentsOf(s)
      BY <1>5 DEF IncidentsOf, Exists
    <2> QED
      BY <1>7, <1>9, <2>1 DEF DeskInv, FrozenIsComplete
  <1> QED
    BY <1>8, <1>11, <1>12, <1>13, <1>14 DEF DeskInv

\* The COMMIT of an incident: no snapshot of its shift is open.
LEMMA CommitIncidentInv ==
  ASSUME DeskInv, NEW q \in Requests, CommitIncident(q)
  PROVE  DeskInv'
  <1> DEFINE i == req[q].incident
             row == [shift |-> req[q].shift, number |-> req[q].number]
  <1>1. req \in [Requests -> Transaction] /\ req[q].op = "inserted"
        /\ incidents \in [Incidents -> [shift : Shifts \cup {NoShift}, number : Nat]]
    BY DEF DeskInv, TypeOK, Transaction, CommitIncident
  <1>2. req[q] \in Insertion
    BY <1>1 DEF Transaction, Idle, Opening, Creation, Insertion, Generation
  <1>3. i \in Incidents /\ row \in [shift : Shifts \cup {NoShift}, number : Nat]
    BY <1>2 DEF Insertion
  <1>4. incidents' = [incidents EXCEPT ![i] = row] /\ req' = [req EXCEPT ![q] = Idle]
        /\ UNCHANGED <<shifts, reports, bucket, attempts, ops>>
    BY DEF CommitIncident, End
  <1>5. row.shift = req[q].shift
    OBVIOUS
  <1> HIDE DEF i, row
  <1>6. /\ incidents' \in [Incidents -> [shift : Shifts \cup {NoShift}, number : Nat]]
        /\ incidents'[i] = row
        /\ \A k \in Incidents : k # i => incidents'[k] = incidents[k]
    BY <1>1, <1>3, <1>4
  <1>7. /\ req' \in [Requests -> Transaction] /\ req'[q] = Idle
        /\ \A p \in Requests : p # q => req'[p] = req[p]
    BY <1>4, IdleIsUnlocked, ReqType DEF DeskInv
  <1>8. TypeOK'
    BY <1>4, <1>6, <1>7, DeskStepTypeOK DEF DeskInv, TypeOK, ActiveShifts
  <1>9. Idle.op \notin {"frozen", "uploaded", "inserted"}
    BY DEF Idle
  <1>10. LocksExclude'
    BY <1>7, <1>9 DEF DeskInv, LocksExclude
  <1>11. VersionsAreGapless'
    <2>1. \A s : ReportsOf(s)' = ReportsOf(s)
      BY <1>4 DEF ReportsOf
    <2> QED
      BY <1>4, <1>7, <1>9, <2>1 DEF DeskInv, VersionsAreGapless
  <1>12. \A p \in Requests : req'[p].op # "inserted"
    BY <1>1, <1>7, <1>9 DEF DeskInv, LocksExclude
  <1>13. DisplayIdsDoNotCollide'
    BY <1>12 DEF DisplayIdsDoNotCollide
  <1>14. FrozenIsComplete'
    <2> SUFFICES ASSUME NEW p \in Requests, req'[p].op \in {"frozen", "uploaded"},
                        NEW k \in IncidentsOf(req[p].shift)'
                 PROVE  k \in req'[p].frozen
      BY DEF FrozenIsComplete
    <2>1. p # q /\ req'[p] = req[p]
      BY <1>7, <1>9
    <2>2. req[p].shift # row.shift
      BY <1>1, <1>5, <2>1 DEF DeskInv, LocksExclude
    <2>3. k \in Incidents /\ incidents'[k] # NoRow /\ incidents'[k].shift = req[p].shift
      BY <2>1 DEF IncidentsOf, Exists
    <2>4. k # i
      BY <1>6, <2>2, <2>3
    <2>5. k \in IncidentsOf(req[p].shift)
      BY <1>6, <2>3, <2>4 DEF IncidentsOf, Exists
    <2> QED
      BY <2>1, <2>5 DEF DeskInv, FrozenIsComplete
  <1> QED
    BY <1>8, <1>10, <1>11, <1>13, <1>14 DEF DeskInv

\* delete_incident
LEMMA DeleteIncidentInv ==
  ASSUME DeskInv, NEW i \in Incidents, DeleteIncident(i)
  PROVE  DeskInv'
  <1>1. incidents' = [incidents EXCEPT ![i] = NoRow] /\ ops' = [ops EXCEPT !.requests = @ + 1]
        /\ UNCHANGED <<shifts, reports, bucket, attempts, req>>
    BY DEF DeleteIncident
  <1>2. incidents \in [Incidents -> [shift : Shifts \cup {NoShift}, number : Nat]]
        /\ req \in [Requests -> Transaction] /\ shifts \in [Shifts -> {"absent", "active", "ended"}]
    BY DEF DeskInv, TypeOK, Transaction
  <1>3. incidents' \in [Incidents -> [shift : Shifts \cup {NoShift}, number : Nat]]
        /\ incidents'[i] = NoRow /\ \A k \in Incidents : k # i => incidents'[k] = incidents[k]
    BY <1>1, <1>2 DEF NoRow
  <1>4. TypeOK'
    BY <1>1, <1>2, <1>3, OpsCount, DeskStepTypeOK DEF DeskInv, TypeOK, ActiveShifts
  <1>5. LocksExclude'
    BY <1>1 DEF DeskInv, LocksExclude
  <1>6. VersionsAreGapless'
    <2>1. \A s : ReportsOf(s)' = ReportsOf(s)
      BY <1>1 DEF ReportsOf
    <2> QED
      BY <1>1, <2>1 DEF DeskInv, VersionsAreGapless
  <1>7. \A p \in Requests : req[p].op = "inserted" => req[p].number \in Nat \ {0}
    BY <1>2 DEF Transaction, Idle, Opening, Creation, Insertion, Generation
  <1>8. NoRow.number = 0
    BY DEF NoRow
  <1>9. DisplayIdsDoNotCollide'
    BY <1>1, <1>3, <1>7, <1>8 DEF DeskInv, DisplayIdsDoNotCollide
  <1>10. FrozenIsComplete'
    <2>1. \A s : IncidentsOf(s)' \subseteq IncidentsOf(s)
      BY <1>3 DEF IncidentsOf, Exists
    <2> QED
      BY <1>1, <2>1 DEF DeskInv, FrozenIsComplete
  <1> QED
    BY <1>4, <1>5, <1>6, <1>9, <1>10 DEF DeskInv

\* generate_report's reads, under the lock of the shift row.
LEMMA GenerateReportInv ==
  ASSUME DeskInv, NEW q \in Requests, NEW s \in Shifts, GenerateReport(q, s)
  PROVE  DeskInv'
  <1> DEFINE n == _allocate_report_version(s)
             x == [op |-> "frozen", shift |-> s, version |-> n, frozen |-> IncidentsOf(s)]
  <1>1. n = Cardinality(ReportsOf(s)) + 1 /\ Cardinality(ReportsOf(s)) \in Nat
    BY NextVersion, ReportsOfFinite DEF DeskInv
  <1>2. req' = [req EXCEPT ![q] = x] /\ ops' = [ops EXCEPT !.requests = @ + 1]
        /\ UNCHANGED <<shifts, incidents, reports, bucket, attempts>>
    BY DEF GenerateReport, Begin, _build_snapshot
  <1> HIDE DEF n
  <1>3. IncidentsOf(s) \in SUBSET Incidents
    BY DEF IncidentsOf
  <1>4. x \in Transaction
    BY <1>1, <1>3 DEF Transaction, Generation
  <1>5. x.op = "frozen" /\ x.shift = s /\ x.version = n /\ x.frozen = IncidentsOf(s)
    OBVIOUS
  <1> HIDE DEF x
  <1>6. TypeOK'
    BY <1>2, <1>4, OpsCount, ReqStepTypeOK DEF DeskInv
  <1>7. req'[q] = x /\ \A p \in Requests : p # q => req'[p] = req[p]
    BY <1>2, <1>4, ReqType DEF DeskInv
  <1>8. \A p \in Requests : req[p].op \in {"frozen", "uploaded", "inserted"} => req[p].shift # s
    BY DEF GenerateReport, LockedForUpdate, LockedForKeyShare
  <1>9. LocksExclude'
    BY <1>5, <1>7, <1>8 DEF DeskInv, LocksExclude
  <1>10. VersionsAreGapless'
    <2>1. \A t : ReportsOf(t)' = ReportsOf(t)
      BY <1>2 DEF ReportsOf
    <2> QED
      BY <1>1, <1>2, <1>5, <1>7, <2>1 DEF DeskInv, VersionsAreGapless
  <1>11. DisplayIdsDoNotCollide'
    BY <1>2, <1>5, <1>7 DEF DeskInv, DisplayIdsDoNotCollide
  <1>12. FrozenIsComplete'
    <2>1. \A t : IncidentsOf(t)' = IncidentsOf(t)
      BY <1>2 DEF IncidentsOf, Exists
    <2> QED
      BY <1>5, <1>7, <2>1 DEF DeskInv, FrozenIsComplete
  <1> QED
    BY <1>6, <1>9, <1>10, <1>11, <1>12 DEF DeskInv

\* A transaction that holds the shift row FOR UPDATE is a Generation.
LEMMA FrozenType ==
  ASSUME TypeOK, NEW q \in Requests, req[q].op \in {"frozen", "uploaded"}
  PROVE  req[q] \in Generation
  <1>1. req[q] \in Transaction
    BY DEF TypeOK, Transaction
  <1> QED
    BY <1>1 DEF Transaction, Idle, Opening, Creation, Insertion, Generation

\* The snapshot's upload keeps what the transaction read.
LEMMA UploadSnapshotInv ==
  ASSUME DeskInv, NEW q \in Requests, UploadSnapshot(q)
  PROVE  DeskInv'
  <1> DEFINE x == [req[q] EXCEPT !.op = "uploaded"]
  <1>1. req[q].op = "frozen" /\ req[q] \in Generation
    BY FrozenType DEF DeskInv, UploadSnapshot
  <1>2. req' = [req EXCEPT ![q] = x] /\ UNCHANGED <<shifts, incidents, reports, bucket, attempts, ops>>
    BY DEF UploadSnapshot
  <1>3. x \in Transaction
    BY <1>1 DEF Transaction, Generation
  <1>4. /\ x.op = "uploaded" /\ x.shift = req[q].shift
        /\ x.version = req[q].version /\ x.frozen = req[q].frozen
    BY <1>1 DEF Generation
  <1> HIDE DEF x
  <1>5. ops' \in [requests : Nat, late : Nat, reads : Nat, misses : Nat]
    BY <1>2 DEF DeskInv, TypeOK
  <1>6. TypeOK'
    BY <1>2, <1>3, <1>5, ReqStepTypeOK DEF DeskInv
  <1>7. req'[q] = x /\ \A p \in Requests : p # q => req'[p] = req[p]
    BY <1>2, <1>3, ReqType DEF DeskInv
  <1>8. LocksExclude'
    BY <1>1, <1>4, <1>7 DEF DeskInv, LocksExclude
  <1>9. VersionsAreGapless'
    <2>1. \A t : ReportsOf(t)' = ReportsOf(t)
      BY <1>2 DEF ReportsOf
    <2> QED
      BY <1>1, <1>2, <1>4, <1>7, <2>1 DEF DeskInv, VersionsAreGapless
  <1>10. DisplayIdsDoNotCollide'
    BY <1>2, <1>4, <1>7 DEF DeskInv, DisplayIdsDoNotCollide
  <1>11. FrozenIsComplete'
    <2>1. \A t : IncidentsOf(t)' = IncidentsOf(t)
      BY <1>2 DEF IncidentsOf, Exists
    <2> QED
      BY <1>1, <1>4, <1>7, <2>1 DEF DeskInv, FrozenIsComplete
  <1> QED
    BY <1>6, <1>8, <1>9, <1>10, <1>11 DEF DeskInv

\* generate_report's COMMIT: the report gets the number after the last, and no one
\* else who has read that number for the shift is under way.
LEMMA CommitReportInv ==
  ASSUME DeskInv, NEW q \in Requests, CommitReport(q)
  PROVE  DeskInv'
  <1> DEFINE s0 == req[q].shift
             row == [shift |-> req[q].shift, version |-> req[q].version, frozen |-> req[q].frozen,
                     status |-> "QUEUED", owner |-> 0, pinned |-> NoArtifacts, output |-> 0]
             new == Len(reports) + 1
  <1>1. req[q].op = "uploaded" /\ req[q] \in Generation
    BY FrozenType DEF DeskInv, CommitReport
  <1>2. /\ reports' = Append(reports, row) /\ bucket' = Append(bucket, Empty)
        /\ attempts' = Append(attempts, <<>>) /\ req' = [req EXCEPT ![q] = Idle]
        /\ UNCHANGED <<shifts, incidents, ops>>
    BY DEF CommitReport, End
  <1>3. row \in ReportRow /\ Empty \in Stored /\ s0 \in Shifts
    BY <1>1 DEF Generation, ReportRow, Statuses, Empty, Stored, NoArtifacts, NoArtifact,
                Artifacts, Artifact
  <1>4. row.shift = s0 /\ row.version = req[q].version /\ row.owner = 0
    OBVIOUS
  <1>5. /\ reports \in Seq(ReportRow) /\ bucket \in Seq(Stored) /\ attempts \in Seq(Seq(Attempt))
        /\ Len(bucket) = Len(reports) /\ Len(attempts) = Len(reports)
        /\ \A r \in DOMAIN reports : reports[r].owner <= Len(attempts[r])
    BY DEF DeskInv, TypeOK
  <1> HIDE DEF row, s0
  <1>6. /\ reports' \in Seq(ReportRow) /\ Len(reports') = new /\ new \in Nat
        /\ DOMAIN reports' = DOMAIN reports \cup {new} /\ new \notin DOMAIN reports
        /\ reports'[new] = row /\ \A r \in DOMAIN reports : reports'[r] = reports[r]
    BY <1>2, <1>3, <1>5
  <1>7. bucket' \in Seq(Stored) /\ Len(bucket') = new
    BY <1>2, <1>3, <1>5
  <1>8. /\ attempts' \in Seq(Seq(Attempt)) /\ Len(attempts') = new /\ attempts'[new] = <<>>
        /\ \A r \in DOMAIN reports : attempts'[r] = attempts[r]
    BY <1>2, <1>5
  <1> HIDE DEF new
  <1>9. \A r \in DOMAIN reports' : reports'[r].owner <= Len(attempts'[r])
    <2> SUFFICES ASSUME NEW r \in DOMAIN reports'
                 PROVE  reports'[r].owner <= Len(attempts'[r])
      OBVIOUS
    <2>1. CASE r = new
      BY <1>4, <1>6, <1>8, <2>1
    <2>2. CASE r \in DOMAIN reports
      BY <1>5, <1>6, <1>8, <2>2
    <2> QED
      BY <1>6, <2>1, <2>2
  <1>10. /\ req' \in [Requests -> Transaction] /\ req'[q] = Idle
         /\ \A p \in Requests : p # q => req'[p] = req[p]
    BY <1>2, IdleIsUnlocked, ReqType DEF DeskInv
  <1>11. TypeOK'
    BY <1>2, <1>6, <1>7, <1>8, <1>9, <1>10 DEF DeskInv, TypeOK, Transaction, ActiveShifts
  <1>12. Idle.op \notin {"frozen", "uploaded", "inserted"}
    BY DEF Idle
  <1>13. LocksExclude'
    BY <1>10, <1>12 DEF DeskInv, LocksExclude
  <1>14. DisplayIdsDoNotCollide'
    BY <1>2, <1>10, <1>12 DEF DeskInv, DisplayIdsDoNotCollide
  <1>15. FrozenIsComplete'
    <2>1. \A t : IncidentsOf(t)' = IncidentsOf(t)
      BY <1>2 DEF IncidentsOf, Exists
    <2> QED
      BY <1>10, <1>12, <2>1 DEF DeskInv, FrozenIsComplete
  <1>16. VersionsAreGapless'
    <2> SUFFICES ASSUME NEW s \in Shifts
                 PROVE  /\ {reports'[r].version : r \in ReportsOf(s)'} = 1..Cardinality(ReportsOf(s)')
                        /\ \A p \in Requests : req'[p].op \in {"frozen", "uploaded"} /\ req'[p].shift = s =>
                             req'[p].version = Cardinality(ReportsOf(s)') + 1
      BY DEF VersionsAreGapless
    <2> DEFINE n == Cardinality(ReportsOf(s))
    <2>1. n \in Nat /\ IsFiniteSet(ReportsOf(s)) /\ ReportsOf(s) \subseteq DOMAIN reports
      BY ReportsOfFinite DEF DeskInv, ReportsOf
    <2>2. {reports[r].version : r \in ReportsOf(s)} = 1..n
      BY DEF DeskInv, VersionsAreGapless
    <2>3. \A p \in Requests : req[p].op \in {"frozen", "uploaded"} /\ req[p].shift = s =>
            req[p].version = n + 1
      BY DEF DeskInv, VersionsAreGapless
    <2>4. CASE s # s0
      <3>1. ReportsOf(s)' = ReportsOf(s)
        BY <1>4, <1>6, <2>4 DEF ReportsOf
      <3>2. {reports'[r].version : r \in ReportsOf(s)} = {reports[r].version : r \in ReportsOf(s)}
        BY <1>6, <2>1
      <3> QED
        BY <1>10, <1>12, <2>2, <2>3, <3>1, <3>2
    <2>5. CASE s = s0
      <3>1. ReportsOf(s)' = ReportsOf(s) \cup {new}
        BY <1>4, <1>6, <2>5 DEF ReportsOf
      <3>2. new \notin ReportsOf(s)
        BY <1>6, <2>1
      <3>3. Cardinality(ReportsOf(s)') = n + 1
        BY <2>1, <3>1, <3>2, FS_AddElement
      <3>4. row.version = n + 1
        BY <1>1, <1>4, <2>3, <2>5 DEF s0
      <3>5. {reports'[r].version : r \in ReportsOf(s)'} = {reports[r].version : r \in ReportsOf(s)} \cup {n + 1}
        BY <1>6, <2>1, <3>1, <3>4
      <3>6. 1..n \cup {n + 1} = 1..(n + 1)
        BY <2>1
      <3>7. \A p \in Requests : ~(req'[p].op \in {"frozen", "uploaded"} /\ req'[p].shift = s)
        BY <1>1, <1>10, <1>12, <2>5 DEF DeskInv, LocksExclude, s0
      <3> QED
        BY <2>2, <3>3, <3>5, <3>6, <3>7
    <2> QED
      BY <2>4, <2>5
  <1> QED
    BY <1>11, <1>13, <1>14, <1>15, <1>16 DEF DeskInv

\* The first state: at most one open shift, at most one incident, no reports.
LEMMA InitInv ==
  ASSUME Init
  PROVE  DeskInv
  <1>1. PICK open \in {{}} \cup {{s} : s \in Shifts}, old \in {{}} \cup {{i} : i \in Incidents} :
         /\ old # {} => open # {}
         /\ shifts = [s \in Shifts |-> IF s \in open THEN "active" ELSE "absent"]
         /\ incidents = [i \in Incidents |->
                IF i \in old THEN [shift |-> CHOOSE s \in open : TRUE, number |-> 1] ELSE NoRow]
    BY DEF Init
  <1>2. reports = <<>> /\ bucket = <<>> /\ attempts = <<>>
        /\ req = [q \in Requests |-> Idle] /\ ops = [requests |-> 0, late |-> 0, reads |-> 0, misses |-> 0]
    BY DEF Init
  <1>3. shifts \in [Shifts -> {"absent", "active", "ended"}]
    BY <1>1
  <1>4. \A s, t \in ActiveShifts : s = t
    BY <1>1 DEF ActiveShifts
  <1>5. incidents \in [Incidents -> [shift : Shifts \cup {NoShift}, number : Nat]]
    <2>1. open # {} => (CHOOSE s \in open : TRUE) \in Shifts
      BY <1>1
    <2> DEFINE first == CHOOSE s \in open : TRUE
    <2>2. \A i \in Incidents : IF i \in old THEN first \in Shifts ELSE TRUE
      BY <1>1, <2>1
    <2> HIDE DEF first
    <2>3. incidents = [i \in Incidents |->
                IF i \in old THEN [shift |-> first, number |-> 1] ELSE NoRow]
      BY <1>1 DEF first
    <2> QED
      BY <2>2, <2>3 DEF NoRow
  <1>6. TypeOK
    <2>1. req \in [Requests -> {Idle} \cup Opening \cup Creation \cup Insertion \cup Generation]
      BY <1>2
    <2>2. ops \in [requests : Nat, late : Nat, reads : Nat, misses : Nat]
      BY <1>2
    <2> QED
      BY <1>2, <1>3, <1>4, <1>5, <2>1, <2>2 DEF TypeOK
  <1>7. \A q \in Requests : req[q].op = "idle"
    BY <1>2 DEF Idle
  <1>8. LocksExclude /\ DisplayIdsDoNotCollide /\ FrozenIsComplete
    BY <1>7 DEF LocksExclude, DisplayIdsDoNotCollide, FrozenIsComplete
  <1>9. VersionsAreGapless
    <2> SUFFICES ASSUME NEW s \in Shifts
                 PROVE  {reports[r].version : r \in ReportsOf(s)} = 1..Cardinality(ReportsOf(s))
      BY <1>7 DEF VersionsAreGapless
    <2>1. ReportsOf(s) = {}
      BY <1>2 DEF ReportsOf
    <2>2. Cardinality(ReportsOf(s)) = 0
      BY <2>1, FS_EmptySet
    <2>3. 1..0 = {}
      OBVIOUS
    <2> QED
      BY <2>1, <2>2, <2>3
  <1> QED
    BY <1>6, <1>8, <1>9 DEF DeskInv

\* Every step of the API and of the workers keeps DeskInv.
LEMMA NextInv ==
  ASSUME DeskInv, [Next]_vars
  PROVE  DeskInv'
  <1>1. ASSUME NEW q \in Requests, NEW s \in Shifts, OpenShift(q, s) \/ GenerateReport(q, s)
        PROVE  DeskInv'
    BY <1>1, OpenShiftInv, GenerateReportInv
  <1>2. ASSUME NEW q \in Requests, NEW i \in Incidents, CreateIncident(q, i)
        PROVE  DeskInv'
    BY <1>2, CreateIncidentInv
  <1>3. ASSUME NEW q \in Requests, DeskStep(q)
        PROVE  DeskInv'
    BY <1>3, CommitOpenShiftInv, RollbackInv, InsertIncidentInv, CommitIncidentInv,
       UploadSnapshotInv, CommitReportInv DEF DeskStep
  <1>4. ASSUME NEW s \in Shifts, CloseShift(s)
        PROVE  DeskInv'
    BY <1>4, CloseShiftInv
  <1>5. ASSUME NEW i \in Incidents, DeleteIncident(i)
        PROVE  DeskInv'
    BY <1>5, DeleteIncidentInv
  <1>6. ASSUME NEW r \in DOMAIN reports, Claim(r)
        PROVE  DeskInv'
    <2>1. TypeOK' /\ SameRows
      BY <1>6, ClaimTypeOK DEF DeskInv
    <2>2. UNCHANGED <<shifts, incidents, req>>
      BY <1>6 DEF Claim, deskVars
    <2> QED
      BY <2>1, <2>2, WorkersKeepInv
  <1>7. ASSUME NEW r \in DOMAIN reports, NEW a \in DOMAIN attempts[r], WorkerStep(r, a)
        PROVE  DeskInv'
    <2>1. TypeOK' /\ SameRows
      BY <1>7, WorkerTypeOK DEF DeskInv
    <2>2. UNCHANGED <<shifts, incidents, req>>
      <3>1. UNCHANGED deskVars
        BY <1>7, Zenon DEF WorkerStep, LoadSavedPlan, Analyze, AnalyzeAgain, SavePlan,
           FindArtifacts, Render, RenderAgain, Upload, MarkCompleted, SettleTerminal, SettleRetry,
           MarkRetrying, CrashWorker
      <3> QED
        BY <3>1 DEF deskVars
    <2> QED
      BY <2>1, <2>2, WorkersKeepInv
  <1>8. CASE UNCHANGED vars
    <2>1. UNCHANGED <<shifts, incidents, req>> /\ UNCHANGED <<reports, bucket, attempts, ops>>
      BY <1>8 DEF vars
    <2>2. SameRows
      BY <2>1 DEF SameRows
    <2>3. TypeOK'
      BY <2>1 DEF DeskInv, TypeOK, ActiveShifts
    <2> QED
      BY <2>1, <2>2, <2>3, WorkersKeepInv
  <1> QED
    BY <1>1, <1>2, <1>3, <1>4, <1>5, <1>6, <1>7, <1>8 DEF Next

-----------------------------------------------------------------------------
(***************************************************************************)
(* The daily-report worker.                                                *)
(***************************************************************************)

\* The three artifacts.
LEMMA Kinds == DOMAIN After = {"report", "document", "screenshots"}
  BY DEF After

\* An object store that has all three artifacts has the last one, and conversely.
LEMMA CompleteIsLast ==
  ASSUME NEW obj \in Stored, NEW n, StoredInOrder(obj, n)
  PROVE  Complete(obj.artifacts) <=> Has(obj, "screenshots")
  <1>1. DOMAIN obj.artifacts = {"report", "document", "screenshots"}
    BY DEF Stored, Artifacts
  <1> QED
    BY <1>1 DEF Complete, Has, StoredInOrder

\* A kind of read that has not failed in n had not failed in m.
NoFewer(m, n) == (n.reads = 0 => m.reads = 0) /\ (n.misses = 0 => m.misses = 0)

\* Fewer failed reads promise more.
LEMMA ReadsGrow ==
  ASSUME NEW row, NEW obj, NEW ws, NEW m, NEW n, OneAtWork(row, obj, ws, m), NoFewer(m, n)
  PROVE  OneAtWork(row, obj, ws, n)
  BY DEF OneAtWork, StoredInOrder, AtWork, Pinned, NoFewer

\* A step of the one attempt that is at work.
LEMMA OwnerStep ==
  ASSUME NEW row, NEW obj, NEW ws \in Seq(Attempt), NEW m, OneAtWork(row, obj, ws, m),
         NEW a \in DOMAIN ws, ws[a].pc \notin Settled,
         NEW row2, NEW obj2, NEW x, NEW n, StoredInOrder(obj2, n), AtWork(x, obj2, n),
         row2.status = "COMPLETED" => Pinned(row2, n)
  PROVE  OneAtWork(row2, obj2, [ws EXCEPT ![a] = x], n)
  <1>1. \A b \in DOMAIN ws : b # a => ws[b].pc \in Settled
    BY DEF OneAtWork
  <1>2. PICK vs : vs = [ws EXCEPT ![a] = x]
    OBVIOUS
  <1>3. DOMAIN vs = DOMAIN ws /\ vs[a] = x /\ \A b \in DOMAIN ws : b # a => vs[b] = ws[b]
    BY <1>2
  <1>4. \A b \in DOMAIN vs : vs[b].pc \notin Settled => b = a /\ AtWork(vs[b], obj2, n)
    BY <1>1, <1>3
  <1>5. OneAtWork(row2, obj2, vs, n)
    BY <1>4 DEF OneAtWork
  <1> QED
    BY <1>2, <1>5

\* An attempt that stops leaves at most one at work.
LEMMA StopStep ==
  ASSUME NEW row, NEW obj, NEW ws \in Seq(Attempt), NEW m, OneAtWork(row, obj, ws, m),
         NEW a \in DOMAIN ws, NEW x, x.pc \in Settled, NEW row2,
         row2.status = "COMPLETED" => Pinned(row2, m)
  PROVE  OneAtWork(row2, obj, [ws EXCEPT ![a] = x], m)
  <1>1. PICK vs : vs = [ws EXCEPT ![a] = x]
    OBVIOUS
  <1>2. DOMAIN vs = DOMAIN ws /\ vs[a] = x /\ \A b \in DOMAIN ws : b # a => vs[b] = ws[b]
    BY <1>1
  <1>3. \A b \in DOMAIN vs : vs[b].pc \notin Settled => b \in DOMAIN ws /\ vs[b] = ws[b]
    BY <1>2
  <1>4. OneAtWork(row2, obj, vs, m)
    BY <1>2, <1>3 DEF OneAtWork
  <1> QED
    BY <1>1, <1>4

\* What a step leaves of the other reports.
OthersKept(r) ==
    /\ DOMAIN reports' = DOMAIN reports
    /\ \A k \in DOMAIN reports : k # r =>
         reports'[k] = reports[k] /\ bucket'[k] = bucket[k] /\ attempts'[k] = attempts[k]

\* A step of one report's workers keeps PlanInv if it keeps it for that report.
LEMMA ReportStep ==
  ASSUME PlanInv, NEW r \in DOMAIN reports, OthersKept(r), ops'.late = 0 => ops.late = 0,
         NoFewer(ops, ops'),
         ops'.late = 0 => OneAtWork(reports[r], bucket[r], attempts[r], ops)'
  PROVE  PlanInv'
  <1> SUFFICES ASSUME ops'.late = 0, NEW k \in DOMAIN reports
               PROVE  OneAtWork(reports'[k], bucket'[k], attempts'[k], ops')
    BY DEF PlanInv, OthersKept
  <1>1. CASE k = r
    BY <1>1
  <1>2. CASE k # r
    <2>1. OneAtWork(reports[k], bucket[k], attempts[k], ops)
      BY DEF PlanInv
    <2>2. OneAtWork(reports[k], bucket[k], attempts[k], ops')
      BY <2>1, ReadsGrow
    <2> QED
      BY <1>2, <2>2 DEF OthersKept
  <1> QED
    BY <1>1, <1>2

\* What one step of a worker may do to its report: the worker at work goes on, or
\* one of them stops.
LEMMA WorkerPlanStep ==
  ASSUME TypeOK, PlanInv, NEW r \in DOMAIN reports, NEW a \in DOMAIN attempts[r],
         NEW row, NEW obj, NEW x,
         reports' = [reports EXCEPT ![r] = row], bucket' = [bucket EXCEPT ![r] = obj],
         attempts' = [attempts EXCEPT ![r][a] = x],
         ops'.late = ops.late, NoFewer(ops, ops'),
         ops.late = 0 =>
           /\ \/ attempts[r][a].pc \notin Settled /\ StoredInOrder(obj, ops') /\ AtWork(x, obj, ops')
              \/ x.pc \in Settled /\ obj = bucket[r] /\ ops' = ops
           /\ row.status = "COMPLETED" => Pinned(row, ops')
  PROVE  PlanInv'
  <1>1. /\ reports \in Seq(ReportRow) /\ bucket \in Seq(Stored) /\ attempts \in Seq(Seq(Attempt))
        /\ Len(bucket) = Len(reports) /\ Len(attempts) = Len(reports)
    BY DEF TypeOK
  <1>2. DOMAIN bucket = DOMAIN reports /\ DOMAIN attempts = DOMAIN reports
    BY <1>1
  <1>3. OthersKept(r) /\ reports'[r] = row /\ bucket'[r] = obj
        /\ attempts'[r] = [attempts[r] EXCEPT ![a] = x]
    BY <1>2 DEF OthersKept
  <1>4. ASSUME ops.late = 0
        PROVE  OneAtWork(reports[r], bucket[r], attempts[r], ops)'
    <2>1. OneAtWork(reports[r], bucket[r], attempts[r], ops)
      BY <1>4 DEF PlanInv
    <2>2. attempts[r] \in Seq(Attempt)
      BY WorkerTypes
    <2>3. PICK n : n = ops'
      OBVIOUS
    <2>4. OneAtWork(row, obj, [attempts[r] EXCEPT ![a] = x], n)
      <3>1. CASE attempts[r][a].pc \notin Settled /\ StoredInOrder(obj, n) /\ AtWork(x, obj, n)
        BY <1>4, <2>1, <2>2, <2>3, <3>1, OwnerStep
      <3>2. CASE x.pc \in Settled /\ obj = bucket[r] /\ n = ops
        BY <1>4, <2>1, <2>2, <2>3, <3>2, StopStep
      <3> QED
        BY <1>4, <2>3, <3>1, <3>2
    <2> QED
      BY <1>3, <2>3, <2>4
  <1> QED
    BY <1>3, <1>4, ReportStep

\* A plan in hand that may be an old one.
LEMMA PlanStep ==
  ASSUME NEW obj \in Stored, NEW m, NEW n, NEW pc, NEW plan \in Nat,
         StoredInOrder(obj, m), NoFewer(m, n),
         \/ pc = "answered" /\ plan # 0 /\ (n.reads = 0 => obj.plan = 0)
         \/ pc = "planned" /\ plan = obj.plan /\ obj.plan # 0,
         NEW x, x.pc = pc, x.plan = plan
  PROVE  AtWork(x, obj, n) /\ StoredInOrder(obj, n)
  <1>1. AtWork(x, obj, n)
    BY Kinds DEF AtWork, Plans
  <1>2. StoredInOrder(obj, n)
    BY DEF StoredInOrder, NoFewer
  <1> QED
    BY <1>1, <1>2

\* SavePlan
LEMMA SaveStep ==
  ASSUME NEW w \in Attempt, NEW obj \in Stored, NEW n, w.pc = "answered",
         StoredInOrder(obj, n), AtWork(w, obj, n)
  PROVE  /\ AtWork([w EXCEPT !.pc = "planned"], [obj EXCEPT !.plan = w.plan], n)
         /\ StoredInOrder([obj EXCEPT !.plan = w.plan], n)
  <1>1. PICK x, o : x = [w EXCEPT !.pc = "planned"] /\ o = [obj EXCEPT !.plan = w.plan]
    OBVIOUS
  <1>2. x.pc = "planned" /\ x.plan = w.plan /\ o.plan = w.plan /\ o.artifacts = obj.artifacts
    BY <1>1 DEF Attempt, Stored
  <1>3. w.plan # 0 /\ (n.reads = 0 => obj.plan = 0)
    BY DEF AtWork
  <1>4. \A k \in DOMAIN After : Has(o, k) <=> Has(obj, k)
    BY <1>2 DEF Has
  <1>5. n.reads = 0 => \A k \in DOMAIN After : ~Has(o, k)
    BY <1>3, <1>4 DEF StoredInOrder
  <1>6. AtWork(x, o, n)
    BY <1>2, <1>3, Kinds DEF AtWork, Plans
  <1>7. StoredInOrder(o, n)
    BY <1>2, <1>4, <1>5, Kinds DEF StoredInOrder
  <1> QED
    BY <1>1, <1>6, <1>7

\* FindArtifacts
LEMMA FindStep ==
  ASSUME NEW w \in Attempt, NEW obj \in Stored, NEW n, w.pc = "planned",
         StoredInOrder(obj, n), AtWork(w, obj, n), Complete(obj.artifacts),
         NEW x, x.pc = "rendered", x.plan = w.plan, x.found = obj.artifacts
  PROVE  AtWork(x, obj, n)
  <1>1. Has(obj, "screenshots")
    BY CompleteIsLast
  <1> QED
    BY <1>1, Kinds DEF AtWork, Plans

\* Render and RenderAgain
LEMMA RenderStep ==
  ASSUME NEW w \in Attempt, NEW obj \in Stored, NEW n, w.pc = "planned",
         NEW m, StoredInOrder(obj, m), AtWork(w, obj, m), NoFewer(m, n),
         n.misses = 0 => ~Complete(obj.artifacts)
  PROVE  AtWork([w EXCEPT !.pc = "report"], obj, n) /\ StoredInOrder(obj, n)
  <1>1. PICK x : x = [w EXCEPT !.pc = "report"]
    OBVIOUS
  <1>2. x.pc = "report" /\ x.plan = w.plan
    BY <1>1 DEF Attempt
  <1>3. n.misses = 0 => ~Has(obj, "screenshots")
    BY CompleteIsLast
  <1>4. AtWork(x, obj, n)
    BY <1>2, <1>3, Kinds DEF AtWork, Plans, NoFewer
  <1>5. StoredInOrder(obj, n)
    BY DEF StoredInOrder, NoFewer
  <1> QED
    BY <1>1, <1>4, <1>5

\* Upload of one of the three artifacts
LEMMA UploadStep ==
  ASSUME NEW w \in Attempt, NEW obj \in Stored, NEW n, NEW kind \in DOMAIN After, w.pc = kind,
         StoredInOrder(obj, n), AtWork(w, obj, n), NEW new \in Artifact, new.version # 0,
         new.plan = w.plan,
         NEW x, x.pc = After[kind], x.plan = w.plan, x.found = [w.found EXCEPT ![kind] = new],
         NEW o, o.plan = obj.plan, o.artifacts = [obj.artifacts EXCEPT ![kind] = new]
  PROVE  AtWork(x, o, n) /\ StoredInOrder(o, n)
  <1>1. kind \in {"report", "document", "screenshots"}
    BY Kinds
  <1>2. /\ DOMAIN obj.artifacts = {"report", "document", "screenshots"}
        /\ DOMAIN w.found = {"report", "document", "screenshots"}
        /\ obj.artifacts \in Artifacts /\ w.found \in Artifacts
    BY DEF Attempt, Stored, Artifacts
  <1>3. /\ x.pc = After[kind] /\ x.plan = w.plan /\ x.found = [w.found EXCEPT ![kind] = new]
        /\ o.plan = obj.plan /\ o.artifacts = [obj.artifacts EXCEPT ![kind] = new]
    OBVIOUS
  <1>4. /\ x.found[kind] = new /\ o.artifacts[kind] = new
        /\ \A k \in DOMAIN After : k # kind =>
             x.found[k] = w.found[k] /\ o.artifacts[k] = obj.artifacts[k]
    BY <1>1, <1>2, <1>3, Kinds
  <1>5. new # NoArtifact
    BY DEF NoArtifact
  <1>6. Has(o, kind) /\ \A k \in DOMAIN After : k # kind => (Has(o, k) <=> Has(obj, k))
    BY <1>4, <1>5 DEF Has
  <1>7. /\ n.misses = 0 => ~Has(obj, "screenshots")
        /\ n.reads = 0 => w.plan = obj.plan /\ obj.plan # 0
        /\ kind \in {"document", "screenshots"} => Uploaded(w, obj, "report")
        /\ kind = "screenshots" => Uploaded(w, obj, "document")
    BY DEF AtWork, Plans
  <1>8. /\ kind \in {"document", "screenshots"} => Uploaded(x, o, "report")
        /\ kind = "screenshots" => Uploaded(x, o, "document")
        /\ Uploaded(x, o, kind)
    BY <1>1, <1>3, <1>4, <1>6, <1>7, Kinds DEF Uploaded
  <1>9. StoredInOrder(o, n)
    <2>1. n.reads = 0 => \A k \in DOMAIN After : Has(o, k) => o.plan # 0 /\ o.artifacts[k].plan = o.plan
      BY <1>3, <1>4, <1>6, <1>7 DEF StoredInOrder
    <2>2. Has(o, "screenshots") => Has(o, "document")
      BY <1>1, <1>6, <1>7, <1>8, Kinds DEF Uploaded, StoredInOrder
    <2>3. Has(o, "document") => Has(o, "report")
      BY <1>1, <1>6, <1>7, <1>8, Kinds DEF Uploaded, StoredInOrder
    <2>4. Has(o, "screenshots") /\ n.misses = 0 =>
            \A k \in DOMAIN After : o.artifacts[k].plan = o.artifacts.report.plan
      BY <1>1, <1>6, <1>7, <1>8, Kinds DEF Uploaded
    <2> QED
      BY <2>1, <2>2, <2>3, <2>4 DEF StoredInOrder
  <1>10. CASE kind = "report"
    <2>1. x.pc = "document" /\ (n.misses = 0 => ~Has(o, "screenshots"))
      BY <1>3, <1>6, <1>7, <1>10, Kinds DEF After
    <2> QED
      BY <1>3, <1>7, <1>8, <1>9, <1>10, <2>1, Kinds DEF AtWork, Plans
  <1>11. CASE kind = "document"
    <2>1. x.pc = "screenshots" /\ (n.misses = 0 => ~Has(o, "screenshots"))
      BY <1>3, <1>6, <1>7, <1>11, Kinds DEF After
    <2> QED
      BY <1>3, <1>7, <1>8, <1>9, <1>11, <2>1, Kinds DEF AtWork, Plans
  <1>12. CASE kind = "screenshots"
    <2>1. x.pc = "rendered" /\ Has(o, "screenshots")
      BY <1>3, <1>6, <1>12 DEF After
    <2>2. /\ x.found["report"] = o.artifacts["report"]
          /\ x.found["document"] = o.artifacts["document"]
          /\ x.found["screenshots"] = o.artifacts["screenshots"]
      BY <1>8, <1>12 DEF Uploaded
    <2>3. x.found \in Artifacts /\ o.artifacts \in Artifacts
      BY <1>1, <1>2, <1>3 DEF Artifacts
    <2>4. x.found = o.artifacts
      BY <2>2, <2>3 DEF Artifacts
    <2> QED
      BY <1>3, <1>7, <1>9, <2>1, <2>4, Kinds DEF AtWork, Plans
  <1> QED
    BY <1>1, <1>10, <1>11, <1>12

\* mark_completed
LEMMA PinStep ==
  ASSUME NEW w \in Attempt, NEW obj \in Stored, NEW n, w.pc = "rendered",
         StoredInOrder(obj, n), AtWork(w, obj, n),
         NEW new, new.pinned = w.found, new.output = w.plan
  PROVE  Pinned(new, n)
  <1>1. new.pinned = w.found /\ new.output = w.plan
    OBVIOUS
  <1>2. Has(obj, "screenshots") /\ w.found = obj.artifacts /\ (n.reads = 0 => w.plan = obj.plan)
    BY DEF AtWork, Plans
  <1>3. Complete(obj.artifacts)
    BY <1>2, CompleteIsLast
  <1>4. n.reads = 0 \/ n.misses = 0 =>
          \A k \in DOMAIN After : obj.artifacts[k].plan = obj.artifacts.report.plan
    BY <1>2, Kinds DEF StoredInOrder
  <1>5. n.reads = 0 => w.plan = obj.artifacts.report.plan
    BY <1>2, Kinds DEF StoredInOrder
  <1> QED
    BY <1>1, <1>2, <1>3, <1>4, <1>5 DEF Pinned

\* Every step of a daily-report worker keeps PlanInv.
LEMMA WorkerPlanInv ==
  ASSUME TypeOK, PlanInv, NEW r \in DOMAIN reports, NEW a \in DOMAIN attempts[r], WorkerStep(r, a)
  PROVE  PlanInv'
  <1>1. PICK w, obj, row, m, late : /\ w = attempts[r][a] /\ obj = bucket[r] /\ row = reports[r]
                                    /\ m = ops /\ late = ops.late
    OBVIOUS
  <1>2. /\ w \in Attempt /\ a \in Nat /\ row \in ReportRow /\ obj \in Stored
        /\ a \in DOMAIN attempts[r] /\ r \in DOMAIN attempts /\ r \in DOMAIN bucket /\ a # 0
    BY <1>1, WorkerTypes
  <1>3. bucket = [bucket EXCEPT ![r] = obj] /\ reports = [reports EXCEPT ![r] = row]
    BY <1>1, <1>2 DEF TypeOK
  <1>4. late = 0 /\ w.pc \notin Settled => StoredInOrder(obj, m) /\ AtWork(w, obj, m)
    BY <1>1 DEF PlanInv, OneAtWork
  <1>5. late = 0 => (row.status = "COMPLETED" => Pinned(row, m)) /\ StoredInOrder(obj, m)
    BY <1>1 DEF PlanInv, OneAtWork
  <1>6. ASSUME NEW x, attempts' = [attempts EXCEPT ![r][a] = x], w.pc \notin Settled,
               NEW new, bucket' = [bucket EXCEPT ![r] = new], reports' = reports,
               ops'.late = late, NEW n, n = ops', NoFewer(m, n),
               late = 0 => StoredInOrder(new, n) /\ AtWork(x, new, n)
        PROVE  PlanInv'
    <2>1. reports' = [reports EXCEPT ![r] = row]
      BY <1>3, <1>6
    <2>2. late = 0 => (row.status = "COMPLETED" => Pinned(row, n))
      BY <1>5, <1>6 DEF Pinned, NoFewer
    <2> QED
      BY <1>1, <1>6, <2>1, <2>2, WorkerPlanStep
  <1>7. ASSUME NEW new, reports' = [reports EXCEPT ![r] = new],
               NEW x, attempts' = [attempts EXCEPT ![r][a] = x], x.pc \in Settled,
               bucket' = bucket, ops' = ops,
               late = 0 => (new.status = "COMPLETED" => Pinned(new, m))
        PROVE  PlanInv'
    <2>1. bucket' = [bucket EXCEPT ![r] = obj] /\ ops' = m /\ ops'.late = ops.late
      BY <1>1, <1>3, <1>7
    <2>2. NoFewer(ops, ops')
      BY <1>7 DEF NoFewer
    <2> QED
      BY <1>1, <1>7, <2>1, <2>2, WorkerPlanStep
  <1>18. NoFewer(m, m)
    BY DEF NoFewer
  <1>19. ASSUME Stop(r, a)
         PROVE  attempts' = [attempts EXCEPT ![r][a] = Over] /\ Over.pc \in Settled
    BY <1>19 DEF Stop, Become, Over, Settled
  <1>8. CASE LoadSavedPlan(r, a)
    <2>1. PICK x : x = [w EXCEPT !.pc = "planned", !.plan = obj.plan]
      OBVIOUS
    <2>2. /\ w.pc = "claimed" /\ obj.plan # 0 /\ reports' = reports /\ bucket' = bucket /\ ops' = ops
          /\ attempts' = [attempts EXCEPT ![r][a] = x]
      BY <1>1, <1>8, <2>1 DEF LoadSavedPlan, Become, Pc
    <2>3. ASSUME late = 0
          PROVE  StoredInOrder(obj, m) /\ AtWork(x, obj, m)
      <3>1. obj.plan \in Nat
        BY <1>2 DEF Stored
      <3>2. StoredInOrder(obj, m)
        BY <1>5, <2>3
      <3>3. x.pc = "planned" /\ x.plan = obj.plan
        BY <1>2, <2>1 DEF Attempt
      <3> QED
        BY <1>2, <1>18, <2>2, <3>1, <3>2, <3>3, PlanStep
    <2> QED
      BY <1>1, <1>3, <1>6, <1>18, <2>2, <2>3 DEF Settled
  <1>9. CASE Analyze(r, a) \/ AnalyzeAgain(r, a)
    <2>1. PICK n, x : n = ops' /\ x = [w EXCEPT !.pc = "answered", !.plan = a]
      OBVIOUS
    <2>2. /\ w.pc = "claimed" /\ reports' = reports /\ bucket' = bucket
          /\ attempts' = [attempts EXCEPT ![r][a] = x]
      BY <1>1, <1>9, <2>1 DEF Analyze, AnalyzeAgain, Become, Pc
    <2>3. ops'.late = late /\ NoFewer(m, n) /\ (n.reads = 0 => obj.plan = 0)
      <3>1. CASE Analyze(r, a)
        BY <1>1, <1>18, <2>1, <3>1 DEF Analyze
      <3>2. CASE AnalyzeAgain(r, a)
        <4>1. ops \in [requests : Nat, late : Nat, reads : Nat, misses : Nat]
          BY DEF TypeOK
        <4>2. ops' = [ops EXCEPT !.reads = @ + 1]
          BY <3>2 DEF AnalyzeAgain
        <4>3. ops'.late = ops.late /\ ops'.reads = ops.reads + 1 /\ ops'.misses = ops.misses
          BY <4>1, <4>2
        <4> QED
          BY <1>1, <2>1, <4>1, <4>3 DEF NoFewer
      <3> QED
        BY <1>9, <3>1, <3>2
    <2>4. ASSUME late = 0
          PROVE  StoredInOrder(obj, n) /\ AtWork(x, obj, n)
      <3>1. StoredInOrder(obj, m)
        BY <1>5, <2>4
      <3>2. x.pc = "answered" /\ x.plan = a
        BY <1>2, <2>1 DEF Attempt
      <3> QED
        BY <1>2, <2>3, <3>1, <3>2, PlanStep
    <2>5. bucket' = [bucket EXCEPT ![r] = obj] /\ w.pc \notin Settled
      BY <1>3, <2>2 DEF Settled
    <2> QED
      BY <1>6, <2>1, <2>2, <2>3, <2>4, <2>5
  <1>10. CASE SavePlan(r, a)
    <2>1. /\ w.pc = "answered" /\ reports' = reports /\ ops' = ops
          /\ attempts' = [attempts EXCEPT ![r][a] = [w EXCEPT !.pc = "planned"]]
          /\ bucket' = [bucket EXCEPT ![r] = [obj EXCEPT !.plan = w.plan]]
      BY <1>1, <1>10 DEF SavePlan, Goto, Become, Pc
    <2>2. late = 0 => /\ StoredInOrder([obj EXCEPT !.plan = w.plan], m)
                      /\ AtWork([w EXCEPT !.pc = "planned"], [obj EXCEPT !.plan = w.plan], m)
      BY <1>2, <1>4, <2>1, SaveStep DEF Settled
    <2> QED
      BY <1>1, <1>6, <1>18, <2>1, <2>2 DEF Settled
  <1>11. CASE FindArtifacts(r, a)
    <2>1. PICK x : x = [w EXCEPT !.pc = "rendered", !.found = obj.artifacts]
      OBVIOUS
    <2>2. /\ w.pc = "planned" /\ reports' = reports /\ ops' = ops /\ bucket' = bucket
          /\ attempts' = [attempts EXCEPT ![r][a] = x] /\ Complete(obj.artifacts)
      BY <1>1, <1>11, <2>1 DEF FindArtifacts, Become, Pc
    <2>3. ASSUME late = 0
          PROVE  StoredInOrder(obj, m) /\ AtWork(x, obj, m)
      <3>1. StoredInOrder(obj, m) /\ AtWork(w, obj, m)
        BY <1>4, <2>2, <2>3 DEF Settled
      <3>2. x.pc = "rendered" /\ x.plan = w.plan /\ x.found = obj.artifacts
        BY <1>2, <2>1 DEF Attempt
      <3> QED
        BY <1>2, <2>2, <3>1, <3>2, FindStep
    <2>4. bucket' = [bucket EXCEPT ![r] = obj] /\ w.pc \notin Settled /\ ops'.late = late /\ ops' = m
      BY <1>1, <1>3, <2>2 DEF Settled
    <2> QED
      BY <1>6, <1>18, <2>2, <2>3, <2>4
  <1>12. CASE Render(r, a) \/ RenderAgain(r, a)
    <2>1. PICK n : n = ops'
      OBVIOUS
    <2>2. /\ w.pc = "planned" /\ reports' = reports /\ bucket' = bucket
          /\ attempts' = [attempts EXCEPT ![r][a] = [w EXCEPT !.pc = "report"]]
      BY <1>1, <1>12 DEF Render, RenderAgain, Goto, Become, Pc
    <2>3. ops'.late = late /\ NoFewer(m, n) /\ (n.misses = 0 => ~Complete(obj.artifacts))
      <3>1. CASE Render(r, a)
        BY <1>1, <1>18, <2>1, <3>1 DEF Render
      <3>2. CASE RenderAgain(r, a)
        <4>1. ops \in [requests : Nat, late : Nat, reads : Nat, misses : Nat]
          BY DEF TypeOK
        <4>2. ops' = [ops EXCEPT !.misses = @ + 1]
          BY <3>2 DEF RenderAgain
        <4>3. ops'.late = ops.late /\ ops'.reads = ops.reads /\ ops'.misses = ops.misses + 1
          BY <4>1, <4>2
        <4> QED
          BY <1>1, <2>1, <4>1, <4>3 DEF NoFewer
      <3> QED
        BY <1>12, <3>1, <3>2
    <2>4. w.pc \notin Settled /\ bucket' = [bucket EXCEPT ![r] = obj]
      BY <1>3, <2>2 DEF Settled
    <2>5. late = 0 => StoredInOrder(obj, n) /\ AtWork([w EXCEPT !.pc = "report"], obj, n)
      BY <1>2, <1>4, <2>2, <2>3, <2>4, RenderStep
    <2> QED
      BY <1>6, <2>1, <2>2, <2>3, <2>4, <2>5
  <1>13. ASSUME NEW kind \in DOMAIN After, Upload(r, a, kind)
         PROVE  PlanInv'
    <2>1. PICK new : new = [version |-> obj.artifacts[kind].version + 1, plan |-> w.plan]
      OBVIOUS
    <2>2. PICK x, o : /\ x = [w EXCEPT !.pc = After[kind], !.found[kind] = new]
                      /\ o = [obj EXCEPT !.artifacts[kind] = new]
      OBVIOUS
    <2>3. /\ w.pc = kind /\ reports' = reports /\ ops' = ops
          /\ attempts' = [attempts EXCEPT ![r][a] = x] /\ bucket' = [bucket EXCEPT ![r] = o]
      BY <1>1, <1>13, <2>1, <2>2 DEF Upload, Become, Pc
    <2>4. w.pc \notin Settled
      BY <2>3, Kinds DEF Settled
    <2>5. new \in Artifact /\ new.version # 0 /\ new.plan = w.plan
      <3>1. obj.artifacts[kind] \in Artifact /\ w.plan \in Nat
        BY <1>2, Kinds DEF Stored, Artifacts, Attempt
      <3> QED
        BY <2>1, <3>1 DEF Artifact
    <2>6. ASSUME late = 0
          PROVE  StoredInOrder(o, m) /\ AtWork(x, o, m)
      <3>1. StoredInOrder(obj, m) /\ AtWork(w, obj, m)
        BY <1>4, <2>4, <2>6
      <3>2. /\ x.pc = After[kind] /\ x.plan = w.plan /\ x.found = [w.found EXCEPT ![kind] = new]
            /\ o.plan = obj.plan /\ o.artifacts = [obj.artifacts EXCEPT ![kind] = new]
        BY <1>2, <2>2 DEF Attempt, Stored
      <3> QED
        BY <1>2, <2>3, <2>5, <3>1, <3>2, UploadStep
    <2> QED
      BY <1>1, <1>6, <1>18, <2>3, <2>4, <2>6
  <1>14. CASE MarkCompleted(r, a)
    <2>1. PICK new : new = [row EXCEPT !.status = "COMPLETED", !.owner = 0,
                                       !.pinned = w.found, !.output = w.plan]
      OBVIOUS
    <2>2. /\ w.pc = "rendered" /\ Stop(r, a) /\ bucket' = bucket /\ ops' = ops
          /\ reports' = [reports EXCEPT ![r] = new]
      BY <1>1, <1>14, <2>1 DEF MarkCompleted, Write, Pc
    <2>3. ASSUME late = 0
          PROVE  Pinned(new, m)
      <3>1. StoredInOrder(obj, m) /\ AtWork(w, obj, m)
        BY <1>4, <2>2, <2>3 DEF Settled
      <3>2. new.pinned = w.found /\ new.output = w.plan
        BY <1>2, <2>1 DEF ReportRow
      <3> QED
        BY <1>2, <2>2, <3>1, <3>2, PinStep
    <2> QED
      BY <1>7, <1>19, <2>2, <2>3
  <1>15. CASE SettleTerminal(r, a) \/ SettleRetry(r, a)
    <2>1. PICK new : new = Failed(r, a)
      OBVIOUS
    <2>2. PICK x : /\ attempts' = [attempts EXCEPT ![r][a] = x] /\ x.pc \in Settled
                   /\ bucket' = bucket /\ ops' = ops /\ reports' = [reports EXCEPT ![r] = new]
      <3>1. CASE SettleTerminal(r, a)
        BY <1>19, <2>1, <3>1 DEF SettleTerminal, Write
      <3>2. CASE SettleRetry(r, a)
        <4>1. [Over EXCEPT !.pc = "failed"].pc \in Settled
          BY DEF Over, Settled
        <4> QED
          BY <2>1, <3>2, <4>1 DEF SettleRetry, Write, Become
      <3> QED
        BY <1>15, <3>1, <3>2
    <2>3. late = 0 => (new.status = "COMPLETED" => Pinned(new, m))
      <3>1. new = row \/ new.status = "FAILED"
        BY <1>1, <1>2, <2>1 DEF Failed, ReportRow
      <3> QED
        BY <1>5, <3>1
    <2> QED
      BY <1>7, <2>2, <2>3
  <1>16. CASE MarkRetrying(r, a)
    <2>1. PICK new : new = [row EXCEPT !.status = "RETRYING", !.owner = 0]
      OBVIOUS
    <2>2. /\ Stop(r, a) /\ bucket' = bucket
          /\ ops' = ops /\ reports' = [reports EXCEPT ![r] = new]
      BY <1>1, <1>16, <2>1 DEF MarkRetrying, Write
    <2>3. new.status = "RETRYING"
      BY <1>2, <2>1 DEF ReportRow
    <2> QED
      BY <1>7, <1>19, <2>2, <2>3
  <1>17. CASE CrashWorker(r, a)
    <2>1. Stop(r, a) /\ bucket' = bucket /\ ops' = ops /\ reports' = [reports EXCEPT ![r] = row]
      BY <1>3, <1>17 DEF CrashWorker
    <2> QED
      BY <1>5, <1>7, <1>19, <2>1
  <1> QED
    BY <1>8, <1>9, <1>10, <1>11, <1>12, <1>13, <1>14, <1>15, <1>16, <1>17 DEF WorkerStep

\* A claim that is not early finds no attempt at work, and starts one.
LEMMA ClaimPlanInv ==
  ASSUME TypeOK, PlanInv, NEW r \in DOMAIN reports, Claim(r)
  PROVE  PlanInv'
  <1> DEFINE held == \E a \in DOMAIN attempts[r] : Working(r, a)
             new == [pc |-> "claimed", plan |-> 0, found |-> NoArtifacts]
  <1>1. PICK ws, row : /\ ws = attempts[r]
                       /\ row = [reports[r] EXCEPT !.status = "PROCESSING",
                                                   !.owner = Len(attempts[r]) + 1]
    OBVIOUS
  <1>2. /\ attempts' = [attempts EXCEPT ![r] = Append(ws, new)]
        /\ reports' = [reports EXCEPT ![r] = row] /\ bucket' = bucket
        /\ ops' = IF held THEN [ops EXCEPT !.late = @ + 1] ELSE ops
    BY <1>1 DEF Claim, Write
  <1>3. /\ ops \in [requests : Nat, late : Nat, reads : Nat, misses : Nat]
        /\ DOMAIN attempts = DOMAIN reports /\ ws \in Seq(Attempt) /\ reports[r] \in ReportRow
    <2>1. /\ attempts \in Seq(Seq(Attempt)) /\ reports \in Seq(ReportRow)
          /\ Len(attempts) = Len(reports)
      BY DEF TypeOK
    <2> QED
      BY <1>1, <2>1 DEF TypeOK
  <1>4. NoFewer(ops, ops') /\ (ops'.late = 0 => ops' = ops /\ ops.late = 0 /\ ~held)
    BY <1>2, <1>3 DEF NoFewer
  <1>5. OthersKept(r) /\ reports'[r] = row /\ attempts'[r] = Append(ws, new)
    BY <1>2, <1>3 DEF OthersKept
  <1>6. row.status = "PROCESSING" /\ row.owner = Len(ws) + 1
    BY <1>1, <1>3 DEF ReportRow
  <1>7. ASSUME ops.late = 0, ~held
        PROVE  OneAtWork(row, bucket[r], Append(ws, new), ops)
    <2>1. OneAtWork(reports[r], bucket[r], ws, ops)
      BY <1>1, <1>7 DEF PlanInv
    <2>2. \A a \in DOMAIN ws : ws[a].pc \in Settled
      BY <1>1, <1>7 DEF Working, Pc
    <2>3. new.pc = "claimed" /\ AtWork(new, bucket[r], ops)
      BY Kinds DEF AtWork, Plans
    <2> HIDE DEF new
    <2>4. PICK vs : vs = Append(ws, new)
      OBVIOUS
    <2>5. \A a \in DOMAIN vs :
            (a \in DOMAIN ws /\ vs[a] = ws[a]) \/ (a = Len(ws) + 1 /\ vs[a] = new)
      <3>1. PICK k : k = Len(ws)
        OBVIOUS
      <3>2. k \in Nat /\ DOMAIN ws = 1 .. k
        BY <1>3, <3>1
      <3>3. DOMAIN vs = 1 .. k + 1
        BY <1>3, <2>4, <3>1, <3>2
      <3>4. \A a \in 1 .. k : vs[a] = ws[a]
        BY <1>3, <2>4, <3>1, <3>2
      <3>5. vs[k + 1] = new
        BY <1>3, <2>4, <3>1, <3>2
      <3> QED
        BY <3>1, <3>2, <3>3, <3>4, <3>5
    <2>6. \A a \in DOMAIN vs : vs[a].pc \notin Settled =>
            a = Len(ws) + 1 /\ AtWork(vs[a], bucket[r], ops)
      BY <2>2, <2>3, <2>5
    <2>7. OneAtWork(row, bucket[r], vs, ops)
      BY <1>6, <2>1, <2>6 DEF OneAtWork
    <2> QED
      BY <2>4, <2>7
  <1> HIDE DEF held, new
  <1>8. ops'.late = 0 => OneAtWork(reports[r], bucket[r], attempts[r], ops)'
    BY <1>2, <1>4, <1>5, <1>7
  <1> QED
    BY <1>4, <1>5, <1>8, ReportStep

\* A report begins with nothing stored and no attempts.
LEMMA CommitReportPlanInv ==
  ASSUME TypeOK, PlanInv, NEW q \in Requests, CommitReport(q)
  PROVE  PlanInv'
  <1>1. PICK row : row = [shift |-> req[q].shift, version |-> req[q].version,
                          frozen |-> req[q].frozen, status |-> "QUEUED", owner |-> 0,
                          pinned |-> NoArtifacts, output |-> 0]
    OBVIOUS
  <1>2. /\ reports' = Append(reports, row) /\ bucket' = Append(bucket, Empty)
        /\ attempts' = Append(attempts, <<>>) /\ ops' = ops
    BY <1>1 DEF CommitReport
  <1>3. /\ reports \in Seq(ReportRow) /\ bucket \in Seq(Stored) /\ attempts \in Seq(Seq(Attempt))
        /\ Len(bucket) = Len(reports) /\ Len(attempts) = Len(reports)
    BY DEF TypeOK
  <1>4. StoredInOrder(Empty, ops)
    <2>1. \A k \in DOMAIN After : ~Has(Empty, k)
      BY Kinds DEF Has, Empty, NoArtifacts
    <2> QED
      BY <2>1, Kinds DEF StoredInOrder
  <1>5. OneAtWork(row, Empty, <<>>, ops)
    <2>1. row.status = "QUEUED"
      BY <1>1
    <2> QED
      BY <1>4, <2>1 DEF OneAtWork
  <1>6. \A k \in DOMAIN reports' :
          \/ /\ k \in DOMAIN reports /\ reports'[k] = reports[k] /\ bucket'[k] = bucket[k]
             /\ attempts'[k] = attempts[k]
          \/ reports'[k] = row /\ bucket'[k] = Empty /\ attempts'[k] = <<>>
    BY <1>2, <1>3
  <1> QED
    BY <1>2, <1>5, <1>6 DEF PlanInv

\* The requests leave the workers' variables alone.
LEMMA DeskPlanInv ==
  ASSUME PlanInv, UNCHANGED <<reports, bucket, attempts>>, ops'.late = ops.late, NoFewer(ops, ops')
  PROVE  PlanInv'
  <1> SUFFICES ASSUME ops.late = 0, NEW r \in DOMAIN reports
               PROVE  OneAtWork(reports[r], bucket[r], attempts[r], ops')
    BY DEF PlanInv
  <1>1. OneAtWork(reports[r], bucket[r], attempts[r], ops)
    BY DEF PlanInv
  <1> QED
    BY <1>1, ReadsGrow

\* Every step keeps PlanInv.
LEMMA NextPlanInv ==
  ASSUME TypeOK, PlanInv, [Next]_vars
  PROVE  PlanInv'
  <1>1. ops \in [requests : Nat, late : Nat, reads : Nat, misses : Nat]
    BY DEF TypeOK
  <1>2. ASSUME UNCHANGED <<reports, bucket, attempts>>,
               ops' = ops \/ ops' = [ops EXCEPT !.requests = @ + 1]
        PROVE  PlanInv'
    <2>1. ops'.late = ops.late /\ NoFewer(ops, ops')
      BY <1>1, <1>2 DEF NoFewer
    <2> QED
      BY <1>2, <2>1, DeskPlanInv
  <1>3. ASSUME NEW q \in Requests, NEW s \in Shifts, OpenShift(q, s) \/ GenerateReport(q, s)
        PROVE  PlanInv'
    BY <1>2, <1>3 DEF OpenShift, GenerateReport, Begin
  <1>4. ASSUME NEW q \in Requests, NEW i \in Incidents, CreateIncident(q, i)
        PROVE  PlanInv'
    BY <1>2, <1>4 DEF CreateIncident, Begin
  <1>5. ASSUME NEW q \in Requests, DeskStep(q)
        PROVE  PlanInv'
    <2>1. CASE CommitReport(q)
      BY <2>1, CommitReportPlanInv
    <2>2. CASE ~CommitReport(q)
      BY <1>2, <1>5, <2>2 DEF DeskStep, CommitOpenShift, OpenConflict, InsertIncident,
         CommitIncident, UploadSnapshot, GenerateFails
    <2> QED
      BY <2>1, <2>2
  <1>6. ASSUME NEW s \in Shifts, CloseShift(s)
        PROVE  PlanInv'
    BY <1>2, <1>6 DEF CloseShift
  <1>7. ASSUME NEW i \in Incidents, DeleteIncident(i)
        PROVE  PlanInv'
    BY <1>2, <1>7 DEF DeleteIncident
  <1>8. CASE UNCHANGED vars
    BY <1>2, <1>8 DEF vars
  <1> QED
    BY <1>3, <1>4, <1>5, <1>6, <1>7, <1>8, ClaimPlanInv, WorkerPlanInv DEF Next

\* The locks of generate_report and create_incident, together with what they
\* protect, and the discipline of the daily-report workers hold in every
\* reachable state.
THEOREM ReportsInvariant == Spec => []IInv
  <1>1. Init => IInv
    <2>1. Init => PlanInv
      BY DEF Init, PlanInv
    <2> QED
      BY <2>1, InitInv DEF IInv
  <1>2. IInv /\ [Next]_vars => IInv'
    BY NextInv, NextPlanInv DEF IInv, DeskInv
  <1> QED
    BY <1>1, <1>2, PTL DEF Spec

\* The reports of a shift are numbered without a gap and without a collision,
\* whatever requests overlap, fail or are repeated.
THEOREM ReportsVersionsAreGapless == Spec => []VersionsAreGapless
  <1>1. IInv => VersionsAreGapless
    BY DEF IInv, DeskInv
  <1> QED
    BY <1>1, ReportsInvariant, PTL

\* The display id that a creation is about to commit is nobody else's.
THEOREM ReportsDisplayIdsDoNotCollide == Spec => []DisplayIdsDoNotCollide
  <1>1. IInv => DisplayIdsDoNotCollide
    BY DEF IInv, DeskInv
  <1> QED
    BY <1>1, ReportsInvariant, PTL

\* No incident of a shift is missing from the snapshot that is being frozen.
THEOREM ReportsFrozenIsComplete == Spec => []FrozenIsComplete
  <1>1. IInv => FrozenIsComplete
    BY DEF IInv, DeskInv
  <1> QED
    BY <1>1, ReportsInvariant, PTL

\* The DOCX, the preview and the screenshots that a report pins are all there; they
\* are from one plan unless both a saved plan and a complete set of artifacts went
\* unread, and from the one that the row records unless a saved plan did, after any
\* number of crashes, retries and failed uploads, for any number of reports that no
\* two workers were at work on at once.
THEOREM ReportsPinnedFromOnePlan == Spec => []PinnedFromOnePlan
  <1>1. IInv => PinnedFromOnePlan
    BY DEF IInv, PlanInv, OneAtWork, PinnedFromOnePlan
  <1> QED
    BY <1>1, ReportsInvariant, PTL
=============================================================================
