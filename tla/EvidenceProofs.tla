--------------------------- MODULE EvidenceProofs ---------------------------
(***************************************************************************)
(* IInv of EvidenceLifecycle is inductive: one lemma per conjunct, one     *)
(* step per action that writes what the conjunct reads.                    *)
(***************************************************************************)
EXTENDS EvidenceLifecycle, TLAPS

\* The sweep never finds Evidence behind an abandoned intent, so cleaning an
\* intent always deletes all its versions.
LEMMA CleanDeletes ==
  ASSUME IInv, NEW s \in Sweepers, CleanVersions(s)
  PROVE  /\ cur[s] \in Uploads /\ evidence[cur[s]] = "none"
         /\ intent[cur[s]] \in {"OPEN", "EXPIRED"} /\ spc[s] = "clean"
         /\ versions' = [versions EXCEPT ![cur[s]] = {}]
         /\ spc' = [spc EXCEPT ![s] = "cleaned"]
         /\ UNCHANGED <<intentVars, puts, rowVars, requestVars, cur, skip, left, faults>>
  <1>1. cur[s] \in Uploads /\ intent[cur[s]] \in {"OPEN", "EXPIRED"} /\ spc[s] = "clean"
    BY DEF IInv, IntentLocks, CleanVersions, CleanLocked
  <1>2. evidence[cur[s]] = "none"
    BY <1>1 DEF IInv, IntentLocks
  <1> QED
    BY <1>1, <1>2 DEF CleanVersions, intentVars, rowVars, requestVars

\* Every step of uploads, requests and sweepers keeps the types.
LEMMA NextTypeOK == IInv /\ [Next]_vars => TypeOK'
  <1> SUFFICES ASSUME IInv, [Next]_vars
               PROVE  TypeOK'
    OBVIOUS
  <1>1. CASE UNCHANGED <<incident, intent, due, url, puts, versions, evidence, pinned,
                         refs, hold, head, rpc, target, todo, dirty, spc, cur, skip,
                         left, faults, protected>>
    BY <1>1 DEF IInv, TypeOK
  <1>2. ASSUME NEW u \in Uploads, request_upload_url(u)
        PROVE  TypeOK'
    BY <1>2
       DEF IInv, TypeOK, request_upload_url, storeVars, rowVars, requestVars, sweepVars
  <1>3. ASSUME NEW u \in Uploads, ClientPut(u)
        PROVE  TypeOK'
    BY <1>3, EvidenceBounds
       DEF ClientPut, IInv, TypeOK, intentVars, rowVars, requestVars, sweepVars
  <1>4. ASSUME NEW u \in Uploads, IntentExpires(u)
        PROVE  TypeOK'
    BY <1>4 DEF IInv, IntentExpires, TypeOK, storeVars, rowVars, requestVars, sweepVars
  <1>5. ASSUME NEW u \in Uploads, UrlExpires(u)
        PROVE  TypeOK'
    BY <1>5 DEF IInv, TypeOK, UrlExpires, storeVars, rowVars, requestVars, sweepVars
  <1>6. ASSUME NEW u \in Uploads, CompleteExpired(u)
        PROVE  TypeOK'
    BY <1>6 DEF CompleteExpired, IInv, TypeOK, storeVars, rowVars, requestVars, sweepVars
  <1>7. ASSUME NEW u \in Uploads, CompleteLock(u)
        PROVE  TypeOK'
    BY <1>7 DEF CompleteLock, IInv, TypeOK, storeVars, rowVars, requestVars, sweepVars
  <1>8. ASSUME NEW u \in Uploads, CompleteHead(u)
        PROVE  TypeOK'
    BY <1>8 DEF CompleteHead, IInv, TypeOK, storeVars, rowVars, requestVars, sweepVars
  <1>9. ASSUME NEW u \in Uploads, CompleteReject(u)
        PROVE  TypeOK'
    BY <1>9, EvidenceBounds
       DEF CompleteReject, IInv, Release, TypeOK, rowVars, requestVars, sweepVars
  <1>10. ASSUME NEW u \in Uploads, CompleteAbort(u)
        PROVE  TypeOK'
    BY <1>10, EvidenceBounds
       DEF CompleteAbort, IInv, Release, TypeOK, storeVars, rowVars, requestVars,
           sweepVars
  <1>11. ASSUME NEW u \in Uploads, CompleteCommit(u)
        PROVE  TypeOK'
    BY <1>11, EvidenceBounds
       DEF CompleteCommit, IInv, Release, TypeOK, storeVars, requestVars, sweepVars
  <1>12. ASSUME NEW r \in Requests, NEW u \in Uploads, ReadForReference(r, u)
        PROVE  TypeOK'
    BY <1>12 DEF IInv, ReadForReference, TypeOK, intentVars, storeVars, rowVars, sweepVars
  <1>13. ASSUME NEW r \in Requests, NEW k \in Kinds, CommitReference(r, k)
        PROVE  TypeOK'
    BY <1>13
       DEF CommitReference, EndRequest, IInv, TypeOK, intentVars, storeVars, sweepVars
  <1>14. ASSUME NEW r \in Requests, NEW u \in Uploads, delete_evidence(r, u)
        PROVE  TypeOK'
    BY <1>14
       DEF CheckPurge, IInv, TypeOK, delete_evidence, intentVars, storeVars, rowVars,
           sweepVars
  <1>15. ASSUME NEW r \in Requests, delete_incident(r)
        PROVE  TypeOK'
    BY <1>15
       DEF CheckPurge, IInv, TypeOK, delete_incident, intentVars, storeVars, rowVars,
           sweepVars
  <1>16. ASSUME NEW r \in Requests, CommitDeletion(r)
        PROVE  TypeOK'
    BY <1>16
       DEF CommitDeletion, IInv, ToPurge, Tombstones, TypeOK, intentVars, storeVars,
           sweepVars
  <1>17. ASSUME NEW r \in Requests, CommitIncidentDeletion(r)
        PROVE  TypeOK'
    <2>1. evidence' \in [Uploads -> {"none", "ACTIVE", "PURGE_PENDING", "PURGED"}]
      BY <1>17 DEF CommitIncidentDeletion, Tombstones, IInv, TypeOK
    <2>2. refs' \in [Uploads -> SUBSET Kinds]
      BY <1>17 DEF CommitIncidentDeletion, IInv, TypeOK
    <2>3. protected' \in [Uploads -> BOOLEAN]
      BY <1>17, Zenon DEF CommitIncidentDeletion
    <2>4. intent' \in [Uploads -> {"none", "OPEN", "EXPIRED", "COMPLETED", "CLEANED", "deleted"}]
      BY <1>17 DEF CommitIncidentDeletion, IInv, TypeOK
    <2> QED
      BY <1>17, <2>1, <2>2, <2>3, <2>4
         DEF CommitIncidentDeletion, ToPurge, IInv, TypeOK, storeVars, sweepVars
  <1>18. ASSUME NEW r \in Requests, NEW u \in Uploads, PurgeStorage(r, u)
        PROVE  TypeOK'
    BY <1>18 DEF IInv, PurgeStorage, TypeOK, intentVars, rowVars, sweepVars
  <1>19. ASSUME NEW r \in Requests, NEW u \in Uploads, PurgeStorageFails(r, u)
        PROVE  TypeOK'
    BY <1>19, EvidenceBounds
       DEF Done, Fault, IInv, PurgeStorageFails, TypeOK, intentVars, storeVars, rowVars,
           sweepVars
  <1>20. ASSUME NEW r \in Requests, mark_purged(r)
        PROVE  TypeOK'
    BY <1>20 DEF Done, IInv, TypeOK, mark_purged, intentVars, storeVars, sweepVars
  <1>21. ASSUME NEW r \in Requests, RequestRollsBack(r)
        PROVE  TypeOK'
    BY <1>21
       DEF EndRequest, IInv, RequestRollsBack, TypeOK, intentVars, storeVars, rowVars,
           sweepVars
  <1>22. ASSUME NEW r \in Requests, RequestDies(r)
        PROVE  TypeOK'
    BY <1>22, EvidenceBounds
       DEF EndRequest, Fault, IInv, RequestDies, TypeOK, intentVars, storeVars, rowVars,
           sweepVars
  <1>23. ASSUME NEW s \in Sweepers, StartSweep(s)
        PROVE  TypeOK'
    BY <1>23, EvidenceBounds
       DEF IInv, StartSweep, TypeOK, intentVars, storeVars, rowVars, requestVars
  <1>24. ASSUME NEW s \in Sweepers, SelectPending(s)
        PROVE  TypeOK'
    BY <1>24, EvidenceBounds
       DEF IInv, PendingRows, PurgeLocked, SelectPending, TypeOK, intentVars, storeVars,
           rowVars, requestVars
  <1>25. ASSUME NEW s \in Sweepers, SweepUnreferenced(s)
        PROVE  TypeOK'
    BY <1>25
       DEF IInv, PurgeLocked, SweepUnreferenced, TypeOK, intentVars, storeVars, rowVars,
           requestVars
  <1>26. ASSUME NEW s \in Sweepers, SweepReferenced(s)
        PROVE  TypeOK'
    BY <1>26
       DEF IInv, PurgeLocked, SweepReferenced, SweepTo, SweepersPurgeTombstones, TypeOK,
           intentVars, storeVars, rowVars, requestVars
  <1>27. ASSUME NEW s \in Sweepers, SweepPurge(s)
        PROVE  TypeOK'
    BY <1>27 DEF IInv, PurgeLocked, SweepPurge, TypeOK, intentVars, rowVars, requestVars
  <1>28. ASSUME NEW s \in Sweepers, SweepPurgeFails(s)
        PROVE  TypeOK'
    BY <1>28, EvidenceBounds
       DEF Fault, IInv, SweepPurgeFails, SweepTo, TypeOK, intentVars, storeVars,
           rowVars, requestVars
  <1>29. ASSUME NEW s \in Sweepers, SweepCommit(s)
        PROVE  TypeOK'
    BY <1>29 DEF IInv, SweepCommit, SweepTo, TypeOK, intentVars, storeVars, requestVars
  <1>30. ASSUME NEW s \in Sweepers, ToIntents(s)
        PROVE  TypeOK'
    BY <1>30, EvidenceBounds
       DEF IInv, ToIntents, TypeOK, intentVars, storeVars, rowVars, requestVars
  <1>31. ASSUME NEW s \in Sweepers, SelectAbandoned(s)
        PROVE  TypeOK'
    BY <1>31, EvidenceBounds
       DEF Abandoned, CleanLocked, IInv, SelectAbandoned, TypeOK, intentVars, storeVars,
           rowVars, requestVars
  <1>32. ASSUME NEW s \in Sweepers, CleanVersions(s)
        PROVE  TypeOK'
    <2>1. /\ cur[s] \in Uploads /\ evidence[cur[s]] = "none" /\ spc[s] = "clean"
          /\ intent[cur[s]] \in {"OPEN", "EXPIRED"}
          /\ versions' = [versions EXCEPT ![cur[s]] = {}]
          /\ spc' = [spc EXCEPT ![s] = "cleaned"]
          /\ UNCHANGED <<incident, intent, due, url, hold, head, puts, evidence, pinned, refs,
                         protected, rpc, target, todo, dirty, cur, skip, left, faults>>
      BY <1>32, CleanDeletes DEF intentVars, rowVars, requestVars
    <2> QED
      BY <2>1 DEF TypeOK, IInv, CleanLocked
  <1>33. ASSUME NEW s \in Sweepers, CleanFails(s)
        PROVE  TypeOK'
    BY <1>33, EvidenceBounds
       DEF CleanFails, Fault, IInv, IntentLocks, SweepTo, TypeOK, intentVars, storeVars,
           rowVars, requestVars
  <1>34. ASSUME NEW s \in Sweepers, CleanCommit(s)
        PROVE  TypeOK'
    BY <1>34 DEF CleanCommit, IInv, SweepTo, TypeOK, storeVars, rowVars, requestVars
  <1>35. ASSUME NEW s \in Sweepers, EndSweep(s)
        PROVE  TypeOK'
    BY <1>35
       DEF EndSweep, IInv, SweepTo, TypeOK, intentVars, storeVars, rowVars, requestVars
  <1>36. ASSUME NEW s \in Sweepers, SweeperDies(s)
        PROVE  TypeOK'
    BY <1>36, EvidenceBounds
       DEF Fault, IInv, SweepTo, SweeperDies, TypeOK, intentVars, storeVars, rowVars,
           requestVars
  <1> QED
    BY <1>1, <1>2, <1>3, <1>4, <1>5, <1>6, <1>7, <1>8, <1>9, <1>10, <1>11, <1>12, <1>13,
       <1>14, <1>15, <1>16, <1>17, <1>18, <1>19, <1>20, <1>21, <1>22, <1>23, <1>24,
       <1>25, <1>26, <1>27, <1>28, <1>29, <1>30, <1>31, <1>32, <1>33, <1>34, <1>35,
       <1>36
       DEF Next, CompleteStep, SweeperStep, vars, intentVars, storeVars, rowVars,
           requestVars, sweepVars

\* A PUT numbers its version past every earlier one, and a pin is the number of
\* a version that was there.
LEMMA NextVersions == IInv /\ [Next]_vars => VersionsArePuts'
  <1> SUFFICES ASSUME IInv, [Next]_vars
               PROVE  VersionsArePuts'
    OBVIOUS
  <1>1. CASE UNCHANGED <<versions, puts, pinned>>
    BY <1>1 DEF IInv, VersionsArePuts
  <1>2. ASSUME NEW u \in Uploads, ClientPut(u)
        PROVE  VersionsArePuts'
    BY <1>2 DEF ClientPut, IInv, TypeOK, VersionsArePuts, rowVars
  <1>3. ASSUME NEW u \in Uploads, CompleteReject(u)
        PROVE  VersionsArePuts'
    BY <1>3 DEF CompleteReject, IInv, VersionsArePuts, rowVars
  <1>4. ASSUME NEW u \in Uploads, CompleteCommit(u)
        PROVE  VersionsArePuts'
    BY <1>4 DEF CompleteCommit, IInv, IntentLocks, VersionsArePuts, storeVars
  <1>5. ASSUME NEW r \in Requests, NEW u \in Uploads, PurgeStorage(r, u)
        PROVE  VersionsArePuts'
    BY <1>5 DEF IInv, PurgeStorage, VersionsArePuts, rowVars
  <1>6. ASSUME NEW s \in Sweepers, SweepPurge(s)
        PROVE  VersionsArePuts'
    BY <1>6 DEF IInv, SweepPurge, VersionsArePuts, rowVars
  <1>7. ASSUME NEW s \in Sweepers, CleanVersions(s)
        PROVE  VersionsArePuts'
    <2>1. /\ cur[s] \in Uploads /\ evidence[cur[s]] = "none" /\ spc[s] = "clean"
          /\ intent[cur[s]] \in {"OPEN", "EXPIRED"}
          /\ versions' = [versions EXCEPT ![cur[s]] = {}]
          /\ spc' = [spc EXCEPT ![s] = "cleaned"]
          /\ UNCHANGED <<incident, intent, due, url, hold, head, puts, evidence, pinned, refs,
                         protected, rpc, target, todo, dirty, cur, skip, left, faults>>
      BY <1>7, CleanDeletes DEF intentVars, rowVars, requestVars
    <2> QED
      BY <2>1 DEF VersionsArePuts, IInv, TypeOK
  <1> QED
    BY <1>1, <1>2, <1>3, <1>4, <1>5, <1>6, <1>7
       DEF Next, CompleteStep, SweeperStep, vars, intentVars, storeVars, rowVars,
           requestVars, sweepVars, request_upload_url, IntentExpires, UrlExpires,
           CompleteExpired, CompleteLock, CompleteHead, CompleteAbort, ReadForReference,
           CommitReference, delete_evidence, delete_incident, CommitDeletion,
           CommitIncidentDeletion, PurgeStorageFails, mark_purged, RequestRollsBack,
           RequestDies, StartSweep, SelectPending, SweepUnreferenced, SweepReferenced,
           SweepPurgeFails, SweepCommit, ToIntents, SelectAbandoned, CleanFails,
           CleanCommit, EndSweep, SweeperDies, CheckPurge, Done, EndRequest, Fault,
           Purgeable, Release, SweepTo, ToPurge, Tombstones

\* FOR UPDATE in complete_upload and SKIP LOCKED in the sweep keep an intent
\* with one holder, and an intent that may be held has no Evidence.
LEMMA NextIntentLocks == IInv /\ [Next]_vars => IntentLocks'
  <1> SUFFICES ASSUME IInv, [Next]_vars
               PROVE  IntentLocks'
    OBVIOUS
  <1>1. CASE UNCHANGED <<intent, hold, head, versions, evidence, spc, cur, puts>>
    BY <1>1 DEF IInv, IntentLocks, IntentSwept
  <1>2. ASSUME NEW u \in Uploads, request_upload_url(u)
        PROVE  IntentLocks'
    BY <1>2
       DEF IInv, IntentLocks, IntentSwept, request_upload_url, storeVars, rowVars,
           sweepVars
  <1>3. ASSUME NEW u \in Uploads, ClientPut(u)
        PROVE  IntentLocks'
    BY <1>3 DEF ClientPut, IInv, IntentLocks, IntentSwept, intentVars, rowVars, sweepVars
  <1>4. ASSUME NEW u \in Uploads, CompleteExpired(u)
        PROVE  IntentLocks'
    BY <1>4
       DEF CompleteExpired, IInv, IntentFree, IntentLocks, IntentSwept, storeVars,
           rowVars, sweepVars
  <1>5. ASSUME NEW u \in Uploads, CompleteLock(u)
        PROVE  IntentLocks'
    BY <1>5
       DEF CompleteLock, IInv, IntentFree, IntentLocks, IntentSwept, storeVars, rowVars,
           sweepVars
  <1>6. ASSUME NEW u \in Uploads, CompleteHead(u)
        PROVE  IntentLocks'
    BY <1>6
       DEF CompleteHead, IInv, IntentLocks, IntentSwept, TypeOK, storeVars, rowVars,
           sweepVars
  <1>7. ASSUME NEW u \in Uploads, CompleteReject(u)
        PROVE  IntentLocks'
    BY <1>7
       DEF CompleteReject, IInv, IntentLocks, IntentSwept, Release, TypeOK, rowVars,
           sweepVars
  <1>8. ASSUME NEW u \in Uploads, CompleteAbort(u)
        PROVE  IntentLocks'
    BY <1>8
       DEF CompleteAbort, IInv, IntentLocks, IntentSwept, Release, TypeOK, storeVars,
           rowVars, sweepVars
  <1>9. ASSUME NEW u \in Uploads, CompleteCommit(u)
        PROVE  IntentLocks'
    BY <1>9
       DEF CompleteCommit, IInv, IntentLocks, IntentSwept, Release, TypeOK, storeVars,
           sweepVars
  <1>10. ASSUME NEW r \in Requests, CommitDeletion(r)
        PROVE  IntentLocks'
    BY <1>10
       DEF CommitDeletion, IInv, IntentLocks, IntentSwept, RequestsPurgeTombstones,
           Tombstones, intentVars, storeVars, sweepVars
  <1>11. ASSUME NEW r \in Requests, CommitIncidentDeletion(r)
        PROVE  IntentLocks'
    BY <1>11
       DEF CommitIncidentDeletion, IInv, IntentFree, IntentLocks, IntentSwept,
           RequestsPurgeTombstones, Tombstones, sweepVars
  <1>12. ASSUME NEW r \in Requests, NEW u \in Uploads, PurgeStorage(r, u)
        PROVE  IntentLocks'
    BY <1>12
       DEF IInv, IntentLocks, IntentSwept, PurgeStorage, RequestsPurgeTombstones,
           intentVars, rowVars, sweepVars
  <1>13. ASSUME NEW r \in Requests, mark_purged(r)
        PROVE  IntentLocks'
    BY <1>13
       DEF IInv, IntentLocks, IntentSwept, RequestsPurgeTombstones, mark_purged,
           intentVars, storeVars, sweepVars
  <1>14. ASSUME NEW s \in Sweepers, StartSweep(s)
        PROVE  IntentLocks'
    BY <1>14
       DEF CleanLocked, IInv, IntentLocks, IntentSwept, StartSweep, intentVars,
           storeVars, rowVars
  <1>15. ASSUME NEW s \in Sweepers, SelectPending(s)
        PROVE  IntentLocks'
    BY <1>15
       DEF CleanLocked, IInv, IntentLocks, IntentSwept, SelectPending, intentVars,
           storeVars, rowVars
  <1>16. ASSUME NEW s \in Sweepers, SweepUnreferenced(s)
        PROVE  IntentLocks'
    BY <1>16
       DEF CleanLocked, IInv, IntentLocks, IntentSwept, SweepUnreferenced, intentVars,
           storeVars, rowVars
  <1>17. ASSUME NEW s \in Sweepers, SweepReferenced(s)
        PROVE  IntentLocks'
    BY <1>17
       DEF CleanLocked, IInv, IntentLocks, IntentSwept, SweepReferenced, SweepTo,
           intentVars, storeVars, rowVars
  <1>18. ASSUME NEW s \in Sweepers, SweepPurge(s)
        PROVE  IntentLocks'
    BY <1>18
       DEF CleanLocked, IInv, IntentLocks, IntentSwept, PurgeLocked, SweepPurge,
           SweepersPurgeTombstones, intentVars, rowVars
  <1>19. ASSUME NEW s \in Sweepers, SweepPurgeFails(s)
        PROVE  IntentLocks'
    BY <1>19
       DEF CleanLocked, IInv, IntentLocks, IntentSwept, SweepPurgeFails, SweepTo,
           intentVars, storeVars, rowVars
  <1>20. ASSUME NEW s \in Sweepers, SweepCommit(s)
        PROVE  IntentLocks'
    BY <1>20
       DEF CleanLocked, IInv, IntentLocks, IntentSwept, PurgeLocked, SweepCommit,
           SweepTo, SweepersPurgeTombstones, intentVars, storeVars
  <1>21. ASSUME NEW s \in Sweepers, ToIntents(s)
        PROVE  IntentLocks'
    BY <1>21
       DEF CleanLocked, IInv, IntentLocks, IntentSwept, ToIntents, intentVars,
           storeVars, rowVars
  <1>22. ASSUME NEW s \in Sweepers, SelectAbandoned(s)
        PROVE  IntentLocks'
    BY <1>22
       DEF Abandoned, IInv, IntentFree, IntentLocks, IntentSwept, SelectAbandoned,
           TypeOK, intentVars, storeVars, rowVars
  <1>23. ASSUME NEW s \in Sweepers, CleanVersions(s)
        PROVE  IntentLocks'
    <2>1. /\ cur[s] \in Uploads /\ evidence[cur[s]] = "none" /\ spc[s] = "clean"
          /\ intent[cur[s]] \in {"OPEN", "EXPIRED"}
          /\ versions' = [versions EXCEPT ![cur[s]] = {}]
          /\ spc' = [spc EXCEPT ![s] = "cleaned"]
          /\ UNCHANGED <<incident, intent, due, url, hold, head, puts, evidence, pinned, refs,
                         protected, rpc, target, todo, dirty, cur, skip, left, faults>>
      BY <1>23, CleanDeletes DEF intentVars, rowVars, requestVars
    <2> QED
      BY <2>1 DEF IntentLocks, IInv, TypeOK, IntentSwept, CleanLocked
  <1>24. ASSUME NEW s \in Sweepers, CleanFails(s)
        PROVE  IntentLocks'
    BY <1>24
       DEF CleanFails, CleanLocked, IInv, IntentLocks, IntentSwept, SweepTo, TypeOK,
           intentVars, storeVars, rowVars
  <1>25. ASSUME NEW s \in Sweepers, CleanCommit(s)
        PROVE  IntentLocks'
    BY <1>25
       DEF CleanCommit, CleanLocked, IInv, IntentLocks, IntentSwept, SweepTo, TypeOK,
           storeVars, rowVars
  <1>26. ASSUME NEW s \in Sweepers, EndSweep(s)
        PROVE  IntentLocks'
    BY <1>26
       DEF CleanLocked, EndSweep, IInv, IntentLocks, IntentSwept, SweepTo, intentVars,
           storeVars, rowVars
  <1>27. ASSUME NEW s \in Sweepers, SweeperDies(s)
        PROVE  IntentLocks'
    BY <1>27
       DEF CleanLocked, IInv, IntentLocks, IntentSwept, SweepTo, SweeperDies, TypeOK,
           intentVars, storeVars, rowVars
  <1> QED
    BY <1>1, <1>2, <1>3, <1>4, <1>5, <1>6, <1>7, <1>8, <1>9, <1>10, <1>11, <1>12, <1>13,
       <1>14, <1>15, <1>16, <1>17, <1>18, <1>19, <1>20, <1>21, <1>22, <1>23, <1>24,
       <1>25, <1>26, <1>27
       DEF Next, CompleteStep, SweeperStep, vars, intentVars, storeVars, rowVars,
           requestVars, sweepVars, IntentExpires, UrlExpires, ReadForReference,
           CommitReference, delete_evidence, delete_incident, PurgeStorageFails,
           RequestRollsBack, RequestDies, CheckPurge, Done, EndRequest, Fault, Purgeable

\* A deletion request purges rows it has made tombstones, or that were.
LEMMA NextRequests == IInv /\ [Next]_vars => RequestsPurgeTombstones'
  <1> SUFFICES ASSUME IInv, [Next]_vars
               PROVE  RequestsPurgeTombstones'
    OBVIOUS
  <1>1. CASE UNCHANGED <<rpc, todo, dirty, target, evidence, pinned, versions>>
    BY <1>1 DEF IInv, RequestsPurgeTombstones
  <1>2. ASSUME NEW u \in Uploads, ClientPut(u)
        PROVE  RequestsPurgeTombstones'
    BY <1>2
       DEF ClientPut, IInv, RequestsPurgeTombstones, TypeOK, VersionsArePuts, rowVars,
           requestVars
  <1>3. ASSUME NEW u \in Uploads, CompleteReject(u)
        PROVE  RequestsPurgeTombstones'
    BY <1>3 DEF CompleteReject, IInv, RequestsPurgeTombstones, rowVars, requestVars
  <1>4. ASSUME NEW u \in Uploads, CompleteCommit(u)
        PROVE  RequestsPurgeTombstones'
    BY <1>4
       DEF CompleteCommit, IInv, IntentLocks, RequestsPurgeTombstones, storeVars,
           requestVars
  <1>5. ASSUME NEW r \in Requests, NEW u \in Uploads, ReadForReference(r, u)
        PROVE  RequestsPurgeTombstones'
    BY <1>5
       DEF IInv, ReadForReference, RequestsPurgeTombstones, TypeOK, storeVars, rowVars
  <1>6. ASSUME NEW r \in Requests, NEW k \in Kinds, CommitReference(r, k)
        PROVE  RequestsPurgeTombstones'
    BY <1>6
       DEF CommitReference, EndRequest, IInv, RequestsPurgeTombstones, TypeOK, storeVars
  <1>7. ASSUME NEW r \in Requests, NEW u \in Uploads, delete_evidence(r, u)
        PROVE  RequestsPurgeTombstones'
    BY <1>7
       DEF CheckPurge, IInv, RequestsPurgeTombstones, TypeOK, delete_evidence,
           storeVars, rowVars
  <1>8. ASSUME NEW r \in Requests, delete_incident(r)
        PROVE  RequestsPurgeTombstones'
    BY <1>8
       DEF CheckPurge, IInv, RequestsPurgeTombstones, TypeOK, delete_incident,
           storeVars, rowVars
  <1>9. ASSUME NEW r \in Requests, CommitDeletion(r)
        PROVE  RequestsPurgeTombstones'
    BY <1>9
       DEF CommitDeletion, IInv, RequestsPurgeTombstones, ToPurge, Tombstones, TypeOK,
           storeVars
  <1>10. ASSUME NEW r \in Requests, CommitIncidentDeletion(r)
        PROVE  RequestsPurgeTombstones'
    BY <1>10
       DEF CommitIncidentDeletion, IInv, RequestsPurgeTombstones, ToPurge, Tombstones,
           TypeOK, storeVars
  <1>11. ASSUME NEW r \in Requests, NEW u \in Uploads, PurgeStorage(r, u)
        PROVE  RequestsPurgeTombstones'
    BY <1>11 DEF IInv, PurgeStorage, RequestsPurgeTombstones, TypeOK, rowVars
  <1>12. ASSUME NEW r \in Requests, NEW u \in Uploads, PurgeStorageFails(r, u)
        PROVE  RequestsPurgeTombstones'
    BY <1>12
       DEF Done, IInv, PurgeStorageFails, RequestsPurgeTombstones, TypeOK, storeVars,
           rowVars
  <1>13. ASSUME NEW r \in Requests, mark_purged(r)
        PROVE  RequestsPurgeTombstones'
    BY <1>13 DEF Done, IInv, RequestsPurgeTombstones, TypeOK, mark_purged, storeVars
  <1>14. ASSUME NEW r \in Requests, RequestRollsBack(r)
        PROVE  RequestsPurgeTombstones'
    BY <1>14
       DEF EndRequest, IInv, RequestRollsBack, RequestsPurgeTombstones, TypeOK,
           storeVars, rowVars
  <1>15. ASSUME NEW r \in Requests, RequestDies(r)
        PROVE  RequestsPurgeTombstones'
    BY <1>15
       DEF EndRequest, IInv, RequestDies, RequestsPurgeTombstones, TypeOK, storeVars,
           rowVars
  <1>16. ASSUME NEW s \in Sweepers, SweepPurge(s)
        PROVE  RequestsPurgeTombstones'
    BY <1>16 DEF IInv, RequestsPurgeTombstones, SweepPurge, rowVars, requestVars
  <1>17. ASSUME NEW s \in Sweepers, SweepCommit(s)
        PROVE  RequestsPurgeTombstones'
    BY <1>17 DEF IInv, RequestsPurgeTombstones, SweepCommit, storeVars, requestVars
  <1>18. ASSUME NEW s \in Sweepers, CleanVersions(s)
        PROVE  RequestsPurgeTombstones'
    <2>1. /\ cur[s] \in Uploads /\ evidence[cur[s]] = "none" /\ spc[s] = "clean"
          /\ intent[cur[s]] \in {"OPEN", "EXPIRED"}
          /\ versions' = [versions EXCEPT ![cur[s]] = {}]
          /\ spc' = [spc EXCEPT ![s] = "cleaned"]
          /\ UNCHANGED <<incident, intent, due, url, hold, head, puts, evidence, pinned, refs,
                         protected, rpc, target, todo, dirty, cur, skip, left, faults>>
      BY <1>18, CleanDeletes DEF intentVars, rowVars, requestVars
    <2> QED
      BY <2>1 DEF RequestsPurgeTombstones, IInv, TypeOK
  <1> QED
    BY <1>1, <1>2, <1>3, <1>4, <1>5, <1>6, <1>7, <1>8, <1>9, <1>10, <1>11, <1>12, <1>13,
       <1>14, <1>15, <1>16, <1>17, <1>18
       DEF Next, CompleteStep, SweeperStep, vars, intentVars, storeVars, rowVars,
           requestVars, sweepVars, request_upload_url, IntentExpires, UrlExpires,
           CompleteExpired, CompleteLock, CompleteHead, CompleteAbort, StartSweep,
           SelectPending, SweepUnreferenced, SweepReferenced, SweepPurgeFails, ToIntents,
           SelectAbandoned, CleanFails, CleanCommit, EndSweep, SweeperDies, Fault,
           Release, SweepTo

\* A sweeper purges a tombstone that it alone has locked.
LEMMA NextSweepers == IInv /\ [Next]_vars => SweepersPurgeTombstones'
  <1> SUFFICES ASSUME IInv, [Next]_vars
               PROVE  SweepersPurgeTombstones'
    OBVIOUS
  <1>1. CASE UNCHANGED <<spc, cur, evidence, pinned, versions>>
    BY <1>1 DEF IInv, SweepersPurgeTombstones
  <1>2. ASSUME NEW u \in Uploads, ClientPut(u)
        PROVE  SweepersPurgeTombstones'
    BY <1>2
       DEF ClientPut, IInv, SweepersPurgeTombstones, TypeOK, VersionsArePuts, rowVars,
           sweepVars
  <1>3. ASSUME NEW u \in Uploads, CompleteReject(u)
        PROVE  SweepersPurgeTombstones'
    BY <1>3 DEF CompleteReject, IInv, SweepersPurgeTombstones, rowVars, sweepVars
  <1>4. ASSUME NEW u \in Uploads, CompleteCommit(u)
        PROVE  SweepersPurgeTombstones'
    BY <1>4
       DEF CompleteCommit, IInv, IntentLocks, PurgeLocked, SweepersPurgeTombstones,
           storeVars, sweepVars
  <1>5. ASSUME NEW r \in Requests, CommitDeletion(r)
        PROVE  SweepersPurgeTombstones'
    BY <1>5
       DEF CommitDeletion, IInv, SweepersPurgeTombstones, Tombstones, storeVars,
           sweepVars
  <1>6. ASSUME NEW r \in Requests, CommitIncidentDeletion(r)
        PROVE  SweepersPurgeTombstones'
    BY <1>6
       DEF CommitIncidentDeletion, IInv, SweepersPurgeTombstones, Tombstones, storeVars,
           sweepVars
  <1>7. ASSUME NEW r \in Requests, NEW u \in Uploads, PurgeStorage(r, u)
        PROVE  SweepersPurgeTombstones'
    BY <1>7 DEF IInv, PurgeStorage, SweepersPurgeTombstones, rowVars, sweepVars
  <1>8. ASSUME NEW r \in Requests, mark_purged(r)
        PROVE  SweepersPurgeTombstones'
    BY <1>8
       DEF EvidenceLocked, IInv, SweepersPurgeTombstones, mark_purged, storeVars,
           sweepVars
  <1>9. ASSUME NEW s \in Sweepers, StartSweep(s)
        PROVE  SweepersPurgeTombstones'
    BY <1>9 DEF IInv, PurgeLocked, StartSweep, SweepersPurgeTombstones, storeVars, rowVars
  <1>10. ASSUME NEW s \in Sweepers, SelectPending(s)
        PROVE  SweepersPurgeTombstones'
    BY <1>10
       DEF EvidenceLocked, IInv, PendingRows, SelectPending, SweepersPurgeTombstones,
           TypeOK, storeVars, rowVars
  <1>11. ASSUME NEW s \in Sweepers, SweepUnreferenced(s)
        PROVE  SweepersPurgeTombstones'
    BY <1>11
       DEF IInv, PurgeLocked, SweepUnreferenced, SweepersPurgeTombstones, storeVars,
           rowVars
  <1>12. ASSUME NEW s \in Sweepers, SweepReferenced(s)
        PROVE  SweepersPurgeTombstones'
    BY <1>12
       DEF IInv, PurgeLocked, SweepReferenced, SweepTo, SweepersPurgeTombstones, TypeOK,
           storeVars, rowVars
  <1>13. ASSUME NEW s \in Sweepers, SweepPurge(s)
        PROVE  SweepersPurgeTombstones'
    BY <1>13 DEF IInv, PurgeLocked, SweepPurge, SweepersPurgeTombstones, TypeOK, rowVars
  <1>14. ASSUME NEW s \in Sweepers, SweepPurgeFails(s)
        PROVE  SweepersPurgeTombstones'
    BY <1>14
       DEF IInv, PurgeLocked, SweepPurgeFails, SweepTo, SweepersPurgeTombstones, TypeOK,
           storeVars, rowVars
  <1>15. ASSUME NEW s \in Sweepers, SweepCommit(s)
        PROVE  SweepersPurgeTombstones'
    BY <1>15
       DEF IInv, PurgeLocked, SweepCommit, SweepTo, SweepersPurgeTombstones, TypeOK,
           storeVars
  <1>16. ASSUME NEW s \in Sweepers, ToIntents(s)
        PROVE  SweepersPurgeTombstones'
    BY <1>16 DEF IInv, PurgeLocked, SweepersPurgeTombstones, ToIntents, storeVars, rowVars
  <1>17. ASSUME NEW s \in Sweepers, SelectAbandoned(s)
        PROVE  SweepersPurgeTombstones'
    BY <1>17
       DEF IInv, PurgeLocked, SelectAbandoned, SweepersPurgeTombstones, storeVars,
           rowVars
  <1>18. ASSUME NEW s \in Sweepers, CleanVersions(s)
        PROVE  SweepersPurgeTombstones'
    <2>1. /\ cur[s] \in Uploads /\ evidence[cur[s]] = "none" /\ spc[s] = "clean"
          /\ intent[cur[s]] \in {"OPEN", "EXPIRED"}
          /\ versions' = [versions EXCEPT ![cur[s]] = {}]
          /\ spc' = [spc EXCEPT ![s] = "cleaned"]
          /\ UNCHANGED <<incident, intent, due, url, hold, head, puts, evidence, pinned, refs,
                         protected, rpc, target, todo, dirty, cur, skip, left, faults>>
      BY <1>18, CleanDeletes DEF intentVars, rowVars, requestVars
    <2> QED
      BY <2>1 DEF SweepersPurgeTombstones, IInv, TypeOK, PurgeLocked
  <1>19. ASSUME NEW s \in Sweepers, CleanFails(s)
        PROVE  SweepersPurgeTombstones'
    BY <1>19
       DEF CleanFails, CleanLocked, IInv, PurgeLocked, SweepTo, SweepersPurgeTombstones,
           storeVars, rowVars
  <1>20. ASSUME NEW s \in Sweepers, CleanCommit(s)
        PROVE  SweepersPurgeTombstones'
    BY <1>20
       DEF CleanCommit, IInv, PurgeLocked, SweepTo, SweepersPurgeTombstones, storeVars,
           rowVars
  <1>21. ASSUME NEW s \in Sweepers, EndSweep(s)
        PROVE  SweepersPurgeTombstones'
    BY <1>21
       DEF EndSweep, IInv, PurgeLocked, SweepTo, SweepersPurgeTombstones, storeVars,
           rowVars
  <1>22. ASSUME NEW s \in Sweepers, SweeperDies(s)
        PROVE  SweepersPurgeTombstones'
    BY <1>22
       DEF IInv, PurgeLocked, SweepTo, SweeperDies, SweepersPurgeTombstones, TypeOK,
           storeVars, rowVars
  <1> QED
    BY <1>1, <1>2, <1>3, <1>4, <1>5, <1>6, <1>7, <1>8, <1>9, <1>10, <1>11, <1>12, <1>13,
       <1>14, <1>15, <1>16, <1>17, <1>18, <1>19, <1>20, <1>21, <1>22
       DEF Next, CompleteStep, SweeperStep, vars, intentVars, storeVars, rowVars,
           requestVars, sweepVars, request_upload_url, IntentExpires, UrlExpires,
           CompleteExpired, CompleteLock, CompleteHead, CompleteAbort, ReadForReference,
           CommitReference, delete_evidence, delete_incident, PurgeStorageFails,
           RequestRollsBack, RequestDies, CheckPurge, Done, EndRequest, Fault, Purgeable,
           Release

\* A deletion that has passed its reference check is over before the row can
\* become protected, and none passes it while the row is.
LEMMA NextProtected == IInv /\ [Next]_vars => ProtectedIsReferenced'
  <1> SUFFICES ASSUME IInv, [Next]_vars
               PROVE  ProtectedIsReferenced'
    OBVIOUS
  <1>1. CASE UNCHANGED <<protected, refs, evidence, todo, spc, cur>>
    BY <1>1 DEF IInv, ProtectedIsReferenced, PurgeUnderWay
  <1>2. ASSUME NEW u \in Uploads, CompleteCommit(u)
        PROVE  ProtectedIsReferenced'
    BY <1>2
       DEF CompleteCommit, IInv, ProtectedIsReferenced, PurgeUnderWay, requestVars,
           sweepVars
  <1>3. ASSUME NEW r \in Requests, NEW k \in Kinds, CommitReference(r, k)
        PROVE  ProtectedIsReferenced'
    <2> DEFINE t == target[r]
    <2>1. t \in Uploads /\ evidence[t] # "none" /\ evidence' = evidence
      BY <1>3 DEF CommitReference, IInv, RequestsPurgeTombstones
    <2>2. ASSUME NEW u \in Uploads, protected'[u]
          PROVE  protected[u] \/ (u = t /\ ~PurgeUnderWay(u))
      <3>1. protected \in [Uploads -> BOOLEAN]
        BY DEF IInv, TypeOK
      <3>2. CASE u = t
        BY <1>3, <2>1, <2>2, <3>1, <3>2, Zenon DEF CommitReference
      <3>3. CASE u # t
        BY <1>3, <2>1, <2>2, <3>1, <3>3, Zenon DEF CommitReference
      <3> QED
        BY <3>2, <3>3
    <2>3. \A u \in Uploads : (refs[u] # {} \/ u = t) => refs'[u] # {}
      BY <1>3, <2>1 DEF CommitReference, IInv, TypeOK
    <2>4. \A u \in Uploads : ~PurgeUnderWay(u) => ~PurgeUnderWay(u)'
      BY <1>3 DEF CommitReference, EndRequest, PurgeUnderWay, sweepVars, IInv, TypeOK
    <2> QED
      BY <2>1, <2>2, <2>3, <2>4 DEF IInv, ProtectedIsReferenced
  <1>4. ASSUME NEW r \in Requests, NEW u \in Uploads, delete_evidence(r, u)
        PROVE  ProtectedIsReferenced'
    BY <1>4
       DEF CheckPurge, IInv, ProtectedIsKept, ProtectedIsReferenced, PurgeUnderWay,
           Purgeable, PurgedIsGone, delete_evidence, rowVars, sweepVars
  <1>5. ASSUME NEW r \in Requests, delete_incident(r)
        PROVE  ProtectedIsReferenced'
    BY <1>5
       DEF CheckPurge, IInv, ProtectedIsKept, ProtectedIsReferenced, Purgeable,
           PurgedIsGone, delete_incident, rowVars
  <1>6. ASSUME NEW r \in Requests, CommitDeletion(r)
        PROVE  ProtectedIsReferenced'
    BY <1>6
       DEF CommitDeletion, IInv, ProtectedIsReferenced, PurgeUnderWay, ToPurge,
           Tombstones, sweepVars
  <1>7. ASSUME NEW r \in Requests, CommitIncidentDeletion(r)
        PROVE  ProtectedIsReferenced'
    <2>1. \A u \in Uploads : protected'[u] => protected[u] /\ refs'[u] # {}
      BY <1>7, Zenon DEF CommitIncidentDeletion
    <2>2. \A u \in Uploads : evidence[u] # "none" => evidence'[u] # "none"
      BY <1>7 DEF CommitIncidentDeletion, Tombstones
    <2>3. \A u \in Uploads : ~PurgeUnderWay(u) => ~PurgeUnderWay(u)'
      BY <1>7 DEF CommitIncidentDeletion, ToPurge, PurgeUnderWay, sweepVars
    <2> QED
      BY <2>1, <2>2, <2>3 DEF IInv, ProtectedIsReferenced
  <1>8. ASSUME NEW r \in Requests, NEW u \in Uploads, PurgeStorageFails(r, u)
        PROVE  ProtectedIsReferenced'
    BY <1>8
       DEF Done, IInv, ProtectedIsReferenced, PurgeStorageFails, PurgeUnderWay, rowVars,
           sweepVars
  <1>9. ASSUME NEW r \in Requests, mark_purged(r)
        PROVE  ProtectedIsReferenced'
    BY <1>9 DEF Done, IInv, ProtectedIsReferenced, PurgeUnderWay, mark_purged, sweepVars
  <1>10. ASSUME NEW r \in Requests, RequestRollsBack(r)
        PROVE  ProtectedIsReferenced'
    BY <1>10
       DEF EndRequest, IInv, ProtectedIsReferenced, PurgeUnderWay, RequestRollsBack,
           rowVars, sweepVars
  <1>11. ASSUME NEW r \in Requests, RequestDies(r)
        PROVE  ProtectedIsReferenced'
    BY <1>11
       DEF EndRequest, IInv, ProtectedIsReferenced, PurgeUnderWay, RequestDies, rowVars,
           sweepVars
  <1>12. ASSUME NEW s \in Sweepers, StartSweep(s)
        PROVE  ProtectedIsReferenced'
    BY <1>12
       DEF IInv, ProtectedIsReferenced, PurgeUnderWay, StartSweep, rowVars, requestVars
  <1>13. ASSUME NEW s \in Sweepers, SelectPending(s)
        PROVE  ProtectedIsReferenced'
    BY <1>13
       DEF IInv, ProtectedIsReferenced, PurgeUnderWay, SelectPending, rowVars,
           requestVars
  <1>14. ASSUME NEW s \in Sweepers, SweepUnreferenced(s)
        PROVE  ProtectedIsReferenced'
    BY <1>14
       DEF IInv, ProtectedIsReferenced, PurgeUnderWay, SweepUnreferenced, rowVars,
           requestVars
  <1>15. ASSUME NEW s \in Sweepers, SweepReferenced(s)
        PROVE  ProtectedIsReferenced'
    BY <1>15
       DEF IInv, ProtectedIsReferenced, PurgeUnderWay, SweepReferenced, SweepTo,
           rowVars, requestVars
  <1>16. ASSUME NEW s \in Sweepers, SweepPurge(s)
        PROVE  ProtectedIsReferenced'
    BY <1>16
       DEF IInv, ProtectedIsReferenced, PurgeUnderWay, SweepPurge, rowVars, requestVars
  <1>17. ASSUME NEW s \in Sweepers, SweepPurgeFails(s)
        PROVE  ProtectedIsReferenced'
    BY <1>17
       DEF IInv, ProtectedIsReferenced, PurgeUnderWay, SweepPurgeFails, SweepTo, TypeOK,
           rowVars, requestVars
  <1>18. ASSUME NEW s \in Sweepers, SweepCommit(s)
        PROVE  ProtectedIsReferenced'
    BY <1>18
       DEF IInv, ProtectedIsReferenced, PurgeUnderWay, SweepCommit, SweepTo, TypeOK,
           requestVars
  <1>19. ASSUME NEW s \in Sweepers, ToIntents(s)
        PROVE  ProtectedIsReferenced'
    BY <1>19
       DEF IInv, ProtectedIsReferenced, PurgeUnderWay, ToIntents, rowVars, requestVars
  <1>20. ASSUME NEW s \in Sweepers, SelectAbandoned(s)
        PROVE  ProtectedIsReferenced'
    BY <1>20
       DEF IInv, ProtectedIsReferenced, PurgeUnderWay, SelectAbandoned, rowVars,
           requestVars
  <1>21. ASSUME NEW s \in Sweepers, CleanVersions(s)
        PROVE  ProtectedIsReferenced'
    BY <1>21
       DEF CleanVersions, IInv, IntentLocks, ProtectedIsReferenced, PurgeUnderWay,
           SweepTo, TypeOK, rowVars, requestVars
  <1>22. ASSUME NEW s \in Sweepers, CleanFails(s)
        PROVE  ProtectedIsReferenced'
    BY <1>22
       DEF CleanFails, IInv, IntentLocks, ProtectedIsReferenced, PurgeLocked,
           PurgeUnderWay, SweepTo, SweepersPurgeTombstones, rowVars, requestVars
  <1>23. ASSUME NEW s \in Sweepers, CleanCommit(s)
        PROVE  ProtectedIsReferenced'
    BY <1>23
       DEF CleanCommit, IInv, ProtectedIsReferenced, PurgeUnderWay, SweepTo, rowVars,
           requestVars
  <1>24. ASSUME NEW s \in Sweepers, EndSweep(s)
        PROVE  ProtectedIsReferenced'
    BY <1>24
       DEF EndSweep, IInv, ProtectedIsReferenced, PurgeUnderWay, SweepTo, rowVars,
           requestVars
  <1>25. ASSUME NEW s \in Sweepers, SweeperDies(s)
        PROVE  ProtectedIsReferenced'
    BY <1>25
       DEF IInv, ProtectedIsReferenced, PurgeUnderWay, SweepTo, SweeperDies, TypeOK,
           rowVars, requestVars
  <1> QED
    BY <1>1, <1>2, <1>3, <1>4, <1>5, <1>6, <1>7, <1>8, <1>9, <1>10, <1>11, <1>12, <1>13,
       <1>14, <1>15, <1>16, <1>17, <1>18, <1>19, <1>20, <1>21, <1>22, <1>23, <1>24,
       <1>25
       DEF Next, CompleteStep, SweeperStep, vars, intentVars, storeVars, rowVars,
           requestVars, sweepVars, request_upload_url, ClientPut, IntentExpires,
           UrlExpires, CompleteExpired, CompleteLock, CompleteHead, CompleteReject,
           CompleteAbort, ReadForReference, PurgeStorage, Release

\* No step takes the pinned version of ACTIVE evidence away.
LEMMA NextActive == IInv /\ [Next]_vars => ActiveHasBytes'
  <1> SUFFICES ASSUME IInv, [Next]_vars
               PROVE  ActiveHasBytes'
    OBVIOUS
  <1>1. CASE UNCHANGED <<evidence, pinned, versions>>
    BY <1>1 DEF ActiveHasBytes, IInv
  <1>2. ASSUME NEW u \in Uploads, ClientPut(u)
        PROVE  ActiveHasBytes'
    BY <1>2 DEF ActiveHasBytes, ClientPut, IInv, rowVars
  <1>3. ASSUME NEW u \in Uploads, CompleteReject(u)
        PROVE  ActiveHasBytes'
    BY <1>3 DEF ActiveHasBytes, CompleteReject, IInv, IntentLocks, rowVars
  <1>4. ASSUME NEW u \in Uploads, CompleteCommit(u)
        PROVE  ActiveHasBytes'
    BY <1>4 DEF ActiveHasBytes, CompleteCommit, IInv, IntentLocks, TypeOK, storeVars
  <1>5. ASSUME NEW r \in Requests, CommitDeletion(r)
        PROVE  ActiveHasBytes'
    BY <1>5 DEF ActiveHasBytes, CommitDeletion, IInv, Tombstones, storeVars
  <1>6. ASSUME NEW r \in Requests, CommitIncidentDeletion(r)
        PROVE  ActiveHasBytes'
    BY <1>6 DEF ActiveHasBytes, CommitIncidentDeletion, IInv, Tombstones, storeVars
  <1>7. ASSUME NEW r \in Requests, NEW u \in Uploads, PurgeStorage(r, u)
        PROVE  ActiveHasBytes'
    BY <1>7 DEF ActiveHasBytes, IInv, PurgeStorage, RequestsPurgeTombstones, rowVars
  <1>8. ASSUME NEW r \in Requests, mark_purged(r)
        PROVE  ActiveHasBytes'
    BY <1>8 DEF ActiveHasBytes, IInv, mark_purged, storeVars
  <1>9. ASSUME NEW s \in Sweepers, SweepPurge(s)
        PROVE  ActiveHasBytes'
    BY <1>9
       DEF ActiveHasBytes, IInv, PurgeLocked, SweepPurge, SweepersPurgeTombstones,
           rowVars
  <1>10. ASSUME NEW s \in Sweepers, SweepCommit(s)
        PROVE  ActiveHasBytes'
    BY <1>10 DEF ActiveHasBytes, IInv, SweepCommit, storeVars
  <1>11. ASSUME NEW s \in Sweepers, CleanVersions(s)
        PROVE  ActiveHasBytes'
    <2>1. /\ cur[s] \in Uploads /\ evidence[cur[s]] = "none" /\ spc[s] = "clean"
          /\ intent[cur[s]] \in {"OPEN", "EXPIRED"}
          /\ versions' = [versions EXCEPT ![cur[s]] = {}]
          /\ spc' = [spc EXCEPT ![s] = "cleaned"]
          /\ UNCHANGED <<incident, intent, due, url, hold, head, puts, evidence, pinned, refs,
                         protected, rpc, target, todo, dirty, cur, skip, left, faults>>
      BY <1>11, CleanDeletes DEF intentVars, rowVars, requestVars
    <2> QED
      BY <2>1 DEF ActiveHasBytes, IInv, TypeOK
  <1> QED
    BY <1>1, <1>2, <1>3, <1>4, <1>5, <1>6, <1>7, <1>8, <1>9, <1>10, <1>11
       DEF Next, CompleteStep, SweeperStep, vars, intentVars, storeVars, rowVars,
           requestVars, sweepVars, request_upload_url, IntentExpires, UrlExpires,
           CompleteExpired, CompleteLock, CompleteHead, CompleteAbort, ReadForReference,
           CommitReference, delete_evidence, delete_incident, PurgeStorageFails,
           RequestRollsBack, RequestDies, StartSweep, SelectPending, SweepUnreferenced,
           SweepReferenced, SweepPurgeFails, ToIntents, SelectAbandoned, CleanFails,
           CleanCommit, EndSweep, SweeperDies, CheckPurge, Done, EndRequest, Fault,
           Purgeable, Release, SweepTo

\* A row becomes PURGED after its version is gone, and no PUT brings it back.
LEMMA NextPurged == IInv /\ [Next]_vars => PurgedIsGone'
  <1> SUFFICES ASSUME IInv, [Next]_vars
               PROVE  PurgedIsGone'
    OBVIOUS
  <1>1. CASE UNCHANGED <<evidence, pinned, versions>>
    BY <1>1 DEF IInv, PurgedIsGone
  <1>2. ASSUME NEW u \in Uploads, ClientPut(u)
        PROVE  PurgedIsGone'
    BY <1>2 DEF ClientPut, IInv, PurgedIsGone, TypeOK, VersionsArePuts, rowVars
  <1>3. ASSUME NEW u \in Uploads, CompleteReject(u)
        PROVE  PurgedIsGone'
    BY <1>3 DEF CompleteReject, IInv, PurgedIsGone, rowVars
  <1>4. ASSUME NEW u \in Uploads, CompleteCommit(u)
        PROVE  PurgedIsGone'
    BY <1>4 DEF CompleteCommit, IInv, IntentLocks, PurgedIsGone, storeVars
  <1>5. ASSUME NEW r \in Requests, CommitDeletion(r)
        PROVE  PurgedIsGone'
    BY <1>5 DEF CommitDeletion, IInv, PurgedIsGone, Tombstones, storeVars
  <1>6. ASSUME NEW r \in Requests, CommitIncidentDeletion(r)
        PROVE  PurgedIsGone'
    BY <1>6 DEF CommitIncidentDeletion, IInv, PurgedIsGone, Tombstones, storeVars
  <1>7. ASSUME NEW r \in Requests, NEW u \in Uploads, PurgeStorage(r, u)
        PROVE  PurgedIsGone'
    BY <1>7 DEF IInv, PurgeStorage, PurgedIsGone, rowVars
  <1>8. ASSUME NEW r \in Requests, mark_purged(r)
        PROVE  PurgedIsGone'
    BY <1>8 DEF IInv, PurgedIsGone, RequestsPurgeTombstones, mark_purged, storeVars
  <1>9. ASSUME NEW s \in Sweepers, SweepPurge(s)
        PROVE  PurgedIsGone'
    BY <1>9 DEF IInv, PurgedIsGone, SweepPurge, rowVars
  <1>10. ASSUME NEW s \in Sweepers, SweepCommit(s)
        PROVE  PurgedIsGone'
    BY <1>10 DEF IInv, PurgedIsGone, SweepCommit, SweepersPurgeTombstones, storeVars
  <1>11. ASSUME NEW s \in Sweepers, CleanVersions(s)
        PROVE  PurgedIsGone'
    <2>1. /\ cur[s] \in Uploads /\ evidence[cur[s]] = "none" /\ spc[s] = "clean"
          /\ intent[cur[s]] \in {"OPEN", "EXPIRED"}
          /\ versions' = [versions EXCEPT ![cur[s]] = {}]
          /\ spc' = [spc EXCEPT ![s] = "cleaned"]
          /\ UNCHANGED <<incident, intent, due, url, hold, head, puts, evidence, pinned, refs,
                         protected, rpc, target, todo, dirty, cur, skip, left, faults>>
      BY <1>11, CleanDeletes DEF intentVars, rowVars, requestVars
    <2> QED
      BY <2>1 DEF PurgedIsGone, IInv, TypeOK
  <1> QED
    BY <1>1, <1>2, <1>3, <1>4, <1>5, <1>6, <1>7, <1>8, <1>9, <1>10, <1>11
       DEF Next, CompleteStep, SweeperStep, vars, intentVars, storeVars, rowVars,
           requestVars, sweepVars, request_upload_url, IntentExpires, UrlExpires,
           CompleteExpired, CompleteLock, CompleteHead, CompleteAbort, ReadForReference,
           CommitReference, delete_evidence, delete_incident, PurgeStorageFails,
           RequestRollsBack, RequestDies, StartSweep, SelectPending, SweepUnreferenced,
           SweepReferenced, SweepPurgeFails, ToIntents, SelectAbandoned, CleanFails,
           CleanCommit, EndSweep, SweeperDies, CheckPurge, Done, EndRequest, Fault,
           Purgeable, Release, SweepTo

\* No step takes the pinned version of a protected row away.
LEMMA NextKept == IInv /\ [Next]_vars => ProtectedIsKept'
  <1> SUFFICES ASSUME IInv, [Next]_vars
               PROVE  ProtectedIsKept'
    OBVIOUS
  <1>1. CASE UNCHANGED <<protected, pinned, versions>>
    BY <1>1 DEF IInv, ProtectedIsKept
  <1>2. ASSUME NEW u \in Uploads, ClientPut(u)
        PROVE  ProtectedIsKept'
    BY <1>2 DEF ClientPut, IInv, ProtectedIsKept, rowVars
  <1>3. ASSUME NEW u \in Uploads, CompleteReject(u)
        PROVE  ProtectedIsKept'
    BY <1>3
       DEF CompleteReject, IInv, IntentLocks, ProtectedIsKept, ProtectedIsReferenced,
           rowVars
  <1>4. ASSUME NEW u \in Uploads, CompleteCommit(u)
        PROVE  ProtectedIsKept'
    BY <1>4 DEF CompleteCommit, IInv, IntentLocks, ProtectedIsKept, storeVars
  <1>5. ASSUME NEW r \in Requests, NEW k \in Kinds, CommitReference(r, k)
        PROVE  ProtectedIsKept'
    BY <1>5 DEF CommitReference, IInv, ProtectedIsKept, TypeOK, storeVars
  <1>6. ASSUME NEW r \in Requests, CommitIncidentDeletion(r)
        PROVE  ProtectedIsKept'
    BY <1>6 DEF CommitIncidentDeletion, IInv, ProtectedIsKept, storeVars
  <1>7. ASSUME NEW r \in Requests, NEW u \in Uploads, PurgeStorage(r, u)
        PROVE  ProtectedIsKept'
    BY <1>7
       DEF IInv, ProtectedIsKept, ProtectedIsReferenced, PurgeStorage, PurgeUnderWay,
           rowVars
  <1>8. ASSUME NEW s \in Sweepers, SweepPurge(s)
        PROVE  ProtectedIsKept'
    BY <1>8
       DEF IInv, ProtectedIsKept, ProtectedIsReferenced, PurgeUnderWay, SweepPurge,
           rowVars
  <1>9. ASSUME NEW s \in Sweepers, CleanVersions(s)
        PROVE  ProtectedIsKept'
    BY <1>9
       DEF CleanVersions, IInv, ProtectedIsKept, ProtectedIsReferenced, TypeOK, rowVars,
           requestVars
  <1> QED
    BY <1>1, <1>2, <1>3, <1>4, <1>5, <1>6, <1>7, <1>8, <1>9
       DEF Next, CompleteStep, SweeperStep, vars, intentVars, storeVars, rowVars,
           requestVars, sweepVars, request_upload_url, IntentExpires, UrlExpires,
           CompleteExpired, CompleteLock, CompleteHead, CompleteAbort, ReadForReference,
           delete_evidence, delete_incident, CommitDeletion, PurgeStorageFails,
           mark_purged, RequestRollsBack, RequestDies, StartSweep, SelectPending,
           SweepUnreferenced, SweepReferenced, SweepPurgeFails, SweepCommit, ToIntents,
           SelectAbandoned, CleanFails, CleanCommit, EndSweep, SweeperDies, CheckPurge,
           Done, EndRequest, Fault, Purgeable, Release, SweepTo, ToPurge, Tombstones

\* The initial states, with some uploads already complete, satisfy IInv.
LEMMA InitIInv == Init => IInv
  <1> SUFFICES ASSUME Init PROVE IInv
    OBVIOUS
  <1> USE EvidenceBounds, ExistingAssumption
  <1>1. TypeOK
    BY DEF Init, TypeOK, PurgeLocked, CleanLocked
  <1>2. VersionsArePuts
    BY DEF Init, VersionsArePuts
  <1>3. IntentLocks
    BY DEF Init, IntentLocks, IntentSwept, CleanLocked
  <1>4. RequestsPurgeTombstones /\ SweepersPurgeTombstones
    BY DEF Init, RequestsPurgeTombstones, SweepersPurgeTombstones, PurgeLocked
  <1>5. ProtectedIsReferenced /\ ProtectedIsKept
    BY DEF Init, ProtectedIsReferenced, ProtectedIsKept
  <1>6. ActiveHasBytes /\ PurgedIsGone
    BY DEF Init, ActiveHasBytes, PurgedIsGone
  <1> QED
    BY <1>1, <1>2, <1>3, <1>4, <1>5, <1>6 DEF IInv

\* The whole invariant holds in every reachable state of the evidence rows,
\* the upload intents, the requests and the sweepers of evidence.py,
\* evidence_lifecycle.py and evidence_purge_worker.py, for any number of
\* uploads, requests, sweepers, PUTs and faults.
THEOREM EvidenceInvariant == Spec => []IInv
  <1>1. IInv /\ [Next]_vars => IInv'
    <2> SUFFICES ASSUME IInv, [Next]_vars PROVE IInv'
      OBVIOUS
    <2>1. TypeOK' /\ VersionsArePuts' /\ IntentLocks'
      BY NextTypeOK, NextVersions, NextIntentLocks
    <2>2. RequestsPurgeTombstones' /\ SweepersPurgeTombstones' /\ ProtectedIsReferenced'
      BY NextRequests, NextSweepers, NextProtected
    <2>3. ActiveHasBytes' /\ PurgedIsGone' /\ ProtectedIsKept'
      BY NextActive, NextPurged, NextKept
    <2> QED
      BY <2>1, <2>2, <2>3 DEF IInv
  <1> QED
    BY <1>1, InitIInv, PTL DEF Spec

\* ACTIVE evidence always has the exact version it was completed with, however
\* complete_upload, the intent sweep and deletions interleave.
THEOREM EvidenceActiveHasBytes == Spec => []ActiveHasBytes
  <1>1. IInv => ActiveHasBytes
    BY DEF IInv
  <1> QED
    BY <1>1, EvidenceInvariant, PTL

\* mark_purged and the sweep write PURGED only for bytes that are gone, through
\* storage errors and deaths between the object store and the database.
THEOREM EvidencePurgedIsGone == Spec => []PurgedIsGone
  <1>1. IInv => PurgedIsGone
    BY DEF IInv
  <1> QED
    BY <1>1, EvidenceInvariant, PTL

\* The reference check of request_purge, repeated by sweep_pending_purges under
\* the row lock, protects bytes whose reference was committed before it.
THEOREM EvidenceProtectedIsKept == Spec => []ProtectedIsKept
  <1>1. IInv => ProtectedIsKept
    BY DEF IInv
  <1> QED
    BY <1>1, EvidenceInvariant, PTL
=============================================================================
