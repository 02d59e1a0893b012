---------------------------- MODULE OutboxProofs ----------------------------
(***************************************************************************)
(* Proofs about Outbox for every number of events and dispatchers, every   *)
(* batch size and every bound on crashes and publish errors.               *)
(***************************************************************************)
EXTENDS Outbox, TLAPS

USE NAssumption, NobodyAssumption, BatchAssumption, BoundAssumption, PoisonAssumption
    DEF Events, NoEvent

LEMMA InitIInv == Init => IInv
  BY DEF Init, IInv, TypeOK, PublisherHoldsLock, SentIsConfirmed, AbsentIsUnsent,
         AwaitsCommit, PendingCopiesAreFailures, DeletedWasPublished, DuplicatesOnlyByFailure

\* Typing, one step per action.
LEMMA NextTypeOK == TypeOK /\ PublisherHoldsLock /\ [Next]_vars => TypeOK'
  <1> SUFFICES ASSUME TypeOK, PublisherHoldsLock, [Next]_vars
               PROVE  TypeOK'
    OBVIOUS
  <1> USE DEF TypeOK
  <1>1. ASSUME NEW e \in Events, Commit(e) PROVE TypeOK'
    BY <1>1 DEF Commit
  <1>2. ASSUME NEW e \in Events, Age(e) PROVE TypeOK'
    BY <1>2 DEF Age
  <1>3. ASSUME NEW d \in Dispatchers, StartPass(d) PROVE TypeOK'
    BY <1>3 DEF StartPass
  <1>4. ASSUME NEW d \in Dispatchers, SelectRow(d) PROVE TypeOK'
    BY <1>4 DEF SelectRow, Selectable
  <1>5. ASSUME NEW d \in Dispatchers, EndPass(d) PROVE TypeOK'
    BY <1>5 DEF EndPass
  <1>6. ASSUME NEW d \in Dispatchers, PublishConfirmed(d) PROVE TypeOK'
    BY <1>6 DEF PublishConfirmed, PublisherHoldsLock
  <1>7. ASSUME NEW d \in Dispatchers, PublishRefused(d) PROVE TypeOK'
    BY <1>7 DEF PublishRefused
  <1>15. ASSUME NEW d \in Dispatchers, PublishInterrupted(d) PROVE TypeOK'
    <2>1. cur[d] \in Events
      BY <1>15 DEF PublishInterrupted, PublisherHoldsLock
    <2>2. sent' \in [Events -> Nat]
      <3>1. sent' = sent \/ sent' = [sent EXCEPT ![cur[d]] = @ + 1]
        BY <1>15 DEF PublishInterrupted
      <3>2. CASE sent' = sent
        BY <3>2
      <3>3. CASE sent' = [sent EXCEPT ![cur[d]] = @ + 1]
        BY <2>1, <3>3
      <3> QED
        BY <3>1, <3>2, <3>3
    <2> QED
      BY <1>15, <2>2 DEF PublishInterrupted
  <1>8. ASSUME NEW d \in Dispatchers, MarkPublished(d) PROVE TypeOK'
    BY <1>8 DEF MarkPublished, Unlock
  <1>9. ASSUME NEW d \in Dispatchers, MarkErrored(d) PROVE TypeOK'
    BY <1>9 DEF MarkErrored, Unlock, PublisherHoldsLock
  <1>10. ASSUME NEW d \in Dispatchers, CleanupSelect(d) PROVE TypeOK'
    BY <1>10 DEF CleanupSelect
  <1>11. ASSUME NEW d \in Dispatchers, CleanupDelete(d) PROVE TypeOK'
    BY <1>11 DEF CleanupDelete, Unlock
  <1>12. ASSUME NEW d \in Dispatchers, SkipCleanup(d) PROVE TypeOK'
    BY <1>12 DEF SkipCleanup
  <1>13. ASSUME NEW d \in Dispatchers, Crash(d) PROVE TypeOK'
    BY <1>13 DEF Crash, Unlock
  <1>14. CASE UNCHANGED vars
    BY <1>14 DEF vars
  <1> QED
    BY <1>1, <1>2, <1>3, <1>4, <1>5, <1>6, <1>7, <1>8, <1>9, <1>10, <1>11, <1>12,
       <1>13, <1>14, <1>15 DEF Next, DispatcherStep

\* A row being published is locked, so two dispatchers never publish the same.
LEMMA PublishersDiffer ==
  ASSUME PublisherHoldsLock, NEW c \in Dispatchers, NEW d \in Dispatchers, c # d,
         dpc[c] \in {"publish", "sent", "errored"},
         dpc[d] \in {"publish", "sent", "errored"}
  PROVE  cur[c] # cur[d]
  BY DEF PublisherHoldsLock

\* The lock discipline: SELECT takes unlocked rows only, an unlock frees the
\* rows of its own dispatcher only, and only the holder changes a pending row.
LEMMA NextPublisherHoldsLock ==
  TypeOK /\ PublisherHoldsLock /\ [Next]_vars => PublisherHoldsLock'
  <1> SUFFICES ASSUME TypeOK, PublisherHoldsLock, [Next]_vars
               PROVE  PublisherHoldsLock'
    OBVIOUS
  <1> USE DEF TypeOK, PublisherHoldsLock
  <1>1. ASSUME NEW e \in Events, Commit(e) PROVE PublisherHoldsLock'
    BY <1>1 DEF Commit
  <1>2. ASSUME NEW e \in Events, Age(e) PROVE PublisherHoldsLock'
    BY <1>2 DEF Age
  <1>3. ASSUME NEW d \in Dispatchers, StartPass(d) PROVE PublisherHoldsLock'
    BY <1>3 DEF StartPass
  <1>4. ASSUME NEW d \in Dispatchers, SelectRow(d) PROVE PublisherHoldsLock'
    BY <1>4 DEF SelectRow, Selectable
  <1>5. ASSUME NEW d \in Dispatchers, EndPass(d) PROVE PublisherHoldsLock'
    BY <1>5 DEF EndPass
  <1>6. ASSUME NEW d \in Dispatchers, PublishConfirmed(d) PROVE PublisherHoldsLock'
    BY <1>6 DEF PublishConfirmed
  <1>7. ASSUME NEW d \in Dispatchers, PublishRefused(d) PROVE PublisherHoldsLock'
    BY <1>7 DEF PublishRefused
  <1>15. ASSUME NEW d \in Dispatchers, PublishInterrupted(d) PROVE PublisherHoldsLock'
    BY <1>15 DEF PublishInterrupted
  <1>8. ASSUME NEW d \in Dispatchers, MarkPublished(d) PROVE PublisherHoldsLock'
    BY <1>8, PublishersDiffer DEF MarkPublished, Unlock
  <1>9. ASSUME NEW d \in Dispatchers, MarkErrored(d) PROVE PublisherHoldsLock'
    BY <1>9 DEF MarkErrored, Unlock
  <1>10. ASSUME NEW d \in Dispatchers, CleanupSelect(d) PROVE PublisherHoldsLock'
    BY <1>10 DEF CleanupSelect, Eligible
  <1>11. ASSUME NEW d \in Dispatchers, CleanupDelete(d) PROVE PublisherHoldsLock'
    BY <1>11 DEF CleanupDelete, Unlock
  <1>12. ASSUME NEW d \in Dispatchers, SkipCleanup(d) PROVE PublisherHoldsLock'
    BY <1>12 DEF SkipCleanup
  <1>13. ASSUME NEW d \in Dispatchers, Crash(d) PROVE PublisherHoldsLock'
    BY <1>13 DEF Crash, Unlock
  <1>14. CASE UNCHANGED vars
    BY <1>14 DEF vars
  <1> QED
    BY <1>1, <1>2, <1>3, <1>4, <1>5, <1>6, <1>7, <1>8, <1>9, <1>10, <1>11, <1>12,
       <1>13, <1>14, <1>15 DEF Next, DispatcherStep

\* The parts of IInv that count copies.
CopiesInv ==
    /\ SentIsConfirmed
    /\ AbsentIsUnsent
    /\ PendingCopiesAreFailures
    /\ DeletedWasPublished
    /\ DuplicatesOnlyByFailure

\* Only PublishConfirmed adds a copy, to a pending row whose lock its
\* dispatcher holds; only MarkPublished leaves "pending", after that copy.
LEMMA NextCopiesInv == IInv /\ [Next]_vars => CopiesInv'
  <1> SUFFICES ASSUME IInv, [Next]_vars
               PROVE  CopiesInv'
    OBVIOUS
  <1> USE DEF IInv, CopiesInv, TypeOK, PublisherHoldsLock, SentIsConfirmed, AbsentIsUnsent,
              AwaitsCommit, PendingCopiesAreFailures, DeletedWasPublished, DuplicatesOnlyByFailure
  <1>1. ASSUME NEW e \in Events, Commit(e) PROVE CopiesInv'
    BY <1>1 DEF Commit
  <1>2. ASSUME NEW e \in Events, Age(e) PROVE CopiesInv'
    BY <1>2 DEF Age
  <1>3. ASSUME NEW d \in Dispatchers, StartPass(d) PROVE CopiesInv'
    BY <1>3 DEF StartPass
  <1>4. ASSUME NEW d \in Dispatchers, SelectRow(d) PROVE CopiesInv'
    BY <1>4 DEF SelectRow, Selectable
  <1>5. ASSUME NEW d \in Dispatchers, EndPass(d) PROVE CopiesInv'
    BY <1>5 DEF EndPass
  <1>6. ASSUME NEW d \in Dispatchers, PublishConfirmed(d) PROVE CopiesInv'
    <2> DEFINE e == cur[d]
    <2>1. /\ e \in Events /\ row[e] = "pending" /\ dpc[d] = "publish"
          /\ sent' = [sent EXCEPT ![e] = @ + 1]
          /\ dpc' = [dpc EXCEPT ![d] = "sent"]
          /\ UNCHANGED <<row, cur, crashes, errors>>
      BY <1>6 DEF PublishConfirmed
    <2>2. ~AwaitsCommit(e)
      BY <2>1, PublishersDiffer
    <2>3. sent[e] <= crashes + errors
      BY <2>1, <2>2
    <2>4. SentIsConfirmed' /\ AbsentIsUnsent' /\ DeletedWasPublished'
      BY <2>1
    <2>5. DuplicatesOnlyByFailure'
      BY <2>1, <2>3
    <2>6. PendingCopiesAreFailures'
      <3> SUFFICES ASSUME NEW f \in Events, row'[f] = "pending", ~AwaitsCommit(f)'
                   PROVE  sent'[f] <= crashes' + errors'
        OBVIOUS
      <3>1. f # e
        BY <2>1
      <3>2. ~AwaitsCommit(f)
        BY <2>1
      <3> QED
        BY <2>1, <3>1, <3>2
    <2> QED
      BY <2>4, <2>5, <2>6
  <1>7. ASSUME NEW d \in Dispatchers, PublishRefused(d) PROVE CopiesInv'
    BY <1>7 DEF PublishRefused
  <1>15. ASSUME NEW d \in Dispatchers, PublishInterrupted(d) PROVE CopiesInv'
    <2> DEFINE e == cur[d]
    <2>1. /\ e \in Events /\ row[e] = "pending" /\ dpc[d] = "publish"
          /\ dpc' = [dpc EXCEPT ![d] = "errored"]
          /\ errors' = errors + 1
          /\ UNCHANGED <<row, cur, crashes>>
      BY <1>15 DEF PublishInterrupted
    <2>2. ASSUME NEW f \in Events
          PROVE  /\ sent'[f] \in {sent[f], sent[f] + 1}
                 /\ f # e => sent'[f] = sent[f]
      <3>1. sent' = sent \/ sent' = [sent EXCEPT ![e] = @ + 1]
        BY <1>15 DEF PublishInterrupted
      <3>2. CASE sent' = sent
        BY <3>2
      <3>3. CASE sent' = [sent EXCEPT ![e] = @ + 1]
        BY <2>1, <3>3
      <3> QED
        BY <3>1, <3>2, <3>3
    <2>3. ASSUME NEW f \in Events PROVE AwaitsCommit(f)' <=> AwaitsCommit(f)
      BY <2>1
    <2>5. SentIsConfirmed'
      <3> SUFFICES ASSUME NEW c \in Dispatchers, dpc'[c] = "sent"
                   PROVE  sent'[cur'[c]] > 0
        OBVIOUS
      <3>1. cur'[c] = cur[c] /\ cur[c] \in Events /\ sent[cur[c]] > 0
        BY <2>1
      <3>2. sent'[cur[c]] \in {sent[cur[c]], sent[cur[c]] + 1} /\ sent[cur[c]] \in Nat
        BY <2>2, <3>1
      <3> QED
        BY <3>1, <3>2
    <2>6. AbsentIsUnsent'
      BY <2>1, <2>2
    <2>7. DeletedWasPublished'
      BY <2>1, <2>2
    <2>8. DuplicatesOnlyByFailure'
      BY <2>1, <2>2
    <2>9. PendingCopiesAreFailures'
      <3> SUFFICES ASSUME NEW f \in Events, row'[f] = "pending", ~AwaitsCommit(f)'
                   PROVE  sent'[f] <= crashes' + errors'
        OBVIOUS
      <3>1. sent[f] <= crashes + errors
        BY <2>1, <2>3
      <3> QED
        BY <2>1, <2>2, <3>1
    <2> QED
      BY <2>5, <2>6, <2>7, <2>8, <2>9
  <1>8. ASSUME NEW d \in Dispatchers, MarkPublished(d) PROVE CopiesInv'
    BY <1>8, PublishersDiffer DEF MarkPublished
  <1>9. ASSUME NEW d \in Dispatchers, MarkErrored(d) PROVE CopiesInv'
    BY <1>9 DEF MarkErrored
  <1>10. ASSUME NEW d \in Dispatchers, CleanupSelect(d) PROVE CopiesInv'
    BY <1>10 DEF CleanupSelect
  <1>11. ASSUME NEW d \in Dispatchers, CleanupDelete(d) PROVE CopiesInv'
    BY <1>11 DEF CleanupDelete
  <1>12. ASSUME NEW d \in Dispatchers, SkipCleanup(d) PROVE CopiesInv'
    BY <1>12 DEF SkipCleanup
  <1>13. ASSUME NEW d \in Dispatchers, Crash(d) PROVE CopiesInv'
    BY <1>13 DEF Crash
  <1>14. CASE UNCHANGED vars
    BY <1>14 DEF vars
  <1> QED
    BY <1>1, <1>2, <1>3, <1>4, <1>5, <1>6, <1>7, <1>8, <1>9, <1>10, <1>11, <1>12,
       <1>13, <1>14, <1>15 DEF Next, DispatcherStep

\* IInv is inductive: it holds in every reachable state of the outbox, for any
\* number of dispatchers that run side by side and crash where they may.
THEOREM OutboxInvariant == Spec => []IInv
  <1>1. IInv /\ [Next]_vars => IInv'
    BY NextTypeOK, NextPublisherHoldsLock, NextCopiesInv DEF IInv, CopiesInv
  <1> QED
    BY InitIInv, <1>1, PTL DEF Spec

\* purge_published_events and the dispatchers never drop an event the broker
\* has not accepted.
THEOREM OutboxDeletedWasPublished == Spec => []DeletedWasPublished
  <1>1. IInv => DeletedWasPublished
    BY DEF IInv
  <1> QED
    BY OutboxInvariant, <1>1, PTL

\* One row per transaction and SKIP LOCKED: concurrent dispatchers make no
\* second copy, only crashes and lost confirms do.
THEOREM OutboxDuplicatesOnlyByFailure == Spec => []DuplicatesOnlyByFailure
  <1>1. IInv => DuplicatesOnlyByFailure
    BY DEF IInv
  <1> QED
    BY OutboxInvariant, <1>1, PTL

\* The outbox implements the abstract at-least-once channel: Commit accepts an
\* event, a publish sends a copy, the commit of published_at settles it (and
\* SentIsConfirmed says a copy was sent), and every other step stutters.
THEOREM OutboxImplementsAtLeastOnce == Spec => ImplementsAtLeastOnce
  <1> USE DEF Delivery!Accept, Delivery!Send, Delivery!Settle, Delivery!Next,
              Delivery!aloVars
  <1>1. Init => Delivery!Init
    BY DEF Init, Delivery!Init
  <1>2. IInv /\ [Next]_vars => [Delivery!Next]_Delivery!aloVars
    <2> SUFFICES ASSUME IInv, [Next]_vars
                 PROVE  [Delivery!Next]_Delivery!aloVars
      OBVIOUS
    <2> USE DEF IInv, TypeOK, PublisherHoldsLock
    <2>1. ASSUME NEW e \in Events, Commit(e) PROVE Delivery!Accept(e)
      BY <2>1 DEF Commit, AbsentIsUnsent
    <2>2. ASSUME NEW d \in Dispatchers, PublishConfirmed(d) PROVE Delivery!Send(cur[d])
      BY <2>2 DEF PublishConfirmed
    <2>3. ASSUME NEW d \in Dispatchers, PublishInterrupted(d)
          PROVE  Delivery!Send(cur[d]) \/ UNCHANGED Delivery!aloVars
      <3>1. sent' = sent \/ sent' = [sent EXCEPT ![cur[d]] = @ + 1]
        BY <2>3 DEF PublishInterrupted
      <3>2. cur[d] \in Events /\ row[cur[d]] = "pending" /\ UNCHANGED row
        BY <2>3 DEF PublishInterrupted
      <3> QED
        BY <3>1, <3>2
    <2>4. ASSUME NEW d \in Dispatchers, MarkPublished(d) PROVE Delivery!Settle(cur[d])
      BY <2>4 DEF MarkPublished, SentIsConfirmed
    <2>5. ASSUME NEW e \in Events, Age(e) PROVE UNCHANGED Delivery!aloVars
      BY <2>5 DEF Age
    <2>6. ASSUME NEW d \in Dispatchers, CleanupDelete(d) PROVE UNCHANGED Delivery!aloVars
      BY <2>6 DEF CleanupDelete
    <2>7. ASSUME NEW d \in Dispatchers,
                 StartPass(d) \/ SelectRow(d) \/ EndPass(d) \/ PublishRefused(d)
                    \/ MarkErrored(d) \/ CleanupSelect(d) \/ SkipCleanup(d) \/ Crash(d)
          PROVE  UNCHANGED Delivery!aloVars
      BY <2>7 DEF StartPass, SelectRow, EndPass, PublishRefused, MarkErrored,
                  CleanupSelect, SkipCleanup, Crash
    <2>8. CASE UNCHANGED vars
      BY <2>8 DEF vars
    <2>9. ASSUME NEW d \in Dispatchers,
                 PublishConfirmed(d) \/ PublishInterrupted(d) \/ MarkPublished(d)
          PROVE  cur[d] \in Events
      BY <2>9 DEF PublishConfirmed, PublishInterrupted, MarkPublished
    <2> QED
      BY <2>1, <2>2, <2>3, <2>4, <2>5, <2>6, <2>7, <2>8, <2>9 DEF Next, DispatcherStep
  <1> QED
    BY OutboxInvariant, <1>1, <1>2, PTL DEF Spec, ImplementsAtLeastOnce, Delivery!Spec
=============================================================================
