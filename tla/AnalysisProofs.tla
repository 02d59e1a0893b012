--------------------------- MODULE AnalysisProofs ---------------------------
(***************************************************************************)
(* IInv of Analysis is inductive, and with it hold what the runs and the   *)
(* registry promise: for any incidents, logs, editions, threads and        *)
(* histories of the registry, and for any bounds.                          *)
(***************************************************************************)
EXTENDS Analysis, FiniteFacts, SequenceTheorems

-----------------------------------------------------------------------------
(***************************************************************************)
(* Tables.                                                                 *)
(***************************************************************************)

\* What every commit leaves of the rows: their skill, their bytes, their pin.
Keeps(tab, tab2) ==
    /\ Len(tab) <= Len(tab2)
    /\ \A n \in 1 .. Len(tab) :
         tab2[n].skill = tab[n].skill /\ tab2[n].edition = tab[n].edition /\ tab2[n].pin = tab[n].pin

\* A function on 1..n is a sequence.
LEMMA FunctionIsSeq ==
  ASSUME NEW S, NEW n \in Nat, NEW f \in [1 .. n -> S]
  PROVE  f \in Seq(S) /\ Len(f) = n
  OBVIOUS

\* The ids of a table's rows, of a skill's rows and of its active rows.
LEMMA TableIds ==
  ASSUME NEW tab \in Seq(SnapRow), NEW s
  PROVE  /\ Len(tab) \in Nat /\ DOMAIN tab = 1 .. Len(tab)
         /\ IsFiniteSet(RowsOf(tab, s)) /\ RowsOf(tab, s) \subseteq Nat
         /\ IsFiniteSet(ActiveRows(tab, s)) /\ ActiveRows(tab, s) \subseteq Nat
  <1>1. Len(tab) \in Nat /\ DOMAIN tab = 1 .. Len(tab)
    OBVIOUS
  <1>2. RowsOf(tab, s) \in SUBSET (1 .. Len(tab)) /\ ActiveRows(tab, s) \in SUBSET (1 .. Len(tab))
    BY <1>1 DEF RowsOf, ActiveRows
  <1> QED
    BY <1>1, <1>2, IdsFinite

\* uq_skill_snapshots_one_active_per_name, without counting.
LEMMA OneActive ==
  ASSUME NEW tab \in Seq(SnapRow)
  PROVE  OneActivePerName(tab) <=> \A s \in Skills : \A m, n \in ActiveRows(tab, s) : m = n
  BY TableIds, AtMostOne DEF OneActivePerName

\* Given the index, a skill with a history has one active row when it has any.
LEMMA OneIsActive ==
  ASSUME NEW tab \in Seq(SnapRow), OneActivePerName(tab)
  PROVE  ExactlyOneActive(tab) <=>
           \A s \in Skills : RowsOf(tab, s) # {} => ActiveRows(tab, s) # {}
  <1>1. \A s \in Skills : Cardinality(ActiveRows(tab, s)) = 1 <=> ActiveRows(tab, s) # {}
    BY TableIds, ExactlyOne, OneActive
  <1> QED
    BY <1>1 DEF ExactlyOneActive

\* A table that ExactlyOneActive holds for satisfies the index.
LEMMA ExactlyIsAtMost ==
  ASSUME NEW tab \in Seq(SnapRow), ExactlyOneActive(tab)
  PROVE  OneActivePerName(tab)
  <1> SUFFICES ASSUME NEW s \in Skills, NEW m \in ActiveRows(tab, s), NEW n \in ActiveRows(tab, s)
               PROVE  m = n
    BY OneActive
  <1>1. RowsOf(tab, s) # {}
    BY DEF ActiveRows
  <1>2. Cardinality(ActiveRows(tab, s)) = 1
    BY <1>1 DEF ExactlyOneActive
  <1> QED
    BY <1>2, TableIds, ExactlyOne

\* compute_execution_hash reads only what every commit keeps.
LEMMA HashIsKept ==
  ASSUME NEW tab \in Seq(SnapRow), NEW tab2, Keeps(tab, tab2), PinsPointBack(tab),
         NEW n \in 1 .. Len(tab)
  PROVE  compute_execution_hash(tab2, n) = compute_execution_hash(tab, n)
  <1>1. tab[n].pin = NoPin \/ tab[n].pin \in 1 .. Len(tab)
    BY DEF PinsPointBack
  <1>2. tab2[n].edition = tab[n].edition /\ tab2[n].pin = tab[n].pin
    BY DEF Keeps
  <1>3. tab[n].pin # NoPin => tab2[tab[n].pin].edition = tab[tab[n].pin].edition
    BY <1>1 DEF Keeps
  <1> QED
    BY <1>2, <1>3 DEF compute_execution_hash

\* What a hash is.
LEMMA HashType ==
  ASSUME NEW tab \in Seq(SnapRow), PinsPointBack(tab), NEW n \in 1 .. Len(tab)
  PROVE  compute_execution_hash(tab, n) \in Hash
  <1>1. \A m \in 1 .. Len(tab) : tab[m].edition \in Editions
    <2>1. \A m \in 1 .. Len(tab) : tab[m] \in SnapRow
      OBVIOUS
    <2> QED
      BY <2>1 DEF SnapRow
  <1>2. tab[n].pin # NoPin => tab[n].pin \in 1 .. Len(tab)
    BY DEF PinsPointBack
  <1> QED
    BY <1>1, <1>2 DEF compute_execution_hash, Hash

-----------------------------------------------------------------------------
(***************************************************************************)
(* The rows of an open transaction.                                        *)
(***************************************************************************)

\* A pending row as it is committed.
Settled(tab, rows, k) ==
    IF rows[k].pin = OwnChild THEN [rows[k] EXCEPT !.pin = Len(tab) + k - 1] ELSE rows[k]

\* The table after a commit: the old rows, then the pending ones with their pins settled.
LEMMA InsertedRows ==
  ASSUME NEW tab \in Seq(SnapRow), NEW rows \in Seq(SnapRow)
  PROVE  /\ Inserted(tab, rows) \in Seq(SnapRow)
         /\ Len(Inserted(tab, rows)) = Len(tab) + Len(rows)
         /\ \A n \in 1 .. Len(tab) : Inserted(tab, rows)[n] = tab[n]
         /\ \A k \in 1 .. Len(rows) : /\ Len(tab) + k \in 1 .. Len(tab) + Len(rows)
                                      /\ Inserted(tab, rows)[Len(tab) + k] = Settled(tab, rows, k)
         /\ \A n \in 1 .. Len(tab) + Len(rows) : n \notin 1 .. Len(tab) =>
              n - Len(tab) \in 1 .. Len(rows) /\ n = Len(tab) + (n - Len(tab))
  <1> DEFINE new == [k \in DOMAIN rows |-> Settled(tab, rows, k)]
  <1>1. Len(tab) \in Nat /\ Len(rows) \in Nat /\ DOMAIN rows = 1 .. Len(rows)
    OBVIOUS
  <1>2. \A k \in 1 .. Len(rows) : Settled(tab, rows, k) \in SnapRow
    <2> SUFFICES ASSUME NEW k \in 1 .. Len(rows)
                 PROVE  Settled(tab, rows, k) \in SnapRow
      OBVIOUS
    <2>1. rows[k] \in SnapRow /\ Len(tab) + k - 1 \in Int
      BY <1>1
    <2> QED
      BY <2>1 DEF Settled, SnapRow
  <1>3. new \in Seq(SnapRow) /\ Len(new) = Len(rows)
    BY <1>1, <1>2
  <1>4. \A k \in 1 .. Len(rows) : new[k] = Settled(tab, rows, k)
    BY <1>1
  <1>5. Inserted(tab, rows) = tab \o new
    BY DEF Inserted, Settled
  <1> HIDE DEF new
  <1>6. Inserted(tab, rows) \in Seq(SnapRow) /\ Len(Inserted(tab, rows)) = Len(tab) + Len(rows)
    <2>1. tab \o new \in Seq(SnapRow) /\ Len(tab \o new) = Len(tab) + Len(new)
      BY <1>3, ConcatProperties
    <2> QED
      BY <1>3, <1>5, <2>1
  <1>7. \A n \in 1 .. Len(tab) : Inserted(tab, rows)[n] = tab[n]
    BY <1>3, <1>5
  <1>8. ASSUME NEW k \in 1 .. Len(rows)
        PROVE  /\ Len(tab) + k \in 1 .. Len(tab) + Len(rows)
               /\ Inserted(tab, rows)[Len(tab) + k] = Settled(tab, rows, k)
    <2>1. Len(tab) + k \in 1 .. Len(tab) + Len(rows) /\ Len(tab) + k > Len(tab)
      BY <1>1
    <2>2. Inserted(tab, rows)[Len(tab) + k] = new[k]
      BY <1>3, <1>5, <1>1, <2>1
    <2> QED
      BY <2>1, <2>2, <1>4
  <1>9. \A n \in 1 .. Len(tab) + Len(rows) : n \notin 1 .. Len(tab) =>
              n - Len(tab) \in 1 .. Len(rows) /\ n = Len(tab) + (n - Len(tab))
    BY <1>1
  <1> QED
    BY <1>6, <1>7, <1>8, <1>9

\* A commit keeps the rows that were there.
LEMMA InsertedKeeps ==
  ASSUME NEW tab \in Seq(SnapRow), NEW rows \in Seq(SnapRow)
  PROVE  Keeps(tab, Inserted(tab, rows))
  <1>1. Len(tab) \in Nat /\ Len(rows) \in Nat
    OBVIOUS
  <1>2. Len(Inserted(tab, rows)) = Len(tab) + Len(rows)
    BY InsertedRows
  <1>3. \A n \in 1 .. Len(tab) : Inserted(tab, rows)[n] = tab[n]
    BY InsertedRows
  <1> QED
    BY <1>1, <1>2, <1>3 DEF Keeps

\* What the commit of a row changes is the pin that had no id yet.
LEMMA SettledRow ==
  ASSUME NEW tab \in Seq(SnapRow), NEW rows \in Seq(SnapRow), Pending(tab, rows), NEW k \in 1 .. Len(rows)
  PROVE  /\ Settled(tab, rows, k).skill = rows[k].skill
         /\ Settled(tab, rows, k).edition = rows[k].edition
         /\ Settled(tab, rows, k).active = rows[k].active
         /\ rows[k].pin = NoPin \/ rows[k].pin \in 1 .. Len(tab) \/ (rows[k].pin = OwnChild /\ k > 1)
         /\ Settled(tab, rows, k).pin = IF rows[k].pin = OwnChild THEN Len(tab) + k - 1 ELSE rows[k].pin
         /\ rows[k].active \in BOOLEAN
  <1>1. rows[k] \in SnapRow /\ Len(tab) \in Nat /\ DOMAIN tab = 1 .. Len(tab)
    OBVIOUS
  <1>2. rows[k].pin \in {NoPin} \cup DOMAIN tab \/ (rows[k].pin = OwnChild /\ k > 1)
    BY DEF Pending
  <1> QED
    BY <1>1, <1>2 DEF Settled, SnapRow

\* A commit of pending rows leaves every pin pointing back.
LEMMA InsertedPins ==
  ASSUME NEW tab \in Seq(SnapRow), PinsPointBack(tab), NEW rows, Pending(tab, rows)
  PROVE  PinsPointBack(Inserted(tab, rows))
  <1>1. rows \in Seq(SnapRow)
    BY DEF Pending
  <1>2. DOMAIN Inserted(tab, rows) = 1 .. Len(tab) + Len(rows)
    BY <1>1, InsertedRows
  <1> SUFFICES ASSUME NEW n \in 1 .. Len(tab) + Len(rows)
               PROVE  Inserted(tab, rows)[n].pin = NoPin \/ Inserted(tab, rows)[n].pin \in 1 .. n - 1
    BY <1>2 DEF PinsPointBack
  <1>3. CASE n \in 1 .. Len(tab)
    <2>1. Inserted(tab, rows)[n] = tab[n]
      BY <1>1, <1>3, InsertedRows
    <2> QED
      BY <1>3, <2>1 DEF PinsPointBack
  <1>4. CASE n \notin 1 .. Len(tab)
    <2>1. PICK k \in 1 .. Len(rows) : n = Len(tab) + k
      BY <1>1, <1>4, InsertedRows
    <2>2. Inserted(tab, rows)[n] = Settled(tab, rows, k)
      BY <1>1, <2>1, InsertedRows
    <2>3. Len(tab) \in Nat /\ Len(rows) \in Nat
      BY <1>1
    <2> QED
      BY <1>1, <2>1, <2>2, <2>3, SettledRow DEF NoPin, OwnChild
  <1> QED
    BY <1>3, <1>4

\* The hash of a pending row, from the rows themselves.
LEMMA HashOfPending ==
  ASSUME NEW tab \in Seq(SnapRow), PinsPointBack(tab), NEW rows, Pending(tab, rows),
         NEW k \in 1 .. Len(rows)
  PROVE  compute_execution_hash(Inserted(tab, rows), Len(tab) + k) =
           [own |-> rows[k].edition,
            child |-> IF rows[k].pin = NoPin THEN <<>>
                      ELSE IF rows[k].pin = OwnChild THEN <<rows[k - 1].edition>>
                      ELSE <<tab[rows[k].pin].edition>>]
  <1> DEFINE new == Inserted(tab, rows)
             n == Len(tab) + k
  <1> SUFFICES compute_execution_hash(new, n) =
                 [own |-> rows[k].edition,
                  child |-> IF rows[k].pin = NoPin THEN <<>>
                            ELSE IF rows[k].pin = OwnChild THEN <<rows[k - 1].edition>>
                            ELSE <<tab[rows[k].pin].edition>>]
    OBVIOUS
  <1>1. rows \in Seq(SnapRow) /\ Len(rows) \in Nat /\ Len(tab) \in Nat
    BY DEF Pending
  <1>2. new[n] = Settled(tab, rows, k)
    BY <1>1, InsertedRows
  <1>3. new[n].edition = rows[k].edition
    BY <1>1, <1>2, SettledRow
  <1>4. CASE rows[k].pin = NoPin
    <2>1. new[n].pin = NoPin
      BY <1>1, <1>2, <1>4, SettledRow DEF NoPin, OwnChild
    <2> QED
      BY <1>3, <1>4, <2>1 DEF compute_execution_hash
  <1>5. CASE rows[k].pin = OwnChild
    <2>1. k - 1 \in 1 .. Len(rows) /\ Len(tab) + k - 1 = Len(tab) + (k - 1)
      BY <1>1, <1>5, SettledRow DEF NoPin, OwnChild
    <2>2. new[n].pin = Len(tab) + (k - 1) /\ new[n].pin # NoPin
      <3>1. Settled(tab, rows, k).pin = Len(tab) + k - 1
        BY <1>1, <1>5, SettledRow
      <3> QED
        BY <1>1, <1>2, <2>1, <3>1 DEF NoPin
    <2>3. new[Len(tab) + (k - 1)] = Settled(tab, rows, k - 1)
      BY <1>1, <2>1, InsertedRows
    <2>4. new[new[n].pin].edition = rows[k - 1].edition
      BY <1>1, <2>1, <2>2, <2>3, SettledRow
    <2>5. rows[k].pin # NoPin
      BY <1>5 DEF NoPin, OwnChild
    <2> HIDE DEF new, n
    <2> QED
      BY <1>3, <1>5, <2>2, <2>4, <2>5 DEF compute_execution_hash
  <1>6. CASE rows[k].pin # NoPin /\ rows[k].pin # OwnChild
    <2>1. rows[k].pin \in 1 .. Len(tab) /\ new[n].pin = rows[k].pin
      BY <1>1, <1>2, <1>6, SettledRow
    <2>2. new[rows[k].pin] = tab[rows[k].pin]
      BY <1>1, <2>1, InsertedRows
    <2> HIDE DEF new, n
    <2> QED
      BY <1>3, <1>6, <2>1, <2>2 DEF compute_execution_hash
  <1> QED
    BY <1>4, <1>5, <1>6

-----------------------------------------------------------------------------
(***************************************************************************)
(* get_or_create_snapshot asks for rows that a commit can rely on.         *)
(***************************************************************************)

\* The two skills of the repository.
LEMMA SkillFacts ==
  /\ LogTriage \in Skills /\ DailyReport \in Skills /\ LogTriage # DailyReport
  /\ Dependency[LogTriage] = NoSkill /\ Dependency[DailyReport] = LogTriage
  /\ NoSkill \notin Skills
  BY SkillAssumption, AnalysisAssumption

\* A row made from the checkout is a row of the table.
LEMMA NewRowType ==
  ASSUME SkillTypeOK, NEW s \in Skills, NEW pin \in Int
  PROVE  NewRow(s, pin) \in SnapRow
  <1> DEFINE V == {snaps[n].version : n \in RowsOf(snaps, s)}
             f == [n \in RowsOf(snaps, s) |-> snaps[n].version]
  <1>1. \A n \in RowsOf(snaps, s) : snaps[n].version \in Nat
    <2>1. \A n \in RowsOf(snaps, s) : snaps[n] \in SnapRow
      BY DEF SkillTypeOK, RowsOf
    <2> QED
      BY <2>1 DEF SnapRow
  <1>2. V \subseteq Nat /\ f \in Surjection(RowsOf(snaps, s), V)
    BY <1>1 DEF Surjection
  <1>3. IsFiniteSet(V)
    <2>1. IsFiniteSet(RowsOf(snaps, s))
      BY TableIds DEF SkillTypeOK
    <2> HIDE DEF V, f
    <2> QED
      BY <1>2, <2>1, FS_Surjection
  <1>4. IsFiniteSet({0} \cup V)
    <2> HIDE DEF V, f
    <2>1. V \cup {0} = {0} \cup V
      OBVIOUS
    <2> QED
      BY <1>3, <2>1, FS_AddElement
  <1> DEFINE M == Max({0} \cup V)
  <1>5. M \in Nat
    <2> HIDE DEF V, f
    <2>1. M \in {0} \cup V
      BY <1>2, <1>4, MaxIsUpper
    <2>2. V \subseteq Nat
      BY <1>2
    <2> HIDE DEF M
    <2> QED
      BY <2>1, <2>2
  <1>6. NewRow(s, pin) = [skill |-> s, version |-> M + 1, edition |-> disk[s], pin |-> pin,
                          active |-> RowsOf(snaps, s) = {}]
    BY DEF NewRow
  <1>7. disk[s] \in Editions /\ (RowsOf(snaps, s) = {}) \in BOOLEAN
    BY DEF SkillTypeOK
  <1> HIDE DEF M
  <1> QED
    BY <1>5, <1>6, <1>7 DEF SnapRow

\* One new row.
LEMMA NewRowPending ==
  ASSUME SkillTypeOK, NEW s \in Skills, NEW pin \in {NoPin} \cup DOMAIN snaps
  PROVE  Pending(snaps, <<NewRow(s, pin)>>)
  <1>1. pin \in Int
    BY DEF NoPin, SkillTypeOK
  <1>2. NewRow(s, pin) \in SnapRow
    BY <1>1, NewRowType
  <1>3. /\ NewRow(s, pin).pin = pin /\ NewRow(s, pin).skill = s
        /\ RowsOf(snaps, s) = {} => NewRow(s, pin).active
    BY DEF NewRow
  <1> DEFINE rows == <<NewRow(s, pin)>>
  <1>4. rows \in Seq(SnapRow) /\ DOMAIN rows = {1} /\ rows[1] = NewRow(s, pin)
    BY <1>2
  <1> HIDE DEF rows
  <1>5. Pending(snaps, rows)
    BY <1>3, <1>4 DEF Pending
  <1> QED
    BY <1>5 DEF rows

\* A registration may have nothing to add.
LEMMA EmptyPending == Pending(snaps, <<>>)
  BY DEF Pending

\* A dependency without a row to pin is registered with the row that pins it.
LEMMA PairPending ==
  ASSUME SkillTypeOK, NEW s \in Skills, NEW d \in Skills
  PROVE  Pending(snaps, <<NewRow(d, NoPin)>> \o <<NewRow(s, OwnChild)>>)
  <1>1. NewRow(s, OwnChild) \in SnapRow /\ NewRow(d, NoPin) \in SnapRow
    BY NewRowType DEF OwnChild, NoPin
  <1>2. /\ NewRow(s, OwnChild).pin = OwnChild /\ NewRow(s, OwnChild).skill = s
        /\ RowsOf(snaps, s) = {} => NewRow(s, OwnChild).active
        /\ NewRow(d, NoPin).pin = NoPin /\ NewRow(d, NoPin).skill = d
        /\ RowsOf(snaps, d) = {} => NewRow(d, NoPin).active
    BY DEF NewRow
  <1> DEFINE one == <<NewRow(d, NoPin)>>
             two == <<NewRow(s, OwnChild)>>
             rows == one \o two
  <1>3. rows \in Seq(SnapRow) /\ DOMAIN rows = {1, 2} /\ rows[1] = NewRow(d, NoPin)
        /\ rows[2] = NewRow(s, OwnChild)
    <2>1. /\ one \in Seq(SnapRow) /\ Len(one) = 1 /\ one[1] = NewRow(d, NoPin)
          /\ two \in Seq(SnapRow) /\ Len(two) = 1 /\ two[1] = NewRow(s, OwnChild)
      BY <1>1
    <2> HIDE DEF one, two
    <2>2. /\ rows \in Seq(SnapRow) /\ Len(rows) = 2
          /\ \A k \in 1 .. 2 : rows[k] = IF k <= 1 THEN one[k] ELSE two[k - 1]
      BY <2>1, ConcatProperties
    <2> HIDE DEF rows
    <2> QED
      BY <2>1, <2>2
  <1> HIDE DEF rows
  <1>4. Pending(snaps, rows)
    BY <1>2, <1>3 DEF Pending
  <1> QED
    BY <1>4 DEF rows

\* list_skills asks for the rows of both skills.
LEMMA ConcatPending ==
  ASSUME NEW a, NEW b, Pending(snaps, a), Pending(snaps, b)
  PROVE  Pending(snaps, a \o b)
  <1>1. a \in Seq(SnapRow) /\ b \in Seq(SnapRow) /\ Len(a) \in Nat /\ Len(b) \in Nat
    BY DEF Pending
  <1>2. a \o b \in Seq(SnapRow) /\ Len(a \o b) = Len(a) + Len(b)
    BY <1>1, ConcatProperties
  <1> DEFINE Sound(row, k) ==
               /\ row.pin \in {NoPin} \cup DOMAIN snaps \/ (row.pin = OwnChild /\ k > 1)
               /\ RowsOf(snaps, row.skill) = {} => row.active
  <1>5. DOMAIN (a \o b) = 1 .. Len(a) + Len(b)
    BY <1>1, <1>2
  <1> SUFFICES ASSUME NEW k \in 1 .. Len(a) + Len(b)
               PROVE  Sound((a \o b)[k], k)
    BY <1>2, <1>5 DEF Pending
  <1>3. CASE k <= Len(a)
    <2>1. k \in DOMAIN a /\ (a \o b)[k] = a[k]
      BY <1>1, <1>3
    <2> QED
      BY <2>1 DEF Pending
  <1>4. CASE ~(k <= Len(a))
    <2>1. k - Len(a) \in DOMAIN b /\ (a \o b)[k] = b[k - Len(a)] /\ (k - Len(a) > 1 => k > 1)
      BY <1>1, <1>4
    <2> QED
      BY <2>1 DEF Pending
  <1> QED
    BY <1>3, <1>4

\* What one registration adds is fit to be committed.
LEMMA RegistrationPending ==
  ASSUME SkillTypeOK, NEW s \in Skills, NEW pin \in {NoPin} \cup DOMAIN snaps
  PROVE  Pending(snaps, Registration(s, pin))
  BY NewRowPending, EmptyPending DEF Registration

\* No committed row has the pin of a row that is registered with its dependency.
LEMMA OwnChildIsNew ==
  ASSUME PinsPointBack(snaps), NEW s
  PROVE  Registration(s, OwnChild) = <<NewRow(s, OwnChild)>>
  BY DEF Registration, SameSnapshot, RowsOf, PinsPointBack, OwnChild, NoPin

\* What get_or_create_snapshot adds is fit to be committed.
LEMMA GetOrCreatePending ==
  ASSUME SkillTypeOK, PinsPointBack(snaps), NEW s \in Skills
  PROVE  Pending(snaps, get_or_create_snapshot(s))
  <1> DEFINE d == Dependency[s]
             A == ActiveRows(snaps, d)
             K == SameSnapshot(d, NoPin)
  <1>1. CASE d = NoSkill
    <2>1. get_or_create_snapshot(s) = Registration(s, NoPin)
      BY <1>1 DEF get_or_create_snapshot
    <2> QED
      BY <2>1, RegistrationPending
  <1>2. ASSUME NEW S \in SUBSET DOMAIN snaps, S # {}
        PROVE  Max(S) \in DOMAIN snaps
    <2>1. Len(snaps) \in Nat /\ DOMAIN snaps = 1 .. Len(snaps)
      BY DEF SkillTypeOK
    <2>2. IsFiniteSet(S) /\ S \in SUBSET Nat
      BY <2>1, IdsFinite
    <2> QED
      BY <1>2, <2>2, MaxIsUpper
  <1>3. A \subseteq DOMAIN snaps /\ K \subseteq DOMAIN snaps
    BY DEF ActiveRows, RowsOf, SameSnapshot
  <1>4. CASE d # NoSkill /\ A # {}
    <2>1. get_or_create_snapshot(s) = Registration(s, Max(A))
      BY <1>4 DEF get_or_create_snapshot
    <2>2. Max(A) \in DOMAIN snaps
      BY <1>2, <1>3, <1>4
    <2> QED
      BY <2>1, <2>2, RegistrationPending
  <1>5. CASE d # NoSkill /\ A = {} /\ K # {}
    <2>1. get_or_create_snapshot(s) = Registration(s, Max(K))
      BY <1>5 DEF get_or_create_snapshot
    <2>2. Max(K) \in DOMAIN snaps
      BY <1>2, <1>3, <1>5
    <2> QED
      BY <2>1, <2>2, RegistrationPending
  <1>6. CASE d # NoSkill /\ A = {} /\ K = {}
    <2>1. get_or_create_snapshot(s) = <<NewRow(d, NoPin)>> \o Registration(s, OwnChild)
      BY <1>6 DEF get_or_create_snapshot
    <2>2. get_or_create_snapshot(s) = <<NewRow(d, NoPin)>> \o <<NewRow(s, OwnChild)>>
      BY <2>1, OwnChildIsNew
    <2>3. d \in Skills
      BY <1>6, SkillAssumption
    <2> QED
      BY <2>2, <2>3, PairPending
  <1> QED
    BY <1>1, <1>4, <1>5, <1>6

-----------------------------------------------------------------------------
(***************************************************************************)
(* What a commit of others leaves of an open transaction.                  *)
(***************************************************************************)

\* A step of the registry: the committed rows stay what they were.
Grows ==
    /\ snaps \in Seq(SnapRow) /\ snaps' \in Seq(SnapRow)
    /\ PinsPointBack(snaps) /\ PinsPointBack(snaps')
    /\ Keeps(snaps, snaps')

\* The parts of Grows that later steps use.
LEMMA GrowsFacts ==
  ASSUME Grows
  PROVE  /\ Len(snaps) \in Nat /\ Len(snaps') \in Nat /\ Len(snaps) <= Len(snaps')
         /\ DOMAIN snaps = 1 .. Len(snaps) /\ DOMAIN snaps' = 1 .. Len(snaps')
         /\ DOMAIN snaps \subseteq DOMAIN snaps'
         /\ \A n \in DOMAIN snaps : /\ snaps'[n].skill = snaps[n].skill
                                    /\ snaps'[n].edition = snaps[n].edition
                                    /\ snaps'[n].pin = snaps[n].pin
  BY DEF Grows, Keeps

\* A skill never loses a row.
LEMMA GrowingRows ==
  ASSUME Grows, NEW s
  PROVE  RowsOf(snaps, s) \subseteq RowsOf(snaps', s)
  BY GrowsFacts DEF RowsOf

\* Pending rows stay fit to be committed while others commit.
LEMMA PendingKept ==
  ASSUME Grows, NEW rows, Pending(snaps, rows)
  PROVE  Pending(snaps', rows)
  BY GrowsFacts, GrowingRows DEF Pending

\* What can be materialized stays so.
LEMMA RunnableKept ==
  ASSUME Grows, NEW s, NEW n, NEW hash, materialize_snapshot(s, n, hash)
  PROVE  materialize_snapshot(s, n, hash)'
  <1>1. n \in DOMAIN snaps /\ snaps[n].skill = s /\ compute_execution_hash(snaps, n) = hash
    BY DEF materialize_snapshot, fetch_skill_snapshot, _execution_hash
  <1>2. n \in DOMAIN snaps' /\ snaps'[n].skill = s
    BY <1>1, GrowsFacts
  <1>3. compute_execution_hash(snaps', n) = hash
    <2>1. n \in 1 .. Len(snaps)
      BY <1>1, GrowsFacts
    <2> QED
      BY <1>1, <2>1, HashIsKept DEF Grows
  <1> QED
    BY <1>2, <1>3 DEF materialize_snapshot, fetch_skill_snapshot, _execution_hash

\* The execution hash of a pending row does not depend on the ids it will get.
LEMMA PendingHashKept ==
  ASSUME Grows, NEW rows, Pending(snaps, rows), NEW k \in DOMAIN rows
  PROVE  compute_execution_hash(Inserted(snaps', rows), Len(snaps') + k) =
           compute_execution_hash(Inserted(snaps, rows), Len(snaps) + k)
  <1>1. k \in 1 .. Len(rows) /\ rows \in Seq(SnapRow)
    BY DEF Pending
  <1>2. Pending(snaps', rows)
    BY PendingKept
  <1>3. rows[k].pin # NoPin /\ rows[k].pin # OwnChild =>
          snaps'[rows[k].pin].edition = snaps[rows[k].pin].edition
    BY GrowsFacts DEF Pending
  <1> DEFINE H(tab) == [own |-> rows[k].edition,
                        child |-> IF rows[k].pin = NoPin THEN <<>>
                                  ELSE IF rows[k].pin = OwnChild THEN <<rows[k - 1].edition>>
                                  ELSE <<tab[rows[k].pin].edition>>]
  <1>4. H(snaps') = H(snaps)
    BY <1>3
  <1>5. compute_execution_hash(Inserted(snaps, rows), Len(snaps) + k) = H(snaps)
    BY <1>1, HashOfPending DEF Grows
  <1>6. compute_execution_hash(Inserted(snaps', rows), Len(snaps') + k) = H(snaps')
    BY <1>1, <1>2, HashOfPending DEF Grows
  <1> QED
    BY <1>4, <1>5, <1>6

\* A stamp that was read stays good until its request commits.
LEMMA StampKept ==
  ASSUME Grows, NEW stamp, StampHolds(stamp)
  PROVE  StampHolds(stamp)'
  <1>1. Pending(snaps, stamp.rows) /\ Pending(snaps', stamp.rows)
    BY PendingKept DEF StampHolds
  <1>2. CASE stamp.own
    <2>1. PICK k \in DOMAIN stamp.rows :
            /\ stamp.rows[k].skill = stamp.skill /\ stamp.rows[k].active
            /\ stamp.hash = compute_execution_hash(Inserted(snaps, stamp.rows), Len(snaps) + k)
      BY <1>2 DEF StampHolds
    <2>2. stamp.hash = compute_execution_hash(Inserted(snaps', stamp.rows), Len(snaps') + k)
      BY <1>1, <2>1, PendingHashKept
    <2> QED
      BY <1>1, <1>2, <2>1, <2>2 DEF StampHolds
  <1>3. CASE ~stamp.own
    <2>1. materialize_snapshot(stamp.skill, stamp.snap, stamp.hash)'
      BY <1>3, RunnableKept DEF StampHolds
    <2> QED
      BY <1>1, <1>3, <2>1 DEF StampHolds
  <1> QED
    BY <1>2, <1>3

\* So does all that a request has read of the registry.
LEMMA RegistryReqKept ==
  ASSUME Grows, NEW r, RegistryReq(r)
  PROVE  RegistryReq(r)'
  BY PendingKept, StampKept DEF RegistryReq

\* A commit of pending rows is such a step.
LEMMA InsertedGrows ==
  ASSUME snaps \in Seq(SnapRow), PinsPointBack(snaps), NEW rows, Pending(snaps, rows),
         snaps' = Inserted(snaps, rows)
  PROVE  Grows
  <1>1. rows \in Seq(SnapRow)
    BY DEF Pending
  <1>2. snaps' \in Seq(SnapRow) /\ Keeps(snaps, snaps')
    BY <1>1, InsertedRows, InsertedKeeps
  <1>3. PinsPointBack(snaps')
    BY InsertedPins
  <1> QED
    BY <1>2, <1>3 DEF Grows

\* So is an activation, which writes is_active only.
LEMMA ActivatedGrows ==
  ASSUME snaps \in Seq(SnapRow), PinsPointBack(snaps), NEW r, snaps' = Activated(r)
  PROVE  /\ Grows
         /\ DOMAIN snaps' = DOMAIN snaps
         /\ \A n \in DOMAIN snaps : snaps'[n].active = IF n \in r.others THEN FALSE
                                                       ELSE IF n = r.target /\ ~r.was THEN TRUE
                                                       ELSE snaps[n].active
  <1>1. Len(snaps) \in Nat /\ DOMAIN snaps = 1 .. Len(snaps) /\ \A n \in DOMAIN snaps : snaps[n] \in SnapRow
    OBVIOUS
  <1>2. DOMAIN snaps' = 1 .. Len(snaps) /\ \A n \in DOMAIN snaps : snaps'[n] =
          IF n \in r.others THEN [snaps[n] EXCEPT !.active = FALSE]
          ELSE IF n = r.target /\ ~r.was THEN [snaps[n] EXCEPT !.active = TRUE] ELSE snaps[n]
    BY <1>1 DEF Activated
  <1>3. ASSUME NEW n \in DOMAIN snaps
        PROVE  /\ snaps'[n] \in SnapRow
               /\ snaps'[n].skill = snaps[n].skill /\ snaps'[n].edition = snaps[n].edition
               /\ snaps'[n].pin = snaps[n].pin
               /\ snaps'[n].active = IF n \in r.others THEN FALSE
                                     ELSE IF n = r.target /\ ~r.was THEN TRUE ELSE snaps[n].active
    <2>1. snaps[n] \in SnapRow
      BY <1>1
    <2> QED
      BY <1>2, <2>1 DEF SnapRow
  <1>4. snaps' \in Seq(SnapRow) /\ Len(snaps') = Len(snaps)
    <2>1. snaps' = [n \in 1 .. Len(snaps) |-> snaps'[n]]
      BY <1>1 DEF Activated
    <2>2. snaps' \in [1 .. Len(snaps) -> SnapRow]
      BY <1>1, <1>3, <2>1
    <2> QED
      BY <1>1, <2>2, FunctionIsSeq
  <1>5. Keeps(snaps, snaps')
    <2>1. Len(snaps) <= Len(snaps')
      BY <1>1, <1>4
    <2> QED
      BY <1>1, <1>3, <2>1 DEF Keeps
  <1>6. PinsPointBack(snaps')
    BY <1>1, <1>2, <1>3 DEF PinsPointBack
  <1> QED
    BY <1>1, <1>2, <1>3, <1>4, <1>5, <1>6 DEF Grows

\* A step of the jobs: a job keeps what it was made of, and a completed one is
\* final.
JobsGrow ==
    /\ jobs \in Seq(TriageJob \cup ReportJob) /\ jobs' \in Seq(TriageJob \cup ReportJob)
    /\ Len(jobs) <= Len(jobs')
    /\ \A j \in 1 .. Len(jobs) :
         /\ jobs'[j].skill = jobs[j].skill /\ jobs'[j].snap = jobs[j].snap
         /\ jobs'[j].hash = jobs[j].hash
         /\ jobs[j].skill = LogTriage =>
              /\ jobs'[j].incident = jobs[j].incident /\ jobs'[j].log = jobs[j].log
              /\ jobs[j].status = "COMPLETED" => jobs'[j].status = "COMPLETED"

\* A step of the results: what is stored stays, and as long as no worker is late the
\* result of a completed job is the last one and its run is filled with nothing else.
ResultsGrow ==
    /\ Len(store') = Len(jobs')
    /\ \A j \in 1 .. Len(jobs) : store[j].result # 0 => store'[j].result # 0
    /\ ops'.late = 0 => ops.late = 0
    /\ ops'.reads = 0 => ops.reads = 0
    /\ ops'.late = 0 => \A j \in TriageJobs :
         /\ Done(j) => store'[j].result = store[j].result
         /\ jobs'[j].result \in {jobs[j].result, Output(j, store[j].result)}

\* A job is a log_triage job or a daily_report job.
LEMMA JobType ==
  ASSUME jobs \in Seq(TriageJob \cup ReportJob), NEW j \in DOMAIN jobs
  PROVE  /\ jobs[j].skill = LogTriage <=> j \in TriageJobs
         /\ j \in TriageJobs => jobs[j] \in TriageJob
         /\ j \notin TriageJobs => jobs[j] \in ReportJob
         /\ jobs[j].snap \in Nat /\ jobs[j].hash \in Hash
  <1>1. jobs[j] \in TriageJob \cup ReportJob
    OBVIOUS
  <1> QED
    BY <1>1, SkillFacts DEF TriageJobs, TriageJob, ReportJob

\* The parts of JobsGrow that later steps use.
LEMMA JobsGrowFacts ==
  ASSUME JobsGrow
  PROVE  /\ Len(jobs) \in Nat /\ Len(jobs') \in Nat /\ Len(jobs) <= Len(jobs')
         /\ DOMAIN jobs = 1 .. Len(jobs) /\ DOMAIN jobs' = 1 .. Len(jobs')
         /\ DOMAIN jobs \subseteq DOMAIN jobs'
         /\ TriageJobs \subseteq TriageJobs' /\ TriageJobs \subseteq DOMAIN jobs
         /\ TriageJobs' \cap DOMAIN jobs = TriageJobs
         /\ \A j \in TriageJobs : jobs'[j].incident = jobs[j].incident /\ jobs'[j].log = jobs[j].log
         /\ \A j \in DOMAIN jobs : jobs'[j].hash = jobs[j].hash
         /\ \A i : RunsOf(i) \subseteq RunsOf(i)'
         /\ \A j : Done(j) => Done(j)'
  <1>1. /\ Len(jobs) \in Nat /\ Len(jobs') \in Nat /\ Len(jobs) <= Len(jobs')
        /\ DOMAIN jobs = 1 .. Len(jobs) /\ DOMAIN jobs' = 1 .. Len(jobs')
    BY DEF JobsGrow
  <1>2. DOMAIN jobs \subseteq DOMAIN jobs'
    BY <1>1
  <1>3. TriageJobs \subseteq TriageJobs' /\ TriageJobs' \cap DOMAIN jobs = TriageJobs
        /\ TriageJobs \subseteq DOMAIN jobs
    BY <1>1, <1>2 DEF TriageJobs, JobsGrow
  <1>4. \A j \in TriageJobs : /\ jobs'[j].incident = jobs[j].incident /\ jobs'[j].log = jobs[j].log
                              /\ jobs[j].status = "COMPLETED" => jobs'[j].status = "COMPLETED"
    BY <1>1 DEF TriageJobs, JobsGrow
  <1>5. \A j \in DOMAIN jobs : jobs'[j].hash = jobs[j].hash
    BY <1>1 DEF JobsGrow
  <1>6. \A i : RunsOf(i) \subseteq RunsOf(i)'
    BY <1>3, <1>4 DEF RunsOf
  <1>7. \A j : Done(j) => Done(j)'
    BY <1>3, <1>4 DEF Done
  <1> QED
    BY <1>1, <1>2, <1>3, <1>4, <1>5, <1>6, <1>7

\* The runs that a request cleared stay runs of its incident.
LEMMA CurrentReqKept ==
  ASSUME JobsGrow, NEW r, CurrentReq(r)
  PROVE  CurrentReq(r)'
  BY JobsGrowFacts DEF CurrentReq

\* The output of a completed job stays one.
LEMMA OutputKept ==
  ASSUME JobsGrow, NEW r, NEW log, NEW hash, OutputFor(r, log, hash)
  PROVE  OutputFor(r, log, hash)'
  BY JobsGrowFacts DEF OutputFor

\* A result that a poll holds stays one that it may write.
LEMMA FetchedKept ==
  ASSUME JobsGrow, ResultsGrow, NEW j, NEW r, Fetched(j, r)
  PROVE  Fetched(j, r)'
  <1>1. Done(j) /\ store[j].result # 0 /\ r \in Result /\ r = Output(j, r.attempt)
    BY DEF Fetched
  <1>2. j \in TriageJobs /\ j \in 1 .. Len(jobs)
    BY <1>1, JobsGrowFacts DEF Done
  <1>3. Done(j)' /\ store'[j].result # 0
    BY <1>1, <1>2, JobsGrowFacts DEF ResultsGrow
  <1>4. \A a : Output(j, a)' = Output(j, a)
    BY <1>2, JobsGrowFacts DEF Output
  <1>5. ASSUME ops'.late = 0
        PROVE  r.attempt = store'[j].result /\ jobs'[j].result \in {NoResult, r}
    <2>1. r.attempt = store[j].result /\ jobs[j].result \in {NoResult, r}
      BY <1>5 DEF Fetched, ResultsGrow
    <2>2. /\ store'[j].result = store[j].result
          /\ jobs'[j].result \in {jobs[j].result, Output(j, store[j].result)}
      BY <1>1, <1>2, <1>5 DEF ResultsGrow
    <2>3. r = Output(j, store[j].result)
      BY <1>1, <2>1
    <2> QED
      BY <2>1, <2>2, <2>3
  <1>6. r = Output(j, r.attempt)'
    BY <1>1, <1>4
  <1> QED
    BY <1>1, <1>3, <1>5, <1>6 DEF Fetched

\* So does all that a poll has read.
LEMMA PollReqKept ==
  ASSUME JobsGrow, ResultsGrow, NEW r, PollReq(r)
  PROVE  PollReq(r)'
  <1>1. r.op = "insert_run" => r.cached = NoResult \/ OutputFor(r.cached, r.log, r.stamp.hash)'
    BY OutputKept DEF PollReq
  <1>2. r.op = "poll" => r = [op |-> "poll", todo |-> r.todo, got |-> r.got]
    BY DEF PollReq
  <1>3. ASSUME r.op \in {"poll", "telemetry"}
        PROVE  /\ \A j \in r.todo : Done(j)'
               /\ r.got \in Seq([job : Nat, result : Result, telemetry : Nat])
               /\ \A k \in DOMAIN r.got :
                    /\ Fetched(r.got[k].job, r.got[k].result)'
                    /\ FirstOnly' => r.got[k].telemetry \in {0, 1}
    <2>1. /\ \A j \in r.todo : Done(j)
          /\ r.got \in Seq([job : Nat, result : Result, telemetry : Nat])
          /\ \A k \in DOMAIN r.got :
               /\ Fetched(r.got[k].job, r.got[k].result)
               /\ FirstOnly => r.got[k].telemetry \in {0, 1}
      BY <1>3 DEF PollReq
    <2>2. \A j \in r.todo : Done(j)'
      BY <2>1, JobsGrowFacts
    <2>3. \A k \in DOMAIN r.got : Fetched(r.got[k].job, r.got[k].result)'
      BY <2>1, FetchedKept
    <2>4. \A k \in DOMAIN r.got : FirstOnly' => r.got[k].telemetry \in {0, 1}
      BY <2>1 DEF ResultsGrow, FirstOnly
    <2> QED
      BY <2>1, <2>2, <2>3, <2>4
  <1>4. r.op = "telemetry" => Fetched(r.job, r.result)'
    BY FetchedKept DEF PollReq
  <1> QED
    BY <1>1, <1>2, <1>3, <1>4 DEF PollReq

\* What an open request relies on, all of it.
ReqInv(r) == RegistryReq(r) /\ CurrentReq(r) /\ PollReq(r)

\* A thread without a request relies on nothing.
LEMMA IdleReq == ReqInv(Idle)
  BY DEF ReqInv, RegistryReq, CurrentReq, PollReq, Idle

\* Any step: requests that it does not touch can still rely on what they read.
LEMMA RequestsHold ==
  ASSUME RegistryInv, CurrentInv, PollInv, Grows, JobsGrow, ResultsGrow,
         \A p \in Requests : req'[p] = req[p] \/ ReqInv(req[p])'
  PROVE  \A p \in Requests : RegistryReq(req[p])' /\ CurrentReq(req[p])' /\ PollReq(req[p])'
  <1> SUFFICES ASSUME NEW p \in Requests
               PROVE  RegistryReq(req[p])' /\ CurrentReq(req[p])' /\ PollReq(req[p])'
    OBVIOUS
  <1>1. CASE ReqInv(req[p])'
    BY <1>1 DEF ReqInv
  <1>2. CASE req'[p] = req[p]
    <2>1. RegistryReq(req[p]) /\ CurrentReq(req[p]) /\ PollReq(req[p])
      BY DEF RegistryInv, CurrentInv, PollInv
    <2> QED
      BY <1>2, <2>1, RegistryReqKept, CurrentReqKept, PollReqKept
  <1> QED
    BY <1>1, <1>2

\* Nothing was committed and no object written.
Quiet == UNCHANGED <<snaps, jobs, store>> /\ ops'.late = ops.late /\ ops'.reads = ops.reads

\* A step that leaves the tables alone keeps whatever was read.
LEMMA QuietGrows ==
  ASSUME TypeOK, RegistryInv, Quiet
  PROVE  Grows /\ JobsGrow /\ ResultsGrow
  <1>1. snaps \in Seq(SnapRow) /\ snaps' = snaps /\ PinsPointBack(snaps)
    BY DEF TypeOK, SkillTypeOK, RegistryInv, Quiet
  <1>2. jobs \in Seq(TriageJob \cup ReportJob) /\ jobs' = jobs /\ store' = store /\ Len(store) = Len(jobs)
    BY DEF TypeOK, Quiet
  <1>3. Keeps(snaps, snaps)
    BY <1>1 DEF Keeps
  <1>4. Grows
    BY <1>1, <1>3 DEF Grows
  <1>5. JobsGrow
    BY <1>2 DEF JobsGrow
  <1>6. ResultsGrow
    BY <1>2 DEF ResultsGrow, Quiet
  <1> QED
    BY <1>4, <1>5, <1>6

\* So a request keeps what it has read.
LEMMA QuietReq ==
  ASSUME TypeOK, RegistryInv, Quiet, NEW r, ReqInv(r)
  PROVE  ReqInv(r)'
  BY QuietGrows, RegistryReqKept, CurrentReqKept, PollReqKept DEF ReqInv

Ops == [requests : 0 .. MaxRequests, edits : 0 .. MaxEvents, late : 0 .. MaxEvents,
        reads : 0 .. MaxEvents, overlap : BOOLEAN]

\* A step of a request that commits nothing keeps everything, if what it has
\* read holds.
LEMMA QuietInv ==
  ASSUME IInv, Quiet, disk' \in [Skills -> Editions], incidents' \subseteq Incidents, logs' = logs,
         ops' \in Ops, DOMAIN req' = Requests,
         \A p \in Requests : req'[p] = req[p] \/ ReqInv(req[p])',
         ActivationInv'
  PROVE  IInv'
  <1>1. TypeOK /\ RegistryInv /\ CurrentInv /\ PollInv /\ StoreInv /\ FilledInv
    BY DEF IInv
  <1>2. snaps' = snaps /\ jobs' = jobs /\ store' = store /\ FirstOnly' = FirstOnly
        /\ ops'.late = ops.late
    BY DEF Quiet, FirstOnly
  <1>3. \A p \in Requests : RegistryReq(req[p])' /\ CurrentReq(req[p])' /\ PollReq(req[p])'
    BY <1>1, QuietGrows, RequestsHold
  <1>4. TypeOK'
    BY <1>1, <1>2 DEF TypeOK, SkillTypeOK, Ops
  <1>5. RegistryInv'
    BY <1>1, <1>2, <1>3 DEF RegistryInv, StampedJobsStayRunnable, materialize_snapshot,
         fetch_skill_snapshot, _execution_hash
  <1>6. CurrentInv'
    BY <1>1, <1>2, <1>3 DEF CurrentInv, OneCurrentRun, CurrentRuns, RunsOf, TriageJobs
  <1>7. StoreInv'
    BY <1>1, <1>2 DEF StoreInv
  <1>8. FilledInv'
    BY <1>1, <1>2 DEF FilledInv, TriageJobs, Done, OutputFor
  <1>9. PollInv'
    BY <1>3 DEF PollInv
  <1> QED
    BY <1>4, <1>5, <1>6, <1>7, <1>8, <1>9 DEF IInv

\* The active rows are as they were, and no activation came or went on.
LEMMA ActivationQuiet ==
  ASSUME ActivationInv, snaps' = snaps, ops'.overlap = ops.overlap,
         \A p \in Requests : req'[p] = req[p] \/ ~Activating(p)'
  PROVE  ActivationInv'
  <1>1. OnlyOverlapLosesActive'
    BY DEF ActivationInv, OnlyOverlapLosesActive, AlwaysOneActive
  <1>2. \A p \in Requests : Activating(p)' => Activating(p) /\ req'[p] = req[p]
    BY DEF Activating
  <1> QED
    BY <1>1, <1>2 DEF ActivationInv

\* A transaction opens, reads or ends without a commit: q's record becomes r.
LEMMA ReadInv ==
  ASSUME IInv, NEW q \in Requests, NEW r, ReqInv(r), r.op \notin {"activate", "deactivated"},
         req' = [req EXCEPT ![q] = r], UNCHANGED <<skillVars, incidents, logs, jobs, store>>,
         ops' = ops \/ (ops.requests < MaxRequests /\ ops' = [ops EXCEPT !.requests = @ + 1])
  PROVE  IInv'
  <1>1. TypeOK /\ RegistryInv /\ ActivationInv
    BY DEF IInv
  <1>2. ops \in Ops /\ DOMAIN req = Requests
    BY <1>1 DEF TypeOK, Ops
  <1>3. ops' \in Ops /\ ops'.late = ops.late /\ ops'.reads = ops.reads /\ ops'.overlap = ops.overlap
    BY <1>2, AnalysisAssumption DEF Ops
  <1>4. DOMAIN req' = Requests /\ req'[q] = r /\ \A p \in Requests : p # q => req'[p] = req[p]
    BY <1>2
  <1>5. Quiet
    BY <1>3 DEF Quiet, skillVars
  <1>6. ReqInv(req[q])'
    BY <1>1, <1>4, <1>5, QuietReq
  <1>7. ActivationInv'
    <2>1. ~Activating(q)'
      BY <1>4 DEF Activating
    <2> QED
      BY <1>1, <1>3, <1>4, <2>1, ActivationQuiet DEF skillVars
  <1>8. disk' \in [Skills -> Editions] /\ incidents' \subseteq Incidents
    BY <1>1 DEF TypeOK, SkillTypeOK, skillVars
  <1> QED
    BY <1>3, <1>4, <1>5, <1>6, <1>7, <1>8, QuietInv

-----------------------------------------------------------------------------
(***************************************************************************)
(* The steps of a request that commit nothing.                             *)
(***************************************************************************)

\* What the proofs of the actions use of IInv.
LEMMA BeginFacts ==
  ASSUME IInv
  PROVE  /\ SkillTypeOK /\ PinsPointBack(snaps) /\ snaps \in Seq(SnapRow)
         /\ logs \in [Incidents -> Logs] /\ DOMAIN req = Requests
         /\ jobs \in Seq(TriageJob \cup ReportJob) /\ DOMAIN jobs = 1 .. Len(jobs)
         /\ Len(jobs) \in Nat /\ TriageJobs \subseteq 1 .. Len(jobs)
         /\ store \in Seq(Stored) /\ DOMAIN store = 1 .. Len(jobs)
  BY DEF IInv, TypeOK, SkillTypeOK, RegistryInv, TriageJobs

\* request_analysis, up to the registration of its skill.
LEMMA RequestAnalysisInv ==
  ASSUME IInv, NEW q \in Requests, NEW i \in Incidents, RequestAnalysis(q, i)
  PROVE  IInv'
  <1> DEFINE r == [op |-> "analyse", skill |-> LogTriage, incident |-> i, log |-> logs[i],
                   rows |-> get_or_create_snapshot(LogTriage)]
  <1>1. Pending(snaps, get_or_create_snapshot(LogTriage)) /\ logs[i] \in Logs
    BY BeginFacts, GetOrCreatePending, SkillFacts
  <1>2. ReqInv(r)
    BY <1>1 DEF ReqInv, RegistryReq, CurrentReq, PollReq
  <1>3. r.op \notin {"activate", "deactivated"}
    OBVIOUS
  <1>4. /\ req' = [req EXCEPT ![q] = r] /\ UNCHANGED <<skillVars, incidents, logs, jobs, store>>
        /\ ops.requests < MaxRequests /\ ops' = [ops EXCEPT !.requests = @ + 1]
    BY DEF RequestAnalysis, Begin
  <1> HIDE DEF r
  <1> QED
    BY <1>2, <1>3, <1>4, ReadInv

\* generate_report, up to the registration of its skill.
LEMMA RequestReportInv ==
  ASSUME IInv, NEW q \in Requests, RequestReport(q)
  PROVE  IInv'
  <1> DEFINE r == [op |-> "report", skill |-> DailyReport,
                   rows |-> get_or_create_snapshot(DailyReport)]
  <1>1. Pending(snaps, get_or_create_snapshot(DailyReport))
    BY BeginFacts, GetOrCreatePending, SkillFacts
  <1>2. ReqInv(r)
    BY <1>1 DEF ReqInv, RegistryReq, CurrentReq, PollReq
  <1>3. r.op \notin {"activate", "deactivated"}
    OBVIOUS
  <1>4. /\ req' = [req EXCEPT ![q] = r] /\ UNCHANGED <<skillVars, incidents, logs, jobs, store>>
        /\ ops.requests < MaxRequests /\ ops' = [ops EXCEPT !.requests = @ + 1]
    BY DEF RequestReport, Begin
  <1> HIDE DEF r
  <1> QED
    BY <1>2, <1>3, <1>4, ReadInv

\* list_skills registers both skills in one transaction.
LEMMA ListSkillsInv ==
  ASSUME IInv, NEW q \in Requests, ListSkills(q)
  PROVE  IInv'
  <1> DEFINE child == get_or_create_snapshot(LogTriage)
             parent == get_or_create_snapshot(DailyReport)
             rows == IF ActiveRows(snaps, LogTriage) = {} THEN parent ELSE child \o parent
             r == [op |-> "list", rows |-> rows]
  <1>1. Pending(snaps, child) /\ Pending(snaps, parent)
    BY BeginFacts, GetOrCreatePending, SkillFacts
  <1>2. Pending(snaps, rows)
    <2> HIDE DEF child, parent
    <2> QED
      BY <1>1, ConcatPending
  <1>3. ReqInv(r)
    <2> HIDE DEF rows
    <2> QED
      BY <1>2 DEF ReqInv, RegistryReq, CurrentReq, PollReq
  <1>4. r.op \notin {"activate", "deactivated"}
    OBVIOUS
  <1>5. /\ req' = [req EXCEPT ![q] = r] /\ UNCHANGED <<skillVars, incidents, logs, jobs, store>>
        /\ ops.requests < MaxRequests /\ ops' = [ops EXCEPT !.requests = @ + 1]
    BY DEF ListSkills, Begin
  <1> HIDE DEF r
  <1> QED
    BY <1>3, <1>4, <1>5, ReadInv

\* A poll starts with the completed jobs among those it was asked for.
LEMMA PollStartInv ==
  ASSUME IInv, NEW q \in Requests, NEW js \in SUBSET TriageJobs, Poll(q, js)
  PROVE  IInv'
  <1> DEFINE todo == {j \in js : jobs[j].status = "COMPLETED"}
             r == [op |-> "poll", todo |-> todo, got |-> <<>>]
  <1>1. \A j \in todo : Done(j)
    BY DEF Done
  <1>2. ReqInv(r)
    <2> HIDE DEF todo
    <2> QED
      BY <1>1 DEF ReqInv, RegistryReq, CurrentReq, PollReq
  <1>3. r.op \notin {"activate", "deactivated"}
    OBVIOUS
  <1>4. /\ req' = [req EXCEPT ![q] = r] /\ UNCHANGED <<skillVars, incidents, logs, jobs, store>>
        /\ ops.requests < MaxRequests /\ ops' = [ops EXCEPT !.requests = @ + 1]
    BY DEF Poll, Begin
  <1> HIDE DEF r
  <1> QED
    BY <1>2, <1>3, <1>4, ReadInv

\* 404, 409 and 500: the transaction is undone.
LEMMA RollbackInv ==
  ASSUME IInv, NEW q \in Requests,
         NoActiveSnapshot(q) \/ RunConflict(q) \/ ReportConflict(q) \/ ActivationConflict(q)
  PROVE  IInv'
  <1>1. req' = [req EXCEPT ![q] = Idle] /\ UNCHANGED <<skillVars, incidents, logs, jobs, store, ops>>
    BY DEF NoActiveSnapshot, RunConflict, ReportConflict, ActivationConflict, End
  <1>2. Idle.op \notin {"activate", "deactivated"}
    BY DEF Idle
  <1> QED
    BY <1>1, <1>2, IdleReq, ReadInv

\* The snapshot that a request stamps its job with.
LEMMA ReadStamp ==
  ASSUME IInv, NEW rows, Pending(snaps, rows), NEW s,
         NEW n \in resolve_active_snapshot(rows, s), NEW stamp,
         stamp = [rows |-> rows, skill |-> s, snap |-> n, own |-> n > Len(snaps),
                  hash |-> compute_execution_hash(Inserted(snaps, rows), n)]
  PROVE  StampHolds(stamp)
  <1> DEFINE tab == Inserted(snaps, rows)
  <1>1. rows \in Seq(SnapRow) /\ snaps \in Seq(SnapRow) /\ PinsPointBack(snaps)
        /\ Len(snaps) \in Nat /\ Len(rows) \in Nat
    BY BeginFacts DEF Pending
  <1>2. n \in DOMAIN tab /\ tab[n].skill = s /\ tab[n].active
    BY DEF resolve_active_snapshot, ActiveRows, RowsOf
  <1>3. n \in 1 .. Len(snaps) + Len(rows)
    <2>1. tab \in Seq(SnapRow) /\ Len(tab) = Len(snaps) + Len(rows)
      BY <1>1, InsertedRows
    <2> HIDE DEF tab
    <2> QED
      BY <1>2, <2>1
  <1>4. CASE n > Len(snaps)
    <2>1. PICK k \in 1 .. Len(rows) : n = Len(snaps) + k
      <3>1. n - Len(snaps) \in 1 .. Len(rows) /\ n = Len(snaps) + (n - Len(snaps))
        BY <1>1, <1>3, <1>4
      <3> QED
        BY <3>1
    <2>2. tab[n] = Settled(snaps, rows, k)
      BY <1>1, <2>1, InsertedRows
    <2>3. k \in DOMAIN rows /\ rows[k].skill = s /\ rows[k].active
      BY <1>1, <1>2, <2>2, SettledRow
    <2>4. stamp.hash = compute_execution_hash(Inserted(snaps, rows), Len(snaps) + k)
      BY <2>1
    <2> QED
      BY <1>4, <2>3, <2>4 DEF StampHolds
  <1>5. CASE ~(n > Len(snaps))
    <2>1. n \in 1 .. Len(snaps)
      BY <1>1, <1>3, <1>5
    <2>2. tab[n] = snaps[n]
      BY <1>1, <2>1, InsertedRows
    <2>3. compute_execution_hash(tab, n) = compute_execution_hash(snaps, n)
      BY <1>1, <2>1, InsertedKeeps, HashIsKept
    <2>4. materialize_snapshot(s, n, stamp.hash)
      BY <1>1, <1>2, <2>1, <2>2, <2>3
        DEF materialize_snapshot, fetch_skill_snapshot, _execution_hash
    <2> QED
      BY <1>5, <2>4 DEF StampHolds
  <1> QED
    BY <1>4, <1>5

\* The result that a request finds in the cache.
LEMMA CachedResult ==
  ASSUME IInv, NEW log, NEW n, NEW hash
  PROVE  \/ _find_cached_analysis_run(log, n, hash) = NoResult
         \/ OutputFor(_find_cached_analysis_run(log, n, hash), log, hash)
  <1> DEFINE H == CacheHits(log, n, hash)
  <1>1. CASE H = {}
    BY <1>1 DEF _find_cached_analysis_run
  <1>2. CASE H # {}
    <2>1. H \in SUBSET (1 .. Len(jobs)) /\ Len(jobs) \in Nat
      BY BeginFacts DEF CacheHits
    <2>2. Max(H) \in H
      <3> HIDE DEF H
      <3>1. IsFiniteSet(H) /\ H \in SUBSET Nat
        BY <2>1, IdsFinite
      <3> QED
        BY <1>2, <3>1, MaxIsUpper
    <2> DEFINE m == Max(H)
    <2>3. _find_cached_analysis_run(log, n, hash) = jobs[m].result
      BY <1>2 DEF _find_cached_analysis_run
    <2>4. m \in H
      BY <2>2
    <2> HIDE DEF m
    <2>5. /\ m \in TriageJobs /\ jobs[m].result # NoResult /\ jobs[m].log = log /\ jobs[m].hash = hash
      BY <2>4 DEF CacheHits
    <2>6. OutputFor(jobs[m].result, log, hash)
      BY <2>5 DEF IInv, FilledInv
    <2> QED
      BY <2>3, <2>6
  <1> QED
    BY <1>1, <1>2

\* The request reads its stamp, and what the cache has.
LEMMA ReadActiveSnapshotInv ==
  ASSUME IInv, NEW q \in Requests, ReadActiveSnapshot(q)
  PROVE  IInv'
  <1> DEFINE rows == req[q].rows
             stamp(n) == [rows |-> rows, skill |-> req[q].skill, snap |-> n, own |-> n > Len(snaps),
                          hash |-> compute_execution_hash(Inserted(snaps, rows), n)]
             cached(n) == IF n > Len(snaps) THEN NoResult
                          ELSE _find_cached_analysis_run(req[q].log, n,
                                 compute_execution_hash(Inserted(snaps, rows), n))
             run(n) == [op |-> "insert_run", stamp |-> stamp(n), incident |-> req[q].incident,
                        log |-> req[q].log, cached |-> cached(n), cleared |-> RunsOf(req[q].incident)]
             report(n) == [op |-> "insert_report", stamp |-> stamp(n)]
  <1>1. PICK n \in resolve_active_snapshot(rows, req[q].skill) :
          req' = [req EXCEPT ![q] = IF req[q].op = "report" THEN report(n) ELSE run(n)]
    BY DEF ReadActiveSnapshot
  <1>2. req[q].op \in {"analyse", "report"} /\ UNCHANGED <<skillVars, incidents, logs, jobs, store, ops>>
    BY DEF ReadActiveSnapshot
  <1>3. RegistryReq(req[q]) /\ CurrentReq(req[q])
    BY DEF IInv, RegistryInv, CurrentInv
  <1>4. Pending(snaps, rows)
    BY <1>2, <1>3 DEF RegistryReq
  <1> DEFINE st == stamp(n)
             ca == cached(n)
  <1>5. StampHolds(st) /\ st.skill = req[q].skill
    BY <1>1, <1>4, ReadStamp
  <1>6. ca = NoResult \/ OutputFor(ca, req[q].log, st.hash)
    BY CachedResult
  <1>7. CASE req[q].op = "report"
    <2> DEFINE r == [op |-> "insert_report", stamp |-> st]
    <2>1. ReqInv(r) /\ r.op \notin {"activate", "deactivated"}
      <3> HIDE DEF st
      <3> QED
        BY <1>3, <1>5, <1>7 DEF ReqInv, RegistryReq, CurrentReq, PollReq
    <2>2. req' = [req EXCEPT ![q] = r]
      BY <1>1, <1>7
    <2> HIDE DEF r
    <2> QED
      BY <1>2, <2>1, <2>2, ReadInv
  <1>8. CASE req[q].op # "report"
    <2> DEFINE r == [op |-> "insert_run", stamp |-> st, incident |-> req[q].incident,
                     log |-> req[q].log, cached |-> ca, cleared |-> RunsOf(req[q].incident)]
    <2>1. ReqInv(r) /\ r.op \notin {"activate", "deactivated"}
      <3> HIDE DEF st, ca
      <3>1. req[q].op = "analyse"
        BY <1>2, <1>8
      <3> QED
        BY <1>3, <1>5, <1>6, <3>1 DEF ReqInv, RegistryReq, CurrentReq, PollReq
    <2>2. req' = [req EXCEPT ![q] = r]
      BY <1>1, <1>8
    <2> HIDE DEF r
    <2> QED
      BY <1>2, <2>1, <2>2, ReadInv
  <1> QED
    BY <1>7, <1>8

\* What a poll that is under way relies on.
LEMMA PollFacts ==
  ASSUME IInv, NEW q \in Requests, req[q].op \in {"poll", "telemetry"}
  PROVE  /\ PollReq(req[q])
         /\ req[q].todo \in SUBSET (1 .. Len(jobs)) /\ IsFiniteSet(req[q].todo)
         /\ req[q].todo # {} => Max(req[q].todo) \in req[q].todo
         /\ \A j \in req[q].todo : Done(j)
  <1>1. PollReq(req[q])
    BY DEF IInv, PollInv
  <1>2. \A j \in req[q].todo : Done(j)
    BY <1>1 DEF PollReq
  <1>3. Len(jobs) \in Nat /\ req[q].todo \in SUBSET (1 .. Len(jobs))
    BY <1>2, BeginFacts DEF Done
  <1>4. IsFiniteSet(req[q].todo) /\ req[q].todo \in SUBSET Nat
    BY <1>3, IdsFinite
  <1>5. req[q].todo # {} => Max(req[q].todo) \in req[q].todo
    BY <1>4, MaxIsUpper
  <1> QED
    BY <1>1, <1>2, <1>3, <1>4, <1>5

\* The result that a poll reads.
LEMMA ReadResult ==
  ASSUME IInv, NEW j, Done(j), jobs[j].result = NoResult
  PROVE  Fetched(j, Output(j, store[j].result))
  <1>1. j \in TriageJobs /\ j \in 1 .. Len(jobs)
    BY BeginFacts DEF Done
  <1>2. store[j] \in Stored /\ jobs[j] \in TriageJob
    BY <1>1, BeginFacts, JobType
  <1>3. store[j].result \in Nat /\ jobs[j].log \in Logs /\ jobs[j].hash \in Hash /\ j \in Nat
    BY <1>1, <1>2, BeginFacts DEF Stored, TriageJob
  <1>4. Output(j, store[j].result) \in Result
    BY <1>3 DEF Output, Result
  <1>5. Output(j, store[j].result).attempt = store[j].result
    BY DEF Output
  <1>6. store[j].result # 0
    BY <1>1 DEF IInv, FilledInv
  <1> QED
    BY <1>4, <1>5, <1>6 DEF Fetched

\* A poll reads result.json of its newest job.
LEMMA SyncReadsResultInv ==
  ASSUME IInv, NEW q \in Requests, SyncReadsResult(q)
  PROVE  IInv'
  <1> DEFINE todo == req[q].todo
             got == req[q].got
             j == Max(todo)
  <1>1. req[q].op = "poll" /\ todo # {} /\ UNCHANGED <<skillVars, incidents, logs, jobs, store, ops>>
    BY DEF SyncReadsResult
  <1>2. PollReq(req[q]) /\ j \in todo /\ \A k \in todo : Done(k)
    BY <1>1, PollFacts
  <1>4. /\ got \in Seq([job : Nat, result : Result, telemetry : Nat])
        /\ \A k \in DOMAIN got : /\ Fetched(got[k].job, got[k].result)
                                 /\ FirstOnly => got[k].telemetry \in {0, 1}
    BY <1>1, <1>2 DEF PollReq
  <1>5. DOMAIN req = Requests
    BY BeginFacts
  <1>6. CASE jobs[j].result = NoResult
    <2> DEFINE out == Output(j, store[j].result)
               r == [op |-> "telemetry", todo |-> todo \ {j}, got |-> got, job |-> j, result |-> out]
    <2>1. req' = [req EXCEPT ![q] = r]
      BY <1>1, <1>5, <1>6 DEF SyncReadsResult
    <2>2. Fetched(j, out)
      BY <1>2, <1>6, ReadResult
    <2>3. ReqInv(r) /\ r.op \notin {"activate", "deactivated"}
      <3> HIDE DEF j, out
      <3> QED
        BY <1>2, <1>4, <2>2 DEF ReqInv, RegistryReq, CurrentReq, PollReq
    <2> HIDE DEF r
    <2> QED
      BY <1>1, <2>1, <2>3, ReadInv
  <1>7. CASE jobs[j].result # NoResult
    <2> DEFINE r == [op |-> "poll", todo |-> todo \ {j}, got |-> got]
    <2>2. req' = [req EXCEPT ![q] = r]
      BY <1>1, <1>5, <1>7 DEF SyncReadsResult
    <2>3. ReqInv(r) /\ r.op \notin {"activate", "deactivated"}
      <3> HIDE DEF j
      <3> QED
        BY <1>2, <1>4 DEF ReqInv, RegistryReq, CurrentReq, PollReq
    <2> HIDE DEF r
    <2> QED
      BY <1>1, <2>2, <2>3, ReadInv
  <1> QED
    BY <1>6, <1>7

\* A poll that cannot read result.json goes on to the next job.
LEMMA SyncFindsNoResultInv ==
  ASSUME IInv, NEW q \in Requests, SyncFindsNoResult(q)
  PROVE  IInv'
  <1> DEFINE todo == req[q].todo
             got == req[q].got
             j == Max(todo)
             r == [op |-> "poll", todo |-> todo \ {j}, got |-> got]
  <1>1. req[q].op = "poll" /\ todo # {} /\ UNCHANGED <<skillVars, incidents, logs, jobs, store, ops>>
    BY DEF SyncFindsNoResult
  <1>2. PollReq(req[q]) /\ j \in todo /\ \A k \in todo : Done(k)
    BY <1>1, PollFacts
  <1>3. req[q] = [op |-> "poll", todo |-> todo, got |-> got]
    BY <1>1, <1>2 DEF PollReq
  <1>4. /\ got \in Seq([job : Nat, result : Result, telemetry : Nat])
        /\ \A k \in DOMAIN got : /\ Fetched(got[k].job, got[k].result)
                                 /\ FirstOnly => got[k].telemetry \in {0, 1}
    BY <1>1, <1>2 DEF PollReq
  <1>5. DOMAIN req = Requests
    BY BeginFacts
  <1>6. req' = [req EXCEPT ![q] = r]
    <2>1. [req[q] EXCEPT !.todo = @ \ {j}] = r
      <3> HIDE DEF j
      <3> QED
        BY <1>3
    <2>2. req' = [req EXCEPT ![q] = [req[q] EXCEPT !.todo = @ \ {j}]]
      BY <1>5 DEF SyncFindsNoResult
    <2> HIDE DEF r
    <2> QED
      BY <2>1, <2>2
  <1>7. ReqInv(r) /\ r.op \notin {"activate", "deactivated"}
    <2> HIDE DEF j
    <2> QED
      BY <1>2, <1>4 DEF ReqInv, RegistryReq, CurrentReq, PollReq
  <1> HIDE DEF r
  <1> QED
    BY <1>1, <1>6, <1>7, ReadInv

\* A poll reads telemetry.json of the job whose result it holds.
LEMMA SyncReadsTelemetryInv ==
  ASSUME IInv, NEW q \in Requests, SyncReadsTelemetry(q)
  PROVE  IInv'
  <1> DEFINE Got == [job : Nat, result : Result, telemetry : Nat]
             old == req[q].got
  <1>1. req[q].op = "telemetry" /\ UNCHANGED <<skillVars, incidents, logs, jobs, store, ops>>
    BY DEF SyncReadsTelemetry
  <1>2. PICK t \in {0, store[req[q].job].telemetry} :
          req' = [req EXCEPT ![q] = [op |-> "poll", todo |-> req[q].todo,
                    got |-> Append(old, [job |-> req[q].job, result |-> req[q].result,
                                         telemetry |-> t])]]
    BY BeginFacts DEF SyncReadsTelemetry
  <1> DEFINE new == [job |-> req[q].job, result |-> req[q].result, telemetry |-> t]
             got == Append(old, new)
             r == [op |-> "poll", todo |-> req[q].todo, got |-> got]
  <1>3. PollReq(req[q]) /\ Fetched(req[q].job, req[q].result) /\ \A k \in req[q].todo : Done(k)
    BY <1>1, PollFacts DEF PollReq
  <1>4. /\ old \in Seq(Got)
        /\ \A k \in DOMAIN old : /\ Fetched(old[k].job, old[k].result)
                                 /\ FirstOnly => old[k].telemetry \in {0, 1}
    BY <1>1, <1>3 DEF PollReq
  <1>5. req[q].job \in TriageJobs /\ req[q].job \in 1 .. Len(jobs) /\ req[q].result \in Result
    BY <1>3, BeginFacts DEF Fetched, Done
  <1>6. store[req[q].job] \in Stored
    BY <1>5, BeginFacts
  <1>7. t \in Nat /\ (FirstOnly => t \in {0, 1})
    <2>1. store[req[q].job].telemetry \in Nat
      BY <1>6 DEF Stored
    <2>2. FirstOnly => store[req[q].job].telemetry \in {0, 1}
      BY <1>5, BeginFacts DEF IInv, StoreInv
    <2> QED
      BY <1>2, <2>1, <2>2
  <1>8. new \in Got /\ new.job = req[q].job /\ new.result = req[q].result /\ new.telemetry = t
    BY <1>5, <1>7
  <1> HIDE DEF new, Got
  <1>9. /\ got \in Seq(Got)
        /\ \A k \in DOMAIN got : got[k] = new \/ (k \in DOMAIN old /\ got[k] = old[k])
    BY <1>4, <1>8
  <1> HIDE DEF got
  <1>10. \A k \in DOMAIN got : /\ Fetched(got[k].job, got[k].result)
                               /\ FirstOnly => got[k].telemetry \in {0, 1}
    BY <1>3, <1>4, <1>7, <1>8, <1>9
  <1>11. ReqInv(r) /\ r.op \notin {"activate", "deactivated"}
    BY <1>3, <1>9, <1>10 DEF ReqInv, RegistryReq, CurrentReq, PollReq, Got
  <1>12. req' = [req EXCEPT ![q] = r]
    BY <1>2 DEF got, new
  <1> HIDE DEF r
  <1> QED
    BY <1>1, <1>11, <1>12, ReadInv

-----------------------------------------------------------------------------
(***************************************************************************)
(* set_active_snapshot.                                                    *)
(***************************************************************************)

\* What a request spends of the bounds.
Spends(o, n, b) == n \in Ops /\ n.late = o.late /\ n.reads = o.reads /\ n.overlap = b

\* A request that starts spends one of the bound.
LEMMA OpsSpent ==
  ASSUME NEW o \in Ops, o.requests < MaxRequests, NEW b \in BOOLEAN, NEW n,
         n = [o EXCEPT !.requests = @ + 1, !.overlap = b]
  PROVE  Spends(o, n, b)
  <1>1. MaxRequests \in Nat
    BY AnalysisAssumption
  <1>2. o = [requests |-> o.requests, edits |-> o.edits, late |-> o.late, reads |-> o.reads,
             overlap |-> o.overlap]
    BY DEF Ops
  <1>3. n = [requests |-> o.requests + 1, edits |-> o.edits, late |-> o.late, reads |-> o.reads,
             overlap |-> b]
    BY <1>2, Zenon
  <1>4. /\ o.requests + 1 \in 0 .. MaxRequests /\ o.edits \in 0 .. MaxEvents
        /\ o.late \in 0 .. MaxEvents /\ o.reads \in 0 .. MaxEvents
    BY <1>1 DEF Ops
  <1> QED
    BY <1>3, <1>4 DEF Ops, Spends

\* An activation reads its target.
LEMMA ActivateSkillVersionInv ==
  ASSUME IInv, NEW q \in Requests, NEW s, NEW v, ActivateSkillVersion(q, s, v)
  PROVE  IInv'
  <1>1. PICK n \in RowsOf(snaps, s) :
          req' = [req EXCEPT ![q] = [op |-> "activate", target |-> n, was |-> snaps[n].active]]
    BY DEF ActivateSkillVersion
  <1> DEFINE r == [op |-> "activate", target |-> n, was |-> snaps[n].active]
             busy == \E p \in Requests : Activating(p)
  <1>2. /\ req[q] = Idle /\ ops.requests < MaxRequests
        /\ ops' = [ops EXCEPT !.requests = @ + 1, !.overlap = @ \/ busy]
        /\ UNCHANGED <<skillVars, incidents, logs, jobs, store>>
    BY DEF ActivateSkillVersion
  <1>3. ops \in Ops /\ DOMAIN req = Requests /\ disk \in [Skills -> Editions]
        /\ incidents \subseteq Incidents /\ TypeOK /\ RegistryInv /\ ActivationInv
    BY DEF IInv, TypeOK, Ops, SkillTypeOK
  <1>4. ops' \in Ops /\ ops'.late = ops.late /\ ops'.reads = ops.reads /\ ops'.overlap = (ops.overlap \/ busy)
    <2> DEFINE b == ops.overlap \/ busy
    <2>1. b \in BOOLEAN /\ ops' = [ops EXCEPT !.requests = @ + 1, !.overlap = b]
      BY <1>2
    <2> HIDE DEF b
    <2>2. ops' \in Ops /\ ops'.late = ops.late /\ ops'.reads = ops.reads /\ ops'.overlap = b
      <3>1. ops \in Ops /\ ops.requests < MaxRequests
        BY <1>2, <1>3
      <3>2. Spends(ops, ops', b)
        BY <2>1, <3>1, OpsSpent, Zenon
      <3> QED
        BY <3>2, Zenon DEF Spends
    <2> QED
      BY <2>2 DEF b
  <1>5. DOMAIN req' = Requests /\ req'[q] = r /\ \A p \in Requests : p # q => req'[p] = req[p]
    BY <1>1, <1>3
  <1>6. Quiet
    BY <1>2, <1>4 DEF Quiet, skillVars
  <1>7. ReqInv(req[q])'
    <2>1. ReqInv(r)
      BY DEF ReqInv, RegistryReq, CurrentReq, PollReq
    <2> HIDE DEF r
    <2> QED
      BY <1>3, <1>5, <1>6, <2>1, QuietReq
  <1>8. ActivationInv'
    <2>1. OnlyOverlapLosesActive'
      BY <1>2, <1>3, <1>4 DEF ActivationInv, OnlyOverlapLosesActive, AlwaysOneActive, skillVars
    <2>2. ~Activating(q)
      BY <1>2 DEF Activating, Idle
    <2> SUFFICES ASSUME NEW p \in Requests, Activating(p)'
                 PROVE  /\ req'[p].target \in DOMAIN snaps
                        /\ req'[p].op = "deactivated" =>
                             req'[p].others \subseteq RowsOf(snaps, snaps[req'[p].target].skill)
                                                        \ {req'[p].target}
                        /\ ~ops'.overlap =>
                             /\ req'[p].was = snaps[req'[p].target].active
                             /\ \A o \in Requests : Activating(o)' => o = p
      BY <1>2, <2>1 DEF ActivationInv, skillVars
    <2>3. CASE p = q
      <3>1. /\ req'[p].op = "activate" /\ req'[p].target = n /\ req'[p].was = snaps[n].active
            /\ n \in DOMAIN snaps
        BY <1>5, <2>3 DEF RowsOf
      <3>2. ASSUME ~ops'.overlap, NEW o \in Requests, Activating(o)', o # p
            PROVE  FALSE
        <4>1. Activating(o)
          BY <1>5, <2>3, <3>2 DEF Activating
        <4> QED
          BY <1>4, <3>2, <4>1
      <3> QED
        BY <3>1, <3>2
    <2>4. CASE p # q
      <3>1. req'[p] = req[p] /\ Activating(p)
        BY <1>5, <2>4 DEF Activating
      <3>2. ops'.overlap
        BY <1>4, <3>1
      <3> QED
        BY <1>3, <3>1, <3>2 DEF ActivationInv
    <2> QED
      BY <2>3, <2>4
  <1>9. disk' \in [Skills -> Editions] /\ incidents' \subseteq Incidents /\ logs' = logs
    BY <1>2, <1>3 DEF skillVars
  <1> QED
    BY <1>4, <1>5, <1>6, <1>7, <1>8, <1>9, QuietInv

\* An activation reads the other rows of the skill.
LEMMA ReadOtherVersionsInv ==
  ASSUME IInv, NEW q \in Requests, ReadOtherVersions(q)
  PROVE  IInv'
  <1> DEFINE t == req[q].target
             others == ActiveRows(snaps, snaps[t].skill) \ {t}
             r == [op |-> "deactivated", target |-> t, was |-> req[q].was, others |-> others]
  <1>1. ops \in Ops /\ DOMAIN req = Requests /\ disk \in [Skills -> Editions]
        /\ incidents \subseteq Incidents /\ TypeOK /\ RegistryInv /\ ActivationInv
    BY DEF IInv, TypeOK, Ops, SkillTypeOK
  <1>2. /\ req[q].op = "activate" /\ req' = [req EXCEPT ![q] = r]
        /\ UNCHANGED <<skillVars, incidents, logs, jobs, store, ops>>
    BY <1>1 DEF ReadOtherVersions
  <1>3. DOMAIN req' = Requests /\ req'[q] = r /\ \A p \in Requests : p # q => req'[p] = req[p]
    BY <1>1, <1>2
  <1>4. Quiet
    BY <1>2 DEF Quiet, skillVars
  <1>5. ReqInv(req[q])'
    <2>1. ReqInv(r)
      BY DEF ReqInv, RegistryReq, CurrentReq, PollReq
    <2> HIDE DEF r
    <2> QED
      BY <1>1, <1>3, <1>4, <2>1, QuietReq
  <1>6. ActivationInv'
    <2>1. OnlyOverlapLosesActive'
      BY <1>1, <1>2 DEF ActivationInv, OnlyOverlapLosesActive, AlwaysOneActive, skillVars
    <2>2. Activating(q) /\ \A p \in Requests : Activating(p)' <=> Activating(p)
      BY <1>2, <1>3 DEF Activating
    <2>3. others \subseteq RowsOf(snaps, snaps[t].skill) \ {t}
      BY DEF ActiveRows
    <2>4. /\ req'[q].target = t /\ req'[q].was = req[q].was /\ req'[q].others = others
      BY <1>3
    <2> SUFFICES ASSUME NEW p \in Requests, Activating(p)'
                 PROVE  /\ req'[p].target \in DOMAIN snaps
                        /\ req'[p].op = "deactivated" =>
                             req'[p].others \subseteq RowsOf(snaps, snaps[req'[p].target].skill)
                                                        \ {req'[p].target}
                        /\ ~ops.overlap =>
                             /\ req'[p].was = snaps[req'[p].target].active
                             /\ \A o \in Requests : Activating(o)' => o = p
      BY <1>2, <2>1 DEF ActivationInv, skillVars
    <2>5. CASE p = q
      BY <1>1, <2>2, <2>3, <2>4, <2>5 DEF ActivationInv
    <2>6. CASE p # q
      BY <1>1, <1>3, <2>2, <2>6 DEF ActivationInv
    <2> QED
      BY <2>5, <2>6
  <1>7. disk' \in [Skills -> Editions] /\ incidents' \subseteq Incidents /\ logs' = logs
    BY <1>1, <1>2 DEF skillVars
  <1>8. ops' \in Ops
    BY <1>1, <1>2
  <1> QED
    BY <1>3, <1>4, <1>5, <1>6, <1>7, <1>8, QuietInv

-----------------------------------------------------------------------------
(***************************************************************************)
(* What happens around the requests.                                       *)
(***************************************************************************)

\* Only an incident without runs is deleted.
LEMMA DeleteIncidentInv ==
  ASSUME IInv, NEW i, DeleteIncident(i)
  PROVE  IInv'
  <1>1. /\ ops.requests < MaxRequests /\ ops' = [ops EXCEPT !.requests = @ + 1]
        /\ incidents' = incidents \ {i} /\ UNCHANGED <<skillVars, logs, jobs, store, req>>
    BY DEF DeleteIncident
  <1>2. ops \in Ops /\ DOMAIN req = Requests /\ disk \in [Skills -> Editions]
        /\ incidents \subseteq Incidents /\ ActivationInv
    BY DEF IInv, TypeOK, Ops, SkillTypeOK
  <1>3. ops' \in Ops /\ ops'.late = ops.late /\ ops'.reads = ops.reads /\ ops'.overlap = ops.overlap
    BY <1>1, <1>2, AnalysisAssumption DEF Ops
  <1>4. ActivationInv'
    BY <1>1, <1>2, <1>3, ActivationQuiet DEF skillVars
  <1>5. Quiet /\ disk' \in [Skills -> Editions] /\ incidents' \subseteq Incidents /\ logs' = logs
        /\ req' = req
    BY <1>1, <1>2, <1>3 DEF Quiet, skillVars
  <1> QED
    BY <1>2, <1>3, <1>4, <1>5, QuietInv

\* What may happen once more is within its bound.
LEMMA EventCounted ==
  ASSUME ops \in Ops, MayHappen
  PROVE  /\ LET n == [ops EXCEPT !.edits = @ + 1]
            IN n \in Ops /\ n.late = ops.late /\ n.reads = ops.reads /\ n.overlap = ops.overlap
         /\ LET n == [ops EXCEPT !.late = @ + 1]
            IN n \in Ops /\ n.late # 0 /\ n.reads = ops.reads /\ n.overlap = ops.overlap
         /\ LET n == [ops EXCEPT !.reads = @ + 1]
            IN n \in Ops /\ n.late = ops.late /\ n.reads # 0 /\ n.overlap = ops.overlap
  <1>1. /\ MaxEvents \in Nat /\ ops.edits \in 0 .. MaxEvents /\ ops.late \in 0 .. MaxEvents
        /\ ops.reads \in 0 .. MaxEvents
    BY AnalysisAssumption DEF Ops
  <1>2. /\ ops.edits + 1 \in 0 .. MaxEvents /\ ops.late + 1 \in 0 .. MaxEvents
        /\ ops.reads + 1 \in 0 .. MaxEvents /\ ops.late + 1 # 0 /\ ops.reads + 1 # 0
    BY <1>1 DEF MayHappen
  <1> QED
    BY <1>2 DEF Ops

\* An edit of the checkout changes no table.
LEMMA EditInv ==
  ASSUME IInv, NEW s \in Skills, NEW e \in Editions, Edit(s, e)
  PROVE  IInv'
  <1>1. /\ MayHappen /\ ops' = [ops EXCEPT !.edits = @ + 1]
        /\ disk' = [disk EXCEPT ![s] = e] /\ UNCHANGED <<snaps, incidents, logs, jobs, store, req>>
    BY DEF Edit, EditFiles
  <1>2. ops \in Ops /\ DOMAIN req = Requests /\ disk \in [Skills -> Editions]
        /\ incidents \subseteq Incidents /\ ActivationInv
    BY DEF IInv, TypeOK, Ops, SkillTypeOK
  <1>3. ops' \in Ops /\ ops'.late = ops.late /\ ops'.reads = ops.reads /\ ops'.overlap = ops.overlap
    BY <1>1, <1>2, EventCounted
  <1>4. ActivationInv'
    BY <1>1, <1>2, <1>3, ActivationQuiet
  <1>5. Quiet /\ disk' \in [Skills -> Editions] /\ incidents' \subseteq Incidents /\ logs' = logs
        /\ req' = req
    BY <1>1, <1>2, <1>3 DEF Quiet
  <1> QED
    BY <1>2, <1>3, <1>4, <1>5, QuietInv

\* A step of a worker: the registry and the requests stay, no run is added and
\* none made or unmade current.
LEMMA WorkerInv ==
  ASSUME IInv, UNCHANGED <<skillVars, incidents, logs, req>>, JobsGrow, ResultsGrow,
         Len(jobs') = Len(jobs), store' \in Seq(Stored),
         \A j \in TriageJobs : jobs'[j].current = jobs[j].current,
         ops' \in Ops, ops'.overlap = ops.overlap, StoreInv', FilledInv'
  PROVE  IInv'
  <1>1. TypeOK /\ RegistryInv /\ ActivationInv /\ CurrentInv /\ PollInv
    BY DEF IInv
  <1>2. snaps' = snaps /\ disk' = disk /\ incidents' = incidents /\ logs' = logs /\ req' = req
    BY DEF skillVars
  <1>3. Grows
    <2>1. Keeps(snaps, snaps)
      BY <1>1 DEF TypeOK, SkillTypeOK, Keeps
    <2> QED
      BY <1>1, <1>2, <2>1 DEF Grows, TypeOK, SkillTypeOK, RegistryInv
  <1>4. \A p \in Requests : RegistryReq(req[p])' /\ CurrentReq(req[p])' /\ PollReq(req[p])'
    BY <1>1, <1>2, <1>3, RequestsHold
  <1>5. TypeOK'
    BY <1>1, <1>2 DEF TypeOK, SkillTypeOK, Ops, ResultsGrow, JobsGrow
  <1>6. RegistryInv'
    <2>1. StampedJobsStayRunnable'
      <3> SUFFICES ASSUME NEW j \in DOMAIN jobs'
                   PROVE  materialize_snapshot(jobs[j].skill, jobs[j].snap, jobs[j].hash)'
        BY DEF StampedJobsStayRunnable
      <3>1. j \in 1 .. Len(jobs) /\ j \in DOMAIN jobs
        BY JobsGrowFacts
      <3>2. /\ jobs'[j].skill = jobs[j].skill /\ jobs'[j].snap = jobs[j].snap
            /\ jobs'[j].hash = jobs[j].hash
        BY <3>1 DEF JobsGrow
      <3>3. materialize_snapshot(jobs[j].skill, jobs[j].snap, jobs[j].hash)
        BY <1>1, <3>1 DEF RegistryInv, StampedJobsStayRunnable
      <3> QED
        BY <1>3, <3>2, <3>3, RunnableKept
    <2> QED
      BY <1>1, <1>2, <1>4, <2>1 DEF RegistryInv
  <1>7. ActivationInv'
    BY <1>1, <1>2, ActivationQuiet
  <1>8. CurrentInv'
    <2>1. DOMAIN jobs' = DOMAIN jobs /\ TriageJobs' = TriageJobs
      BY JobsGrowFacts DEF TriageJobs
    <2>2. \A i : RunsOf(i)' = RunsOf(i) /\ CurrentRuns(i)' = CurrentRuns(i)
      BY <2>1, JobsGrowFacts DEF RunsOf, CurrentRuns
    <2>3. OneCurrentRun'
      BY <1>1, <2>2 DEF CurrentInv, OneCurrentRun
    <2> QED
      BY <1>4, <2>3 DEF CurrentInv
  <1>9. PollInv'
    BY <1>4 DEF PollInv
  <1> QED
    BY <1>5, <1>6, <1>7, <1>8, <1>9 DEF IInv

\* The objects of one job change.
LEMMA StoreStep ==
  ASSUME IInv, UNCHANGED <<skillVars, incidents, logs, jobs, req>>, NEW j \in TriageJobs,
         NEW w \in Stored, store' = [store EXCEPT ![j] = w],
         w.phase # "queued" => w.result # 0, store[j].result # 0 => w.result # 0,
         ops' \in Ops, ops'.overlap = ops.overlap, ops'.late = 0 => ops.late = 0,
         ops'.reads = 0 => ops.reads = 0,
         ops'.late = 0 => w.late = {} /\ (Done(j) => w.result = store[j].result),
         FirstOnly' => w.result = w.attempts /\ {w.attempts, w.own, w.telemetry} \subseteq {0, 1}
  PROVE  IInv'
  <1>1. store \in Seq(Stored) /\ DOMAIN store = 1 .. Len(jobs) /\ Len(jobs) \in Nat
        /\ Len(store) = Len(jobs) /\ TriageJobs \subseteq 1 .. Len(jobs) /\ DOMAIN jobs = 1 .. Len(jobs)
        /\ jobs \in Seq(TriageJob \cup ReportJob)
    BY BeginFacts DEF IInv, TypeOK
  <1>2. store' \in Seq(Stored) /\ Len(store') = Len(jobs)
        /\ \A k \in 1 .. Len(jobs) : store'[k] = IF k = j THEN w ELSE store[k]
    BY <1>1
  <1>3. JobsGrow
    BY <1>1 DEF JobsGrow
  <1>4. ResultsGrow
    BY <1>1, <1>2 DEF ResultsGrow
  <1>5. StoreInv'
    BY <1>1, <1>2 DEF IInv, StoreInv, FirstOnly
  <1>6. FilledInv'
    <2>1. TriageJobs' = TriageJobs /\ (\A k : Done(k)' = Done(k))
          /\ \A r, log, hash : OutputFor(r, log, hash)' = OutputFor(r, log, hash)
      BY DEF TriageJobs, Done, OutputFor
    <2> QED
      BY <1>1, <1>2, <2>1 DEF IInv, FilledInv, FirstOnly
  <1> QED
    BY <1>2, <1>3, <1>4, <1>5, <1>6, WorkerInv

\* The status of one job that is not over changes, and its attempt ends.
LEMMA StatusStep ==
  ASSUME IInv, UNCHANGED <<skillVars, incidents, logs, req, ops>>, NEW j, Working(j), EndAttempt(j),
         NEW st \in {"COMPLETED", "FAILED"}, jobs' = [jobs EXCEPT ![j].status = st],
         st = "COMPLETED" => store[j].result # 0
  PROVE  IInv'
  <1>1. store \in Seq(Stored) /\ DOMAIN store = 1 .. Len(jobs) /\ Len(jobs) \in Nat
        /\ Len(store) = Len(jobs) /\ TriageJobs \subseteq 1 .. Len(jobs) /\ DOMAIN jobs = 1 .. Len(jobs)
        /\ jobs \in Seq(TriageJob \cup ReportJob) /\ ops \in Ops
    BY BeginFacts DEF IInv, TypeOK, Ops
  <1>2. j \in TriageJobs /\ j \in 1 .. Len(jobs) /\ jobs[j].status = "QUEUED" /\ jobs[j] \in TriageJob
    BY <1>1, JobType DEF Working
  <1> DEFINE w == [store[j] EXCEPT !.phase = "queued", !.own = 0]
  <1>11. store[j] \in Stored /\ store' = [store EXCEPT ![j] = w]
    BY <1>1, <1>2 DEF EndAttempt
  <1>12. /\ w \in Stored /\ w.phase = "queued" /\ w.own = 0 /\ w.late = store[j].late
         /\ w.result = store[j].result /\ w.telemetry = store[j].telemetry
         /\ w.attempts = store[j].attempts
    BY <1>11 DEF Stored
  <1> HIDE DEF w
  <1>13. store' \in Seq(Stored) /\ Len(store') = Len(jobs)
         /\ \A k \in 1 .. Len(jobs) : store'[k] = IF k = j THEN w ELSE store[k]
    BY <1>1, <1>2, <1>11, <1>12
  <1>14. \A k \in 1 .. Len(jobs) : store'[k].result = store[k].result
    BY <1>12, <1>13
  <1> DEFINE new == [jobs[j] EXCEPT !.status = st]
  <1>3. /\ new \in TriageJob /\ new.skill = jobs[j].skill /\ new.snap = jobs[j].snap
        /\ new.hash = jobs[j].hash /\ new.incident = jobs[j].incident /\ new.log = jobs[j].log
        /\ new.current = jobs[j].current /\ new.result = jobs[j].result /\ new.status = st
        /\ new.telemetry = jobs[j].telemetry
    BY <1>2 DEF TriageJob
  <1>4. jobs' = [jobs EXCEPT ![j] = new]
    BY <1>1, <1>2
  <1> HIDE DEF new
  <1>5. jobs' \in Seq(TriageJob \cup ReportJob) /\ Len(jobs') = Len(jobs)
        /\ \A k \in 1 .. Len(jobs) : jobs'[k] = IF k = j THEN new ELSE jobs[k]
    BY <1>1, <1>2, <1>3, <1>4
  <1>6. JobsGrow
    BY <1>1, <1>2, <1>3, <1>5 DEF JobsGrow
  <1>7. \A k \in TriageJobs : jobs'[k].result = jobs[k].result /\ jobs'[k].current = jobs[k].current
                              /\ jobs'[k].telemetry = jobs[k].telemetry
    BY <1>1, <1>3, <1>5
  <1>8. ResultsGrow
    BY <1>1, <1>5, <1>7, <1>13, <1>14 DEF ResultsGrow
  <1>9. StoreInv'
    <2>1. DOMAIN jobs' = 1 .. Len(jobs) /\ FirstOnly' = FirstOnly
      BY <1>5 DEF FirstOnly
    <2> SUFFICES ASSUME NEW k \in 1 .. Len(jobs)
                 PROVE  /\ store'[k].phase # "queued" => store'[k].result # 0
                        /\ ops.late = 0 => store'[k].late = {}
                        /\ FirstOnly => /\ store'[k].result = store'[k].attempts
                                        /\ {store'[k].attempts, store'[k].own, store'[k].telemetry}
                                              \subseteq {0, 1}
      BY <2>1 DEF StoreInv
    <2>2. /\ store[k].phase # "queued" => store[k].result # 0
          /\ ops.late = 0 => store[k].late = {}
          /\ FirstOnly => /\ store[k].result = store[k].attempts
                          /\ {store[k].attempts, store[k].own, store[k].telemetry} \subseteq {0, 1}
      BY <1>1 DEF IInv, StoreInv
    <2> QED
      BY <1>12, <1>13, <2>2
  <1>10. FilledInv'
    <2> SUFFICES ASSUME NEW k \in TriageJobs'
                 PROVE  /\ jobs'[k].result = NoResult /\ Done(k)' => store'[k].result # 0
                        /\ jobs'[k].result # NoResult =>
                             Done(k)' /\ OutputFor(jobs[k].result, jobs[k].log, jobs[k].hash)'
                        /\ jobs'[k].result = NoResult => jobs'[k].telemetry = 0
                        /\ jobs'[k].result # NoResult /\ FirstOnly' =>
                             jobs'[k].telemetry \in {0, jobs'[k].result.attempt}
      BY DEF FilledInv
    <2>4. FirstOnly' = FirstOnly
      BY DEF FirstOnly
    <2>5. k \in 1 .. Len(jobs) /\ store'[k].result = store[k].result
      BY <1>5, <1>14 DEF TriageJobs
    <2>1. k \in TriageJobs /\ jobs'[k].result = jobs[k].result /\ jobs'[k].telemetry = jobs[k].telemetry
          /\ jobs'[k].log = jobs[k].log /\ jobs'[k].hash = jobs[k].hash
      <3>1. k \in DOMAIN jobs' /\ DOMAIN jobs' = DOMAIN jobs
        BY <1>1, <1>5 DEF TriageJobs
      <3> QED
        BY <1>6, <1>7, <3>1, JobsGrowFacts
    <2>2. CASE jobs[k].result # NoResult
      <3>1. Done(k) /\ OutputFor(jobs[k].result, jobs[k].log, jobs[k].hash)
            /\ (FirstOnly => jobs[k].telemetry \in {0, jobs[k].result.attempt})
        BY <2>1, <2>2 DEF IInv, FilledInv
      <3>2. OutputFor(jobs[k].result, jobs[k].log, jobs[k].hash)'
        BY <1>6, <2>1, <3>1, OutputKept
      <3> QED
        BY <1>6, <2>1, <2>2, <2>4, <3>1, <3>2, JobsGrowFacts
    <2>3. CASE jobs[k].result = NoResult
      <3>3. jobs[k].telemetry = 0
        BY <2>1, <2>3 DEF IInv, FilledInv
      <3>1. CASE k = j
        BY <1>1, <1>2, <1>3, <1>5, <2>1, <2>3, <2>5, <3>1, <3>3 DEF Done
      <3>2. CASE k # j
        <4>1. Done(k)' => Done(k)
          BY <1>1, <1>5, <2>1, <3>2 DEF Done
        <4> QED
          BY <2>1, <2>3, <2>5, <3>3, <4>1 DEF IInv, FilledInv
      <3> QED
        BY <3>1, <3>2
    <2> QED
      BY <2>2, <2>3
  <1> QED
    BY <1>1, <1>5, <1>6, <1>7, <1>8, <1>9, <1>10, <1>13, WorkerInv

\* The attempt at work on a job writes its result.
LEMMA NewResultInv ==
  ASSUME IInv, NEW j, NewResult(j), UNCHANGED <<skillVars, incidents, logs, jobs, req>>,
         ops' \in Ops, ops'.late = ops.late, ops'.overlap = ops.overlap,
         ops'.reads = 0 => ops.reads = 0 /\ store[j].result = 0
  PROVE  IInv'
  <1> DEFINE s == store[j]
             n == s.attempts + 1
             w == [s EXCEPT !.phase = "result", !.own = n, !.attempts = n, !.result = n]
  <1>1. j \in TriageJobs /\ ~Done(j)
    BY DEF NewResult, Working, Done
  <1>2. s \in Stored /\ store \in Seq(Stored) /\ j \in DOMAIN store /\ j \in DOMAIN jobs
    BY <1>1, BeginFacts DEF IInv, TypeOK
  <1>3. n \in Nat /\ n # 0
    <2>1. s.attempts \in Nat
      BY <1>2 DEF Stored
    <2> QED
      BY <2>1
  <1>4. store' = [store EXCEPT ![j] = w]
    BY DEF NewResult
  <1>5. /\ ops.late = 0 => s.late = {}
        /\ FirstOnly => s.result = s.attempts /\ s.telemetry \in {0, 1}
    BY <1>2 DEF IInv, StoreInv
  <1>6. FirstOnly' => n = 1 /\ s.telemetry \in {0, 1}
    BY <1>5 DEF FirstOnly
  <1>7. /\ w \in Stored /\ w.result = n /\ w.attempts = n /\ w.own = n
        /\ w.telemetry = s.telemetry /\ w.late = s.late
    <2> HIDE DEF n
    <2> QED
      BY <1>2, <1>3 DEF Stored
  <1> HIDE DEF w, n, s
  <1>8. FirstOnly' => w.result = w.attempts /\ {w.attempts, w.own, w.telemetry} \subseteq {0, 1}
    BY <1>6, <1>7
  <1>9. ops'.late = 0 => w.late = {} /\ (Done(j) => w.result = store[j].result)
    BY <1>1, <1>5, <1>7
  <1> QED
    BY <1>1, <1>3, <1>4, <1>7, <1>8, <1>9, StoreStep

\* Every step of a worker, late or not.
LEMMA WorkerStepInv ==
  ASSUME IInv, NEW j, WorkerStep(j)
  PROVE  IInv'
  <1> DEFINE s == store[j]
  <1>1. j \in TriageJobs
    <2>1. NewResult(j) => j \in TriageJobs
      BY DEF NewResult, Working
    <2>2. LateUpload(j) \/ LateTelemetry(j) => j \in TriageJobs
      BY Zenon DEF LateUpload, LateTelemetry
    <2>3. UploadTelemetry(j) \/ MarkCompleted(j) \/ CrashWorker(j) \/ MarkFailed(j) => j \in TriageJobs
      BY DEF UploadTelemetry, MarkCompleted, CrashWorker, MarkFailed, Working
    <2>4. Infer(j) \/ InferAgain(j) => NewResult(j)
      BY DEF Infer, InferAgain
    <2> QED
      BY <2>1, <2>2, <2>3, <2>4 DEF WorkerStep
  <1>2. s \in Stored /\ ops \in Ops /\ store \in Seq(Stored) /\ j \in DOMAIN store
    BY <1>1, BeginFacts DEF IInv, TypeOK, Ops
  <1>3. s.attempts \in Nat /\ s.own \in Nat /\ s.result \in Nat /\ s.telemetry \in Nat
        /\ s.phase \in {"queued", "result", "telemetry"} /\ s.late \subseteq Nat
    BY <1>2 DEF Stored
  <1>4. /\ s.phase # "queued" => s.result # 0
        /\ ops.late = 0 => s.late = {}
        /\ FirstOnly => s.result = s.attempts /\ {s.attempts, s.own, s.telemetry} \subseteq {0, 1}
    BY <1>1, BeginFacts DEF IInv, StoreInv
  <1> HIDE DEF s
  <1>5. CASE Infer(j)
    <2>1. NewResult(j) /\ store[j].result = 0 /\ UNCHANGED <<skillVars, incidents, logs, jobs, req, ops>>
      BY <1>5 DEF Infer
    <2> QED
      BY <1>2, <2>1, NewResultInv
  <1>12. CASE InferAgain(j)
    <2>1. NewResult(j) /\ MayHappen /\ ops' = [ops EXCEPT !.reads = @ + 1]
          /\ UNCHANGED <<skillVars, incidents, logs, jobs, req>>
      BY <1>12 DEF InferAgain
    <2>2. ops' \in Ops /\ ops'.late = ops.late /\ ops'.reads # 0 /\ ops'.overlap = ops.overlap
      BY <1>2, <2>1, EventCounted
    <2> QED
      BY <2>1, <2>2, NewResultInv
  <1>6. CASE UploadTelemetry(j)
    <2> DEFINE w == [s EXCEPT !.phase = "telemetry", !.telemetry = s.own]
    <2>1. s.phase = "result" /\ UNCHANGED <<skillVars, incidents, logs, jobs, req, ops>>
      BY <1>6 DEF UploadTelemetry, s
    <2>2. store' = [store EXCEPT ![j] = w]
      BY <1>6 DEF UploadTelemetry, s
    <2>3. w \in Stored /\ w.result = s.result /\ w.attempts = s.attempts /\ w.telemetry = s.own
          /\ w.own = s.own /\ w.late = s.late
      BY <1>2, <1>3 DEF Stored
    <2>4. FirstOnly' = FirstOnly
      BY <2>1 DEF FirstOnly
    <2> HIDE DEF w
    <2> QED
      BY <1>1, <1>2, <1>3, <1>4, <2>1, <2>2, <2>3, <2>4, StoreStep DEF s
  <1>7. CASE CrashWorker(j)
    <2> DEFINE w == [s EXCEPT !.phase = "queued", !.own = 0]
    <2>1. UNCHANGED <<skillVars, incidents, logs, jobs, req, ops>>
      BY <1>7 DEF CrashWorker
    <2>2. store' = [store EXCEPT ![j] = w]
      BY <1>7 DEF CrashWorker, EndAttempt, s
    <2>3. w \in Stored /\ w.phase = "queued" /\ w.result = s.result /\ w.attempts = s.attempts
          /\ w.telemetry = s.telemetry /\ w.own = 0 /\ w.late = s.late
      BY <1>2, <1>3 DEF Stored
    <2>4. FirstOnly' = FirstOnly
      BY <2>1 DEF FirstOnly
    <2> HIDE DEF w
    <2> QED
      BY <1>1, <1>2, <1>3, <1>4, <2>1, <2>2, <2>3, <2>4, StoreStep DEF s
  <1>8. CASE LateUpload(j)
    <2> DEFINE n == s.attempts + 1
               w == [s EXCEPT !.attempts = n, !.result = n, !.late = s.late \cup {n}]
    <2>1. MayHappen /\ ops' = [ops EXCEPT !.late = @ + 1]
          /\ UNCHANGED <<skillVars, incidents, logs, jobs, req>>
      BY <1>8 DEF LateUpload
    <2>2. store' = [store EXCEPT ![j] = w]
      BY <1>8, <1>2 DEF LateUpload, s
    <2>3. n \in Nat /\ n # 0
      BY <1>3
    <2>4. w \in Stored /\ w.result # 0
      <3> HIDE DEF n
      <3>1. s.late \cup {n} \in SUBSET Nat
        BY <1>3, <2>3
      <3> QED
        BY <1>2, <2>3, <3>1 DEF Stored
    <2>5. ops' \in Ops /\ ops'.late # 0 /\ ops'.reads = ops.reads /\ ops'.overlap = ops.overlap
      BY <1>2, <2>1, EventCounted
    <2>6. ~FirstOnly'
      BY <2>5 DEF FirstOnly
    <2> HIDE DEF w
    <2> QED
      BY <1>1, <2>1, <2>2, <2>4, <2>5, <2>6, StoreStep
  <1>9. CASE LateTelemetry(j)
    <2>1. PICK n \in s.late :
            store' = [store EXCEPT ![j] = [s EXCEPT !.telemetry = n, !.late = s.late \ {n}]]
      <3>1. s = store[j]
        BY DEF s
      <3> QED
        BY <1>9, <3>1, Zenon DEF LateTelemetry
    <2> DEFINE w == [s EXCEPT !.telemetry = n, !.late = s.late \ {n}]
    <2>2. UNCHANGED <<skillVars, incidents, logs, jobs, req, ops>>
      BY <1>9 DEF LateTelemetry
    <2>3. w \in Stored /\ w.result = s.result /\ w.phase = s.phase
      <3>1. n \in Nat /\ s.late \ {n} \in SUBSET Nat
        BY <1>3, <2>1
      <3> QED
        BY <1>2, <1>3, <3>1 DEF Stored
    <2>4. ops.late # 0 /\ ~FirstOnly'
      BY <1>4, <2>1, <2>2 DEF FirstOnly
    <2>5. store' = [store EXCEPT ![j] = w]
      BY <2>1
    <2> HIDE DEF w
    <2> QED
      BY <1>1, <1>2, <1>4, <2>2, <2>3, <2>4, <2>5, StoreStep DEF s
  <1>10. CASE MarkCompleted(j)
    <2>1. /\ Working(j) /\ jobs' = [jobs EXCEPT ![j].status = "COMPLETED"] /\ EndAttempt(j)
          /\ UNCHANGED <<skillVars, incidents, logs, req, ops>>
      BY <1>10 DEF MarkCompleted
    <2>2. store[j].result # 0
      BY <1>4, <1>10 DEF MarkCompleted, s
    <2> QED
      BY <2>1, <2>2, StatusStep
  <1>11. CASE MarkFailed(j)
    BY <1>11, StatusStep DEF MarkFailed
  <1> QED
    BY <1>5, <1>6, <1>7, <1>8, <1>9, <1>10, <1>11, <1>12 DEF WorkerStep

-----------------------------------------------------------------------------
(***************************************************************************)
(* The commits.                                                            *)
(***************************************************************************)

\* A commit keeps everything, if what it writes is sound.
LEMMA CommitInv ==
  ASSUME IInv, NEW q \in Requests, req' = [req EXCEPT ![q] = Idle],
         UNCHANGED <<disk, incidents, logs, ops>>, Grows, JobsGrow, ResultsGrow,
         OneActivePerName(snaps'), store' \in Seq(Stored),
         \A j \in DOMAIN jobs' : j \notin DOMAIN jobs =>
             materialize_snapshot(jobs[j].skill, jobs[j].snap, jobs[j].hash)',
         ActivationInv', OneCurrentRun', StoreInv', FilledInv'
  PROVE  IInv'
  <1>1. TypeOK /\ RegistryInv /\ CurrentInv /\ PollInv
    BY DEF IInv
  <1>2. DOMAIN req' = Requests /\ req'[q] = Idle /\ \A p \in Requests : p # q => req'[p] = req[p]
    BY <1>1 DEF TypeOK
  <1>3. ReqInv(req[q])'
    BY <1>2 DEF ReqInv, RegistryReq, CurrentReq, PollReq, Idle
  <1>4. \A p \in Requests : RegistryReq(req[p])' /\ CurrentReq(req[p])' /\ PollReq(req[p])'
    BY <1>1, <1>2, <1>3, RequestsHold
  <1>5. TypeOK'
    BY <1>1, <1>2 DEF TypeOK, SkillTypeOK, Grows, JobsGrow, ResultsGrow
  <1>6. StampedJobsStayRunnable'
    <2> SUFFICES ASSUME NEW j \in DOMAIN jobs', j \in DOMAIN jobs
                 PROVE  materialize_snapshot(jobs[j].skill, jobs[j].snap, jobs[j].hash)'
      BY DEF StampedJobsStayRunnable
    <2>1. /\ jobs'[j].skill = jobs[j].skill /\ jobs'[j].snap = jobs[j].snap
          /\ jobs'[j].hash = jobs[j].hash
      BY DEF JobsGrow
    <2>2. materialize_snapshot(jobs[j].skill, jobs[j].snap, jobs[j].hash)
      BY <1>1 DEF RegistryInv, StampedJobsStayRunnable
    <2> QED
      BY <2>1, <2>2, RunnableKept
  <1>7. RegistryInv'
    BY <1>4, <1>6 DEF RegistryInv, Grows
  <1>8. CurrentInv'
    BY <1>4 DEF CurrentInv
  <1>9. PollInv'
    BY <1>4 DEF PollInv
  <1> QED
    BY <1>5, <1>7, <1>8, <1>9 DEF IInv

\* Jobs and objects that a commit leaves alone.
LEMMA JobsAlone ==
  ASSUME IInv, UNCHANGED <<jobs, store, ops>>
  PROVE  /\ JobsGrow /\ ResultsGrow /\ store' \in Seq(Stored)
         /\ OneCurrentRun' /\ StoreInv' /\ FilledInv'
  <1>1. jobs \in Seq(TriageJob \cup ReportJob) /\ store \in Seq(Stored) /\ Len(store) = Len(jobs)
    BY DEF IInv, TypeOK
  <1>2. JobsGrow
    BY <1>1 DEF JobsGrow
  <1>3. ResultsGrow
    BY <1>1 DEF ResultsGrow
  <1>4. OneCurrentRun'
    BY DEF IInv, CurrentInv, OneCurrentRun, CurrentRuns, RunsOf, TriageJobs
  <1>5. StoreInv'
    BY DEF IInv, StoreInv, FirstOnly
  <1>6. FilledInv'
    BY DEF IInv, FilledInv, TriageJobs, Done, OutputFor, FirstOnly
  <1> QED
    BY <1>1, <1>2, <1>3, <1>4, <1>5, <1>6

\* A registration leaves a skill that has a history with an active row, and gives
\* one to a skill that had none.
LEMMA InsertedActive ==
  ASSUME NEW tab \in Seq(SnapRow), NEW rows, Pending(tab, rows), OneActivePerName(tab),
         ExactlyOneActive(tab), OneActivePerName(Inserted(tab, rows))
  PROVE  ExactlyOneActive(Inserted(tab, rows))
  <1> DEFINE new == Inserted(tab, rows)
  <1>1. rows \in Seq(SnapRow) /\ Len(rows) \in Nat /\ Len(tab) \in Nat /\ DOMAIN tab = 1 .. Len(tab)
    BY DEF Pending
  <1>2. /\ new \in Seq(SnapRow) /\ Len(new) = Len(tab) + Len(rows)
        /\ \A n \in 1 .. Len(tab) : new[n] = tab[n]
        /\ \A k \in 1 .. Len(rows) : new[Len(tab) + k] = Settled(tab, rows, k)
    BY <1>1, InsertedRows
  <1> HIDE DEF new
  <1>3. DOMAIN new = 1 .. Len(tab) + Len(rows)
    BY <1>2
  <1> SUFFICES ASSUME NEW s \in Skills, RowsOf(new, s) # {}
               PROVE  ActiveRows(new, s) # {}
    BY <1>2, OneIsActive DEF new
  <1>4. CASE RowsOf(tab, s) # {}
    <2>1. PICK n \in ActiveRows(tab, s) : TRUE
      BY <1>4, OneIsActive
    <2>2. n \in 1 .. Len(tab) /\ tab[n].skill = s /\ tab[n].active
      BY <1>1 DEF ActiveRows, RowsOf
    <2>3. n \in DOMAIN new /\ new[n] = tab[n]
      BY <1>1, <1>2, <1>3, <2>2
    <2>4. n \in ActiveRows(new, s)
      BY <2>2, <2>3 DEF ActiveRows, RowsOf
    <2> QED
      BY <2>4
  <1>5. CASE RowsOf(tab, s) = {}
    <2>1. PICK n \in 1 .. Len(tab) + Len(rows) : new[n].skill = s
      BY <1>3 DEF RowsOf
    <2>2. n \notin 1 .. Len(tab)
      BY <1>1, <1>2, <1>5, <2>1 DEF RowsOf
    <2>3. n - Len(tab) \in 1 .. Len(rows) /\ n = Len(tab) + (n - Len(tab))
      BY <1>1, <2>1, <2>2
    <2>4. PICK k \in 1 .. Len(rows) : n = Len(tab) + k
      BY <2>3
    <2>5. new[n].skill = rows[k].skill /\ new[n].active = rows[k].active
      BY <1>1, <1>2, <2>4, SettledRow
    <2>6. rows[k].active
      BY <1>1, <1>5, <2>1, <2>5 DEF Pending
    <2>7. n \in ActiveRows(new, s)
      BY <1>3, <2>1, <2>5, <2>6 DEF ActiveRows, RowsOf
    <2> QED
      BY <2>7
  <1> QED
    BY <1>4, <1>5

\* What a registration does to the requests that activate a version: nothing.
LEMMA InsertedActivation ==
  ASSUME IInv, NEW rows, Pending(snaps, rows), snaps' = Inserted(snaps, rows),
         OneActivePerName(snaps'), ops' = ops,
         \A p \in Requests : req'[p] = req[p] \/ ~Activating(p)'
  PROVE  ActivationInv'
  <1>1. snaps \in Seq(SnapRow) /\ PinsPointBack(snaps) /\ OneActivePerName(snaps) /\ ActivationInv
    BY DEF IInv, TypeOK, SkillTypeOK, RegistryInv
  <1>2. Grows
    BY <1>1, InsertedGrows
  <1>3. OnlyOverlapLosesActive'
    BY <1>1, InsertedActive DEF ActivationInv, OnlyOverlapLosesActive, AlwaysOneActive
  <1>4. \A n \in DOMAIN snaps : snaps'[n] = snaps[n] /\ n \in DOMAIN snaps'
    <2>1. rows \in Seq(SnapRow) /\ DOMAIN snaps = 1 .. Len(snaps)
      BY <1>1 DEF Pending
    <2>2. \A n \in DOMAIN snaps : snaps'[n] = snaps[n]
      <3>1. \A n \in 1 .. Len(snaps) : Inserted(snaps, rows)[n] = snaps[n]
        BY <1>1, <2>1, InsertedRows
      <3> QED
        BY <2>1, <3>1
    <2> QED
      BY <1>2, <2>2, GrowsFacts
  <1> SUFFICES ASSUME NEW p \in Requests, Activating(p)'
               PROVE  /\ req'[p].target \in DOMAIN snaps'
                      /\ req'[p].op = "deactivated" =>
                           req'[p].others \subseteq RowsOf(snaps', snaps'[req'[p].target].skill)
                                                      \ {req'[p].target}
                      /\ ~ops'.overlap =>
                           /\ req'[p].was = snaps'[req'[p].target].active
                           /\ \A o \in Requests : Activating(o)' => o = p
    BY <1>3 DEF ActivationInv
  <1>5. \A o \in Requests : Activating(o)' => req'[o] = req[o] /\ Activating(o)
    BY DEF Activating
  <1>6. /\ req'[p] = req[p] /\ req[p].target \in DOMAIN snaps
        /\ req[p].op = "deactivated" =>
             req[p].others \subseteq RowsOf(snaps, snaps[req[p].target].skill) \ {req[p].target}
        /\ ~ops.overlap => /\ req[p].was = snaps[req[p].target].active
                           /\ \A o \in Requests : Activating(o) => o = p
    BY <1>1, <1>5 DEF ActivationInv
  <1>7. RowsOf(snaps, snaps[req[p].target].skill) \subseteq RowsOf(snaps', snaps[req[p].target].skill)
    BY <1>2, GrowingRows
  <1> QED
    BY <1>4, <1>5, <1>6, <1>7

\* The commit of list_skills.
LEMMA CommitListSkillsInv ==
  ASSUME IInv, NEW q \in Requests, CommitListSkills(q)
  PROVE  IInv'
  <1> DEFINE rows == req[q].rows
  <1>1. req[q].op = "list" /\ req' = [req EXCEPT ![q] = Idle]
        /\ UNCHANGED <<disk, incidents, logs, jobs, store, ops>>
        /\ snaps' = IF OneActivePerName(Inserted(snaps, rows)) THEN Inserted(snaps, rows) ELSE snaps
    BY DEF CommitListSkills, End
  <1>2. CASE OneActivePerName(Inserted(snaps, rows))
    <2>1. snaps' = Inserted(snaps, rows) /\ OneActivePerName(snaps')
      BY <1>1, <1>2
    <2>2. Pending(snaps, rows)
      BY <1>1 DEF IInv, RegistryInv, RegistryReq
    <2>3. Grows
      BY <2>1, <2>2, BeginFacts, InsertedGrows
    <2>4. \A p \in Requests : req'[p] = req[p] \/ ~Activating(p)'
      BY <1>1, BeginFacts DEF Activating, Idle
    <2>5. ActivationInv'
      BY <1>1, <2>1, <2>2, <2>4, InsertedActivation
    <2> HIDE DEF rows
    <2> QED
      BY <1>1, <2>1, <2>3, <2>5, JobsAlone, CommitInv
  <1>3. CASE ~OneActivePerName(Inserted(snaps, rows))
    <2>1. UNCHANGED <<skillVars, incidents, logs, jobs, store, ops>>
      BY <1>1, <1>3 DEF skillVars
    <2>2. Idle.op \notin {"activate", "deactivated"}
      BY DEF Idle
    <2> QED
      BY <1>1, <2>1, <2>2, IdleReq, ReadInv
  <1> QED
    BY <1>2, <1>3

\* Alone, an activation leaves its skill one active row, and other skills alone.
LEMMA CommitActivationInv ==
  ASSUME IInv, NEW q \in Requests, CommitActivation(q)
  PROVE  IInv'
  <1> DEFINE t == req[q].target
  <1>1. req[q].op = "deactivated" /\ req' = [req EXCEPT ![q] = Idle]
        /\ UNCHANGED <<disk, incidents, logs, jobs, store, ops>>
        /\ snaps' = Activated(req[q]) /\ OneActivePerName(snaps')
    BY DEF CommitActivation, End
  <1>2. snaps \in Seq(SnapRow) /\ PinsPointBack(snaps) /\ OneActivePerName(snaps) /\ ActivationInv
        /\ DOMAIN req = Requests
    BY DEF IInv, TypeOK, SkillTypeOK, RegistryInv
  <1>3. /\ Grows /\ DOMAIN snaps' = DOMAIN snaps
        /\ \A n \in DOMAIN snaps : snaps'[n].active = IF n \in req[q].others THEN FALSE
                                                      ELSE IF n = t /\ ~req[q].was THEN TRUE
                                                      ELSE snaps[n].active
    BY <1>1, <1>2, ActivatedGrows
  <1>4. Activating(q) /\ t \in DOMAIN snaps
        /\ req[q].others \subseteq RowsOf(snaps, snaps[t].skill) \ {t}
        /\ (~ops.overlap => /\ req[q].was = snaps[t].active
                            /\ \A p \in Requests : Activating(p) => p = q)
    BY <1>1, <1>2 DEF ActivationInv, Activating
  <1>5. \A s : RowsOf(snaps', s) = RowsOf(snaps, s)
    BY <1>3, GrowsFacts DEF RowsOf
  <1>6. OnlyOverlapLosesActive'
    <2> SUFFICES ASSUME ~ops.overlap
                 PROVE  ExactlyOneActive(snaps')
      BY <1>1 DEF OnlyOverlapLosesActive, AlwaysOneActive
    <2>1. ExactlyOneActive(snaps)
      BY <1>2 DEF ActivationInv, OnlyOverlapLosesActive, AlwaysOneActive
    <2> SUFFICES ASSUME NEW s \in Skills, RowsOf(snaps', s) # {}
                 PROVE  ActiveRows(snaps', s) # {}
      BY <1>1, <1>3, OneIsActive DEF Grows
    <2>2. CASE s = snaps[t].skill
      <3>1. t \in RowsOf(snaps', s)
        BY <1>4, <1>5, <2>2 DEF RowsOf
      <3>2. snaps'[t].active
        BY <1>3, <1>4
      <3>3. t \in ActiveRows(snaps', s)
        BY <3>1, <3>2 DEF ActiveRows
      <3> QED
        BY <3>3
    <2>3. CASE s # snaps[t].skill
      <3>1. PICK n \in ActiveRows(snaps, s) : TRUE
        BY <1>2, <1>5, <2>1, OneIsActive
      <3>2. n \in DOMAIN snaps /\ snaps[n].skill = s /\ snaps[n].active /\ n \in RowsOf(snaps', s)
        BY <1>5 DEF ActiveRows, RowsOf
      <3>3. n \notin req[q].others /\ n # t
        BY <1>4, <2>3, <3>2 DEF RowsOf
      <3>4. n \in ActiveRows(snaps', s)
        BY <1>3, <3>2, <3>3 DEF ActiveRows
      <3> QED
        BY <3>4
    <2> QED
      BY <2>2, <2>3
  <1>7. ActivationInv'
    <2> SUFFICES ASSUME NEW p \in Requests, Activating(p)'
                 PROVE  /\ req'[p].target \in DOMAIN snaps'
                        /\ req'[p].op = "deactivated" =>
                             req'[p].others \subseteq RowsOf(snaps', snaps'[req'[p].target].skill)
                                                        \ {req'[p].target}
                        /\ ops'.overlap
      BY <1>6 DEF ActivationInv
    <2>1. p # q /\ req'[p] = req[p] /\ Activating(p)
      BY <1>1, <1>2 DEF Activating, Idle
    <2>2. ops.overlap
      BY <1>4, <2>1
    <2>3. /\ req[p].target \in DOMAIN snaps
          /\ req[p].op = "deactivated" =>
               req[p].others \subseteq RowsOf(snaps, snaps[req[p].target].skill) \ {req[p].target}
      BY <1>2, <2>1 DEF ActivationInv
    <2>4. snaps'[req[p].target].skill = snaps[req[p].target].skill
      BY <1>3, <2>3, GrowsFacts
    <2> QED
      BY <1>1, <1>3, <1>5, <2>1, <2>2, <2>3, <2>4
  <1> QED
    BY <1>1, <1>3, <1>7, JobsAlone, CommitInv

\* The row that a job is stamped with exists once the transaction is committed,
\* belongs to the skill and has the hash of the stamp.
LEMMA StampedRunnable ==
  ASSUME IInv, NEW stamp, StampHolds(stamp), stamp.skill \in Skills,
         OneActivePerName(Inserted(snaps, stamp.rows)), snaps' = Inserted(snaps, stamp.rows),
         NEW n, n = StampedRow(stamp)
  PROVE  materialize_snapshot(stamp.skill, n, stamp.hash)' /\ n \in Nat /\ stamp.hash \in Hash
  <1> DEFINE rows == stamp.rows
  <1>1. snaps \in Seq(SnapRow) /\ PinsPointBack(snaps) /\ Len(snaps) \in Nat
    BY BeginFacts
  <1>2. Pending(snaps, rows) /\ rows \in Seq(SnapRow)
    BY DEF StampHolds, Pending
  <1>3. Grows
    BY <1>1, <1>2, InsertedGrows
  <1>4. CASE stamp.own
    <2>1. PICK k \in DOMAIN rows :
            /\ rows[k].skill = stamp.skill /\ rows[k].active
            /\ stamp.hash = compute_execution_hash(Inserted(snaps, rows), Len(snaps) + k)
      BY <1>4 DEF StampHolds
    <2> DEFINE m == Len(snaps) + k
    <2>2. k \in 1 .. Len(rows) /\ Len(rows) \in Nat
      BY <1>2
    <2>3. snaps'[m] = Settled(snaps, rows, k) /\ m \in 1 .. Len(snaps) + Len(rows)
          /\ Len(snaps') = Len(snaps) + Len(rows) /\ snaps' \in Seq(SnapRow)
      BY <1>1, <1>2, <2>2, InsertedRows
    <2>4. m \in DOMAIN snaps' /\ snaps'[m].skill = stamp.skill /\ snaps'[m].active
      <3>1. m \in DOMAIN snaps'
        BY <1>3, <2>3, GrowsFacts
      <3>2. Settled(snaps, rows, k).skill = rows[k].skill /\ Settled(snaps, rows, k).active = rows[k].active
        BY <1>1, <1>2, <2>2, SettledRow
      <3> QED
        BY <2>1, <2>3, <3>1, <3>2
    <2>5. m \in ActiveRows(snaps', stamp.skill)
      BY <2>4 DEF ActiveRows, RowsOf
    <2> HIDE DEF m
    <2>6. ActiveRows(snaps', stamp.skill) = {m}
      <3>1. snaps' \in Seq(SnapRow) /\ OneActivePerName(snaps')
        BY <2>3
      <3>2. \A x, y \in ActiveRows(snaps', stamp.skill) : x = y
        BY <3>1, OneActive
      <3> QED
        BY <2>5, <3>2
    <2>7. m \in Int /\ m \in Nat
      BY <2>3, <1>1, <2>2
    <2>8. n = m
      BY <1>4, <2>6, <2>7, MaxOfSingleton DEF StampedRow
    <2>9. compute_execution_hash(snaps', m) = stamp.hash
      BY <2>1 DEF m
    <2>10. stamp.hash \in Hash
      BY <1>3, <2>3, <2>9, HashType DEF Grows
    <2> QED
      BY <2>4, <2>7, <2>8, <2>9, <2>10 DEF materialize_snapshot, fetch_skill_snapshot, _execution_hash
  <1>5. CASE ~stamp.own
    <2>1. n = stamp.snap /\ materialize_snapshot(stamp.skill, n, stamp.hash)
      BY <1>5 DEF StampHolds, StampedRow
    <2>2. materialize_snapshot(stamp.skill, n, stamp.hash)'
      BY <1>3, <2>1, RunnableKept
    <2>3. n \in 1 .. Len(snaps) /\ compute_execution_hash(snaps, n) = stamp.hash
      BY <1>1, <2>1 DEF materialize_snapshot, fetch_skill_snapshot, _execution_hash
    <2> QED
      BY <1>1, <2>2, <2>3, HashType
  <1> QED
    BY <1>4, <1>5

\* A job is added, with nothing stored for it yet, and all that earlier jobs may
\* lose is that they are current.
LEMMA AddedJob ==
  ASSUME IInv, NEW old, NEW new \in TriageJob \cup ReportJob,
         old \in Seq(TriageJob \cup ReportJob), Len(old) = Len(jobs),
         \A j \in 1 .. Len(jobs) : old[j] = jobs[j] \/
           (j \in TriageJobs /\ old[j] = [jobs[j] EXCEPT !.current = FALSE]),
         jobs' = Append(old, new), store' = Append(store, NothingStored), ops' = ops,
         new.skill = LogTriage => new \in TriageJob /\ new.telemetry = 0,
         new.skill = LogTriage /\ new.result # NoResult =>
           new.status = "COMPLETED" /\ OutputFor(new.result, new.log, new.hash),
         new.skill = LogTriage /\ new.result = NoResult => new.status # "COMPLETED"
  PROVE  /\ JobsGrow /\ ResultsGrow /\ StoreInv' /\ FilledInv' /\ store' \in Seq(Stored)
         /\ Len(jobs') = Len(jobs) + 1 /\ jobs'[Len(jobs) + 1] = new
         /\ \A j \in 1 .. Len(jobs) : jobs'[j] = old[j]
  <1>1. /\ jobs \in Seq(TriageJob \cup ReportJob) /\ DOMAIN jobs = 1 .. Len(jobs) /\ Len(jobs) \in Nat
        /\ TriageJobs \subseteq 1 .. Len(jobs) /\ store \in Seq(Stored) /\ Len(store) = Len(jobs)
    BY BeginFacts DEF IInv, TypeOK
  <1>2. /\ jobs' \in Seq(TriageJob \cup ReportJob) /\ Len(jobs') = Len(jobs) + 1
        /\ \A j \in 1 .. Len(jobs) : jobs'[j] = old[j]
        /\ jobs'[Len(jobs) + 1] = new
    BY <1>1, AppendProperties
  <1>3. NothingStored \in Stored /\ NothingStored.result = 0 /\ NothingStored.phase = "queued"
        /\ NothingStored.attempts = 0 /\ NothingStored.telemetry = 0 /\ NothingStored.own = 0
        /\ NothingStored.late = {}
    BY DEF NothingStored, Stored
  <1>4. /\ store' \in Seq(Stored) /\ Len(store') = Len(jobs) + 1
        /\ \A j \in 1 .. Len(jobs) : store'[j] = store[j]
        /\ store'[Len(jobs) + 1] = NothingStored
    BY <1>1, <1>3, AppendProperties
  <1>5. ASSUME NEW j \in 1 .. Len(jobs)
        PROVE  /\ jobs'[j].skill = jobs[j].skill /\ jobs'[j].snap = jobs[j].snap
               /\ jobs'[j].hash = jobs[j].hash
               /\ jobs[j].skill = LogTriage =>
                    /\ jobs'[j].incident = jobs[j].incident /\ jobs'[j].log = jobs[j].log
                    /\ jobs'[j].status = jobs[j].status /\ jobs'[j].result = jobs[j].result
                    /\ jobs'[j].telemetry = jobs[j].telemetry
    <2>1. CASE jobs'[j] = jobs[j]
      BY <2>1
    <2>2. CASE j \in TriageJobs /\ jobs'[j] = [jobs[j] EXCEPT !.current = FALSE]
      <3>1. jobs[j] \in TriageJob
        BY <1>1, <2>2, JobType
      <3> QED
        BY <2>2, <3>1 DEF TriageJob
    <2> QED
      BY <1>2, <2>1, <2>2
  <1>6. JobsGrow
    BY <1>1, <1>2, <1>5 DEF JobsGrow
  <1>7. \A j \in TriageJobs : jobs[j].skill = LogTriage /\ j \in 1 .. Len(jobs)
    BY <1>1 DEF TriageJobs
  <1>8. ResultsGrow
    BY <1>1, <1>2, <1>4, <1>5, <1>7 DEF ResultsGrow
  <1>9. DOMAIN jobs' = 1 .. Len(jobs) + 1
    BY <1>2
  <1>10. StoreInv'
    <2> SUFFICES ASSUME NEW j \in 1 .. Len(jobs) + 1
                 PROVE  /\ store'[j].phase # "queued" => store'[j].result # 0
                        /\ ops.late = 0 => store'[j].late = {}
                        /\ FirstOnly => /\ store'[j].result = store'[j].attempts
                                        /\ {store'[j].attempts, store'[j].own, store'[j].telemetry}
                                              \subseteq {0, 1}
      BY <1>9 DEF StoreInv, FirstOnly
    <2>1. CASE j \in 1 .. Len(jobs)
      <3>1. store'[j] = store[j] /\ j \in DOMAIN jobs
        BY <1>1, <1>4, <2>1
      <3> QED
        BY <3>1 DEF IInv, StoreInv
    <2>2. CASE j = Len(jobs) + 1
      BY <1>3, <1>4, <2>2
    <2> QED
      BY <1>1, <2>1, <2>2
  <1>11. FilledInv'
    <2> SUFFICES ASSUME NEW j \in TriageJobs'
                 PROVE  /\ jobs'[j].result = NoResult /\ Done(j)' => store'[j].result # 0
                        /\ jobs'[j].result # NoResult =>
                             Done(j)' /\ OutputFor(jobs[j].result, jobs[j].log, jobs[j].hash)'
                        /\ jobs'[j].result = NoResult => jobs'[j].telemetry = 0
                        /\ jobs'[j].result # NoResult /\ FirstOnly =>
                             jobs'[j].telemetry \in {0, jobs'[j].result.attempt}
      BY DEF FilledInv, FirstOnly
    <2>1. j \in 1 .. Len(jobs) + 1 /\ jobs'[j].skill = LogTriage
      BY <1>9 DEF TriageJobs
    <2>2. CASE j \in 1 .. Len(jobs)
      <3>1. j \in TriageJobs
        BY <1>1, <1>5, <2>1, <2>2 DEF TriageJobs
      <3>2. /\ jobs'[j].log = jobs[j].log /\ jobs'[j].hash = jobs[j].hash
            /\ jobs'[j].status = jobs[j].status /\ jobs'[j].result = jobs[j].result
            /\ jobs'[j].telemetry = jobs[j].telemetry /\ store'[j] = store[j]
        BY <1>4, <1>5, <1>7, <2>2, <3>1
      <3>3. Done(j)' <=> Done(j)
        BY <3>1, <3>2 DEF Done
      <3>4. /\ jobs[j].result = NoResult /\ Done(j) => store[j].result # 0
            /\ jobs[j].result # NoResult => Done(j) /\ OutputFor(jobs[j].result, jobs[j].log, jobs[j].hash)
            /\ jobs[j].result = NoResult => jobs[j].telemetry = 0
            /\ jobs[j].result # NoResult /\ FirstOnly =>
                  jobs[j].telemetry \in {0, jobs[j].result.attempt}
        BY <3>1 DEF IInv, FilledInv
      <3>5. jobs[j].result # NoResult => OutputFor(jobs[j].result, jobs[j].log, jobs[j].hash)'
        BY <1>6, <3>2, <3>4, OutputKept
      <3> QED
        BY <3>2, <3>3, <3>4, <3>5
    <2>3. CASE j = Len(jobs) + 1
      <3>1. jobs'[j] = new /\ new.skill = LogTriage
        BY <1>2, <2>1, <2>3
      <3>2. Done(j)' <=> new.status = "COMPLETED"
        BY <3>1 DEF Done
      <3>3. new.result # NoResult => OutputFor(new.result, new.log, new.hash)'
        BY <1>6, <3>1, OutputKept
      <3> QED
        BY <3>1, <3>2, <3>3
    <2> QED
      BY <1>1, <2>1, <2>2, <2>3
  <1> QED
    BY <1>2, <1>4, <1>6, <1>8, <1>10, <1>11

\* The commit of generate_report.
LEMMA CommitReportJobInv ==
  ASSUME IInv, NEW q \in Requests, CommitReportJob(q)
  PROVE  IInv'
  <1>0. PICK stamp, n : stamp = req[q].stamp /\ n = StampedRow(stamp)
    OBVIOUS
  <1> DEFINE new == NewReportJob(req[q])
  <1>1. /\ req[q].op = "insert_report" /\ req' = [req EXCEPT ![q] = Idle]
        /\ UNCHANGED <<disk, incidents, logs, ops>>
        /\ OneActivePerName(Inserted(snaps, stamp.rows)) /\ snaps' = Inserted(snaps, stamp.rows)
        /\ jobs' = Append(jobs, new) /\ store' = Append(store, NothingStored)
    BY <1>0 DEF CommitReportJob, End
  <1>2. StampHolds(stamp) /\ stamp.skill = DailyReport /\ Pending(snaps, stamp.rows)
    BY <1>0, <1>1 DEF IInv, RegistryInv, RegistryReq, StampHolds
  <1>3. materialize_snapshot(DailyReport, n, stamp.hash)' /\ n \in Nat /\ stamp.hash \in Hash
    BY <1>0, <1>1, <1>2, SkillFacts, StampedRunnable
  <1>4. new = [skill |-> DailyReport, snap |-> n, hash |-> stamp.hash, status |-> "QUEUED"]
    BY <1>0 DEF NewReportJob
  <1> HIDE DEF new
  <1>5. new \in TriageJob \cup ReportJob /\ new.skill = DailyReport /\ new.snap = n
        /\ new.hash = stamp.hash /\ new.skill # LogTriage
    BY <1>3, <1>4, SkillFacts DEF ReportJob
  <1>6. jobs \in Seq(TriageJob \cup ReportJob) /\ DOMAIN jobs = 1 .. Len(jobs) /\ Len(jobs) \in Nat
        /\ snaps \in Seq(SnapRow) /\ PinsPointBack(snaps) /\ DOMAIN req = Requests
    BY BeginFacts
  <1>7. /\ JobsGrow /\ ResultsGrow /\ StoreInv' /\ FilledInv' /\ store' \in Seq(Stored)
        /\ Len(jobs') = Len(jobs) + 1 /\ jobs'[Len(jobs) + 1] = new
        /\ \A j \in 1 .. Len(jobs) : jobs'[j] = jobs[j]
    BY <1>1, <1>5, <1>6, AddedJob
  <1>8. Grows
    BY <1>1, <1>2, <1>6, InsertedGrows
  <1>9. DOMAIN jobs' = 1 .. Len(jobs) + 1
    BY <1>7 DEF JobsGrow
  <1>10. \A j \in DOMAIN jobs' : j \notin DOMAIN jobs =>
           materialize_snapshot(jobs[j].skill, jobs[j].snap, jobs[j].hash)'
    <2> SUFFICES ASSUME NEW j \in DOMAIN jobs', j \notin DOMAIN jobs
                 PROVE  materialize_snapshot(jobs[j].skill, jobs[j].snap, jobs[j].hash)'
      OBVIOUS
    <2>1. jobs'[j] = new
      BY <1>6, <1>7, <1>9
    <2>2. jobs'[j].skill = DailyReport /\ jobs'[j].snap = n /\ jobs'[j].hash = stamp.hash
      BY <1>5, <2>1
    <2> QED
      BY <1>3, <2>2
  <1>11. OneCurrentRun'
    <2>1. TriageJobs' = TriageJobs
      BY <1>5, <1>6, <1>7, <1>9 DEF TriageJobs
    <2>2. \A j \in TriageJobs : jobs'[j] = jobs[j]
      BY <1>6, <1>7 DEF TriageJobs
    <2>3. \A i : RunsOf(i)' = RunsOf(i) /\ CurrentRuns(i)' = CurrentRuns(i)
      BY <2>1, <2>2 DEF RunsOf, CurrentRuns
    <2> QED
      BY <2>3 DEF IInv, CurrentInv, OneCurrentRun
  <1>12. \A p \in Requests : req'[p] = req[p] \/ ~Activating(p)'
    BY <1>1, <1>6 DEF Activating, Idle
  <1>13. ActivationInv'
    BY <1>1, <1>2, <1>12, InsertedActivation
  <1> QED
    BY <1>1, <1>7, <1>8, <1>10, <1>11, <1>13, CommitInv

\* The UPDATE cleared every current run of the incident, or the index refuses the
\* commit; so the new run is the only current one.
LEMMA CommitRunInv ==
  ASSUME IInv, NEW q \in Requests, CommitRun(q)
  PROVE  IInv'
  <1>0. PICK r, stamp, n : r = req[q] /\ stamp = r.stamp /\ n = StampedRow(stamp)
    OBVIOUS
  <1> DEFINE new == NewRun(r)
             old == [j \in DOMAIN jobs |->
                       IF j \in r.cleared THEN [jobs[j] EXCEPT !.current = FALSE] ELSE jobs[j]]
  <1>1. /\ r.op = "insert_run" /\ req' = [req EXCEPT ![q] = Idle]
        /\ UNCHANGED <<disk, incidents, logs, ops>> /\ CurrentRuns(r.incident) \subseteq r.cleared
        /\ OneActivePerName(Inserted(snaps, stamp.rows)) /\ snaps' = Inserted(snaps, stamp.rows)
        /\ jobs' = Append(old, new) /\ store' = Append(store, NothingStored)
    BY <1>0 DEF CommitRun, MayInsertRun, End
  <1>2. StampHolds(stamp) /\ stamp.skill = LogTriage /\ Pending(snaps, stamp.rows)
    BY <1>0, <1>1 DEF IInv, RegistryInv, RegistryReq, StampHolds
  <1>3. r.incident \in Incidents /\ r.log \in Logs /\ r.cleared \subseteq RunsOf(r.incident)
    BY <1>0, <1>1 DEF IInv, CurrentInv, CurrentReq
  <1>4. r.cached = NoResult \/ OutputFor(r.cached, r.log, stamp.hash)
    BY <1>0, <1>1 DEF IInv, PollInv, PollReq
  <1>5. materialize_snapshot(LogTriage, n, stamp.hash)' /\ n \in Nat /\ stamp.hash \in Hash
    BY <1>0, <1>1, <1>2, SkillFacts, StampedRunnable
  <1>6. new = [skill |-> LogTriage, incident |-> r.incident, log |-> r.log, snap |-> n,
               hash |-> stamp.hash,
               status |-> IF r.cached = NoResult THEN "QUEUED" ELSE "COMPLETED",
               current |-> TRUE, result |-> r.cached, telemetry |-> 0]
    BY <1>0 DEF NewRun
  <1>7. jobs \in Seq(TriageJob \cup ReportJob) /\ DOMAIN jobs = 1 .. Len(jobs) /\ Len(jobs) \in Nat
        /\ snaps \in Seq(SnapRow) /\ PinsPointBack(snaps) /\ DOMAIN req = Requests
        /\ TriageJobs \subseteq 1 .. Len(jobs)
    BY BeginFacts
  <1>8. old = [j \in 1 .. Len(jobs) |-> old[j]] /\ r.cleared \subseteq TriageJobs
    BY <1>3, <1>7 DEF RunsOf
  <1>9. \A j \in 1 .. Len(jobs) :
          old[j] = IF j \in r.cleared THEN [jobs[j] EXCEPT !.current = FALSE] ELSE jobs[j]
    BY <1>7
  <1> HIDE DEF new, old
  <1>10. /\ new \in TriageJob /\ new.skill = LogTriage /\ new.snap = n /\ new.hash = stamp.hash
         /\ new.incident = r.incident /\ new.log = r.log /\ new.current = TRUE
         /\ new.result = r.cached /\ new.telemetry = 0
         /\ new.status = IF r.cached = NoResult THEN "QUEUED" ELSE "COMPLETED"
    <2>1. r.cached \in Result \cup {NoResult}
      BY <1>4 DEF OutputFor
    <2> QED
      BY <1>3, <1>5, <1>6, <2>1 DEF TriageJob
  <1>11. ASSUME NEW j \in 1 .. Len(jobs)
         PROVE  /\ old[j] \in TriageJob \cup ReportJob
                /\ old[j] = jobs[j] \/ (j \in TriageJobs /\ old[j] = [jobs[j] EXCEPT !.current = FALSE])
    <2>1. j \in TriageJobs => jobs[j] \in TriageJob
      BY <1>7, JobType
    <2>2. jobs[j] \in TriageJob => [jobs[j] EXCEPT !.current = FALSE] \in TriageJob
      BY DEF TriageJob
    <2>3. jobs[j] \in TriageJob \cup ReportJob
      BY <1>7
    <2> QED
      BY <1>8, <1>9, <2>1, <2>2, <2>3
  <1>12. old \in Seq(TriageJob \cup ReportJob) /\ Len(old) = Len(jobs)
    <2>1. old \in [1 .. Len(jobs) -> TriageJob \cup ReportJob]
      BY <1>8, <1>11
    <2> QED
      BY <1>7, <2>1, FunctionIsSeq
  <1>13. new.result # NoResult => new.status = "COMPLETED" /\ OutputFor(new.result, new.log, new.hash)
    BY <1>4, <1>10
  <1>14. new.result = NoResult => new.status # "COMPLETED"
    BY <1>10
  <1>15. /\ JobsGrow /\ ResultsGrow /\ StoreInv' /\ FilledInv' /\ store' \in Seq(Stored)
         /\ Len(jobs') = Len(jobs) + 1 /\ jobs'[Len(jobs) + 1] = new
         /\ \A j \in 1 .. Len(jobs) : jobs'[j] = old[j]
    <2>1. new \in TriageJob \cup ReportJob /\ ops' = ops
      BY <1>1, <1>10
    <2>2. \A j \in 1 .. Len(jobs) : old[j] = jobs[j] \/
            (j \in TriageJobs /\ old[j] = [jobs[j] EXCEPT !.current = FALSE])
      BY <1>11
    <2> QED
      BY <1>1, <1>10, <1>12, <1>13, <1>14, <2>1, <2>2, AddedJob
  <1>16. Grows
    BY <1>1, <1>2, <1>7, InsertedGrows
  <1>17. DOMAIN jobs' = 1 .. Len(jobs) + 1
    BY <1>15 DEF JobsGrow
  <1>18. \A j \in DOMAIN jobs' : j \notin DOMAIN jobs =>
           materialize_snapshot(jobs[j].skill, jobs[j].snap, jobs[j].hash)'
    <2> SUFFICES ASSUME NEW j \in DOMAIN jobs', j \notin DOMAIN jobs
                 PROVE  materialize_snapshot(jobs[j].skill, jobs[j].snap, jobs[j].hash)'
      OBVIOUS
    <2>1. jobs'[j] = new
      BY <1>7, <1>15, <1>17
    <2>2. jobs'[j].skill = LogTriage /\ jobs'[j].snap = n /\ jobs'[j].hash = stamp.hash
      BY <1>10, <2>1
    <2> QED
      BY <1>5, <2>2
  <1>19. OneCurrentRun'
    <2> DEFINE m == Len(jobs) + 1
    <2>1. TriageJobs' = TriageJobs \cup {m} /\ m \notin TriageJobs
      BY <1>7, <1>10, <1>15, <1>17, JobsGrowFacts DEF TriageJobs
    <2>2. \A j \in TriageJobs : /\ jobs'[j].incident = jobs[j].incident
                                /\ jobs'[j].current <=> (jobs[j].current /\ j \notin r.cleared)
      <3> SUFFICES ASSUME NEW j \in TriageJobs
                   PROVE  /\ jobs'[j].incident = jobs[j].incident
                          /\ jobs'[j].current <=> (jobs[j].current /\ j \notin r.cleared)
        OBVIOUS
      <3>1. j \in 1 .. Len(jobs) /\ jobs[j] \in TriageJob /\ jobs'[j] = old[j]
        BY <1>7, <1>15, JobType
      <3>2. jobs[j].current \in BOOLEAN
        BY <3>1 DEF TriageJob
      <3>3. CASE j \in r.cleared
        <4>1. jobs'[j] = [jobs[j] EXCEPT !.current = FALSE]
          BY <1>9, <3>1, <3>3
        <4>2. jobs'[j].incident = jobs[j].incident /\ jobs'[j].current = FALSE
          BY <3>1, <4>1 DEF TriageJob
        <4> QED
          BY <3>3, <4>2
      <3>4. CASE j \notin r.cleared
        BY <1>9, <3>1, <3>2, <3>4
      <3> QED
        BY <3>3, <3>4
    <2> SUFFICES ASSUME NEW i \in Incidents, RunsOf(i)' # {}
                 PROVE  Cardinality(CurrentRuns(i)') = 1
      BY DEF OneCurrentRun
    <2>3. CASE i = r.incident
      <3>1. CurrentRuns(i)' = {m}
        <4>1. m \in CurrentRuns(i)'
          BY <1>10, <1>15, <2>1, <2>3 DEF CurrentRuns, RunsOf
        <4>2. ASSUME NEW j \in CurrentRuns(i)', j # m
              PROVE  FALSE
          <5>1. j \in TriageJobs /\ jobs[j].incident = i /\ jobs[j].current /\ j \notin r.cleared
            BY <2>1, <2>2, <4>2 DEF CurrentRuns, RunsOf
          <5>2. j \in CurrentRuns(r.incident)
            BY <2>3, <5>1 DEF CurrentRuns, RunsOf
          <5> QED
            BY <1>1, <5>1, <5>2
        <4> QED
          BY <4>1, <4>2
      <3> QED
        BY <3>1, FS_Singleton
    <2>4. CASE i # r.incident
      <3>1. RunsOf(i)' = RunsOf(i)
        BY <1>10, <1>15, <2>1, <2>2, <2>4 DEF RunsOf
      <3>2. \A j \in RunsOf(i) : j \notin r.cleared
        BY <1>3, <2>4 DEF RunsOf
      <3>3. CurrentRuns(i)' = CurrentRuns(i)
        BY <2>2, <3>1, <3>2 DEF CurrentRuns, RunsOf
      <3> QED
        BY <3>1, <3>3 DEF IInv, CurrentInv, OneCurrentRun
    <2> QED
      BY <2>3, <2>4
  <1>20. \A p \in Requests : req'[p] = req[p] \/ ~Activating(p)'
    BY <1>1, <1>7 DEF Activating, Idle
  <1>21. ActivationInv'
    BY <1>1, <1>2, <1>20, InsertedActivation
  <1> QED
    BY <1>1, <1>15, <1>16, <1>18, <1>19, <1>21, CommitInv

\* A run with this result and this telemetry, if there was any.
WithResult(job, res, t) ==
  [job EXCEPT !.result = res, !.telemetry = IF t = 0 THEN @ ELSE t]

\* What a poll may write to the run of job j.
MayFill(j, res, t) ==
  /\ res \in Result /\ t \in Nat
  /\ Fetched(j, res) /\ (FirstOnly => t \in {0, 1})

\* What a poll writes to a run: nothing, or a result that it fetched.
LEMMA FilledJob ==
  ASSUME NEW got, got \in Seq([job : Nat, result : Result, telemetry : Nat]),
         \A k \in DOMAIN got : /\ Fetched(got[k].job, got[k].result)
                               /\ FirstOnly => got[k].telemetry \in {0, 1},
         NEW job, NEW j
  PROVE  \/ Filled(job, j, got) = job
         \/ \E res, t : MayFill(j, res, t) /\ Filled(job, j, got) = WithResult(job, res, t)
  <1> DEFINE Got == {got[k] : k \in DOMAIN got}
             g == CHOOSE x \in Got : x.job = j
  <1>1. CASE \E k \in DOMAIN got : got[k].job = j
    <2>1. g \in Got /\ g.job = j
      <3>1. \E x \in Got : x.job = j
        BY <1>1
      <3> HIDE DEF Got
      <3> QED
        BY <3>1
    <2>2. Filled(job, j, got) = WithResult(job, g.result, g.telemetry)
      BY <1>1 DEF Filled, WithResult
    <2>3. PICK k \in DOMAIN got : got[k] = g
      <3> HIDE DEF g
      <3> QED
        BY <2>1
    <2> HIDE DEF g, Got
    <2>4. got[k] \in [job : Nat, result : Result, telemetry : Nat]
      <3> DEFINE S == [job : Nat, result : Result, telemetry : Nat]
      <3>1. got \in Seq(S)
        OBVIOUS
      <3> HIDE DEF S
      <3>2. DOMAIN got = 1 .. Len(got)
        BY <3>1
      <3>3. got[k] \in S
        BY <3>1, <3>2, ElementOfSeq
      <3> QED
        BY <3>3 DEF S
    <2>5. g.result \in Result /\ g.telemetry \in Nat
      BY <2>3, <2>4
    <2>6. Fetched(j, g.result) /\ (FirstOnly => g.telemetry \in {0, 1})
      BY <2>1, <2>3
    <2>7. MayFill(j, g.result, g.telemetry)
      BY <2>5, <2>6 DEF MayFill
    <2> QED
      BY <2>2, <2>7, Zenon
  <1>2. CASE ~\E k \in DOMAIN got : got[k].job = j
    BY <1>2, Zenon DEF Filled
  <1> HIDE DEF g, Got
  <1> QED
    BY <1>1, <1>2, Zenon

\* A result is not the absence of one.
LEMMA ResultIsOne ==
  ASSUME NEW res \in Result
  PROVE  res # NoResult
  <1>1. "log" \in DOMAIN res
    BY DEF Result
  <1>2. "log" \notin DOMAIN NoResult
    BY DEF NoResult
  <1> QED
    BY <1>1, <1>2

\* What CommitPoll makes of a job.
LEMMA PolledJob ==
  ASSUME IInv, NEW q \in Requests, CommitPoll(q), NEW j \in DOMAIN jobs
  PROVE  \/ jobs'[j] = jobs[j]
         \/ \E res, t : MayFill(j, res, t) /\ jobs'[j] = WithResult(jobs[j], res, t)
  <1> DEFINE got == req[q].got
  <1>1. req[q].op = "poll" /\ jobs' = [i \in DOMAIN jobs |-> Filled(jobs[i], i, got)]
    BY DEF CommitPoll
  <1>2. PollReq(req[q])
    BY DEF IInv, PollInv
  <1>3. /\ got \in Seq([job : Nat, result : Result, telemetry : Nat])
        /\ \A k \in DOMAIN got : /\ Fetched(got[k].job, got[k].result)
                                 /\ FirstOnly => got[k].telemetry \in {0, 1}
    BY <1>1, <1>2 DEF PollReq
  <1>4. jobs'[j] = Filled(jobs[j], j, got)
    BY <1>1
  <1> HIDE DEF got
  <1> QED
    BY <1>3, <1>4, FilledJob, Zenon

\* The commit of a poll.
LEMMA CommitPollInv ==
  ASSUME IInv, NEW q \in Requests, CommitPoll(q)
  PROVE  IInv'
  <1>1. /\ req' = [req EXCEPT ![q] = Idle] /\ UNCHANGED <<skillVars, incidents, logs, store, ops>>
        /\ jobs' = [j \in DOMAIN jobs |-> Filled(jobs[j], j, req[q].got)]
    BY DEF CommitPoll, End
  <1>2. /\ jobs \in Seq(TriageJob \cup ReportJob) /\ DOMAIN jobs = 1 .. Len(jobs) /\ Len(jobs) \in Nat
        /\ TriageJobs \subseteq 1 .. Len(jobs) /\ store \in Seq(Stored) /\ Len(store) = Len(jobs)
        /\ snaps \in Seq(SnapRow) /\ PinsPointBack(snaps) /\ DOMAIN req = Requests
        /\ OneActivePerName(snaps) /\ ActivationInv
    BY BeginFacts DEF IInv, TypeOK, RegistryInv
  <1>3. ASSUME NEW j \in TriageJobs
        PROVE  /\ jobs'[j] \in TriageJob
               /\ jobs'[j].skill = jobs[j].skill /\ jobs'[j].snap = jobs[j].snap
               /\ jobs'[j].hash = jobs[j].hash /\ jobs'[j].incident = jobs[j].incident
               /\ jobs'[j].log = jobs[j].log /\ jobs'[j].status = jobs[j].status
               /\ jobs'[j].current = jobs[j].current
               /\ \/ jobs'[j].result = jobs[j].result /\ jobs'[j].telemetry = jobs[j].telemetry
                  \/ /\ Fetched(j, jobs'[j].result) /\ jobs'[j].result # NoResult
                     /\ FirstOnly => jobs'[j].telemetry \in {0, 1}
    <2>1. jobs[j] \in TriageJob /\ j \in DOMAIN jobs
      BY <1>2, JobType
    <2>2. CASE jobs'[j] = jobs[j]
      BY <2>1, <2>2
    <2>3. ASSUME NEW res, NEW t, MayFill(j, res, t), jobs'[j] = WithResult(jobs[j], res, t)
          PROVE  /\ jobs'[j] \in TriageJob
                 /\ jobs'[j].skill = jobs[j].skill /\ jobs'[j].snap = jobs[j].snap
                 /\ jobs'[j].hash = jobs[j].hash /\ jobs'[j].incident = jobs[j].incident
                 /\ jobs'[j].log = jobs[j].log /\ jobs'[j].status = jobs[j].status
                 /\ jobs'[j].current = jobs[j].current
                 /\ Fetched(j, jobs'[j].result) /\ jobs'[j].result # NoResult
                 /\ FirstOnly => jobs'[j].telemetry \in {0, 1}
      <3>1. /\ res \in Result \cup {NoResult} /\ res # NoResult /\ t \in Nat
            /\ Fetched(j, res) /\ (FirstOnly => t \in {0, 1})
        BY <2>3, ResultIsOne DEF MayFill
      <3>2. PICK u : u = IF t = 0 THEN jobs[j].telemetry ELSE t
        OBVIOUS
      <3>3. u \in Nat
        BY <2>1, <3>1, <3>2 DEF TriageJob
      <3>4. jobs'[j] = [jobs[j] EXCEPT !.result = res, !.telemetry = u]
        BY <2>1, <2>3, <3>2 DEF TriageJob, WithResult
      <3>5. FirstOnly => jobs[j].telemetry \in {0, 1}
        <4>1. FirstOnly => store[j].result \in {0, 1} /\ res.attempt = store[j].result
                           /\ jobs[j].result \in {NoResult, res} /\ store[j].result # 0
          BY <2>1, <3>1 DEF IInv, StoreInv, Fetched, FirstOnly
        <4> QED
          BY <3>1, <4>1 DEF IInv, FilledInv
      <3>6. FirstOnly => u \in {0, 1}
        BY <3>1, <3>2, <3>5
      <3>7. jobs'[j].result = res /\ jobs'[j].telemetry = u
        BY <2>1, <3>4 DEF TriageJob
      <3> QED
        BY <2>1, <3>1, <3>3, <3>4, <3>6, <3>7 DEF TriageJob
    <2>4. CASE \E res, t : MayFill(j, res, t) /\ jobs'[j] = WithResult(jobs[j], res, t)
      <3>1. PICK res, t : MayFill(j, res, t) /\ jobs'[j] = WithResult(jobs[j], res, t)
        BY <2>4, Zenon
      <3> QED
        BY <2>3, <3>1
    <2> QED
      BY <2>1, <2>2, <2>4, PolledJob
  <1>4. ASSUME NEW j \in 1 .. Len(jobs), j \notin TriageJobs
        PROVE  jobs'[j] = jobs[j] /\ jobs[j].skill # LogTriage
    <2>1. \A res, t : ~MayFill(j, res, t)
      BY <1>4 DEF MayFill, Fetched, Done
    <2>2. j \in DOMAIN jobs
      BY <1>2
    <2>3. jobs'[j] = jobs[j]
      BY <2>1, <2>2, PolledJob, Zenon
    <2>4. jobs[j].skill # LogTriage
      BY <1>4, <2>2 DEF TriageJobs
    <2> QED
      BY <2>3, <2>4
  <1>5. jobs' \in Seq(TriageJob \cup ReportJob) /\ Len(jobs') = Len(jobs)
    <2>1. \A j \in 1 .. Len(jobs) : jobs'[j] \in TriageJob \cup ReportJob
      BY <1>2, <1>3, <1>4
    <2>2. jobs' = [j \in 1 .. Len(jobs) |-> jobs'[j]]
      BY <1>1, <1>2
    <2>3. jobs' \in [1 .. Len(jobs) -> TriageJob \cup ReportJob]
      BY <2>1, <2>2
    <2> QED
      BY <1>2, <2>3, FunctionIsSeq
  <1>6. JobsGrow
    <2>1. \A j \in 1 .. Len(jobs) :
            /\ jobs'[j].skill = jobs[j].skill /\ jobs'[j].snap = jobs[j].snap
            /\ jobs'[j].hash = jobs[j].hash
            /\ jobs[j].skill = LogTriage =>
                 /\ jobs'[j].incident = jobs[j].incident /\ jobs'[j].log = jobs[j].log
                 /\ jobs[j].status = "COMPLETED" => jobs'[j].status = "COMPLETED"
      BY <1>3, <1>4
    <2> QED
      BY <1>2, <1>5, <2>1 DEF JobsGrow
  <1>7. ResultsGrow
    <2>1. ASSUME ops.late = 0, NEW j \in TriageJobs
          PROVE  jobs'[j].result \in {jobs[j].result, Output(j, store[j].result)}
      BY <1>3, <2>1 DEF Fetched
    <2> QED
      BY <1>1, <1>2, <1>5, <2>1 DEF ResultsGrow
  <1>8. DOMAIN jobs' = DOMAIN jobs /\ TriageJobs' = TriageJobs
    <2>1. DOMAIN jobs' = DOMAIN jobs
      BY <1>2, <1>5
    <2> QED
      BY <1>2, <1>3, <1>4, <2>1 DEF TriageJobs
  <1>9. Grows
    <2>1. Keeps(snaps, snaps)
      BY <1>2 DEF Keeps
    <2> QED
      BY <1>1, <1>2, <2>1 DEF Grows, skillVars
  <1>10. OneCurrentRun'
    <2>1. \A i : RunsOf(i)' = RunsOf(i) /\ CurrentRuns(i)' = CurrentRuns(i)
      BY <1>3, <1>8 DEF RunsOf, CurrentRuns
    <2> QED
      BY <2>1 DEF IInv, CurrentInv, OneCurrentRun
  <1>11. StoreInv'
    BY <1>1, <1>8 DEF IInv, StoreInv, FirstOnly
  <1>12. FilledInv'
    <2> SUFFICES ASSUME NEW j \in TriageJobs
                 PROVE  /\ jobs'[j].result = NoResult /\ Done(j)' => store[j].result # 0
                        /\ jobs'[j].result # NoResult =>
                             Done(j)' /\ OutputFor(jobs[j].result, jobs[j].log, jobs[j].hash)'
                        /\ jobs'[j].result = NoResult => jobs'[j].telemetry = 0
                        /\ jobs'[j].result # NoResult /\ FirstOnly =>
                             jobs'[j].telemetry \in {0, jobs'[j].result.attempt}
      BY <1>1, <1>8 DEF FilledInv, FirstOnly
    <2>1. Done(j)' <=> Done(j)
      BY <1>3, <1>8 DEF Done
    <2>2. CASE jobs'[j].result = jobs[j].result /\ jobs'[j].telemetry = jobs[j].telemetry
      <3>1. /\ jobs[j].result = NoResult /\ Done(j) => store[j].result # 0
            /\ jobs[j].result # NoResult => Done(j) /\ OutputFor(jobs[j].result, jobs[j].log, jobs[j].hash)
            /\ jobs[j].result = NoResult => jobs[j].telemetry = 0
            /\ jobs[j].result # NoResult /\ FirstOnly =>
                  jobs[j].telemetry \in {0, jobs[j].result.attempt}
        BY DEF IInv, FilledInv
      <3>2. jobs[j].result # NoResult => OutputFor(jobs[j].result, jobs[j].log, jobs[j].hash)'
        BY <1>3, <1>6, <2>2, <3>1, OutputKept
      <3> QED
        BY <2>1, <2>2, <3>1, <3>2
    <2>3. CASE /\ Fetched(j, jobs'[j].result) /\ jobs'[j].result # NoResult
               /\ FirstOnly => jobs'[j].telemetry \in {0, 1}
      <3>1. PICK res : res = jobs'[j].result
        OBVIOUS
      <3>2. Done(j) /\ res \in Result /\ res = Output(j, res.attempt)
        BY <2>3, <3>1 DEF Fetched
      <3>6. FirstOnly => res.attempt = 1
        <4>1. FirstOnly => store[j].result \in {0, 1}
          BY <1>2 DEF IInv, StoreInv
        <4>2. ops.late = 0 => res.attempt = store[j].result
          BY <2>3, <3>1 DEF Fetched
        <4>3. store[j].result # 0
          BY <2>3 DEF Fetched
        <4> QED
          BY <4>1, <4>2, <4>3 DEF FirstOnly
      <3>3. res.log = jobs[j].log /\ res.hash = jobs[j].hash /\ res.job = j
        BY <3>2 DEF Output
      <3>4. OutputFor(res, jobs[j].log, jobs[j].hash)
        BY <1>2, <3>2, <3>3 DEF OutputFor
      <3>5. OutputFor(jobs[j].result, jobs[j].log, jobs[j].hash)'
        <4>1. PICK log, hash : log = jobs[j].log /\ hash = jobs[j].hash
          OBVIOUS
        <4>2. OutputFor(res, log, hash)'
          BY <1>6, <3>4, <4>1, OutputKept
        <4> QED
          BY <1>3, <3>1, <4>1, <4>2
      <3> QED
        BY <2>1, <2>3, <3>1, <3>2, <3>5, <3>6
    <2> QED
      BY <1>3, <2>2, <2>3
  <1>13. ActivationInv'
    <2>1. \A p \in Requests : req'[p] = req[p] \/ ~Activating(p)'
      BY <1>1, <1>2 DEF Activating, Idle
    <2> QED
      BY <1>1, <1>2, <2>1, ActivationQuiet DEF skillVars
  <1>14. disk' = disk /\ incidents' = incidents /\ logs' = logs /\ ops' = ops /\ store' \in Seq(Stored)
         /\ OneActivePerName(snaps')
    BY <1>1, <1>2 DEF skillVars
  <1> QED
    BY <1>1, <1>6, <1>7, <1>8, <1>9, <1>10, <1>11, <1>12, <1>13, <1>14, CommitInv

-----------------------------------------------------------------------------
(***************************************************************************)
(* The theorems.                                                           *)
(***************************************************************************)

\* The API starts with no jobs and no requests on any table of the registry.
LEMMA InitInv ==
  ASSUME Init
  PROVE  IInv
  <1>1. /\ disk = [s \in Skills |-> FirstEdition] /\ snaps \in Histories
        /\ incidents = Incidents /\ logs \in [Incidents -> Logs] /\ jobs = <<>> /\ store = <<>>
        /\ req = [q \in Requests |-> Idle]
        /\ ops = [requests |-> 0, edits |-> 0, late |-> 0, reads |-> 0, overlap |-> FALSE]
    BY DEF Init, SkillInit
  <1>2. FirstEdition \in Editions
    BY SkillAssumption
  <1>3. /\ snaps \in Seq(SnapRow) /\ PinsPointBack(snaps) /\ ExactlyOneActive(snaps)
        /\ OneActivePerName(snaps)
    BY <1>1, SkillAssumption, ExactlyIsAtMost
  <1>4. DOMAIN jobs = {} /\ TriageJobs = {} /\ \A q \in Requests : req[q] = Idle
    BY <1>1 DEF TriageJobs
  <1>5. TypeOK
    <2>1. disk \in [Skills -> Editions]
      BY <1>1, <1>2
    <2>2. MaxRequests \in Nat /\ MaxEvents \in Nat
      BY AnalysisAssumption
    <2> QED
      BY <1>1, <1>3, <2>1, <2>2 DEF TypeOK, SkillTypeOK
  <1>6. \A q \in Requests : RegistryReq(req[q]) /\ CurrentReq(req[q]) /\ PollReq(req[q])
    BY <1>4, IdleReq DEF ReqInv
  <1>7. RegistryInv
    BY <1>3, <1>4, <1>6 DEF RegistryInv, StampedJobsStayRunnable
  <1>8. ActivationInv
    <2>1. \A q \in Requests : ~Activating(q)
      BY <1>4 DEF Activating, Idle
    <2> QED
      BY <1>3, <2>1 DEF ActivationInv, OnlyOverlapLosesActive, AlwaysOneActive
  <1>9. CurrentInv
    BY <1>4, <1>6 DEF CurrentInv, OneCurrentRun, RunsOf
  <1>10. StoreInv /\ FilledInv /\ PollInv
    BY <1>4, <1>6 DEF StoreInv, FilledInv, PollInv
  <1> QED
    BY <1>5, <1>7, <1>8, <1>9, <1>10 DEF IInv

\* Every step of every request keeps the inductive invariant.
LEMMA StepInv ==
  ASSUME IInv, NEW q \in Requests, Step(q)
  PROVE  IInv'
  <1>1. CASE NoActiveSnapshot(q) \/ RunConflict(q) \/ ReportConflict(q) \/ ActivationConflict(q)
    BY <1>1, RollbackInv
  <1>2. CASE ReadActiveSnapshot(q)
    BY <1>2, ReadActiveSnapshotInv
  <1>3. CASE CommitRun(q)
    BY <1>3, CommitRunInv
  <1>4. CASE CommitReportJob(q)
    BY <1>4, CommitReportJobInv
  <1>5. CASE SyncReadsResult(q)
    BY <1>5, SyncReadsResultInv
  <1>6. CASE SyncFindsNoResult(q)
    BY <1>6, SyncFindsNoResultInv
  <1>7. CASE SyncReadsTelemetry(q)
    BY <1>7, SyncReadsTelemetryInv
  <1>8. CASE CommitPoll(q)
    BY <1>8, CommitPollInv
  <1>9. CASE ReadOtherVersions(q)
    BY <1>9, ReadOtherVersionsInv
  <1>10. CASE CommitActivation(q)
    BY <1>10, CommitActivationInv
  <1>11. CASE CommitListSkills(q)
    BY <1>11, CommitListSkillsInv
  <1> QED
    BY <1>1, <1>2, <1>3, <1>4, <1>5, <1>6, <1>7, <1>8, <1>9, <1>10, <1>11 DEF Step

\* Every step of the system keeps the inductive invariant.
LEMMA NextInv ==
  ASSUME IInv, [Next]_vars
  PROVE  IInv'
  <1>1. ASSUME NEW q \in Requests, NEW i \in Incidents, RequestAnalysis(q, i)
        PROVE  IInv'
    BY <1>1, RequestAnalysisInv
  <1>2. ASSUME NEW q \in Requests, NEW i \in Incidents, ListAnalysisRuns(q, i)
        PROVE  IInv'
    <2>1. RunsOf(i) \in SUBSET TriageJobs
      BY DEF RunsOf
    <2> QED
      BY <1>2, <2>1, PollStartInv DEF ListAnalysisRuns
  <1>3. ASSUME NEW q \in Requests, NEW j \in DOMAIN jobs, GetAnalysisRun(q, j)
        PROVE  IInv'
    <2>1. {j} \in SUBSET TriageJobs
      BY <1>3 DEF GetAnalysisRun
    <2> QED
      BY <1>3, <2>1, PollStartInv DEF GetAnalysisRun
  <1>4. ASSUME NEW q \in Requests, NEW s \in Skills, NEW v, ActivateSkillVersion(q, s, v)
        PROVE  IInv'
    BY <1>4, ActivateSkillVersionInv
  <1>5. ASSUME NEW q \in Requests, RequestReport(q) \/ ListSkills(q) \/ Step(q)
        PROVE  IInv'
    BY <1>5, RequestReportInv, ListSkillsInv, StepInv
  <1>6. ASSUME NEW j \in DOMAIN jobs, WorkerStep(j)
        PROVE  IInv'
    BY <1>6, WorkerStepInv
  <1>7. ASSUME NEW i \in Incidents, DeleteIncident(i)
        PROVE  IInv'
    BY <1>7, DeleteIncidentInv
  <1>8. ASSUME NEW s \in Skills, NEW e \in Editions, Edit(s, e)
        PROVE  IInv'
    BY <1>8, EditInv
  <1>9. CASE UNCHANGED vars
    <2>1. /\ UNCHANGED <<disk, snaps, incidents, logs, jobs, store, req, ops>>
      BY <1>9 DEF vars
    <2>2. /\ disk' \in [Skills -> Editions] /\ incidents' \subseteq Incidents /\ ops' \in Ops
          /\ DOMAIN req' = Requests /\ ActivationInv
      BY <2>1 DEF IInv, TypeOK, SkillTypeOK, Ops
    <2>3. ActivationInv'
      BY <2>1, <2>2, ActivationQuiet
    <2> QED
      BY <2>1, <2>2, <2>3, QuietInv DEF Quiet
  <1> QED
    BY <1>1, <1>2, <1>3, <1>4, <1>5, <1>6, <1>7, <1>8, <1>9 DEF Next

\* What an open request has read stays true in the form in which its commit
\* relies on it, whatever other requests, activations, workers and edits of the
\* checkout come between its read and its commit.
THEOREM AnalysisInvariant == Spec => []IInv
  <1>1. Init => IInv
    BY InitInv
  <1>2. IInv /\ [Next]_vars => IInv'
    BY NextInv
  <1> QED
    BY <1>1, <1>2, PTL DEF Spec

\* The tables, what the object store holds of a job and the bounds keep their types.
THEOREM AnalysisTypeOK == Spec => []TypeOK
  <1>1. IInv => TypeOK
    BY DEF IInv
  <1> QED
    BY <1>1, AnalysisInvariant, PTL

\* Whatever requests race, an incident that was ever analysed has exactly one
\* current run.
THEOREM AnalysisOneCurrentRun == Spec => []OneCurrentRun
  <1>1. IInv => OneCurrentRun
    BY DEF IInv, CurrentInv
  <1> QED
    BY <1>1, AnalysisInvariant, PTL

\* A result, polled or copied from the cache of another incident's run, is an
\* analysis of the bytes and of the skill that the run records.
THEOREM AnalysisResultMatchesInput == Spec => []ResultMatchesInput
  <1>1. IInv => ResultMatchesInput
    BY DEF IInv, FilledInv, OutputFor, Done, ResultMatchesInput
  <1> QED
    BY <1>1, AnalysisInvariant, PTL

\* The worker's recomputed identity never refuses a job: activations and edits
\* of the files leave what a job was stamped with as it was.
THEOREM AnalysisStampedJobsStayRunnable == Spec => []StampedJobsStayRunnable
  <1>1. IInv => StampedJobsStayRunnable
    BY DEF IInv, RegistryInv
  <1> QED
    BY <1>1, AnalysisInvariant, PTL

\* Only two activations that overlap can leave a skill that has a history without
\* an active snapshot.
THEOREM AnalysisOnlyOverlapLosesActive == Spec => []OnlyOverlapLosesActive
  <1>1. IInv => OnlyOverlapLosesActive
    BY DEF IInv, ActivationInv
  <1> QED
    BY <1>1, AnalysisInvariant, PTL

\* Until a worker is late, no step replaces a result by another one.
LEMMA ResultsStay ==
  ASSUME IInv, [Next]_vars, NEW j \in TriageJobs, ops.late = 0, jobs[j].result # NoResult
  PROVE  jobs'[j].result = jobs[j].result
  <1>1. /\ jobs \in Seq(TriageJob \cup ReportJob) /\ DOMAIN jobs = 1 .. Len(jobs)
        /\ Len(jobs) \in Nat /\ j \in DOMAIN jobs /\ jobs[j] \in TriageJob
    BY BeginFacts, JobType
  <1>2. ASSUME NEW q \in Requests, CommitPoll(q)
        PROVE  jobs'[j].result = jobs[j].result
    <2>1. ASSUME NEW res, NEW t, MayFill(j, res, t), jobs'[j] = WithResult(jobs[j], res, t)
          PROVE  jobs'[j].result = jobs[j].result
      <3>1. res = jobs[j].result
        BY <2>1 DEF MayFill, Fetched
      <3>2. jobs'[j].result = res
        BY <1>1, <2>1 DEF TriageJob, WithResult
      <3> QED
        BY <3>1, <3>2
    <2>2. CASE \E res, t : MayFill(j, res, t) /\ jobs'[j] = WithResult(jobs[j], res, t)
      <3>1. PICK res, t : MayFill(j, res, t) /\ jobs'[j] = WithResult(jobs[j], res, t)
        BY <2>2, Zenon
      <3> QED
        BY <2>1, <3>1
    <2> QED
      BY <1>1, <1>2, <2>2, PolledJob, Zenon
  <1>3. ASSUME NEW q \in Requests, CommitRun(q)
        PROVE  jobs'[j].result = jobs[j].result
    <2>1. PICK n : n = NewRun(req[q])
      OBVIOUS
    <2>2. PICK cleared : cleared = req[q].cleared
      OBVIOUS
    <2> DEFINE old == [k \in DOMAIN jobs |->
                          IF k \in cleared THEN [jobs[k] EXCEPT !.current = FALSE] ELSE jobs[k]]
    <2>3. jobs' = Append(old, n)
      BY <1>3, <2>1, <2>2 DEF CommitRun
    <2>4. old[j].result = jobs[j].result
      BY <1>1 DEF TriageJob
    <2>5. DOMAIN old = 1 .. Len(jobs)
      BY <1>1
    <2> HIDE DEF old
    <2>6. Len(old) = Len(jobs)
      BY <1>1, <2>5
    <2>7. jobs'[j] = old[j]
      BY <1>1, <2>3, <2>5, <2>6
    <2> QED
      BY <2>4, <2>7
  <1>4. ASSUME NEW q \in Requests, CommitReportJob(q)
        PROVE  jobs'[j].result = jobs[j].result
    <2>1. PICK n : n = NewReportJob(req[q])
      OBVIOUS
    <2>2. jobs' = Append(jobs, n)
      BY <1>4, <2>1 DEF CommitReportJob
    <2> QED
      BY <1>1, <2>2
  <1>5. ASSUME NEW k, MarkCompleted(k) \/ MarkFailed(k)
        PROVE  jobs'[j].result = jobs[j].result
    <2>1. PICK st : jobs' = [jobs EXCEPT ![k].status = st]
      BY <1>5 DEF MarkCompleted, MarkFailed
    <2> QED
      BY <1>1, <2>1 DEF TriageJob
  <1>6. CASE jobs' = jobs
    BY <1>6
  <1>7. ASSUME NEW q \in Requests, Step(q)
        PROVE  jobs' = jobs \/ CommitPoll(q) \/ CommitRun(q) \/ CommitReportJob(q)
    BY <1>7 DEF Step, NoActiveSnapshot, ReadActiveSnapshot, RunConflict, ReportConflict,
         SyncReadsResult, SyncFindsNoResult, SyncReadsTelemetry, ReadOtherVersions,
         CommitActivation, ActivationConflict, CommitListSkills
  <1>8. ASSUME NEW k, WorkerStep(k)
        PROVE  jobs' = jobs \/ MarkCompleted(k) \/ MarkFailed(k)
    <2>1. Infer(k) \/ InferAgain(k) => jobs' = jobs
      BY DEF Infer, InferAgain
    <2>2. UploadTelemetry(k) \/ CrashWorker(k) => jobs' = jobs
      BY DEF UploadTelemetry, CrashWorker
    <2>3. LateUpload(k) \/ LateTelemetry(k) => jobs' = jobs
      BY Zenon DEF LateUpload, LateTelemetry
    <2> QED
      BY <1>8, <2>1, <2>2, <2>3 DEF WorkerStep
  <1>9. ASSUME NEW q, NEW i, RequestAnalysis(q, i) \/ ListAnalysisRuns(q, i)
        PROVE  jobs' = jobs
    BY <1>9 DEF RequestAnalysis, ListAnalysisRuns, Poll
  <1>10. ASSUME NEW q, NEW k, GetAnalysisRun(q, k)
         PROVE  jobs' = jobs
    BY <1>10 DEF GetAnalysisRun, Poll
  <1>11. ASSUME NEW q, NEW s, NEW v, ActivateSkillVersion(q, s, v)
         PROVE  jobs' = jobs
    BY <1>11 DEF ActivateSkillVersion
  <1>12. ASSUME NEW q, RequestReport(q) \/ ListSkills(q)
         PROVE  jobs' = jobs
    BY <1>12 DEF RequestReport, ListSkills
  <1>13. ASSUME NEW i, DeleteIncident(i)
         PROVE  jobs' = jobs
    BY <1>13 DEF DeleteIncident
  <1>14. ASSUME NEW s, NEW e, Edit(s, e)
         PROVE  jobs' = jobs
    BY <1>14 DEF Edit
  <1>15. UNCHANGED vars => jobs' = jobs
    BY DEF vars
  <1>16. \/ jobs' = jobs
         \/ \E q \in Requests : Step(q)
         \/ \E k \in DOMAIN jobs : WorkerStep(k)
    BY <1>9, <1>10, <1>11, <1>12, <1>13, <1>14, <1>15 DEF Next
  <1> QED
    BY <1>2, <1>3, <1>4, <1>5, <1>6, <1>7, <1>8, <1>16

\* "result_json is only ever set once", as far as it is true: until a worker that
\* has lost its lease uploads, the second of two polls writes what the first
\* wrote, also when a redelivered attempt inferred over a stored result that it
\* could not read; without such a failed read the telemetry of a run belongs to the
\* attempt of its result.
THEOREM AnalysisOnlyLateWorkersChangeResults == Spec => OnlyLateWorkersChangeResults
  <1>1. IInv /\ [Next]_vars =>
          [\A j \in TriageJobs : ops.late = 0 /\ jobs[j].result # NoResult =>
              /\ jobs'[j].result = jobs[j].result
              /\ ops.reads = 0 => jobs[j].telemetry \in {0, jobs[j].result.attempt}]_vars
    <2> SUFFICES ASSUME IInv, [Next]_vars, NEW j \in TriageJobs, ops.late = 0,
                        jobs[j].result # NoResult
                 PROVE  /\ jobs'[j].result = jobs[j].result
                        /\ ops.reads = 0 => jobs[j].telemetry \in {0, jobs[j].result.attempt}
      OBVIOUS
    <2>1. ops.reads = 0 => jobs[j].telemetry \in {0, jobs[j].result.attempt}
      BY DEF IInv, FilledInv, FirstOnly
    <2> QED
      BY <2>1, ResultsStay
  <1> QED
    BY <1>1, AnalysisInvariant, PTL DEF Spec, OnlyLateWorkersChangeResults
=============================================================================
