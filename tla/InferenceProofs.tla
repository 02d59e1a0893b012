--------------------------- MODULE InferenceProofs ---------------------------
(***************************************************************************)
(* What the worker stores and renders, for every log, answer and snapshot: *)
(* the document is faithful to the snapshot it was composed from, no line  *)
(* of a log is counted twice or lost, what was stored is reused, and only  *)
(* merged findings defeat the repair.                                      *)
(*                                                                         *)
(* First what the operators of Ordered and the folds return, then          *)
(* Composition, then the two ways of Reconciliation, then the worker.      *)
(***************************************************************************)
EXTENDS Inference, FiniteFacts, FunctionTheorems, SequenceTheorems

\* A finite set of numbers can be listed in ascending order: its maximum comes
\* last.
LEMMA AscendingExists ==
  ASSUME NEW S \in SUBSET Nat, IsFiniteSet(S)
  PROVE  \E f \in [1 .. Cardinality(S) -> S] :
            \A i, j \in 1 .. Cardinality(S) : i < j => f[i] < f[j]
  <1> DEFINE Listed(T, n, f) == f \in [1 .. n -> T] /\ \A i, j \in 1 .. n : i < j => f[i] < f[j]
             Holding == {n \in Nat : \A T \in SUBSET Nat :
                         IsFiniteSet(T) /\ Cardinality(T) = n => \E f : Listed(T, n, f)}
  <1>1. 0 \in Holding
    <2>1. ASSUME NEW T \in SUBSET Nat, IsFiniteSet(T), Cardinality(T) = 0
          PROVE  Listed(T, 0, [i \in 1 .. 0 |-> 0])
      OBVIOUS
    <2> HIDE DEF Listed
    <2> QED
      BY <2>1
  <1>2. ASSUME NEW n \in Nat, n \in Holding
        PROVE  n + 1 \in Holding
    <2> SUFFICES ASSUME NEW T \in SUBSET Nat, IsFiniteSet(T), Cardinality(T) = n + 1
                 PROVE  \E f : Listed(T, n + 1, f)
      <3> HIDE DEF Listed
      <3> QED
        OBVIOUS
    <2>1. T # {}
      BY FS_EmptySet
    <2>2. PICK m \in T : \A y \in T : m >= y
      BY <2>1, MaxIsUpper
    <2>3. IsFiniteSet(T \ {m}) /\ Cardinality(T \ {m}) = n
      <3>1. IsFiniteSet(T \ {m}) /\ Cardinality(T \ {m}) = Cardinality(T) - 1
        BY <2>2, FS_RemoveElement
      <3> QED
        BY <3>1
    <2>4. PICK f : Listed(T \ {m}, n, f)
      <3> HIDE DEF Listed
      <3> QED
        BY <1>2, <2>3
    <2> DEFINE g == [i \in 1 .. n + 1 |-> IF i = n + 1 THEN m ELSE f[i]]
    <2>5. ASSUME NEW i \in 1 .. n
          PROVE  f[i] \in T /\ f[i] < m
      <3>1. f[i] \in T \ {m}
        BY <2>4
      <3>2. f[i] \in Nat /\ m \in Nat /\ m >= f[i] /\ f[i] # m
        BY <2>2, <3>1
      <3> QED
        BY <3>1, <3>2
    <2>6. g \in [1 .. n + 1 -> T]
      BY <2>2, <2>5
    <2>7. ASSUME NEW i \in 1 .. n + 1, NEW j \in 1 .. n + 1, i < j
          PROVE  g[i] < g[j]
      <3>1. i \in 1 .. n
        BY <2>7
      <3>2. CASE j = n + 1
        BY <3>1, <3>2, <2>5
      <3>3. CASE j # n + 1
        <4>1. j \in 1 .. n
          BY <3>3
        <4> QED
          BY <3>1, <4>1, <2>4, <2>7
      <3> QED
        BY <3>2, <3>3
    <2>8. Listed(T, n + 1, g)
      BY <2>6, <2>7
    <2> QED
      BY <2>8
  <1>3. \A n \in Nat : n \in Holding
    <2> HIDE DEF Holding
    <2> QED
      BY <1>1, <1>2, EachNumber
  <1>4. Cardinality(S) \in Nat
    BY FS_CardinalityType
  <1> QED
    BY <1>3, <1>4

\* Ascending lists every element of the set once.
LEMMA AscendingLists ==
  ASSUME NEW S \in SUBSET Nat, IsFiniteSet(S)
  PROVE  /\ Ascending(S) \in [1 .. Cardinality(S) -> S]
         /\ \A i, j \in 1 .. Cardinality(S) : Ascending(S)[i] = Ascending(S)[j] => i = j
         /\ \A x \in S : \E i \in 1 .. Cardinality(S) : Ascending(S)[i] = x
  <1> DEFINE n == Cardinality(S)
             f == Ascending(S)
  <1>1. n \in Nat
    BY FS_CardinalityType
  <1>2. f \in [1 .. n -> S] /\ \A i, j \in 1 .. n : i < j => f[i] < f[j]
    BY AscendingExists DEF Ascending
  <1> HIDE DEF n, f
  <1>3. ASSUME NEW i \in 1 .. n, NEW j \in 1 .. n, f[i] = f[j]
        PROVE  i = j
    <2>1. f[i] \in Nat /\ f[j] \in Nat /\ i \in Nat /\ j \in Nat
      <3>1. f[i] \in S /\ f[j] \in S
        BY <1>2
      <3>2. f[i] \in Nat /\ f[j] \in Nat
        BY <3>1
      <3>3. i \in Nat /\ j \in Nat
        BY <1>1
      <3> QED
        BY <3>2, <3>3
    <2>2. ~(i < j) /\ ~(j < i)
      BY <1>2, <1>3, <2>1
    <2> QED
      BY <2>1, <2>2
  <1>4. IsFiniteSet(1 .. n) /\ Cardinality(1 .. n) = n
    BY <1>1, FS_Interval
  <1>5. f \in Injection(1 .. n, S)
    BY <1>2, <1>3 DEF Injection, IsInjective
  <1>6. f \in Surjection(1 .. n, S)
    BY <1>4, <1>5, FS_Injection DEF n
  <1>7. \A x \in S : \E i \in 1 .. n : f[i] = x
    BY <1>6 DEF Surjection
  <1> QED
    BY <1>2, <1>3, <1>7 DEF n, f

\* A sequence that has the elements of another at some positions, each once.
Selection(sel, seq, S) ==
    \E o \in [1 .. Cardinality(S) -> S] :
        /\ \A i, j \in 1 .. Cardinality(S) : o[i] = o[j] => i = j
        /\ \A x \in S : \E i \in 1 .. Cardinality(S) : o[i] = x
        /\ \A k \in 1 .. Cardinality(S) : sel[k] = seq[o[k]]

\* AtPositions makes such a sequence.
LEMMA PositionsSelect ==
  ASSUME NEW T, NEW n \in Nat, NEW S \in SUBSET (1 .. n), NEW seq,
         \A i \in S : seq[i] \in T
  PROVE  /\ AtPositions(seq, S) \in Seq(T)
         /\ Len(AtPositions(seq, S)) = Cardinality(S)
         /\ Cardinality(S) \in Nat
         /\ Selection(AtPositions(seq, S), seq, S)
  <1>1. IsFiniteSet(S) /\ S \subseteq Nat
    BY IdsFinite
  <1>2. Cardinality(S) \in Nat
    BY <1>1, FS_CardinalityType
  <1> DEFINE o == Ascending(S)
  <1>3. /\ o \in [1 .. Cardinality(S) -> S]
        /\ \A i, j \in 1 .. Cardinality(S) : o[i] = o[j] => i = j
        /\ \A x \in S : \E i \in 1 .. Cardinality(S) : o[i] = x
    BY <1>1, AscendingLists
  <1>4. AtPositions(seq, S) = [k \in 1 .. Cardinality(S) |-> seq[o[k]]]
    BY DEF AtPositions
  <1> HIDE DEF o
  <1>5. AtPositions(seq, S) \in [1 .. Cardinality(S) -> T]
    BY <1>3, <1>4
  <1>6. AtPositions(seq, S) \in Seq(T)
    BY <1>2, <1>5, SeqDef
  <1>7. Len(AtPositions(seq, S)) = Cardinality(S)
    BY <1>2, <1>5, <1>6, LenProperties
  <1>8. Selection(AtPositions(seq, S), seq, S)
    BY <1>3, <1>4 DEF Selection
  <1> QED
    BY <1>2, <1>6, <1>7, <1>8

\* The last position of an interval.
LEMMA LastPosition ==
  ASSUME NEW i \in Nat \ {0}
  PROVE  Max(1 .. i) = i /\ (1 .. i) \ {i} = 1 .. (i - 1) /\ 1 .. i # {}
  <1>1. i \in 1 .. i /\ \A y \in 1 .. i : i >= y
    OBVIOUS
  <1>2. \A x \in 1 .. i : (\A y \in 1 .. i : x >= y) => x = i
    OBVIOUS
  <1>3. Max(1 .. i) = i
    BY <1>1, <1>2 DEF Max
  <1>4. (1 .. i) \ {i} = 1 .. (i - 1)
    OBVIOUS
  <1> QED
    BY <1>1, <1>3, <1>4

\* A set of positions that is not within the first m has the next one as its last.
LEMMA NextPosition ==
  ASSUME NEW m \in Nat, NEW s \in SUBSET (1 .. m + 1), s \notin SUBSET (1 .. m)
  PROVE  Max(s) = m + 1 /\ s \ {m + 1} \in SUBSET (1 .. m) /\ s # {}
  <1>1. m + 1 \in s /\ \A y \in s : m + 1 >= y
    OBVIOUS
  <1>2. \A x \in s : (\A y \in s : x >= y) => x = m + 1
    BY <1>1
  <1>3. Max(s) = m + 1
    BY <1>1, <1>2 DEF Max
  <1>4. s \ {m + 1} \in SUBSET (1 .. m)
    OBVIOUS
  <1> QED
    BY <1>1, <1>3, <1>4

-----------------------------------------------------------------------------
(***************************************************************************)
(* Composition                                                             *)
(***************************************************************************)

\* What document_to_preview_json starts from.
NoPreview == [shots |-> <<>>, blocks |-> <<>>]

\* document_to_preview_json goes through the blocks one by one.
LEMMA PreviewFold ==
  ASSUME NEW blocks, NEW n \in Nat, DOMAIN blocks = 1 .. n
  PROVE  \E h : /\ h[0] = NoPreview
                /\ \A i \in 1 .. n : h[i] = _block_to_json(h[i - 1], blocks[i])
                /\ FoldLeft(_block_to_json, NoPreview, blocks) = h[n]
  <1> DEFINE Body(h, s) == IF s = {} THEN NoPreview
                           ELSE _block_to_json(h[s \ {Max(s)}], blocks[Max(s)])
             Unfolds(h, m) == h = [s \in SUBSET (1 .. m) |-> Body(h, s)]
             Holding == {m \in Nat : \E h : Unfolds(h, m)}
  <1>1. \A m \in Nat : m \in Holding
    <2>1. 0 \in Holding
      <3>1. SUBSET (1 .. 0) = {{}}
        OBVIOUS
      <3>2. Unfolds([s \in {{}} |-> NoPreview], 0)
        BY <3>1
      <3> QED
        BY <3>2
    <2>2. ASSUME NEW m \in Nat, m \in Holding
          PROVE  m + 1 \in Holding
      <3>1. PICK h : Unfolds(h, m)
        BY <2>2
      <3> DEFINE g == [s \in SUBSET (1 .. m + 1) |->
                         IF s \in SUBSET (1 .. m) THEN h[s]
                         ELSE _block_to_json(h[s \ {m + 1}], blocks[m + 1])]
      <3>2. ASSUME NEW s \in SUBSET (1 .. m + 1)
            PROVE  g[s] = Body(g, s)
        <4>1. CASE s \in SUBSET (1 .. m)
          <5>1. g[s] = h[s] /\ h[s] = Body(h, s)
            BY <3>1, <4>1
          <5>2. s # {} => g[s \ {Max(s)}] = h[s \ {Max(s)}]
            BY <4>1
          <5> QED
            BY <5>1, <5>2
        <4>2. CASE s \notin SUBSET (1 .. m)
          BY <4>2, NextPosition
        <4> QED
          BY <4>1, <4>2
      <3> HIDE DEF Body
      <3>3. Unfolds(g, m + 1)
        BY <3>2
      <3> HIDE DEF Unfolds, g
      <3> QED
        BY <3>3
    <2> HIDE DEF Holding
    <2> QED
      BY <2>1, <2>2, EachNumber
  <1> DEFINE it == CHOOSE h : Unfolds(h, n)
  <1>2. Unfolds(it, n)
    <2>1. \E h : Unfolds(h, n)
      BY <1>1
    <2> HIDE DEF Unfolds
    <2> QED
      BY <2>1
  <1>3. FoldLeft(_block_to_json, NoPreview, blocks) = it[1 .. n]
    BY DEF FoldLeft, MapThenFoldSet
  <1> HIDE DEF it
  <1> DEFINE h == [i \in 0 .. n |-> it[1 .. i]]
  <1>4. h[0] = NoPreview
    BY <1>2
  <1>5. ASSUME NEW i \in 1 .. n
        PROVE  h[i] = _block_to_json(h[i - 1], blocks[i])
    <2>1. 1 .. i \in SUBSET (1 .. n) /\ i \in Nat \ {0}
      OBVIOUS
    <2>2. Max(1 .. i) = i /\ (1 .. i) \ {i} = 1 .. (i - 1) /\ 1 .. i # {}
      BY <2>1, LastPosition
    <2>3. it[1 .. i] = Body(it, 1 .. i)
      BY <1>2, <2>1
    <2>4. it[1 .. i] = _block_to_json(it[1 .. (i - 1)], blocks[i])
      BY <2>2, <2>3
    <2> QED
      BY <2>4
  <1>6. FoldLeft(_block_to_json, NoPreview, blocks) = h[n]
    BY <1>3
  <1> HIDE DEF h
  <1> QED
    BY <1>4, <1>5, <1>6

\* The block of a preview.
BlockJson == [incident : Nat, index : Seq(Nat)]

\* The indices of the first i blocks lead to their screenshots.
Indexed(preview, blocks, i) ==
    /\ preview.shots \in Seq(Nat)
    /\ preview.blocks \in Seq(BlockJson)
    /\ Len(preview.blocks) = i
    /\ \A b \in 1 .. i : \A k \in DOMAIN blocks[b].shots :
          /\ preview.blocks[b].index[k] + 1 \in 1 .. Len(preview.shots)
          /\ preview.shots[preview.blocks[b].index[k] + 1] = blocks[b].shots[k]

\* One more block: the indices of its screenshots begin where the list ended, and
\* the list only grows.
LEMMA BlockIsIndexed ==
  ASSUME NEW p, NEW q, NEW blocks, NEW i \in Nat, Indexed(p, blocks, i),
         blocks[i + 1].shots \in Seq(Nat), blocks[i + 1].incident \in Nat,
         q = _block_to_json(p, blocks[i + 1])
  PROVE  Indexed(q, blocks, i + 1)
  <1>1. p.shots \in Seq(Nat) /\ p.blocks \in Seq(BlockJson) /\ Len(p.blocks) = i
    BY DEF Indexed
  <1>2. PICK old \in Seq(Nat), new \in Seq(Nat) : old = p.shots /\ new = blocks[i + 1].shots
    BY <1>1
  <1>3. PICK L \in Nat : L = Len(old)
    BY LenProperties
  <1>4. PICK M \in Nat : M = Len(new) /\ DOMAIN new = 1 .. M
    BY LenProperties
  <1>5. PICK idx : idx = [k \in 1 .. M |-> L + k - 1]
    OBVIOUS
  <1> DEFINE json == [incident |-> blocks[i + 1].incident, index |-> idx]
  <1>6. q.shots = old \o new /\ q.blocks = Append(p.blocks, json)
    BY <1>2, <1>3, <1>4, <1>5 DEF _block_to_json
  <1>7. json \in BlockJson
    <2>1. \A k \in 1 .. M : L + k - 1 \in Nat
      OBVIOUS
    <2>2. idx \in [1 .. M -> Nat]
      BY <1>5, <2>1
    <2>3. idx \in Seq(Nat)
      BY <2>2, SeqDef
    <2> QED
      BY <2>3 DEF BlockJson
  <1> HIDE DEF json
  <1>8. /\ q.shots \in Seq(Nat)
        /\ Len(q.shots) = L + M
        /\ \A j \in 1 .. L + M : q.shots[j] = IF j <= L THEN old[j] ELSE new[j - L]
    BY <1>3, <1>4, <1>6, ConcatProperties
  <1>9. /\ q.blocks \in Seq(BlockJson)
        /\ Len(q.blocks) = i + 1
        /\ \A b \in 1 .. i : q.blocks[b] = p.blocks[b]
        /\ q.blocks[i + 1] = json
    BY <1>1, <1>6, <1>7, AppendProperties
  <1>10. ASSUME NEW b \in 1 .. i, NEW k \in DOMAIN blocks[b].shots
        PROVE  /\ q.blocks[b].index[k] + 1 \in 1 .. Len(q.shots)
               /\ q.shots[q.blocks[b].index[k] + 1] = blocks[b].shots[k]
    <2>1. /\ p.blocks[b].index[k] + 1 \in 1 .. L
          /\ old[p.blocks[b].index[k] + 1] = blocks[b].shots[k]
      BY <1>2, <1>3 DEF Indexed
    <2>2. PICK x : x = p.blocks[b].index[k] + 1 /\ x = q.blocks[b].index[k] + 1
      BY <1>9
    <2>3. x \in 1 .. L /\ x \in 1 .. L + M /\ x <= L
      BY <2>1, <2>2
    <2>4. q.shots[x] = old[x]
      BY <1>8, <2>3
    <2> QED
      BY <1>8, <2>1, <2>2, <2>3, <2>4
  <1>11. ASSUME NEW k \in DOMAIN blocks[i + 1].shots
        PROVE  /\ q.blocks[i + 1].index[k] + 1 \in 1 .. Len(q.shots)
               /\ q.shots[q.blocks[i + 1].index[k] + 1] = blocks[i + 1].shots[k]
    <2>1. q.blocks[i + 1].index[k] = L + k - 1 /\ k \in 1 .. M
      BY <1>2, <1>4, <1>5, <1>9 DEF json
    <2>2. q.blocks[i + 1].index[k] + 1 = L + k
      BY <2>1
    <2>3. L + k \in 1 .. L + M /\ ~(L + k <= L) /\ (L + k) - L = k
      BY <2>1
    <2>4. q.shots[L + k] = new[k]
      BY <1>8, <2>3
    <2> QED
      BY <1>2, <1>8, <2>2, <2>3, <2>4
  <1>12. ASSUME NEW b \in 1 .. i + 1, NEW k \in DOMAIN blocks[b].shots
         PROVE  /\ q.blocks[b].index[k] + 1 \in 1 .. Len(q.shots)
                /\ q.shots[q.blocks[b].index[k] + 1] = blocks[b].shots[k]
    <2>1. CASE b = i + 1
      BY <1>11, <2>1
    <2>2. CASE b # i + 1
      <3>1. b \in 1 .. i
        BY <2>2
      <3> QED
        BY <1>10, <3>1
    <2> QED
      BY <2>1, <2>2
  <1> QED
    BY <1>8, <1>9, <1>12 DEF Indexed

\* A screenshot of the preview is the screenshot of the block that shows it.
LEMMA PreviewIsIndexed ==
  ASSUME NEW blocks, NEW n \in Nat, DOMAIN blocks = 1 .. n,
         \A b \in 1 .. n : blocks[b].shots \in Seq(Nat) /\ blocks[b].incident \in Nat
  PROVE  Indexed(FoldLeft(_block_to_json, NoPreview, blocks), blocks, n)
  <1>1. PICK h : /\ h[0] = NoPreview
                 /\ \A i \in 1 .. n : h[i] = _block_to_json(h[i - 1], blocks[i])
                 /\ FoldLeft(_block_to_json, NoPreview, blocks) = h[n]
    BY PreviewFold
  <1> DEFINE Holding == {i \in Nat : i <= n => Indexed(h[i], blocks, i)}
  <1>2. 0 \in Holding
    <2>1. Indexed(NoPreview, blocks, 0)
      BY DEF NoPreview, Indexed
    <2> QED
      BY <1>1, <2>1
  <1>3. ASSUME NEW i \in Nat, i \in Holding
        PROVE  i + 1 \in Holding
    <2> SUFFICES ASSUME i + 1 <= n
                 PROVE  Indexed(h[i + 1], blocks, i + 1)
      OBVIOUS
    <2>1. Indexed(h[i], blocks, i) /\ i + 1 \in 1 .. n
      BY <1>3
    <2>2. h[i + 1] = _block_to_json(h[i], blocks[i + 1])
      BY <1>1, <2>1
    <2> QED
      BY <2>1, <2>2, BlockIsIndexed
  <1>4. \A i \in Nat : i \in Holding
    <2> HIDE DEF Holding
    <2> QED
      BY <1>2, <1>3, EachNumber
  <1>5. Indexed(h[n], blocks, n)
    BY <1>4
  <1> QED
    BY <1>1, <1>5

\* The analyses are of incidents of the snapshot that have a run.
LEMMA AnalysesAreFrozen ==
  ASSUME NEW s, s.incidents \in Seq(Incidents)
  PROVE  /\ AnalysisIncidents(s) \in Seq(Incidents)
         /\ \A k \in DOMAIN AnalysisIncidents(s) :
               \E i \in DOMAIN s.incidents : AnalysisIncidents(s)[k] = s.incidents[i]
  <1>1. PICK inc \in Seq(Incidents) : inc = s.incidents
    OBVIOUS
  <1>2. PICK N \in Nat : N = Len(inc) /\ DOMAIN inc = 1 .. N
    BY LenProperties
  <1> DEFINE S == {n \in DOMAIN inc : inc[n].run # NoRun}
             sel == AtPositions(inc, S)
  <1>3. \A i \in S : inc[i] \in Incidents
    BY <1>2, ElementOfSeq
  <1>4. S \in SUBSET (1 .. N)
    BY <1>2
  <1> HIDE DEF S
  <1>5. /\ sel \in Seq(Incidents)
        /\ Len(sel) = Cardinality(S)
        /\ Selection(sel, inc, S)
    BY <1>3, <1>4, PositionsSelect
  <1>6. \A k \in DOMAIN sel : \E i \in DOMAIN inc : sel[k] = inc[i]
    <2>1. DOMAIN sel = 1 .. Cardinality(S)
      BY <1>5, LenProperties
    <2> HIDE DEF sel
    <2> QED
      BY <1>2, <1>4, <1>5, <2>1 DEF Selection
  <1>7. AnalysisIncidents(s) = IF s.analysis_policy = "all_available" THEN sel ELSE <<>>
    BY <1>1 DEF AnalysisIncidents, S
  <1>8. <<>> \in Seq(Incidents) /\ DOMAIN <<>> = {}
    BY EmptySeq
  <1> HIDE DEF sel
  <1> QED
    BY <1>1, <1>5, <1>6, <1>7, <1>8

\* The document of a snapshot, part by part.
DocumentOf(doc, alerts, runs) ==
    /\ doc.analyses = [n \in DOMAIN runs |->
                          _analysis_block(runs[n], NumberOf(alerts, runs[n], n))]
    /\ doc.alerts = [n \in DOMAIN alerts |->
                        _incident_block(alerts[n], n, TargetOf(doc.analyses, alerts[n]))]
    /\ doc.navigation = AtPositions(doc.alerts, {n \in DOMAIN doc.alerts :
                                                    doc.alerts[n].target # NoTarget})

\* compose_report makes the document of these parts.
LEMMA DocumentParts ==
  ASSUME NEW s \in Snapshots
  PROVE  /\ AlertIncidents(s) \in Seq(Incidents)
         /\ AnalysisIncidents(s) \in Seq(Incidents)
         /\ DocumentOf(compose_report(s), AlertIncidents(s), AnalysisIncidents(s))
  <1>1. s.incidents \in Seq(Incidents)
    BY SnapshotsAssumption
  <1>2. AlertIncidents(s) \in Seq(Incidents)
    BY <1>1, EmptySeq DEF AlertIncidents
  <1>3. AnalysisIncidents(s) \in Seq(Incidents)
    BY <1>1, AnalysesAreFrozen
  <1>4. DocumentOf(compose_report(s), AlertIncidents(s), AnalysisIncidents(s))
    BY DEF compose_report, DocumentOf
  <1> QED
    BY <1>2, <1>3, <1>4

\* An analysis has the number of the alert of its incident, and no other.
LEMMA NumbersMatch ==
  ASSUME NEW s \in Snapshots, NEW alerts \in Seq(Incidents), NEW runs \in Seq(Incidents),
         alerts = AlertIncidents(s), runs = AnalysisIncidents(s),
         NEW a \in DOMAIN runs, NEW b \in DOMAIN alerts
  PROVE  runs[a].id = alerts[b].id <=> NumberOf(alerts, runs[a], a) = b
  <1>1. /\ s.incidents \in Seq(Incidents)
        /\ \A m, n \in DOMAIN s.incidents : s.incidents[m].id = s.incidents[n].id => m = n
    BY SnapshotsAssumption
  <1>2. alerts = s.incidents
    BY DEF AlertIncidents
  <1>3. PICK i \in DOMAIN alerts : runs[a] = alerts[i]
    BY <1>1, <1>2, AnalysesAreFrozen
  <1>4. \E n \in DOMAIN alerts : alerts[n].id = runs[a].id
    BY <1>3
  <1>5. PICK n \in DOMAIN alerts : n = NumberOf(alerts, runs[a], a) /\ alerts[n].id = runs[a].id
    BY <1>4 DEF NumberOf
  <1> QED
    BY <1>1, <1>2, <1>5

\* A link leads to the analysis of its incident.
LEMMA TargetIsThere ==
  ASSUME NEW analyses, NEW n \in Nat, DOMAIN analyses = 1 .. n, NEW incident,
         \A m \in 1 .. n : analyses[m].bookmark \in Nat,
         TargetOf(analyses, incident) # NoTarget
  PROVE  \E m \in 1 .. n : analyses[m].bookmark = TargetOf(analyses, incident)
                           /\ analyses[m].available
  <1> DEFINE M == {m \in 1 .. n : analyses[m].incident = incident.id /\ analyses[m].available}
             B == {analyses[m].bookmark : m \in M}
             T == {NoTarget} \cup B
  <1>1. TargetOf(analyses, incident) = Max(T)
    BY DEF TargetOf
  <1>2. IsFiniteSet(M)
    BY IdsFinite
  <1>3. IsFiniteSet(B)
    <2> DEFINE f == [m \in M |-> analyses[m].bookmark]
    <2>1. f \in Surjection(M, B)
      BY DEF Surjection
    <2> HIDE DEF M, B, f
    <2> QED
      BY <1>2, <2>1, FS_Surjection
  <1>4. IsFiniteSet(T)
    <2> HIDE DEF B
    <2> QED
      BY <1>3, FS_AddElement
  <1>5. T \subseteq Nat /\ T # {}
    BY DEF NoTarget
  <1>6. Max(T) \in T
    <2> HIDE DEF T
    <2> QED
      BY <1>4, <1>5, MaxIsUpper
  <1>7. Max(T) \in B
    BY <1>1, <1>6
  <1> QED
    BY <1>1, <1>7

\* The blocks in order have their screenshots and incidents.
LEMMA BlocksInOrder ==
  ASSUME NEW s \in Snapshots, NEW doc, doc = compose_report(s)
  PROVE  \E n \in Nat :
           /\ DOMAIN (doc.alerts \o doc.analyses) = 1 .. n
           /\ \A b \in 1 .. n : /\ (doc.alerts \o doc.analyses)[b].shots \in Seq(Nat)
                                /\ (doc.alerts \o doc.analyses)[b].incident \in Nat
  <1>1. PICK alerts \in Seq(Incidents), runs \in Seq(Incidents) : DocumentOf(doc, alerts, runs)
    BY DocumentParts
  <1>2. PICK A \in Nat, R \in Nat : DOMAIN alerts = 1 .. A /\ DOMAIN runs = 1 .. R
    BY LenProperties
  <1>3. PICK left, right : left = doc.alerts /\ right = doc.analyses
    OBVIOUS
  <1> DEFINE T == {left[n] : n \in 1 .. A} \cup {right[n] : n \in 1 .. R}
             ShotsOf(b) == b.shots \in Seq(Nat) /\ b.incident \in Nat
  <1>4. \A n \in 1 .. A : ShotsOf(left[n])
    <2> TAKE n \in 1 .. A
    <2>1. alerts[n] \in Incidents
      BY <1>2, ElementOfSeq, LenProperties
    <2>2. alerts[n].shots \in Seq(Nat) /\ alerts[n].id \in Nat
      BY <2>1 DEF Incidents
    <2>3. left[n].shots = alerts[n].shots /\ left[n].incident = alerts[n].id
      BY <1>1, <1>2, <1>3 DEF DocumentOf, _incident_block
    <2> QED
      BY <2>2, <2>3
  <1>5. \A n \in 1 .. R : ShotsOf(right[n])
    <2> TAKE n \in 1 .. R
    <2>1. runs[n] \in Incidents
      BY <1>2, ElementOfSeq, LenProperties
    <2>2. runs[n].shots \in Seq(Nat) /\ runs[n].id \in Nat /\ <<>> \in Seq(Nat)
      BY <2>1, EmptySeq DEF Incidents
    <2>3. /\ right[n].shots = IF runs[n].analysed THEN runs[n].shots ELSE <<>>
          /\ right[n].incident = runs[n].id
      BY <1>1, <1>2, <1>3 DEF DocumentOf, _analysis_block
    <2> QED
      BY <2>2, <2>3
  <1>6. \A b \in T : ShotsOf(b)
    BY <1>4, <1>5
  <1> HIDE DEF ShotsOf
  <1>7. left \in [1 .. A -> T] /\ right \in [1 .. R -> T]
    BY <1>1, <1>2, <1>3 DEF DocumentOf
  <1> HIDE DEF T
  <1>8. left \in Seq(T) /\ right \in Seq(T)
    BY <1>7, SeqDef
  <1>9. left \o right \in Seq(T)
    BY <1>8, ConcatProperties
  <1>10. PICK n \in Nat : /\ DOMAIN (left \o right) = 1 .. n
                          /\ \A b \in 1 .. n : (left \o right)[b] \in T
    BY <1>9, LenProperties, ElementOfSeq
  <1> QED
    BY <1>3, <1>6, <1>10 DEF ShotsOf

\* The fields of an alert that the property is about.
LEMMA AlertFields ==
  ASSUME NEW incident, NEW number, NEW target
  PROVE  /\ _incident_block(incident, number, target).incident = incident.id
         /\ _incident_block(incident, number, target).number = number
         /\ _incident_block(incident, number, target).target = target
  BY DEF _incident_block

\* What DocumentIsFaithful asks of the document made of a snapshot.
Faithful(s, doc) ==
    /\ s.incident_policy = "all" =>
         [n \in DOMAIN doc.alerts |-> doc.alerts[n].incident]
             = [n \in DOMAIN s.incidents |-> s.incidents[n].id]
    /\ \A a \in DOMAIN doc.analyses, b \in DOMAIN doc.alerts :
         doc.analyses[a].incident = doc.alerts[b].incident <=>
             doc.analyses[a].number = doc.alerts[b].number
    /\ \A n \in DOMAIN doc.navigation : \E a \in DOMAIN doc.analyses :
         doc.analyses[a].bookmark = doc.navigation[n].target /\ doc.analyses[a].available
    /\ \A b \in DOMAIN (doc.alerts \o doc.analyses) :
         \A k \in DOMAIN (doc.alerts \o doc.analyses)[b].shots :
           Proxied(document_to_preview_json(doc), document_to_preview_json(doc).blocks[b].index[k])
             = (doc.alerts \o doc.analyses)[b].shots[k]

\* compose_report and document_to_preview_json, for every snapshot.
LEMMA ComposedFaithfully ==
  ASSUME NEW s \in Snapshots, NEW doc, doc = compose_report(s)
  PROVE  Faithful(s, doc)
  <1>1. PICK alerts \in Seq(Incidents), runs \in Seq(Incidents) :
           /\ alerts = AlertIncidents(s) /\ runs = AnalysisIncidents(s)
           /\ DocumentOf(doc, alerts, runs)
    BY DocumentParts
  <1>2. PICK A \in Nat, R \in Nat : DOMAIN alerts = 1 .. A /\ DOMAIN runs = 1 .. R
    BY LenProperties
  <1>3. \A n \in 1 .. A : alerts[n] \in Incidents
    BY <1>2, ElementOfSeq, LenProperties
  <1>4. \A n \in 1 .. R : runs[n] \in Incidents
    BY <1>2, ElementOfSeq, LenProperties
  <1>5. /\ DOMAIN doc.alerts = 1 .. A
        /\ \A n \in 1 .. A : /\ doc.alerts[n].incident = alerts[n].id
                             /\ doc.alerts[n].number = n
                             /\ doc.alerts[n].target = TargetOf(doc.analyses, alerts[n])
    <2>1. \A n \in 1 .. A : doc.alerts[n]
                 = _incident_block(alerts[n], n, TargetOf(doc.analyses, alerts[n]))
      BY <1>1, <1>2 DEF DocumentOf
    <2>2. DOMAIN doc.alerts = 1 .. A
      BY <1>1, <1>2 DEF DocumentOf
    <2>3. ASSUME NEW n \in 1 .. A
          PROVE  /\ doc.alerts[n].incident = alerts[n].id
                 /\ doc.alerts[n].number = n
                 /\ doc.alerts[n].target = TargetOf(doc.analyses, alerts[n])
      BY <2>1, AlertFields
    <2> QED
      BY <2>2, <2>3
  <1>6. /\ DOMAIN doc.analyses = 1 .. R
        /\ \A n \in 1 .. R : /\ doc.analyses[n].incident = runs[n].id
                             /\ doc.analyses[n].number = NumberOf(alerts, runs[n], n)
                             /\ doc.analyses[n].bookmark
                                  = IF runs[n].analysed THEN runs[n].id ELSE NoTarget
    BY <1>1, <1>2 DEF DocumentOf, _analysis_block, _bookmark_name
  <1>7. s.incident_policy = "all" =>
          [n \in DOMAIN doc.alerts |-> doc.alerts[n].incident]
              = [n \in DOMAIN s.incidents |-> s.incidents[n].id]
    BY <1>1, <1>2, <1>5 DEF AlertIncidents
  <1>8. ASSUME NEW a \in DOMAIN doc.analyses, NEW b \in DOMAIN doc.alerts
        PROVE  doc.analyses[a].incident = doc.alerts[b].incident <=>
                  doc.analyses[a].number = doc.alerts[b].number
    <2>1. a \in DOMAIN runs /\ b \in DOMAIN alerts
      BY <1>2, <1>5, <1>6
    <2>2. runs[a].id = alerts[b].id <=> NumberOf(alerts, runs[a], a) = b
      BY <1>1, <2>1, NumbersMatch
    <2>3. /\ doc.analyses[a].incident = runs[a].id
          /\ doc.analyses[a].number = NumberOf(alerts, runs[a], a)
      BY <1>6
    <2>4. doc.alerts[b].incident = alerts[b].id /\ doc.alerts[b].number = b
      BY <1>5
    <2> QED
      BY <2>2, <2>3, <2>4, Zenon
  <1>9. ASSUME NEW n \in DOMAIN doc.navigation
        PROVE  \E a \in DOMAIN doc.analyses :
                  doc.analyses[a].bookmark = doc.navigation[n].target /\ doc.analyses[a].available
    <2> DEFINE S == {m \in DOMAIN doc.alerts : doc.alerts[m].target # NoTarget}
               T == {doc.alerts[m] : m \in S}
    <2>1. S \in SUBSET (1 .. A) /\ \A i \in S : doc.alerts[i] \in T
      BY <1>5
    <2>2. doc.navigation = AtPositions(doc.alerts, S)
      BY <1>1 DEF DocumentOf
    <2>3. PICK m \in S : doc.navigation[n] = doc.alerts[m]
      <3> HIDE DEF S, T
      <3>1. /\ doc.navigation \in Seq(T)
            /\ Len(doc.navigation) = Cardinality(S)
            /\ Selection(doc.navigation, doc.alerts, S)
        BY <2>1, <2>2, PositionsSelect
      <3>2. n \in 1 .. Cardinality(S)
        BY <3>1, LenProperties
      <3> QED
        BY <3>1, <3>2 DEF Selection
    <2>4. m \in 1 .. A /\ TargetOf(doc.analyses, alerts[m]) # NoTarget
      BY <1>5, <2>3
    <2>5. \A k \in 1 .. R : doc.analyses[k].bookmark \in Nat
      <3> TAKE k \in 1 .. R
      <3>1. runs[k].id \in Nat
        BY <1>4 DEF Incidents
      <3> QED
        BY <1>6, <3>1 DEF NoTarget
    <2>6. \E a \in 1 .. R : /\ doc.analyses[a].bookmark = TargetOf(doc.analyses, alerts[m])
                            /\ doc.analyses[a].available
      BY <1>6, <2>4, <2>5, TargetIsThere
    <2> QED
      BY <1>5, <1>6, <2>3, <2>4, <2>6
  <1>10. ASSUME NEW b \in DOMAIN (doc.alerts \o doc.analyses),
                NEW k \in DOMAIN (doc.alerts \o doc.analyses)[b].shots
         PROVE  Proxied(document_to_preview_json(doc),
                        document_to_preview_json(doc).blocks[b].index[k])
                  = (doc.alerts \o doc.analyses)[b].shots[k]
    <2>1. PICK all, preview : /\ all = doc.alerts \o doc.analyses
                              /\ preview = document_to_preview_json(doc)
      OBVIOUS
    <2>2. PICK n \in Nat :
             /\ DOMAIN all = 1 .. n
             /\ \A i \in 1 .. n : all[i].shots \in Seq(Nat) /\ all[i].incident \in Nat
      BY <2>1, BlocksInOrder
    <2>3. preview = FoldLeft(_block_to_json, NoPreview, all)
      BY <2>1 DEF document_to_preview_json, NoPreview, FoldLeft, MapThenFoldSet
    <2>4. Indexed(preview, all, n)
      BY <2>2, <2>3, PreviewIsIndexed
    <2>5. b \in 1 .. n /\ k \in DOMAIN all[b].shots
      BY <2>1, <2>2
    <2>6. Proxied(preview, preview.blocks[b].index[k]) = all[b].shots[k]
      BY <2>4, <2>5 DEF Indexed, Proxied
    <2> QED
      BY <2>1, <2>6
  <1> QED
    BY <1>7, <1>8, <1>9, <1>10, Zenon DEF Faithful

-----------------------------------------------------------------------------
(***************************************************************************)
(* Sums of counts are cardinalities.                                       *)
(***************************************************************************)

\* Finite sets that do not overlap, and the size of their union.
Apart(lines, S) ==
    /\ \A n \in S : IsFiniteSet(lines[n])
    /\ \A m, n \in S : m # n => lines[m] \cap lines[n] = {}

\* All the lines of the sets at s, and how many there are.
UnionOf(lines, s) == UNION {lines[n] : n \in s}
SizeOf(lines, S) == [s \in SUBSET S |-> Cardinality(UnionOf(lines, s))]

\* Finitely many finite sets have a finite union.
LEMMA UnionIsFinite ==
  ASSUME NEW S, IsFiniteSet(S), NEW lines, \A n \in S : IsFiniteSet(lines[n])
  PROVE  IsFiniteSet(UnionOf(lines, S))
  <1> DEFINE T == {lines[n] : n \in S}
             f == [n \in S |-> lines[n]]
  <1>1. f \in Surjection(S, T)
    BY DEF Surjection
  <1>2. \A t \in T : IsFiniteSet(t)
    OBVIOUS
  <1>3. UnionOf(lines, S) = UNION T
    BY DEF UnionOf
  <1> HIDE DEF T, f
  <1>4. IsFiniteSet(T)
    BY <1>1, FS_Surjection
  <1> QED
    BY <1>2, <1>3, <1>4, FS_UNION

\* The sizes of sets that are apart add up, one set at a time.
LEMMA SizeAddsUp ==
  ASSUME NEW S, IsFiniteSet(S), NEW lines, Apart(lines, S)
  PROVE  /\ SizeOf(lines, S)[{}] = 0
         /\ \A s \in SUBSET S : \A x \in s :
               SizeOf(lines, S)[s] = SizeOf(lines, S)[s \ {x}] + Cardinality(lines[x])
  <1>1. SizeOf(lines, S)[{}] = 0
    <2>1. UnionOf(lines, {}) = {}
      BY DEF UnionOf
    <2> QED
      BY <2>1, FS_EmptySet DEF SizeOf
  <1>2. ASSUME NEW s \in SUBSET S, NEW x \in s
        PROVE  Cardinality(UnionOf(lines, s))
                 = Cardinality(UnionOf(lines, s \ {x})) + Cardinality(lines[x])
    <2>1. IsFiniteSet(s) /\ IsFiniteSet(s \ {x})
      BY FS_Subset
    <2>2. PICK u : u = UnionOf(lines, s \ {x})
      OBVIOUS
    <2>3. IsFiniteSet(u) /\ IsFiniteSet(lines[x])
      <3>1. \A n \in s \ {x} : IsFiniteSet(lines[n])
        BY DEF Apart
      <3> QED
        BY <2>1, <2>2, <3>1, UnionIsFinite DEF Apart
    <2>4. UnionOf(lines, s) = u \cup lines[x]
      BY <2>2 DEF UnionOf
    <2>5. u \cap lines[x] = {}
      BY <2>2 DEF UnionOf, Apart
    <2>6. Cardinality(u) \in Nat /\ Cardinality(lines[x]) \in Nat
      BY <2>3, FS_CardinalityType
    <2>7. Cardinality(u \cup lines[x]) = Cardinality(u) + Cardinality(lines[x]) - Cardinality({})
      BY <2>3, <2>5, FS_Union
    <2> QED
      BY <2>2, <2>4, <2>6, <2>7, FS_EmptySet
  <1>3. ASSUME NEW s \in SUBSET S, NEW x \in s
        PROVE  SizeOf(lines, S)[s] = SizeOf(lines, S)[s \ {x}] + Cardinality(lines[x])
    BY <1>2 DEF SizeOf
  <1> QED
    BY <1>1, <1>3

\* The findings that Total adds up.
Tallied(finds, N) == {n \in N : finds[n].count # NoCount}

\* Total: the counts of findings that do not overlap.
LEMMA CountsAddUp ==
  ASSUME NEW finds, NEW N, NEW S, S = Tallied(finds, N),
         IsFiniteSet(S), NEW lines, Apart(lines, S),
         \A n \in S : finds[n].count = Cardinality(lines[n])
  PROVE  Total(finds, N) = Cardinality(UnionOf(lines, S))
  <1> DEFINE Unfolds(h) == h = [s \in SUBSET S |->
                 IF s = {} THEN 0
                 ELSE h[s \ {CHOOSE x \in s : TRUE}] + finds[CHOOSE x \in s : TRUE].count]
             it == CHOOSE h : Unfolds(h)
             add == [n \in S |-> finds[n].count]
             sum == SizeOf(lines, S)
  <1>1. Total(finds, N) = it[S]
    BY DEF Tallied, Total, FoldSet, MapThenFoldSet
  <1>2. Sums(sum, add, S)
    <2>1. \A x \in S : add[x] = Cardinality(lines[x])
      OBVIOUS
    <2> HIDE DEF add
    <2>2. /\ sum[{}] = 0
          /\ \A s \in SUBSET S : \A x \in s : sum[s] = sum[s \ {x}] + Cardinality(lines[x])
      BY SizeAddsUp
    <2> HIDE DEF sum
    <2> QED
      BY <2>1, <2>2 DEF Sums
  <1>3. Unfolds(sum)
    <2>1. sum = [s \in SUBSET S |-> sum[s]]
      BY DEF SizeOf
    <2> HIDE DEF sum
    <2>2. ASSUME NEW s \in SUBSET S
          PROVE  sum[s] = IF s = {} THEN 0
                          ELSE sum[s \ {CHOOSE x \in s : TRUE}] + finds[CHOOSE x \in s : TRUE].count
      <3>1. CASE s = {}
        BY <1>2, <3>1 DEF Sums
      <3>2. CASE s # {}
        <4>1. PICK x \in s : x = CHOOSE y \in s : TRUE
          BY <3>2
        <4>2. sum[s] = sum[s \ {x}] + finds[x].count
          BY <1>2, <4>1 DEF Sums
        <4> QED
          BY <3>2, <4>1, <4>2
      <3> QED
        BY <3>1, <3>2
    <2> QED
      BY <2>1, <2>2
  <1>4. Unfolds(it)
    <2> HIDE DEF Unfolds
    <2> QED
      BY <1>3
  <1> HIDE DEF it
  <1>5. SumFold(it, add, S)
    BY <1>4 DEF SumFold
  <1> HIDE DEF add, sum, Unfolds
  <1>6. it[S] = sum[S]
    BY <1>2, <1>5, SumIsUnique
  <1> QED
    BY <1>1, <1>6 DEF sum, SizeOf

\* SumOfCounts: the lines of patterns.
LEMMA PatternsAddUp ==
  ASSUME NEW log, NEW S, IsFiniteSet(S), NEW lines, Apart(lines, S),
         \A p \in S : CountOf(log, p) = Cardinality(lines[p])
  PROVE  SumOfCounts(log, S) = Cardinality(UnionOf(lines, S))
  <1> DEFINE Unfolds(h) == h = [s \in SUBSET S |->
                 IF s = {} THEN 0
                 ELSE h[s \ {CHOOSE x \in s : TRUE}] + CountOf(log, CHOOSE x \in s : TRUE)]
             it == CHOOSE h : Unfolds(h)
             add == [p \in S |-> CountOf(log, p)]
             sum == SizeOf(lines, S)
  <1>1. SumOfCounts(log, S) = it[S]
    BY DEF SumOfCounts, FoldSet, MapThenFoldSet
  <1>2. Sums(sum, add, S)
    <2>1. \A x \in S : add[x] = Cardinality(lines[x])
      OBVIOUS
    <2> HIDE DEF add
    <2>2. /\ sum[{}] = 0
          /\ \A s \in SUBSET S : \A x \in s : sum[s] = sum[s \ {x}] + Cardinality(lines[x])
      BY SizeAddsUp
    <2> HIDE DEF sum
    <2> QED
      BY <2>1, <2>2 DEF Sums
  <1>3. Unfolds(sum)
    <2>1. sum = [s \in SUBSET S |-> sum[s]]
      BY DEF SizeOf
    <2> HIDE DEF sum
    <2>2. ASSUME NEW s \in SUBSET S
          PROVE  sum[s] = IF s = {} THEN 0
                          ELSE sum[s \ {CHOOSE x \in s : TRUE}]
                                 + CountOf(log, CHOOSE x \in s : TRUE)
      <3>1. CASE s = {}
        BY <1>2, <3>1 DEF Sums
      <3>2. CASE s # {}
        <4>1. PICK x \in s : x = CHOOSE y \in s : TRUE
          BY <3>2
        <4>2. sum[s] = sum[s \ {x}] + CountOf(log, x)
          BY <1>2, <4>1 DEF Sums
        <4> QED
          BY <3>2, <4>1, <4>2
      <3> QED
        BY <3>1, <3>2
    <2> QED
      BY <2>1, <2>2
  <1>4. Unfolds(it)
    <2> HIDE DEF Unfolds
    <2> QED
      BY <1>3
  <1> HIDE DEF it
  <1>5. SumFold(it, add, S)
    BY <1>4 DEF SumFold
  <1> HIDE DEF add, sum, Unfolds
  <1>6. it[S] = sum[S]
    BY <1>2, <1>5, SumIsUnique
  <1> QED
    BY <1>1, <1>6 DEF sum, SizeOf

-----------------------------------------------------------------------------
(***************************************************************************)
(* Folds over the findings.                                                *)
(***************************************************************************)

\* A fold from left to right, as the function on sets of positions by which the
\* library defines it.
Iterates(it, step, base, n) ==
    \A s \in SUBSET (1 .. n) :
        it[s] = IF s = {} THEN base ELSE step[Max(s)][it[s \ {Max(s)}]]

\* There is such a function: it is extended position by position.
LEMMA IterationExists ==
  ASSUME NEW T, NEW n \in Nat, NEW base \in T, NEW step,
         \A i \in 1 .. n : \A a \in T : step[i][a] \in T
  PROVE  \E it \in [SUBSET (1 .. n) -> T] : Iterates(it, step, base, n)
  <1> DEFINE Built(m) == \E it \in [SUBSET (1 .. m) -> T] : Iterates(it, step, base, m)
             Holding == {m \in Nat : m <= n => Built(m)}
  <1>1. 0 \in Holding
    <2> DEFINE g == [s \in SUBSET (1 .. 0) |-> base]
    <2>1. SUBSET (1 .. 0) = {{}}
      OBVIOUS
    <2>2. g \in [SUBSET (1 .. 0) -> T] /\ Iterates(g, step, base, 0)
      BY <2>1 DEF Iterates
    <2> HIDE DEF g
    <2> QED
      BY <2>2
  <1>2. ASSUME NEW m \in Nat, m \in Holding
        PROVE  m + 1 \in Holding
    <2> SUFFICES ASSUME m + 1 <= n
                 PROVE  Built(m + 1)
      <3> HIDE DEF Built
      <3> QED
        OBVIOUS
    <2>0. Built(m)
      <3> HIDE DEF Built
      <3> QED
        BY <1>2
    <2>1. PICK h \in [SUBSET (1 .. m) -> T] : Iterates(h, step, base, m)
      BY <2>0
    <2> DEFINE g == [s \in SUBSET (1 .. m + 1) |->
                       IF s \in SUBSET (1 .. m) THEN h[s] ELSE step[m + 1][h[s \ {m + 1}]]]
    <2>2. ASSUME NEW s \in SUBSET (1 .. m + 1)
          PROVE  /\ g[s] \in T
                 /\ g[s] = IF s = {} THEN base ELSE step[Max(s)][g[s \ {Max(s)}]]
      <3>1. CASE s \in SUBSET (1 .. m)
        <4>1. g[s] = h[s] /\ h[s] \in T
          BY <2>1, <3>1
        <4>2. g[s \ {Max(s)}] = h[s \ {Max(s)}]
          BY <3>1
        <4> HIDE DEF g
        <4> QED
          BY <2>1, <3>1, <4>1, <4>2 DEF Iterates
      <3>2. CASE s \notin SUBSET (1 .. m)
        <4>1. Max(s) = m + 1 /\ s \ {m + 1} \in SUBSET (1 .. m) /\ s # {}
          BY <3>2, NextPosition
        <4>2. g[s] = step[m + 1][h[s \ {m + 1}]] /\ g[s \ {m + 1}] = h[s \ {m + 1}]
          BY <3>2, <4>1
        <4>3. m + 1 \in 1 .. n
          OBVIOUS
        <4> HIDE DEF g
        <4> QED
          BY <2>1, <4>1, <4>2, <4>3
      <3> QED
        BY <3>1, <3>2
    <2>3. g \in [SUBSET (1 .. m + 1) -> T]
      BY <2>2
    <2> HIDE DEF g
    <2>4. Iterates(g, step, base, m + 1)
      BY <2>2 DEF Iterates
    <2> QED
      BY <2>3, <2>4
  <1>3. \A m \in Nat : m \in Holding
    <2> HIDE DEF Holding
    <2> QED
      BY <1>1, <1>2, EachNumber
  <1>4. Built(n)
    <2> HIDE DEF Built
    <2> QED
      BY <1>3
  <1> QED
    BY <1>4

-----------------------------------------------------------------------------
(***************************************************************************)
(* Findings that cite entries.                                             *)
(***************************************************************************)

\* Sets of entry ids are finite sets of numbers.
LEMMA EntriesFinite ==
  ASSUME NEW log \in Seq(LogLines), NEW S \in SUBSET DOMAIN log
  PROVE  IsFiniteSet(S) /\ S \subseteq Nat /\ Cardinality(S) \in Nat
  <1>1. Len(log) \in Nat /\ DOMAIN log = 1 .. Len(log)
    BY LenProperties
  <1>2. IsFiniteSet(S) /\ S \subseteq Nat
    BY <1>1, IdsFinite
  <1> QED
    BY <1>2, FS_CardinalityType

\* The occurrences of finitely many lines are finitely many.
LEMMA OccurrencesAreCounted ==
  ASSUME NEW log \in Seq(LogLines), NEW S \in SUBSET DOMAIN log
  PROVE  _occurrence_count(log, S) \in Nat
  <1> DEFINE key == [e \in S |-> IF log[e].trace = NoTrace THEN <<"entry", e>>
                                 ELSE <<"trace", log[e].trace>>]
             keys == {IF log[e].trace = NoTrace THEN <<"entry", e>>
                      ELSE <<"trace", log[e].trace>> : e \in S}
  <1>1. \A e \in S : key[e] \in keys
    OBVIOUS
  <1>2. \A k \in keys : \E e \in S : key[e] = k
    OBVIOUS
  <1>3. key = [e \in S |-> key[e]]
    OBVIOUS
  <1>4. _occurrence_count(log, S) = Cardinality(keys)
    BY DEF _occurrence_count
  <1> HIDE DEF key, keys
  <1>5. key \in Surjection(S, keys)
    BY <1>1, <1>2, <1>3 DEF Surjection
  <1>6. IsFiniteSet(keys)
    BY <1>5, EntriesFinite, FS_Surjection
  <1> QED
    BY <1>4, <1>6, FS_CardinalityType

\* What Finding makes of some entries.
LEMMA FindingType ==
  ASSUME NEW log \in Seq(LogLines), NEW S \in SUBSET DOMAIN log, NEW id \in Nat,
         NEW group \in {"key", "secondary"}, NEW pids \in SUBSET Int
  PROVE  Finding(id, group, S, pids, log) \in FindingRecords
  <1>1. S \in SUBSET Nat /\ Cardinality(S) \in Int
    BY EntriesFinite
  <1>2. _occurrence_count(log, S) \in Nat
    BY OccurrencesAreCounted
  <1> QED
    BY <1>1, <1>2 DEF Finding, FindingRecords, NoSignature

\* A finding that has its entries: all the lines of their families, counted.
Settled(log, f) ==
    /\ f.cites
    /\ f.entries # {}
    /\ f.entries \subseteq DOMAIN log
    /\ Expanded(log, f.entries) = f.entries
    /\ f.pids = {_semantic_pattern_id(f.id)}
    /\ f.count = Cardinality(f.entries)
    /\ f.occurrences = _occurrence_count(log, f.entries)

\* What Quantified makes of a finding.
LEMMA QuantifiedFields ==
  ASSUME NEW log \in Seq(LogLines), NEW f \in FindingRecords, f.cites,
         NEW S \in SUBSET DOMAIN log
  PROVE  LET q == Quantified(f, S, log)
         IN /\ q \in FindingRecords
            /\ q.id = f.id /\ q.group = f.group /\ q.cites /\ q.detail = f.detail
            /\ q.hints = f.hints
            /\ S # {} => /\ q.entries = S
                         /\ q.pids = {_semantic_pattern_id(f.id)}
                         /\ q.count = Cardinality(S)
                         /\ q.occurrences = _occurrence_count(log, S)
            /\ S = {} => q.entries = f.entries
  <1> DEFINE q == Quantified(f, S, log)
             g == Finding(f.id, f.group, S, {_semantic_pattern_id(f.id)}, log)
  <1>1. CASE S = {}
    <2>1. q = [f EXCEPT !.pids = {Unquantified}, !.count = NoCount]
      BY <1>1 DEF Quantified
    <2>2. q \in FindingRecords
      <3>1. {Unquantified} \in SUBSET Int /\ NoCount \in Int
        BY DEF Unquantified, NoCount
      <3> HIDE DEF q
      <3> QED
        BY <2>1, <3>1 DEF FindingRecords
    <2> QED
      BY <1>1, <2>1, <2>2 DEF FindingRecords
  <1>2. CASE S # {}
    <2>1. q = [g EXCEPT !.detail = f.detail, !.hints = f.hints]
      BY <1>2 DEF Quantified
    <2>2. f.id \in Nat /\ f.group \in {"key", "secondary"} /\ f.detail \in [en : Nat, zh : Nat]
          /\ f.hints \in SUBSET Nat
      BY DEF FindingRecords
    <2>3. {_semantic_pattern_id(f.id)} \in SUBSET Int
      BY <2>2 DEF _semantic_pattern_id
    <2>4. g \in FindingRecords
      BY <2>2, <2>3, FindingType
    <2>5. /\ g.id = f.id /\ g.group = f.group /\ g.cites /\ g.entries = S
          /\ g.pids = {_semantic_pattern_id(f.id)} /\ g.count = Cardinality(S)
          /\ g.occurrences = _occurrence_count(log, S)
      BY DEF Finding
    <2> HIDE DEF g
    <2>6. q \in FindingRecords
      BY <2>1, <2>2, <2>4 DEF FindingRecords
    <2>7. /\ q.id = g.id /\ q.group = g.group /\ q.cites = g.cites /\ q.entries = g.entries
          /\ q.pids = g.pids /\ q.count = g.count /\ q.occurrences = g.occurrences
          /\ q.detail = f.detail /\ q.hints = f.hints
      BY <2>1, <2>4 DEF FindingRecords
    <2> QED
      BY <1>2, <2>5, <2>6, <2>7
  <1> QED
    BY <1>1, <1>2

\* The accumulators of EntriesClaimed.
EntryAccs == [done : Seq(FindingRecords), claimed : SUBSET Nat, error : BOOLEAN]
NoEntries == [done |-> <<>>, claimed |-> {}, error |-> FALSE]

\* The entries a finding takes.
Own(log, a, f) == Expanded(log, f.entries) \ a.claimed

\* What ClaimEntries does with one finding.
ClaimsEntries(log, a, f, r) ==
    /\ r \in EntryAccs
    /\ a.error => r.error
    /\ ~a.error /\ f.cites /\ Misassigned(log, a.claimed, f) => r.error
    /\ ~a.error /\ ~f.cites =>
         ~r.error /\ r.done = Append(a.done, f) /\ r.claimed = a.claimed
    /\ ~a.error /\ f.cites /\ ~Misassigned(log, a.claimed, f) =>
         /\ ~r.error
         /\ r.done = Append(a.done, Quantified(f, Own(log, a, f), log))
         /\ r.claimed = a.claimed \cup Own(log, a, f)

\* ClaimEntries is that step.
LEMMA ClaimEntriesStep ==
  ASSUME NEW log \in Seq(LogLines), NEW a \in EntryAccs, NEW f \in FindingRecords
  PROVE  ClaimsEntries(log, a, f, ClaimEntries(log, a, f))
  <1> DEFINE own == Own(log, a, f)
             r == ClaimEntries(log, a, f)
             q == Quantified(f, own, log)
  <1>1. /\ a.done \in Seq(FindingRecords) /\ a.claimed \in SUBSET Nat /\ a.error \in BOOLEAN
        /\ a = [done |-> a.done, claimed |-> a.claimed, error |-> a.error]
    BY DEF EntryAccs
  <1>2. Append(a.done, f) \in Seq(FindingRecords)
    BY <1>1, AppendProperties
  <1>3. own \in SUBSET DOMAIN log /\ own \in SUBSET Nat
    <2>1. own \in SUBSET DOMAIN log
      BY DEF Own, Expanded
    <2> HIDE DEF own
    <2> QED
      BY <2>1, EntriesFinite
  <1>4. CASE a.error \/ ~f.cites
    <2>1. r = [done |-> Append(a.done, f), claimed |-> a.claimed, error |-> a.error]
      BY <1>1, <1>4 DEF ClaimEntries
    <2> HIDE DEF r
    <2>2. r \in EntryAccs
      BY <1>1, <1>2, <2>1 DEF EntryAccs
    <2> QED
      BY <1>4, <2>1, <2>2 DEF ClaimsEntries, r
  <1>5. CASE ~(a.error \/ ~f.cites) /\ Misassigned(log, a.claimed, f)
    <2>1. r = [done |-> Append(a.done, f), claimed |-> a.claimed, error |-> TRUE]
      BY <1>1, <1>5 DEF ClaimEntries
    <2> HIDE DEF r
    <2>2. r \in EntryAccs
      BY <1>1, <1>2, <2>1 DEF EntryAccs
    <2> QED
      BY <1>5, <2>1, <2>2 DEF ClaimsEntries, r
  <1>6. CASE ~(a.error \/ ~f.cites) /\ ~Misassigned(log, a.claimed, f)
    <2>1. r = [done |-> Append(a.done, q), claimed |-> a.claimed \cup own, error |-> a.error]
      BY <1>1, <1>6 DEF ClaimEntries, Own
    <2>2. q \in FindingRecords
      <3> HIDE DEF own
      <3> QED
        BY <1>3, <1>6, QuantifiedFields
    <2> HIDE DEF r, q, own
    <2>3. r \in EntryAccs
      <3>1. Append(a.done, q) \in Seq(FindingRecords)
        BY <1>1, <2>2, AppendProperties
      <3>2. a.claimed \cup own \in SUBSET Nat
        BY <1>1, <1>3
      <3> QED
        BY <1>1, <2>1, <3>1, <3>2 DEF EntryAccs
    <2> QED
      BY <1>6, <2>1, <2>3 DEF ClaimsEntries, r, q, own
  <1> QED
    BY <1>4, <1>5, <1>6

\* _reconcile_entry_grouped_result goes through the findings one by one.
LEMMA EntryFold ==
  ASSUME NEW log \in Seq(LogLines), NEW finds \in Seq(FindingRecords)
  PROVE  \E h : /\ h[0] = NoEntries
                /\ \A i \in 1 .. Len(finds) : h[i] = ClaimEntries(log, h[i - 1], finds[i])
                /\ EntriesClaimed(finds, log) = h[Len(finds)]
  <1>1. PICK n \in Nat : n = Len(finds) /\ DOMAIN finds = 1 .. n
    BY LenProperties
  <1> DEFINE step == [i \in 1 .. n |-> [a \in EntryAccs |-> ClaimEntries(log, a, finds[i])]]
             Unfolds(h) == h = [s \in SUBSET (1 .. n) |->
                 IF s = {} THEN NoEntries ELSE ClaimEntries(log, h[s \ {Max(s)}], finds[Max(s)])]
             it == CHOOSE h : Unfolds(h)
  <1>2. \A i \in 1 .. n : finds[i] \in FindingRecords
    BY <1>1, ElementOfSeq
  <1>3. \A i \in 1 .. n : \A a \in EntryAccs : step[i][a] \in EntryAccs
    BY <1>2, ClaimEntriesStep DEF ClaimsEntries
  <1>4. NoEntries \in EntryAccs
    BY DEF NoEntries, EntryAccs
  <1>5. PICK g \in [SUBSET (1 .. n) -> EntryAccs] : Iterates(g, step, NoEntries, n)
    <2> HIDE DEF step
    <2> QED
      BY <1>3, <1>4, IterationExists
  <1>6. Unfolds(g)
    <2>1. ASSUME NEW s \in SUBSET (1 .. n), s # {}
          PROVE  step[Max(s)][g[s \ {Max(s)}]]
                   = ClaimEntries(log, g[s \ {Max(s)}], finds[Max(s)])
      <3>1. Max(s) \in 1 .. n
        BY <2>1, IdsFinite, MaxIsUpper
      <3> QED
        BY <3>1, <1>5
    <2> HIDE DEF step
    <2> QED
      BY <1>5, <2>1 DEF Iterates
  <1>7. Unfolds(it)
    <2> HIDE DEF Unfolds
    <2> QED
      BY <1>6
  <1>8. EntriesClaimed(finds, log) = it[1 .. n]
    BY <1>1 DEF EntriesClaimed, NoEntries, FoldLeft, MapThenFoldSet
  <1> HIDE DEF it
  <1> DEFINE h == [i \in 0 .. n |-> it[1 .. i]]
  <1>9. h[0] = NoEntries
    BY <1>7
  <1>10. ASSUME NEW i \in 1 .. n
         PROVE  h[i] = ClaimEntries(log, h[i - 1], finds[i])
    <2>1. 1 .. i \in SUBSET (1 .. n) /\ i \in Nat \ {0}
      OBVIOUS
    <2>2. Max(1 .. i) = i /\ (1 .. i) \ {i} = 1 .. (i - 1) /\ 1 .. i # {}
      BY <2>1, LastPosition
    <2>3. it[1 .. i] = ClaimEntries(log, it[1 .. (i - 1)], finds[i])
      BY <1>7, <2>1, <2>2
    <2> QED
      BY <2>3
  <1>11. EntriesClaimed(finds, log) = h[n]
    BY <1>8
  <1> HIDE DEF h
  <1> QED
    BY <1>1, <1>9, <1>10, <1>11

\* Findings that share out a set of entries: what a finding cites is all there is
\* of its families, and nothing is cited twice.
Accounted(log, finds, claimed) ==
    /\ claimed \subseteq DOMAIN log
    /\ Expanded(log, claimed) = claimed
    /\ \A k \in DOMAIN finds : finds[k].cites =>
         finds[k].entries \subseteq claimed /\ (finds[k].entries = {} \/ Settled(log, finds[k]))
    /\ \A j, k \in DOMAIN finds : j # k /\ finds[j].cites /\ finds[k].cites =>
         finds[j].entries \cap finds[k].entries = {}
    /\ \A e \in claimed : \E k \in DOMAIN finds : finds[k].cites /\ e \in finds[k].entries

\* No findings account for no entries.
LEMMA NoneAccounted ==
  ASSUME NEW log
  PROVE  Accounted(log, <<>>, {})
  <1>1. DOMAIN <<>> = {}
    OBVIOUS
  <1> QED
    BY <1>1 DEF Accounted, Expanded

\* One finding accounts for its own entries, or, when it cites none, for none.
LEMMA OneAccounted ==
  ASSUME NEW log, NEW f, NEW own \in SUBSET DOMAIN log, Expanded(log, own) = own,
         f.cites => f.entries = own /\ (own = {} \/ Settled(log, f)),
         ~f.cites => own = {}
  PROVE  Accounted(log, <<f>>, own)
  <1>1. DOMAIN <<f>> = {1} /\ <<f>>[1] = f
    OBVIOUS
  <1> QED
    BY <1>1 DEF Accounted

\* Of two sequences of findings each accounts for its own.
LEMMA BothAccounted ==
  ASSUME NEW log, NEW T, NEW s \in Seq(T), NEW t \in Seq(T), NEW C, NEW D,
         Accounted(log, s, C), Accounted(log, t, D), C \cap D = {}
  PROVE  Accounted(log, s \o t, C \cup D)
  <1>1. PICK m \in Nat : m = Len(s) /\ DOMAIN s = 1 .. m
    BY LenProperties
  <1>2. PICK n \in Nat : n = Len(t) /\ DOMAIN t = 1 .. n
    BY LenProperties
  <1>3. PICK u : u = s \o t
    OBVIOUS
  <1>4. /\ DOMAIN u = 1 .. (m + n)
        /\ \A i \in 1 .. m : u[i] = s[i]
        /\ \A i \in 1 .. n : u[m + i] = t[i]
    <2>1. u \in Seq(T) /\ Len(u) = m + n
      BY <1>1, <1>2, <1>3, ConcatProperties
    <2>2. DOMAIN u = 1 .. (m + n)
      BY <2>1, LenProperties
    <2>3. \A i \in 1 .. (m + n) : u[i] = IF i <= m THEN s[i] ELSE t[i - m]
      BY <1>1, <1>2, <1>3, ConcatProperties
    <2>4. ASSUME NEW i \in 1 .. m
          PROVE  u[i] = s[i]
      BY <2>3
    <2>5. ASSUME NEW i \in 1 .. n
          PROVE  u[m + i] = t[i]
      <3>1. m + i \in 1 .. (m + n) /\ ~(m + i <= m) /\ (m + i) - m = i
        OBVIOUS
      <3> QED
        BY <2>3, <3>1
    <2> QED
      BY <2>2, <2>4, <2>5
  <1>5. ASSUME NEW k \in 1 .. (m + n)
        PROVE  \/ \E i \in 1 .. m : k = i /\ u[k] = s[i]
               \/ \E i \in 1 .. n : k = m + i /\ u[k] = t[i]
    <2>1. CASE k <= m
      BY <1>4, <2>1
    <2>2. CASE ~(k <= m)
      <3>1. k - m \in 1 .. n /\ k = m + (k - m)
        BY <2>2
      <3> QED
        BY <1>4, <3>1
    <2> QED
      BY <2>1, <2>2
  <1>6. C \cup D \subseteq DOMAIN log /\ Expanded(log, C \cup D) = C \cup D
    BY DEF Accounted, Expanded
  <1>7. ASSUME NEW k \in 1 .. (m + n), u[k].cites
        PROVE  /\ u[k].entries \subseteq C \cup D
               /\ u[k].entries = {} \/ Settled(log, u[k])
    BY <1>1, <1>2, <1>5, <1>7 DEF Accounted
  <1>8. ASSUME NEW j \in 1 .. (m + n), NEW k \in 1 .. (m + n), j # k, u[j].cites, u[k].cites
        PROVE  u[j].entries \cap u[k].entries = {}
    <2>1. CASE \E i \in 1 .. m : j = i /\ u[j] = s[i]
      <3>1. u[j].entries \subseteq C
        BY <1>1, <1>8, <2>1 DEF Accounted
      <3>2. CASE \E i \in 1 .. m : k = i /\ u[k] = s[i]
        BY <1>1, <1>8, <2>1, <3>2 DEF Accounted
      <3>3. CASE \E i \in 1 .. n : k = m + i /\ u[k] = t[i]
        <4>1. u[k].entries \subseteq D
          BY <1>2, <1>8, <3>3 DEF Accounted
        <4> QED
          BY <3>1, <4>1
      <3> QED
        BY <1>5, <3>2, <3>3
    <2>2. CASE \E i \in 1 .. n : j = m + i /\ u[j] = t[i]
      <3>1. u[j].entries \subseteq D
        BY <1>2, <1>8, <2>2 DEF Accounted
      <3>2. CASE \E i \in 1 .. m : k = i /\ u[k] = s[i]
        <4>1. u[k].entries \subseteq C
          BY <1>1, <1>8, <3>2 DEF Accounted
        <4> QED
          BY <3>1, <4>1
      <3>3. CASE \E i \in 1 .. n : k = m + i /\ u[k] = t[i]
        <4>1. PICK i \in 1 .. n : j = m + i /\ u[j] = t[i]
          BY <2>2
        <4>2. PICK l \in 1 .. n : k = m + l /\ u[k] = t[l]
          BY <3>3
        <4>3. i # l
          BY <1>8, <4>1, <4>2
        <4> QED
          BY <1>2, <1>8, <4>1, <4>2, <4>3 DEF Accounted
      <3> QED
        BY <1>5, <3>2, <3>3
    <2> QED
      BY <1>5, <2>1, <2>2
  <1>9. ASSUME NEW e \in C \cup D
        PROVE  \E k \in 1 .. (m + n) : u[k].cites /\ e \in u[k].entries
    <2>1. CASE e \in C
      <3>1. PICK i \in 1 .. m : s[i].cites /\ e \in s[i].entries
        BY <1>1, <2>1 DEF Accounted
      <3>2. i \in 1 .. (m + n)
        OBVIOUS
      <3> QED
        BY <1>4, <3>1, <3>2
    <2>2. CASE e \in D
      <3>1. PICK i \in 1 .. n : t[i].cites /\ e \in t[i].entries
        BY <1>2, <2>2 DEF Accounted
      <3>2. m + i \in 1 .. (m + n)
        OBVIOUS
      <3> QED
        BY <1>4, <3>1, <3>2
    <2> QED
      BY <2>1, <2>2
  <1> QED
    BY <1>3, <1>4, <1>6, <1>7, <1>8, <1>9 DEF Accounted

\* A finding is not misassigned and takes its own entries: it is settled, or it
\* cites nothing.
LEMMA ClaimedEntriesSettle ==
  ASSUME NEW log \in Seq(LogLines), NEW a \in EntryAccs, NEW f \in FindingRecords, f.cites,
         a.claimed \subseteq DOMAIN log, Expanded(log, a.claimed) = a.claimed,
         ~Misassigned(log, a.claimed, f), NEW own, own = Own(log, a, f), NEW q,
         q = Quantified(f, own, log)
  PROVE  /\ q \in FindingRecords /\ q.cites
         /\ own \subseteq DOMAIN log /\ own \cap a.claimed = {} /\ Expanded(log, own) = own
         /\ q.entries = own /\ (own = {} \/ Settled(log, q))
  <1>1. own \in SUBSET DOMAIN log /\ own \cap a.claimed = {}
    BY DEF Own, Expanded
  <1>2. Expanded(log, own) = own
    BY DEF Own, Expanded
  <1>3. f.entries \subseteq own
    <2>1. f.entries \subseteq DOMAIN log \ a.claimed
      BY DEF Misassigned
    <2> QED
      BY <2>1 DEF Own, Expanded
  <1>4. /\ q \in FindingRecords /\ q.id = f.id /\ q.cites
        /\ own # {} => /\ q.entries = own
                       /\ q.pids = {_semantic_pattern_id(f.id)}
                       /\ q.count = Cardinality(own)
                       /\ q.occurrences = _occurrence_count(log, own)
        /\ own = {} => q.entries = f.entries
    BY <1>1, QuantifiedFields
  <1>5. q.entries = own
    BY <1>3, <1>4
  <1>6. own # {} => Settled(log, q)
    BY <1>1, <1>2, <1>4 DEF Settled
  <1> QED
    BY <1>1, <1>2, <1>4, <1>5, <1>6

\* After i findings: as many were written, and while nothing went wrong they account
\* for what is claimed and cite entries where the answer did.
EntryInv(log, finds, a, i) ==
    /\ a \in EntryAccs
    /\ Len(a.done) = i
    /\ ~a.error => /\ Accounted(log, a.done, a.claimed)
                   /\ \A k \in 1 .. i : a.done[k].cites <=> finds[k].cites

\* Each step of the loop accounts for what it takes.
LEMMA EntryInvStep ==
  ASSUME NEW log \in Seq(LogLines), NEW finds \in Seq(FindingRecords),
         NEW i \in 1 .. Len(finds), NEW a, EntryInv(log, finds, a, i - 1)
  PROVE  EntryInv(log, finds, ClaimEntries(log, a, finds[i]), i)
  <1>1. PICK f \in FindingRecords : f = finds[i]
    BY ElementOfSeq
  <1>2. PICK r : r = ClaimEntries(log, a, f)
    OBVIOUS
  <1>3. i \in Nat \ {0} /\ a \in EntryAccs
    BY LenProperties DEF EntryInv
  <1>4. PICK done \in Seq(FindingRecords) : done = a.done
    BY <1>3 DEF EntryAccs
  <1>5. Len(done) = i - 1 /\ DOMAIN done = 1 .. (i - 1)
    BY <1>3, <1>4, LenProperties DEF EntryInv
  <1>6. ClaimsEntries(log, a, f, r)
    BY <1>2, <1>3, ClaimEntriesStep
  <1>7. \E q \in FindingRecords :
           /\ r.done = Append(done, q)
           /\ ~r.error => (q.cites <=> f.cites) /\ Accounted(log, r.done, r.claimed)
    <2>1. CASE a.error \/ (f.cites /\ Misassigned(log, a.claimed, f))
      <3>1. r.error
        BY <1>6, <2>1 DEF ClaimsEntries
      <3>2. r.done = Append(done, f)
        <4>1. CASE a.error
          BY <1>2, <1>3, <1>4, <4>1 DEF ClaimEntries, EntryAccs
        <4>2. CASE ~a.error
          BY <1>2, <1>3, <1>4, <2>1, <4>2 DEF ClaimEntries, EntryAccs
        <4> QED
          BY <4>1, <4>2
      <3> QED
        BY <3>1, <3>2
    <2>2. CASE ~a.error /\ ~f.cites
      <3>1. r.done = Append(done, f) /\ r.claimed = a.claimed
        BY <1>4, <1>6, <2>2 DEF ClaimsEntries
      <3>2. Append(done, f) = done \o <<f>>
        BY <1>4, AppendIsConcat
      <3>3. Accounted(log, <<f>>, {})
        <4>1. Expanded(log, {}) = {}
          BY DEF Expanded
        <4> QED
          BY <2>2, <4>1, OneAccounted
      <3>4. <<f>> \in Seq(FindingRecords)
        OBVIOUS
      <3>5. Accounted(log, done, a.claimed)
        BY <1>4, <2>2 DEF EntryInv
      <3>6. Accounted(log, done \o <<f>>, a.claimed \cup {})
        BY <3>3, <3>4, <3>5, BothAccounted
      <3>7. a.claimed \cup {} = a.claimed
        OBVIOUS
      <3> QED
        BY <3>1, <3>2, <3>6, <3>7
    <2>3. CASE ~a.error /\ f.cites /\ ~Misassigned(log, a.claimed, f)
      <3>1. PICK own : own = Own(log, a, f)
        OBVIOUS
      <3>2. PICK q : q = Quantified(f, own, log)
        OBVIOUS
      <3>3. r.done = Append(done, q) /\ r.claimed = a.claimed \cup own
        BY <1>4, <1>6, <2>3, <3>1, <3>2 DEF ClaimsEntries
      <3>4. Accounted(log, done, a.claimed)
        BY <1>4, <2>3 DEF EntryInv
      <3>5. a.claimed \subseteq DOMAIN log /\ Expanded(log, a.claimed) = a.claimed
        BY <3>4 DEF Accounted
      <3>6. /\ q \in FindingRecords /\ q.cites
            /\ own \subseteq DOMAIN log /\ own \cap a.claimed = {} /\ Expanded(log, own) = own
            /\ q.entries = own /\ (own = {} \/ Settled(log, q))
        BY <1>3, <2>3, <3>1, <3>2, <3>5, ClaimedEntriesSettle
      <3>7. Append(done, q) = done \o <<q>>
        BY <1>4, <3>6, AppendIsConcat
      <3>8. <<q>> \in Seq(FindingRecords)
        BY <3>6
      <3>9. Accounted(log, <<q>>, own)
        BY <3>6, OneAccounted
      <3>10. a.claimed \cap own = {}
        BY <3>6
      <3>11. Accounted(log, done \o <<q>>, a.claimed \cup own)
        BY <3>4, <3>8, <3>9, <3>10, BothAccounted
      <3> QED
        BY <2>3, <3>3, <3>6, <3>7, <3>11
    <2> QED
      BY <2>1, <2>2, <2>3
  <1>8. PICK q \in FindingRecords :
           /\ r.done = Append(done, q)
           /\ ~r.error => (q.cites <=> f.cites) /\ Accounted(log, r.done, r.claimed)
    BY <1>7
  <1>9. r \in EntryAccs /\ Len(r.done) = i
    <2>1. Len(Append(done, q)) = (i - 1) + 1
      BY <1>5, AppendProperties
    <2> QED
      BY <1>3, <1>6, <1>8, <2>1 DEF ClaimsEntries
  <1>10. ASSUME ~r.error, NEW k \in 1 .. i
         PROVE  r.done[k].cites <=> finds[k].cites
    <2>1. CASE k = i
      <3>1. Append(done, q)[(i - 1) + 1] = q
        BY <1>5, AppendProperties
      <3>2. (i - 1) + 1 = i
        BY <1>3
      <3>3. r.done[k] = q
        BY <1>8, <2>1, <3>1, <3>2
      <3>4. q.cites <=> f.cites
        BY <1>8, <1>10
      <3> QED
        BY <1>1, <2>1, <3>3, <3>4
    <2>2. CASE k # i
      <3>1. k \in 1 .. (i - 1)
        BY <1>3, <2>2
      <3>2. Append(done, q)[k] = done[k]
        BY <1>5, <3>1, AppendProperties
      <3>3. ~a.error
        BY <1>6, <1>10 DEF ClaimsEntries
      <3> QED
        BY <1>4, <1>8, <3>1, <3>2, <3>3 DEF EntryInv
    <2> QED
      BY <2>1, <2>2
  <1> QED
    BY <1>1, <1>2, <1>8, <1>9, <1>10 DEF EntryInv

\* So does the whole loop.
LEMMA EntriesAreClaimed ==
  ASSUME NEW log \in Seq(LogLines), NEW finds \in Seq(FindingRecords)
  PROVE  EntryInv(log, finds, EntriesClaimed(finds, log), Len(finds))
  <1>1. PICK n \in Nat : n = Len(finds)
    BY LenProperties
  <1>2. PICK h : /\ h[0] = NoEntries
                 /\ \A i \in 1 .. n : h[i] = ClaimEntries(log, h[i - 1], finds[i])
                 /\ EntriesClaimed(finds, log) = h[n]
    BY <1>1, EntryFold
  <1> DEFINE Holding == {i \in Nat : i <= n => EntryInv(log, finds, h[i], i)}
  <1>3. 0 \in Holding
    <2>1. EntryInv(log, finds, NoEntries, 0)
      <3>1. NoEntries \in EntryAccs /\ NoEntries.done = <<>> /\ NoEntries.claimed = {}
        BY DEF NoEntries, EntryAccs
      <3> QED
        BY <3>1, NoneAccounted DEF EntryInv
    <2> QED
      BY <1>2, <2>1
  <1>4. ASSUME NEW i \in Nat, i \in Holding
        PROVE  i + 1 \in Holding
    <2> SUFFICES ASSUME i + 1 <= n
                 PROVE  EntryInv(log, finds, h[i + 1], i + 1)
      OBVIOUS
    <2>1. i + 1 \in 1 .. n /\ (i + 1) - 1 = i
      BY <1>1
    <2>2. EntryInv(log, finds, h[(i + 1) - 1], (i + 1) - 1)
      BY <1>1, <1>4, <2>1
    <2>3. EntryInv(log, finds, ClaimEntries(log, h[(i + 1) - 1], finds[i + 1]), i + 1)
      BY <1>1, <2>1, <2>2, EntryInvStep
    <2> QED
      BY <1>2, <2>1, <2>3
  <1>5. \A i \in Nat : i \in Holding
    <2> HIDE DEF Holding
    <2> QED
      BY <1>3, <1>4, EachNumber
  <1> QED
    BY <1>1, <1>2, <1>5

\* A finding that the application adds has what it was made of.
LEMMA AddedIsSettled ==
  ASSUME NEW log \in Seq(LogLines), NEW S \in SUBSET DOMAIN log, S # {},
         Expanded(log, S) = S, NEW id \in Nat, NEW f,
         f = Finding(id, "secondary", S, {_semantic_pattern_id(id)}, log)
  PROVE  f \in FindingRecords /\ f.cites /\ f.entries = S /\ Settled(log, f)
  <1>1. {_semantic_pattern_id(id)} \in SUBSET Int
    BY DEF _semantic_pattern_id
  <1>2. f \in FindingRecords
    BY <1>1, FindingType
  <1> QED
    BY <1>2 DEF Finding, Settled

\* The families of some entries are finitely many numbers.
LEMMA FamiliesFinite ==
  ASSUME NEW log \in Seq(LogLines), NEW S \in SUBSET DOMAIN log
  PROVE  LET F == {log[e].family : e \in S} IN IsFiniteSet(F) /\ F \subseteq Nat
  <1> DEFINE F == {log[e].family : e \in S}
             f == [e \in S |-> log[e].family]
  <1>1. f \in Surjection(S, F)
    BY DEF Surjection
  <1>2. F \subseteq Nat
    <2>1. \A e \in S : log[e] \in LogLines
      BY LenProperties, ElementOfSeq
    <2> QED
      BY <2>1 DEF LogLines
  <1> HIDE DEF F, f
  <1>3. IsFiniteSet(F)
    BY <1>1, EntriesFinite, FS_Surjection
  <1> QED
    BY <1>2, <1>3 DEF F

\* Leftovers accounts for what no finding took.
LEMMA LeftoversAccount ==
  ASSUME NEW log \in Seq(LogLines), NEW U \in SUBSET DOMAIN log, Expanded(log, U) = U
  PROVE  Leftovers(log, U) \in Seq(FindingRecords) /\ Accounted(log, Leftovers(log, U), U)
  <1> DEFINE known == {log[e].family : e \in U} \cap Recoverable
             families == Ascending(known)
             n == Cardinality(known)
             rest == {e \in U : log[e].family \notin known}
             of(k) == {e \in U : log[e].family = families[k]}
             add(id, S) == Finding(id, "secondary", S, {_semantic_pattern_id(id)}, log)
             first == [k \in 1 .. n |-> add(RecoveredId(families[k]), of(k))]
             last == IF rest = {} THEN <<>> ELSE <<add(OtherActivityId, rest)>>
  <1>1. Leftovers(log, U) = first \o last
    BY DEF Leftovers
  <1>2. IsFiniteSet(known) /\ known \in SUBSET Nat
    BY FamiliesFinite, FS_Subset
  <1>3. n \in Nat
    BY <1>2, FS_CardinalityType
  <1>4. /\ families \in [1 .. n -> known]
        /\ \A i, j \in 1 .. n : families[i] = families[j] => i = j
        /\ \A x \in known : \E i \in 1 .. n : families[i] = x
    <2> HIDE DEF known
    <2> QED
      BY <1>2, AscendingLists
  <1>5. ASSUME NEW k \in 1 .. n
        PROVE  /\ of(k) \in SUBSET DOMAIN log /\ of(k) # {} /\ Expanded(log, of(k)) = of(k)
               /\ RecoveredId(families[k]) \in Nat
    <2>1. families[k] \in known
      BY <1>4
    <2>2. families[k] \in Nat
      BY <1>2, <2>1
    <2>3. of(k) # {}
      BY <2>1
    <2> HIDE DEF families, n
    <2>4. Expanded(log, of(k)) = of(k)
      BY DEF Expanded
    <2> QED
      BY <2>2, <2>3, <2>4 DEF RecoveredId
  <1>6. \A c \in U, e \in DOMAIN log : log[c].family = log[e].family => e \in U
    BY DEF Expanded
  <1> HIDE DEF families, n, last
  <1>7. ASSUME NEW k \in 1 .. n
        PROVE  /\ first[k] \in FindingRecords /\ first[k].cites /\ first[k].entries = of(k)
               /\ Settled(log, first[k])
    <2> HIDE DEF of
    <2>1. first[k] = add(RecoveredId(families[k]), of(k))
      OBVIOUS
    <2> HIDE DEF first
    <2> QED
      BY <1>5, <2>1, AddedIsSettled
  <1>8. first \in Seq(FindingRecords) /\ DOMAIN first = 1 .. n
    <2>1. DOMAIN first = 1 .. n /\ first = [k \in 1 .. n |-> first[k]]
      OBVIOUS
    <2> HIDE DEF first
    <2>2. first \in [1 .. n -> FindingRecords]
      BY <1>7, <2>1
    <2> QED
      BY <1>3, <2>1, <2>2, SeqDef
  <1> DEFINE some == U \ rest
  <1> HIDE DEF first
  <1>9. Accounted(log, first, some)
    <2>1. some \subseteq DOMAIN log /\ Expanded(log, some) = some
      <3> HIDE DEF known
      <3> QED
        BY <1>6, SMTT(20) DEF Expanded
    <2>2. \A k \in 1 .. n : of(k) \subseteq some
      BY <1>4
    <2>3. \A j, k \in 1 .. n : j # k => of(j) \cap of(k) = {}
      BY <1>4
    <2>4. \A e \in some : \E k \in 1 .. n : e \in of(k)
      BY <1>4
    <2> HIDE DEF of, some
    <2> QED
      BY <1>7, <1>8, <2>1, <2>2, <2>3, <2>4 DEF Accounted
  <1>10. last \in Seq(FindingRecords) /\ Accounted(log, last, rest)
    <2>1. CASE rest = {}
      <3>1. last = <<>>
        BY <2>1 DEF last
      <3> HIDE DEF rest
      <3> QED
        BY <2>1, <3>1, NoneAccounted
    <2>2. CASE rest # {}
      <3>1. rest \in SUBSET DOMAIN log /\ Expanded(log, rest) = rest
        <4> HIDE DEF known
        <4> QED
          BY <1>6, SMTT(20) DEF Expanded
      <3>2. OtherActivityId \in Nat
        BY DEF OtherActivityId
      <3>3. last = <<add(OtherActivityId, rest)>>
        BY <2>2 DEF last
      <3> HIDE DEF rest
      <3>4. PICK f : f = add(OtherActivityId, rest)
        OBVIOUS
      <3>5. f \in FindingRecords /\ f.cites /\ f.entries = rest /\ Settled(log, f)
        BY <2>2, <3>1, <3>2, <3>4, AddedIsSettled
      <3>6. <<f>> \in Seq(FindingRecords)
        BY <3>5
      <3>7. Accounted(log, <<f>>, rest)
        BY <3>1, <3>5, OneAccounted
      <3> QED
        BY <3>3, <3>4, <3>6, <3>7
    <2> QED
      BY <2>1, <2>2
  <1>11. some \cap rest = {} /\ some \cup rest = U
    OBVIOUS
  <1> HIDE DEF some, rest
  <1>12. Accounted(log, first \o last, U)
    BY <1>8, <1>9, <1>10, <1>11, BothAccounted
  <1>13. first \o last \in Seq(FindingRecords)
    BY <1>8, <1>10, ConcatProperties
  <1> QED
    BY <1>1, <1>12, <1>13

\* _reconcile_entry_grouped_result: the answer keeps its shape, and a result
\* accounts for every line of the log.
LEMMA EntryPath ==
  ASSUME NEW log \in Seq(LogLines), NEW finds \in Seq(FindingRecords), NEW res,
         res = _reconcile_entry_grouped_result(finds, log)
  PROVE  /\ res.finds \in Seq(FindingRecords) /\ res.left = res.finds
         /\ res.outcome = "ok" =>
              /\ Accounted(log, res.finds, DOMAIN log)
              /\ \A k \in DOMAIN finds : finds[k].cites =>
                    \E j \in DOMAIN res.finds : res.finds[j].cites
  <1>1. PICK a : a = EntriesClaimed(finds, log)
    OBVIOUS
  <1>2. EntryInv(log, finds, a, Len(finds))
    BY <1>1, EntriesAreClaimed
  <1>3. a \in EntryAccs /\ Len(a.done) = Len(finds)
    BY <1>2 DEF EntryInv
  <1>4. PICK done \in Seq(FindingRecords) : done = a.done
    BY <1>3 DEF EntryAccs
  <1>5. PICK U : U = DOMAIN log \ a.claimed
    OBVIOUS
  <1>6. PICK more : more = Leftovers(log, U)
    OBVIOUS
  <1>7. res = IF a.error
              THEN [outcome |-> "value_error", finds |-> done, left |-> done]
              ELSE [outcome |-> "ok", finds |-> done \o more, left |-> done \o more]
    BY <1>1, <1>4, <1>5, <1>6 DEF _reconcile_entry_grouped_result, AfterEntries
  <1>8. CASE a.error
    BY <1>7, <1>8
  <1>9. CASE ~a.error
    <2>1. Accounted(log, done, a.claimed)
      BY <1>2, <1>4, <1>9 DEF EntryInv
    <2>2. U \in SUBSET DOMAIN log /\ Expanded(log, U) = U
      BY <1>5, <2>1 DEF Accounted, Expanded
    <2>3. more \in Seq(FindingRecords) /\ Accounted(log, more, U)
      BY <1>6, <2>2, LeftoversAccount
    <2>4. a.claimed \cap U = {} /\ a.claimed \cup U = DOMAIN log
      BY <1>5, <2>1 DEF Accounted
    <2>5. Accounted(log, done \o more, DOMAIN log)
      BY <2>1, <2>3, <2>4, BothAccounted
    <2>6. done \o more \in Seq(FindingRecords)
      BY <2>3, ConcatProperties
    <2>7. ASSUME NEW k \in DOMAIN finds, finds[k].cites
          PROVE  \E j \in DOMAIN (done \o more) : (done \o more)[j].cites
      <3>1. PICK m \in Nat : m = Len(done) /\ DOMAIN finds = 1 .. m
        BY <1>3, <1>4, LenProperties
      <3>2. PICK n \in Nat : n = Len(more)
        BY <2>3, LenProperties
      <3>3. done[k].cites
        BY <1>2, <1>3, <1>4, <1>9, <2>7, <3>1 DEF EntryInv
      <3>4. Len(done \o more) = m + n /\ k \in 1 .. (m + n) /\ k <= m
        BY <2>3, <3>1, <3>2, ConcatProperties
      <3>5. DOMAIN (done \o more) = 1 .. (m + n)
        BY <2>6, <3>4, LenProperties
      <3>6. (done \o more)[k] = done[k]
        BY <2>3, <3>1, <3>2, <3>4, ConcatProperties
      <3> QED
        BY <3>3, <3>4, <3>5, <3>6
    <2>8. PICK all : all = done \o more
      OBVIOUS
    <2>9. res = [outcome |-> "ok", finds |-> all, left |-> all]
      BY <1>7, <1>9, <2>8
    <2>10. res.finds = all /\ res.left = all
      BY <2>9
    <2>11. \A k \in DOMAIN finds : finds[k].cites => \E j \in DOMAIN all : all[j].cites
      BY <2>7, <2>8
    <2> QED
      BY <2>5, <2>6, <2>8, <2>10, <2>11
  <1> QED
    BY <1>8, <1>9

\* A settled finding whose entries nobody has yet is left as it is.
LEMMA SettledStays ==
  ASSUME NEW log \in Seq(LogLines), NEW a \in EntryAccs, NEW f \in FindingRecords,
         Settled(log, f), f.entries \cap a.claimed = {}
  PROVE  ~Misassigned(log, a.claimed, f) /\ Own(log, a, f) = f.entries
         /\ Quantified(f, f.entries, log) = f
  <1>1. ~Misassigned(log, a.claimed, f)
    BY DEF Settled, Misassigned
  <1>2. Own(log, a, f) = f.entries
    BY DEF Settled, Own
  <1>3. PICK S \in SUBSET DOMAIN log : S = f.entries /\ S # {}
    BY DEF Settled
  <1>4. PICK q : q = Quantified(f, S, log)
    OBVIOUS
  <1>5. f.cites /\ f.cites \in BOOLEAN
    BY DEF Settled, FindingRecords
  <1>6. /\ q \in FindingRecords
        /\ q.id = f.id /\ q.group = f.group /\ q.cites /\ q.detail = f.detail
        /\ q.hints = f.hints /\ q.entries = S /\ q.pids = {_semantic_pattern_id(f.id)}
        /\ q.count = Cardinality(S) /\ q.occurrences = _occurrence_count(log, S)
    BY <1>3, <1>4, <1>5, QuantifiedFields
  <1>7. q.entries = f.entries /\ q.pids = f.pids /\ q.count = f.count
        /\ q.occurrences = f.occurrences
    BY <1>3, <1>6 DEF Settled
  <1>8. q.cites = f.cites
    BY <1>5, <1>6 DEF FindingRecords
  <1>9. q = f
    BY <1>6, <1>7, <1>8 DEF FindingRecords
  <1> QED
    BY <1>1, <1>2, <1>3, <1>4, <1>9

\* The entries that the first i findings cite.
CitedBy(log, finds, i) ==
    {e \in DOMAIN log : \E k \in 1 .. i : finds[k].cites /\ e \in finds[k].entries}

\* After i findings that account for the log: they are what was written.
SameSoFar(log, finds, a, i) ==
    /\ a \in EntryAccs
    /\ ~a.error
    /\ Len(a.done) = i
    /\ \A k \in 1 .. i : a.done[k] = finds[k]
    /\ a.claimed = CitedBy(log, finds, i)

\* Reconciling what was reconciled changes nothing.
LEMMA EntryPathAgain ==
  ASSUME NEW log \in Seq(LogLines), NEW finds \in Seq(FindingRecords),
         Accounted(log, finds, DOMAIN log),
         \A k \in DOMAIN finds : finds[k].cites => finds[k].entries # {}
  PROVE  _reconcile_entry_grouped_result(finds, log)
           = [outcome |-> "ok", finds |-> finds, left |-> finds]
  <1>1. PICK n \in Nat : n = Len(finds) /\ DOMAIN finds = 1 .. n
    BY LenProperties
  <1>2. PICK h : /\ h[0] = NoEntries
                 /\ \A i \in 1 .. n : h[i] = ClaimEntries(log, h[i - 1], finds[i])
                 /\ EntriesClaimed(finds, log) = h[n]
    BY <1>1, EntryFold
  <1> DEFINE Holding == {i \in Nat : i <= n => SameSoFar(log, finds, h[i], i)}
  <1>3. 0 \in Holding
    <2>1. NoEntries \in EntryAccs /\ NoEntries.done = <<>> /\ NoEntries.claimed = {}
          /\ ~NoEntries.error
      BY DEF NoEntries, EntryAccs
    <2>2. CitedBy(log, finds, 0) = {}
      BY DEF CitedBy
    <2>3. SameSoFar(log, finds, NoEntries, 0)
      BY <2>1, <2>2 DEF SameSoFar
    <2> QED
      BY <1>2, <2>3
  <1>4. ASSUME NEW i \in 1 .. n, NEW a, SameSoFar(log, finds, a, i - 1), NEW r,
               r = ClaimEntries(log, a, finds[i])
        PROVE  SameSoFar(log, finds, r, i)
    <2>1. PICK f \in FindingRecords : f = finds[i]
      BY <1>1, ElementOfSeq
    <2>2. a \in EntryAccs /\ ~a.error
      BY <1>4 DEF SameSoFar
    <2>3. ClaimsEntries(log, a, f, r)
      BY <1>4, <2>1, <2>2, ClaimEntriesStep
    <2>4. /\ i \in 1 .. i /\ i \in Nat \ {0} /\ i - 1 \in Nat
          /\ \A k \in 1 .. i : k = i \/ k \in 1 .. (i - 1)
      BY <1>1
    <2>5. \A k \in 1 .. (i - 1) : k \in 1 .. i /\ k # i /\ k \in DOMAIN finds
      BY <1>1
    <2>6. r.done = Append(a.done, f) /\ ~r.error /\ r.claimed = CitedBy(log, finds, i)
      <3>1. CASE ~f.cites
        <4>1. CitedBy(log, finds, i) = CitedBy(log, finds, i - 1)
          BY <2>1, <2>4, <2>5, <3>1 DEF CitedBy
        <4> QED
          BY <1>4, <2>2, <2>3, <3>1, <4>1 DEF ClaimsEntries, SameSoFar
      <3>2. CASE f.cites
        <4>1. Settled(log, f)
          BY <1>1, <2>1, <3>2 DEF Accounted
        <4>2. f.entries \cap a.claimed = {}
          <5>1. a.claimed = CitedBy(log, finds, i - 1)
            BY <1>4 DEF SameSoFar
          <5>2. \A k \in 1 .. (i - 1) : finds[k].cites => finds[k].entries \cap f.entries = {}
            BY <1>1, <2>1, <2>5, <3>2 DEF Accounted
          <5> QED
            BY <5>1, <5>2 DEF CitedBy
        <4>3. ~Misassigned(log, a.claimed, f) /\ Own(log, a, f) = f.entries
              /\ Quantified(f, f.entries, log) = f
          BY <2>2, <4>1, <4>2, SettledStays
        <4>4. r.done = Append(a.done, f) /\ ~r.error /\ r.claimed = a.claimed \cup f.entries
          BY <2>2, <2>3, <3>2, <4>3 DEF ClaimsEntries
        <4>5. CitedBy(log, finds, i) = CitedBy(log, finds, i - 1) \cup f.entries
          BY <2>1, <2>4, <2>5, <3>2, <4>1 DEF CitedBy, Settled
        <4> QED
          BY <1>4, <4>4, <4>5 DEF SameSoFar
      <3> QED
        BY <3>1, <3>2
    <2>7. PICK done \in Seq(FindingRecords) : done = a.done
      BY <2>2 DEF EntryAccs
    <2>8. Len(done) = i - 1
      BY <1>4, <2>7 DEF SameSoFar
    <2>9. Len(Append(done, f)) = i /\ Append(done, f)[i] = f
          /\ \A k \in 1 .. (i - 1) : Append(done, f)[k] = done[k]
      <3>1. (i - 1) + 1 = i
        BY <2>4
      <3> QED
        BY <2>7, <2>8, <3>1, AppendProperties
    <2>10. \A k \in 1 .. i : r.done[k] = finds[k]
      BY <1>4, <2>1, <2>4, <2>6, <2>7, <2>9 DEF SameSoFar
    <2> QED
      BY <2>3, <2>6, <2>7, <2>9, <2>10 DEF SameSoFar, ClaimsEntries
  <1>5. ASSUME NEW i \in Nat, i \in Holding
        PROVE  i + 1 \in Holding
    <2> SUFFICES ASSUME i + 1 <= n
                 PROVE  SameSoFar(log, finds, h[i + 1], i + 1)
      OBVIOUS
    <2>1. i + 1 \in 1 .. n /\ (i + 1) - 1 = i
      BY <1>1
    <2> QED
      BY <1>2, <1>4, <1>5, <2>1
  <1>6. \A i \in Nat : i \in Holding
    <2> HIDE DEF Holding
    <2> QED
      BY <1>3, <1>5, EachNumber
  <1>7. PICK a : a = EntriesClaimed(finds, log)
    OBVIOUS
  <1>8. SameSoFar(log, finds, a, n)
    BY <1>1, <1>2, <1>6, <1>7
  <1>9. a.done = finds
    <2>1. PICK done \in Seq(FindingRecords) : done = a.done
      BY <1>8 DEF SameSoFar, EntryAccs
    <2> QED
      BY <1>1, <1>8, <2>1, SeqEqual DEF SameSoFar
  <1>10. a.claimed = DOMAIN log
    BY <1>1, <1>8 DEF SameSoFar, CitedBy, Accounted
  <1>11. Leftovers(log, DOMAIN log \ a.claimed) = <<>>
    <2>1. DOMAIN log \ a.claimed = {}
      BY <1>10
    <2>2. PICK more : more = Leftovers(log, {})
      OBVIOUS
    <2>3. Expanded(log, {}) = {}
      BY DEF Expanded
    <2>4. more \in Seq(FindingRecords)
      BY <2>2, <2>3, LeftoversAccount
    <2>5. Leftovers(log, {}) = <<>>
      <3>1. {log[e].family : e \in {}} \cap Recoverable = {} /\ Cardinality({}) = 0
        BY FS_EmptySet
      <3>2. {e \in {} : log[e].family \notin {}} = {}
        OBVIOUS
      <3>3. PICK none : none = [k \in 1 .. 0 |->
                          Finding(RecoveredId(Ascending({})[k]), "secondary",
                                  {e \in {} : log[e].family = Ascending({})[k]},
                                  {_semantic_pattern_id(RecoveredId(Ascending({})[k]))}, log)]
        OBVIOUS
      <3>4. none = <<>>
        BY <3>3
      <3>5. more = none \o <<>>
        BY <2>2, <3>1, <3>2, <3>3 DEF Leftovers
      <3> QED
        BY <2>2, <3>4, <3>5
    <2> QED
      BY <2>1, <2>5
  <1>12. finds \o <<>> = finds
    BY ConcatEmptySeq
  <1> QED
    BY <1>7, <1>8, <1>9, <1>11, <1>12
       DEF _reconcile_entry_grouped_result, AfterEntries, SameSoFar

\* Of findings that account for a log, those that cite entries count its lines.
LEMMA EntriesConserved ==
  ASSUME NEW log \in Seq(LogLines), NEW finds \in Seq(FindingRecords),
         Accounted(log, finds, DOMAIN log),
         \A k \in DOMAIN finds : finds[k].cites => finds[k].entries # {}
  PROVE  /\ UNION {finds[n].entries : n \in Citing(finds)} = DOMAIN log
         /\ Total(finds, Citing(finds)) = Len(log)
  <1>1. PICK n \in Nat : n = Len(finds) /\ DOMAIN finds = 1 .. n
    BY LenProperties
  <1>2. PICK m \in Nat : m = Len(log) /\ DOMAIN log = 1 .. m
    BY LenProperties
  <1>3. PICK C : C = Citing(finds)
    OBVIOUS
  <1>4. C \in SUBSET (1 .. n) /\ \A k \in C : k \in DOMAIN finds /\ finds[k].cites
    BY <1>1, <1>3 DEF Citing
  <1>5. ASSUME NEW k \in C
        PROVE  /\ finds[k].count = Cardinality(finds[k].entries)
               /\ finds[k].entries \subseteq DOMAIN log
    BY <1>4 DEF Accounted, Settled
  <1> DEFINE lines == [k \in C |-> finds[k].entries]
  <1>6. \A k \in C : IsFiniteSet(lines[k]) /\ Cardinality(lines[k]) \in Nat
    BY <1>5, EntriesFinite
  <1>7. \A j, k \in C : j # k => lines[j] \cap lines[k] = {}
    BY <1>4 DEF Accounted
  <1>8. Apart(lines, C)
    BY <1>6, <1>7 DEF Apart
  <1>9. \A k \in C : finds[k].count = Cardinality(lines[k]) /\ finds[k].count # NoCount
    BY <1>5, <1>6 DEF NoCount
  <1>10. C = Tallied(finds, C)
    BY <1>9 DEF Tallied
  <1>11. UnionOf(lines, C) = DOMAIN log
    <2>1. \A e \in DOMAIN log : \E k \in C : e \in lines[k]
      BY <1>3 DEF Accounted, Citing
    <2>2. \A k \in C : lines[k] \subseteq DOMAIN log
      BY <1>5
    <2> HIDE DEF lines
    <2> QED
      BY <2>1, <2>2 DEF UnionOf
  <1>12. UNION {finds[k].entries : k \in C} = DOMAIN log
    BY <1>11 DEF UnionOf
  <1> HIDE DEF lines
  <1>13. IsFiniteSet(C)
    BY <1>4, IdsFinite
  <1>14. Total(finds, C) = Cardinality(UnionOf(lines, C))
    BY <1>8, <1>9, <1>10, <1>13, CountsAddUp
  <1>15. Cardinality(1 .. m) = m
    BY FS_Interval
  <1> QED
    BY <1>2, <1>3, <1>11, <1>12, <1>14, <1>15

-----------------------------------------------------------------------------
(***************************************************************************)
(* Findings that name patterns: the manifest and its counts.               *)
(***************************************************************************)

\* The lines that an entry of the manifest stands for.
LinesOf(log, p) ==
    IF p = Other THEN {e \in DOMAIN log : log[e].pattern \notin Kept(log)}
    ELSE {e \in DOMAIN log : log[e].pattern = p}

\* The patterns of a log are finitely many numbers, and none of them is Other.
LEMMA PatternsFinite ==
  ASSUME NEW log \in Seq(LogLines)
  PROVE  /\ IsFiniteSet(PatternsOf(log)) /\ PatternsOf(log) \subseteq Nat \ {Other}
         /\ Kept(log) \subseteq PatternsOf(log)
         /\ IsFiniteSet(pattern_manifest(log))
         /\ pattern_manifest(log) \subseteq Nat
         /\ pattern_manifest(log) \subseteq Kept(log) \cup {Other}
         /\ Kept(log) \subseteq pattern_manifest(log)
  <1>1. PICK S : S = DOMAIN log
    OBVIOUS
  <1> DEFINE f == [e \in S |-> log[e].pattern]
  <1>2. f \in Surjection(S, PatternsOf(log))
    BY <1>1 DEF Surjection, PatternsOf
  <1>3. IsFiniteSet(PatternsOf(log))
    <2>1. IsFiniteSet(S)
      BY <1>1, EntriesFinite
    <2> HIDE DEF f
    <2> QED
      BY <1>2, <2>1, FS_Surjection
  <1>4. PatternsOf(log) \subseteq Nat \ {Other}
    <2>1. \A e \in DOMAIN log : log[e] \in LogLines
      BY LenProperties, ElementOfSeq
    <2> QED
      BY <2>1 DEF PatternsOf, LogLines
  <1>5. Kept(log) \subseteq PatternsOf(log)
    BY DEF Kept
  <1>6. IsFiniteSet(Kept(log) \cup {Other})
    BY <1>3, <1>5, FS_Subset, FS_AddElement
  <1>7. pattern_manifest(log) \subseteq Kept(log) \cup {Other}
        /\ Kept(log) \subseteq pattern_manifest(log)
    BY DEF pattern_manifest
  <1>8. IsFiniteSet(pattern_manifest(log))
    BY <1>6, <1>7, FS_Subset
  <1>9. Other \in Nat
    BY DEF Other
  <1> QED
    BY <1>3, <1>4, <1>5, <1>7, <1>8, <1>9

\* The entries of the manifest stand for different lines, and CountOf counts them.
LEMMA ManifestApart ==
  ASSUME NEW log \in Seq(LogLines), NEW S \in SUBSET pattern_manifest(log),
         NEW lines, lines = [p \in pattern_manifest(log) |-> LinesOf(log, p)]
  PROVE  /\ IsFiniteSet(S)
         /\ Apart(lines, S)
         /\ \A p \in S : CountOf(log, p) = Cardinality(lines[p]) /\ lines[p] \subseteq DOMAIN log
  <1>1. IsFiniteSet(S)
    BY PatternsFinite, FS_Subset
  <1>2. ASSUME NEW p \in S
        PROVE  lines[p] = LinesOf(log, p) /\ lines[p] \in SUBSET DOMAIN log
    BY DEF LinesOf
  <1>3. \A p \in S : IsFiniteSet(lines[p])
    BY <1>2, EntriesFinite
  <1>4. ASSUME NEW p \in S, NEW q \in S, p # q
        PROVE  lines[p] \cap lines[q] = {}
    <2>1. (p = Other \/ p \in Kept(log)) /\ (q = Other \/ q \in Kept(log))
      BY PatternsFinite
    <2> QED
      BY <1>2, <1>4, <2>1 DEF LinesOf
  <1>5. \A p \in S : CountOf(log, p) = Cardinality(lines[p])
    BY <1>2 DEF LinesOf, CountOf, pattern_counts
  <1> QED
    BY <1>1, <1>2, <1>3, <1>4, <1>5 DEF Apart

\* The lines of some entries of the manifest.
LinesOfAll(log, pids) == UNION {LinesOf(log, p) : p \in pids}

\* SumOfCounts is the number of lines.
LEMMA SumIsLines ==
  ASSUME NEW log \in Seq(LogLines), NEW pids \in SUBSET pattern_manifest(log)
  PROVE  /\ SumOfCounts(log, pids) = Cardinality(LinesOfAll(log, pids))
         /\ LinesOfAll(log, pids) \in SUBSET DOMAIN log
         /\ SumOfCounts(log, pids) \in 0 .. Len(log)
  <1>1. PICK lines : lines = [p \in pattern_manifest(log) |-> LinesOf(log, p)]
    OBVIOUS
  <1>2. /\ IsFiniteSet(pids)
        /\ Apart(lines, pids)
        /\ \A p \in pids : CountOf(log, p) = Cardinality(lines[p])
    BY <1>1, ManifestApart
  <1>3. SumOfCounts(log, pids) = Cardinality(UnionOf(lines, pids))
    BY <1>2, PatternsAddUp
  <1>4. UnionOf(lines, pids) = LinesOfAll(log, pids)
    BY <1>1 DEF UnionOf, LinesOfAll
  <1>5. LinesOfAll(log, pids) \in SUBSET DOMAIN log
    BY DEF LinesOfAll, LinesOf
  <1>6. PICK n \in Nat : n = Len(log) /\ DOMAIN log = 1 .. n
    BY LenProperties
  <1>7. IsFiniteSet(1 .. n) /\ Cardinality(1 .. n) = n
    BY FS_Interval
  <1>8. Cardinality(LinesOfAll(log, pids)) <= n /\ Cardinality(LinesOfAll(log, pids)) \in Nat
    BY <1>5, <1>6, <1>7, FS_Subset, FS_CardinalityType
  <1> QED
    BY <1>3, <1>4, <1>5, <1>6, <1>8

\* A finding with its patterns: one that names none of the log's, or only those.
Named(log, f) == IsUnquantified(f) \/ f.pids \subseteq pattern_manifest(log)

\* Counted changes the count of such a finding only.
LEMMA CountedFields ==
  ASSUME NEW log \in Seq(LogLines), NEW f \in FindingRecords, Named(log, f)
  PROVE  LET c == Counted(log, f)
         IN /\ c \in FindingRecords
            /\ c.id = f.id /\ c.group = f.group /\ c.cites = f.cites /\ c.entries = f.entries
            /\ c.pids = f.pids /\ c.detail = f.detail /\ c.hints = f.hints
            /\ c.occurrences = f.occurrences
            /\ c.count = IF IsUnquantified(f) THEN NoCount ELSE SumOfCounts(log, f.pids)
  <1>1. PICK k \in Int : k = IF IsUnquantified(f) THEN NoCount ELSE SumOfCounts(log, f.pids)
    <2>1. CASE IsUnquantified(f)
      BY <2>1 DEF NoCount
    <2>2. CASE ~IsUnquantified(f)
      <3>1. f.pids \in SUBSET pattern_manifest(log)
        BY <2>2 DEF Named
      <3>2. SumOfCounts(log, f.pids) \in 0 .. Len(log) /\ Len(log) \in Nat
        BY <3>1, SumIsLines, LenProperties
      <3> QED
        BY <2>2, <3>2
    <2> QED
      BY <2>1, <2>2
  <1>2. Counted(log, f) = [f EXCEPT !.count = k]
    BY <1>1 DEF Counted
  <1> QED
    BY <1>1, <1>2 DEF FindingRecords

-----------------------------------------------------------------------------
(***************************************************************************)
(* ClaimPatterns                                                           *)
(***************************************************************************)

\* The accumulators of ClaimPatterns.
PatternAccs ==
    [done : Seq(FindingRecords), used : SUBSET Int, unquantified : BOOLEAN,
     outcome : {"ok", "value_error", "key_error"}]
NoPatterns == [done |-> <<>>, used |-> {}, unquantified |-> FALSE, outcome |-> "ok"]

\* The finding with the names the manifest knows, and those of them that are
\* patterns.
Renamed(log, fallback, f) ==
    [f EXCEPT !.pids = KnownIds(pattern_manifest(log), f, fallback)]
RealIds(log, fallback, f) == KnownIds(pattern_manifest(log), f, fallback) \ {Unquantified}

\* Whether the patterns of a finding are there, free and not next to "unquantified".
Claimable(log, fallback, a, f) ==
    /\ RealIds(log, fallback, f) \subseteq pattern_manifest(log) \ a.used
    /\ \/ RealIds(log, fallback, f) = {}
       \/ RealIds(log, fallback, f) = KnownIds(pattern_manifest(log), f, fallback)

\* A further unquantified finding, which the repair drops.
Superfluous(log, fallback, a, f) ==
    IsUnquantified(Renamed(log, fallback, f)) /\ a.unquantified /\ fallback

\* What Claim does with one finding.
Claims(log, fallback, a, f, r) ==
    /\ r \in PatternAccs
    /\ a.outcome # "ok" \/ ~Claimable(log, fallback, a, f) =>
         r.outcome # "ok" /\ r.done = Append(a.done, f)
    /\ a.outcome = "ok" /\ Claimable(log, fallback, a, f) =>
         /\ r.outcome = "ok"
         /\ Superfluous(log, fallback, a, f) => r = a
         /\ ~Superfluous(log, fallback, a, f) =>
              /\ r.done = Append(a.done, Counted(log, Renamed(log, fallback, f)))
              /\ r.used = a.used \cup RealIds(log, fallback, f)
              /\ r.unquantified <=> a.unquantified \/ IsUnquantified(Renamed(log, fallback, f))

\* Names are numbers, and what the manifest knows of them are still names.
LEMMA RenamedFields ==
  ASSUME NEW log \in Seq(LogLines), NEW fallback \in BOOLEAN, NEW f \in FindingRecords
  PROVE  LET g == Renamed(log, fallback, f)
         IN /\ g \in FindingRecords
            /\ g.id = f.id /\ g.group = f.group /\ g.cites = f.cites /\ g.entries = f.entries
            /\ g.detail = f.detail /\ g.hints = f.hints /\ g.occurrences = f.occurrences
            /\ g.pids = KnownIds(pattern_manifest(log), f, fallback)
            /\ g.pids \subseteq Int
  <1>1. PICK m : m = pattern_manifest(log) /\ m \subseteq Nat
    BY PatternsFinite
  <1>2. f.pids \in SUBSET Int
    BY DEF FindingRecords
  <1>3. PICK pids : pids = KnownIds(m, f, fallback)
    OBVIOUS
  <1>4. pids \in SUBSET Int
    <2>1. Unquantified \in Int
      BY DEF Unquantified
    <2> QED
      BY <1>1, <1>2, <1>3, <2>1 DEF KnownIds
  <1>5. Renamed(log, fallback, f) = [f EXCEPT !.pids = pids]
    BY <1>1, <1>3 DEF Renamed
  <1> QED
    BY <1>1, <1>3, <1>4, <1>5 DEF FindingRecords

\* A claimable finding has its patterns.
LEMMA ClaimableIsNamed ==
  ASSUME NEW log \in Seq(LogLines), NEW fallback \in BOOLEAN, NEW f \in FindingRecords,
         NEW a, Claimable(log, fallback, a, f)
  PROVE  Named(log, Renamed(log, fallback, f))
  <1>1. PICK pids : pids = KnownIds(pattern_manifest(log), f, fallback)
    OBVIOUS
  <1>2. Renamed(log, fallback, f).pids = pids
    BY <1>1, RenamedFields
  <1>3. CASE pids \ {Unquantified} = {}
    <2>1. pids = {} \/ pids = {Unquantified}
      BY <1>3
    <2> QED
      BY <1>2, <2>1 DEF Named, IsUnquantified
  <1>4. CASE pids \ {Unquantified} # {}
    BY <1>1, <1>2, <1>4 DEF Named, Claimable, RealIds
  <1> QED
    BY <1>3, <1>4

\* Claim is that step.
LEMMA ClaimStep ==
  ASSUME NEW log \in Seq(LogLines), NEW fallback \in BOOLEAN, NEW f \in FindingRecords,
         NEW a \in PatternAccs, NEW m, m = pattern_manifest(log), NEW r,
         r = Claim(log, m, fallback, a, f, KnownIds(m, f, fallback))
  PROVE  Claims(log, fallback, a, f, r)
  <1>1. PICK pids : pids = KnownIds(m, f, fallback)
    OBVIOUS
  <1>2. PICK real : real = RealIds(log, fallback, f)
    OBVIOUS
  <1>3. real = pids \ {Unquantified}
    BY <1>1, <1>2 DEF RealIds
  <1>4. /\ a.done \in Seq(FindingRecords) /\ a.used \in SUBSET Int
        /\ a.unquantified \in BOOLEAN /\ a.outcome \in {"ok", "value_error", "key_error"}
        /\ a = [done |-> a.done, used |-> a.used, unquantified |-> a.unquantified,
                outcome |-> a.outcome]
    BY DEF PatternAccs
  <1>5. Append(a.done, f) \in Seq(FindingRecords)
    BY <1>4, AppendProperties
  <1>6. Claimable(log, fallback, a, f) <=> real \subseteq m \ a.used /\ (real = {} \/ real = pids)
    BY <1>1, <1>2 DEF Claimable
  <1>7. /\ IsUnquantified(Renamed(log, fallback, f)) <=> pids = {Unquantified}
        /\ Superfluous(log, fallback, a, f) <=>
             pids = {Unquantified} /\ a.unquantified /\ fallback
    <2>1. Renamed(log, fallback, f).pids = pids
      BY <1>1, RenamedFields
    <2> QED
      BY <2>1 DEF Superfluous, IsUnquantified
  <1>8. CASE a.outcome # "ok"
    <2>1. r = [done |-> Append(a.done, f), used |-> a.used, unquantified |-> a.unquantified,
               outcome |-> a.outcome]
      BY <1>1, <1>4, <1>8 DEF Claim
    <2>2. r \in PatternAccs
      BY <1>4, <1>5, <2>1 DEF PatternAccs
    <2> QED
      BY <1>8, <2>1, <2>2 DEF Claims
  <1>9. CASE a.outcome = "ok" /\ ~(real \subseteq m \ a.used)
    <2>1. r = [done |-> Append(a.done, f), used |-> a.used, unquantified |-> a.unquantified,
               outcome |-> "value_error"]
      BY <1>1, <1>3, <1>4, <1>9 DEF Claim
    <2>2. r \in PatternAccs
      BY <1>4, <1>5, <2>1 DEF PatternAccs
    <2> QED
      BY <1>6, <1>9, <2>1, <2>2 DEF Claims
  <1>10. CASE a.outcome = "ok" /\ real \subseteq m \ a.used /\ real # {} /\ real # pids
    <2>1. r = [done |-> Append(a.done, f), used |-> a.used, unquantified |-> a.unquantified,
               outcome |-> "key_error"]
      BY <1>1, <1>3, <1>4, <1>10 DEF Claim
    <2>2. r \in PatternAccs
      BY <1>4, <1>5, <2>1 DEF PatternAccs
    <2> QED
      BY <1>6, <1>10, <2>1, <2>2 DEF Claims
  <1>11. CASE a.outcome = "ok" /\ real \subseteq m \ a.used /\ (real = {} \/ real = pids)
    <2>1. Claimable(log, fallback, a, f)
      BY <1>6, <1>11
    <2>2. CASE pids = {Unquantified} /\ a.unquantified /\ fallback
      <3>1. r = a
        BY <1>1, <1>3, <1>11, <2>2 DEF Claim
      <3> QED
        BY <1>7, <1>11, <2>1, <2>2, <3>1 DEF Claims
    <2>3. CASE ~(pids = {Unquantified} /\ a.unquantified /\ fallback)
      <3>1. PICK g : g = Renamed(log, fallback, f)
        OBVIOUS
      <3>2. PICK c : c = Counted(log, g)
        OBVIOUS
      <3>3. g \in FindingRecords
        BY <3>1, RenamedFields
      <3>4. Named(log, g)
        BY <2>1, <3>1, ClaimableIsNamed
      <3>5. c \in FindingRecords
        BY <3>2, <3>3, <3>4, CountedFields
      <3>6. g = [f EXCEPT !.pids = pids]
        BY <1>1, <3>1 DEF Renamed
      <3>7. r = [done |-> Append(a.done, c), used |-> a.used \cup real,
                 unquantified |-> a.unquantified \/ pids = {Unquantified}, outcome |-> a.outcome]
        BY <1>1, <1>3, <1>4, <1>11, <2>3, <3>2, <3>6 DEF Claim
      <3>8. Append(a.done, c) \in Seq(FindingRecords)
        BY <1>4, <3>5, AppendProperties
      <3>9. a.used \cup real \in SUBSET Int
        <4>1. pids \subseteq Int
          BY <1>1, RenamedFields
        <4> QED
          BY <1>3, <1>4, <4>1
      <3>10. r \in PatternAccs
        BY <1>4, <3>7, <3>8, <3>9 DEF PatternAccs
      <3>11. /\ r.done = Append(a.done, c) /\ r.used = a.used \cup real /\ r.outcome = "ok"
             /\ r.unquantified <=> a.unquantified \/ pids = {Unquantified}
        <4>1. PICK u : u = (a.unquantified \/ pids = {Unquantified})
          OBVIOUS
        <4>2. r.done = Append(a.done, c) /\ r.used = a.used \cup real /\ r.outcome = "ok"
              /\ r.unquantified = u
          BY <1>11, <3>7, <4>1
        <4> QED
          BY <4>1, <4>2, Zenon
      <3> QED
        BY <1>2, <1>7, <1>11, <2>1, <2>3, <3>1, <3>2, <3>10, <3>11 DEF Claims
    <2> QED
      BY <2>2, <2>3
  <1> QED
    BY <1>4, <1>8, <1>9, <1>10, <1>11

\* ClaimPatterns goes through the findings one by one.
LEMMA PatternFold ==
  ASSUME NEW log \in Seq(LogLines), NEW fallback \in BOOLEAN, NEW finds \in Seq(FindingRecords),
         NEW m, m = pattern_manifest(log)
  PROVE  \E h : /\ h[0] = NoPatterns
                /\ \A i \in 1 .. Len(finds) :
                     h[i] = Claim(log, m, fallback, h[i - 1], finds[i],
                                  KnownIds(m, finds[i], fallback))
                /\ ClaimPatterns(finds, log, m, fallback) = h[Len(finds)]
  <1>1. PICK n \in Nat : n = Len(finds) /\ DOMAIN finds = 1 .. n
    BY LenProperties
  <1> DEFINE To(a, i) == Claim(log, m, fallback, a, finds[i], KnownIds(m, finds[i], fallback))
             step == [i \in 1 .. n |-> [a \in PatternAccs |-> To(a, i)]]
             Unfolds(h) == h = [s \in SUBSET (1 .. n) |->
                 IF s = {} THEN NoPatterns ELSE To(h[s \ {Max(s)}], Max(s))]
             it == CHOOSE h : Unfolds(h)
  <1>2. \A i \in 1 .. n : finds[i] \in FindingRecords
    BY <1>1, ElementOfSeq
  <1>3. \A i \in 1 .. n : \A a \in PatternAccs : To(a, i) \in PatternAccs
    BY <1>2, ClaimStep DEF Claims
  <1>4. NoPatterns \in PatternAccs
    BY DEF NoPatterns, PatternAccs
  <1>5. PICK g \in [SUBSET (1 .. n) -> PatternAccs] : Iterates(g, step, NoPatterns, n)
    <2>1. \A i \in 1 .. n : \A a \in PatternAccs : step[i][a] \in PatternAccs
      <3> HIDE DEF To
      <3> QED
        BY <1>3
    <2> HIDE DEF step
    <2> QED
      BY <1>4, <2>1, IterationExists
  <1>6. Unfolds(g)
    <2>1. ASSUME NEW s \in SUBSET (1 .. n), s # {}
          PROVE  step[Max(s)][g[s \ {Max(s)}]] = To(g[s \ {Max(s)}], Max(s))
      <3>1. Max(s) \in 1 .. n
        BY <2>1, IdsFinite, MaxIsUpper
      <3> HIDE DEF To
      <3> QED
        BY <3>1, <1>5
    <2> HIDE DEF step, To
    <2> QED
      BY <1>5, <2>1 DEF Iterates
  <1>7. Unfolds(it)
    <2> HIDE DEF Unfolds
    <2> QED
      BY <1>6
  <1>8. ClaimPatterns(finds, log, m, fallback) = it[1 .. n]
    BY <1>1 DEF ClaimPatterns, NoPatterns, FoldLeft, MapThenFoldSet
  <1> HIDE DEF it
  <1> DEFINE h == [i \in 0 .. n |-> it[1 .. i]]
  <1>9. h[0] = NoPatterns
    BY <1>7
  <1>10. ASSUME NEW i \in 1 .. n
         PROVE  h[i] = To(h[i - 1], i)
    <2>1. 1 .. i \in SUBSET (1 .. n) /\ i \in Nat \ {0}
      OBVIOUS
    <2>2. Max(1 .. i) = i /\ (1 .. i) \ {i} = 1 .. (i - 1) /\ 1 .. i # {}
      BY <2>1, LastPosition
    <2> HIDE DEF To
    <2>3. it[1 .. i] = To(it[1 .. (i - 1)], i)
      BY <1>7, <2>1, <2>2
    <2> QED
      BY <2>3
  <1>11. ClaimPatterns(finds, log, m, fallback) = h[n]
    BY <1>8
  <1> HIDE DEF h
  <1> QED
    BY <1>1, <1>9, <1>10, <1>11

\* After i findings: no finding of the sequence cites entries, and while nothing went
\* wrong each is named; without the repair none was dropped or renamed.
ClaimInv(log, fallback, finds, a, i) ==
    /\ a \in PatternAccs
    /\ \A k \in DOMAIN a.done : ~a.done[k].cites
    /\ a.outcome = "ok" =>
         /\ \A k \in DOMAIN a.done : Named(log, a.done[k])
         /\ ~fallback => /\ Len(a.done) = i
                         /\ \A k \in 1 .. i : /\ a.done[k].pids = finds[k].pids
                                               /\ a.done[k].id = finds[k].id

\* One more finding: either it was dropped, or it is the last of the sequence.
LEMMA AppendedParts ==
  ASSUME NEW T, NEW done \in Seq(T), NEW c \in T, NEW n \in Nat, n = Len(done)
  PROVE  /\ Append(done, c) \in Seq(T)
         /\ Len(Append(done, c)) = n + 1
         /\ DOMAIN Append(done, c) = 1 .. (n + 1)
         /\ DOMAIN done = 1 .. n
         /\ Append(done, c)[n + 1] = c
         /\ \A k \in 1 .. n : Append(done, c)[k] = done[k]
         /\ \A k \in 1 .. (n + 1) : k = n + 1 \/ k \in 1 .. n
  <1>1. PICK s : s = Append(done, c)
    OBVIOUS
  <1>2. s \in Seq(T) /\ Len(s) = n + 1 /\ s[n + 1] = c /\ \A k \in 1 .. n : s[k] = done[k]
    BY <1>1, AppendProperties
  <1>3. DOMAIN s = 1 .. (n + 1) /\ DOMAIN done = 1 .. n
    BY <1>2, LenProperties
  <1>4. \A k \in 1 .. (n + 1) : k = n + 1 \/ k \in 1 .. n
    OBVIOUS
  <1> QED
    BY <1>1, <1>2, <1>3, <1>4

\* The claims of one more finding keep this.
LEMMA ClaimInvStep ==
  ASSUME NEW log \in Seq(LogLines), NEW fallback \in BOOLEAN, NEW finds \in Seq(FindingRecords),
         NamesPatterns(finds), NEW i \in 1 .. Len(finds), NEW a,
         ClaimInv(log, fallback, finds, a, i - 1), NEW r,
         Claims(log, fallback, a, finds[i], r)
  PROVE  ClaimInv(log, fallback, finds, r, i)
  <1>1. PICK f \in FindingRecords : f = finds[i] /\ ~f.cites
    BY LenProperties, ElementOfSeq DEF NamesPatterns
  <1>2. a \in PatternAccs /\ r \in PatternAccs
    BY DEF ClaimInv, Claims
  <1>3. PICK done \in Seq(FindingRecords) : done = a.done
    BY <1>2 DEF PatternAccs
  <1>4. PICK n \in Nat : n = Len(done)
    BY <1>3, LenProperties
  <1>5. i \in Nat \ {0}
    BY LenProperties
  <1>6. \A k \in 1 .. n : ~done[k].cites
    BY <1>3, <1>4, LenProperties DEF ClaimInv
  <1>7. CASE a.outcome # "ok" \/ ~Claimable(log, fallback, a, f)
    <2>1. r.outcome # "ok" /\ r.done = Append(done, f)
      BY <1>1, <1>3, <1>7 DEF Claims
    <2>2. \A k \in DOMAIN r.done : ~r.done[k].cites
      BY <1>1, <1>4, <1>6, <2>1, AppendedParts
    <2> QED
      BY <1>2, <2>1, <2>2 DEF ClaimInv
  <1>8. CASE a.outcome = "ok" /\ Claimable(log, fallback, a, f)
    <2>1. CASE Superfluous(log, fallback, a, f)
      <3>1. r = a /\ fallback
        BY <1>1, <1>8, <2>1 DEF Claims, Superfluous
      <3> QED
        BY <1>2, <3>1 DEF ClaimInv
    <2>2. CASE ~Superfluous(log, fallback, a, f)
      <3>1. PICK g : g = Renamed(log, fallback, f)
        OBVIOUS
      <3>2. PICK c : c = Counted(log, g)
        OBVIOUS
      <3>3. g \in FindingRecords /\ g.cites = f.cites /\ g.id = f.id
            /\ g.pids = KnownIds(pattern_manifest(log), f, fallback)
        BY <3>1, RenamedFields
      <3>4. Named(log, g)
        BY <1>8, <3>1, ClaimableIsNamed
      <3>5. c \in FindingRecords /\ c.cites = g.cites /\ c.pids = g.pids /\ c.id = g.id
        BY <3>2, <3>3, <3>4, CountedFields
      <3>6. r.outcome = "ok" /\ r.done = Append(done, c)
        BY <1>1, <1>3, <1>8, <2>2, <3>1, <3>2 DEF Claims
      <3>7. Named(log, c)
        BY <3>4, <3>5 DEF Named, IsUnquantified
      <3>8. \A k \in DOMAIN r.done : ~r.done[k].cites
        BY <1>1, <1>4, <1>6, <3>3, <3>5, <3>6, AppendedParts
      <3>9. \A k \in 1 .. n : Named(log, done[k])
        BY <1>3, <1>4, <1>8, LenProperties DEF ClaimInv
      <3>10. \A k \in DOMAIN r.done : Named(log, r.done[k])
        BY <1>4, <3>5, <3>6, <3>7, <3>9, AppendedParts
      <3>11. ASSUME ~fallback
             PROVE  /\ Len(r.done) = i
                    /\ \A k \in 1 .. i : /\ r.done[k].pids = finds[k].pids
                                          /\ r.done[k].id = finds[k].id
        <4>1. /\ n = i - 1 /\ n + 1 = i
              /\ \A k \in 1 .. n : done[k].pids = finds[k].pids /\ done[k].id = finds[k].id
          BY <1>3, <1>4, <1>5, <1>8, <3>11 DEF ClaimInv
        <4>2. c.pids = f.pids /\ c.id = f.id
          BY <3>3, <3>5, <3>11 DEF KnownIds
        <4>3. /\ Len(r.done) = n + 1 /\ r.done[n + 1] = c
              /\ \A k \in 1 .. n : r.done[k] = done[k]
              /\ \A k \in 1 .. (n + 1) : k = n + 1 \/ k \in 1 .. n
          BY <1>4, <3>5, <3>6, AppendedParts
        <4> QED
          BY <1>1, <4>1, <4>2, <4>3
      <3> QED
        BY <1>2, <3>8, <3>10, <3>11 DEF ClaimInv
    <2> QED
      BY <2>1, <2>2
  <1> QED
    BY <1>7, <1>8

\* What ClaimPatterns returns.
LEMMA PatternsAreClaimed ==
  ASSUME NEW log \in Seq(LogLines), NEW fallback \in BOOLEAN, NEW finds \in Seq(FindingRecords),
         NamesPatterns(finds), NEW m, m = pattern_manifest(log)
  PROVE  ClaimInv(log, fallback, finds, ClaimPatterns(finds, log, m, fallback), Len(finds))
  <1>1. PICK n \in Nat : n = Len(finds)
    BY LenProperties
  <1> DEFINE To(a, i) == Claim(log, m, fallback, a, finds[i], KnownIds(m, finds[i], fallback))
  <1>2. PICK h : /\ h[0] = NoPatterns
                 /\ \A i \in 1 .. n : h[i] = To(h[i - 1], i)
                 /\ ClaimPatterns(finds, log, m, fallback) = h[n]
    BY <1>1, PatternFold
  <1> DEFINE Holding == {i \in Nat : i <= n => ClaimInv(log, fallback, finds, h[i], i)}
  <1>3. 0 \in Holding
    <2>1. NoPatterns \in PatternAccs /\ NoPatterns.done = <<>>
      BY DEF NoPatterns, PatternAccs
    <2>2. ClaimInv(log, fallback, finds, NoPatterns, 0)
      BY <2>1 DEF ClaimInv
    <2> QED
      BY <1>2, <2>2
  <1>4. ASSUME NEW i \in Nat, i \in Holding
        PROVE  i + 1 \in Holding
    <2> SUFFICES ASSUME i + 1 <= n
                 PROVE  ClaimInv(log, fallback, finds, h[i + 1], i + 1)
      OBVIOUS
    <2>1. PICK j \in 1 .. Len(finds) : j = i + 1 /\ j - 1 = i
      BY <1>1
    <2>2. PICK a : a = h[i]
      OBVIOUS
    <2>3. ClaimInv(log, fallback, finds, a, j - 1)
      BY <1>1, <1>4, <2>1, <2>2
    <2>4. PICK r : r = h[j]
      OBVIOUS
    <2>5. r = To(a, j)
      BY <1>1, <1>2, <2>1, <2>2, <2>4
    <2>6. finds[j] \in FindingRecords /\ a \in PatternAccs
      BY <2>1, <2>3, ElementOfSeq DEF ClaimInv
    <2>7. Claims(log, fallback, a, finds[j], r)
      BY <2>5, <2>6, ClaimStep
    <2>8. ClaimInv(log, fallback, finds, r, j)
      BY <2>1, <2>3, <2>7, ClaimInvStep
    <2> QED
      BY <2>1, <2>4, <2>8
  <1>5. \A i \in Nat : i \in Holding
    <2> HIDE DEF Holding
    <2> QED
      BY <1>3, <1>4, EachNumber
  <1> QED
    BY <1>1, <1>2, <1>5

\* What the application makes of findings that name patterns: every finding has its
\* patterns and their count, no two have patterns of one family, and together they
\* have every pattern that was kept.
Reconciles(log, finds) ==
    /\ finds \in Seq(FindingRecords)
    /\ \A k \in DOMAIN finds :
         /\ ~finds[k].cites
         /\ Named(log, finds[k])
         /\ finds[k].count = IF IsUnquantified(finds[k]) THEN NoCount
                             ELSE SumOfCounts(log, finds[k].pids)
    /\ \A j, k \in DOMAIN finds : j # k =>
         FamiliesOf(log, finds[j].pids) \cap FamiliesOf(log, finds[k].pids) = {}
    /\ Kept(log) \subseteq UsedBy(finds)

\* The names are different.
Distinct(finds) ==
    /\ \A k \in DOMAIN finds : finds[k].pids # {}
    /\ \A j, k \in DOMAIN finds : j # k => finds[j].pids \cap finds[k].pids = {}

\* The patterns of the first i findings.
NamedBy(log, finds, i) == {p \in pattern_manifest(log) : \E k \in 1 .. i : p \in finds[k].pids}

\* After i findings that reconcile: they are what was written.
ClaimedSoFar(log, finds, a, i) ==
    /\ a \in PatternAccs
    /\ a.outcome = "ok"
    /\ Len(a.done) = i
    /\ \A k \in 1 .. i : a.done[k] = finds[k]
    /\ a.used = NamedBy(log, finds, i)
    /\ a.unquantified => \E k \in 1 .. i : IsUnquantified(finds[k])

\* A counted finding whose names are known stays as it is.
LEMMA NamedStays ==
  ASSUME NEW log \in Seq(LogLines), NEW fallback \in BOOLEAN, NEW f \in FindingRecords,
         Named(log, f),
         f.count = IF IsUnquantified(f) THEN NoCount ELSE SumOfCounts(log, f.pids)
  PROVE  /\ KnownIds(pattern_manifest(log), f, fallback) = f.pids
         /\ Renamed(log, fallback, f) = f
         /\ Counted(log, f) = f
  <1>1. KnownIds(pattern_manifest(log), f, fallback) = f.pids
    BY DEF KnownIds, Named, IsUnquantified
  <1>2. Renamed(log, fallback, f) = f
    BY <1>1 DEF Renamed, FindingRecords
  <1>3. Counted(log, f) = f
    BY DEF Counted, FindingRecords
  <1> QED
    BY <1>1, <1>2, <1>3

\* ClaimPatterns changes nothing in what was reconciled.
LEMMA ClaimsAgain ==
  ASSUME NEW log \in Seq(LogLines), NEW fallback \in BOOLEAN, NEW finds,
         Reconciles(log, finds), Distinct(finds), NEW m, m = pattern_manifest(log)
  PROVE  LET a == ClaimPatterns(finds, log, m, fallback)
         IN a.outcome = "ok" /\ a.done = finds
  <1>1. finds \in Seq(FindingRecords)
    BY DEF Reconciles
  <1>2. PICK n \in Nat : n = Len(finds) /\ DOMAIN finds = 1 .. n
    BY <1>1, LenProperties
  <1> DEFINE To(a, i) == Claim(log, m, fallback, a, finds[i], KnownIds(m, finds[i], fallback))
  <1>3. PICK h : /\ h[0] = NoPatterns
                 /\ \A i \in 1 .. n : h[i] = To(h[i - 1], i)
                 /\ ClaimPatterns(finds, log, m, fallback) = h[n]
    BY <1>1, <1>2, PatternFold
  <1>4. ASSUME NEW i \in 1 .. n, NEW a, ClaimedSoFar(log, finds, a, i - 1), NEW r, r = To(a, i)
        PROVE  ClaimedSoFar(log, finds, r, i)
    <2>1. PICK f \in FindingRecords : f = finds[i]
      BY <1>1, <1>2, ElementOfSeq
    <2>2. a \in PatternAccs /\ a.outcome = "ok" /\ a.used = NamedBy(log, finds, i - 1)
      BY <1>4 DEF ClaimedSoFar
    <2>3. Claims(log, fallback, a, f, r)
      BY <1>4, <2>1, <2>2, ClaimStep
    <2>4. i \in 1 .. i /\ i \in Nat \ {0} /\ \A k \in 1 .. i : k = i \/ k \in 1 .. (i - 1)
      BY <1>2
    <2>5. \A k \in 1 .. (i - 1) : k \in 1 .. i /\ k # i /\ k \in DOMAIN finds
      BY <1>2
    <2>6. Named(log, f) /\ f.count = IF IsUnquantified(f) THEN NoCount
                                     ELSE SumOfCounts(log, f.pids)
      BY <1>2, <2>1 DEF Reconciles
    <2>7. /\ KnownIds(m, f, fallback) = f.pids /\ Renamed(log, fallback, f) = f
          /\ Counted(log, f) = f
      BY <2>6, NamedStays
    <2>8. RealIds(log, fallback, f) = f.pids \ {Unquantified}
      BY <2>7 DEF RealIds
    <2>9. f.pids # {} /\ \A k \in 1 .. (i - 1) : f.pids \cap finds[k].pids = {}
      BY <1>2, <2>1, <2>5 DEF Distinct
    <2>10. Unquantified \notin pattern_manifest(log)
      BY PatternsFinite DEF Unquantified
    <2>11. Claimable(log, fallback, a, f)
      <3>1. CASE IsUnquantified(f)
        BY <2>8, <3>1 DEF Claimable, IsUnquantified
      <3>2. CASE ~IsUnquantified(f)
        <4>1. f.pids \subseteq m
          BY <2>6, <3>2 DEF Named
        <4>2. f.pids \cap a.used = {}
          BY <2>2, <2>9 DEF NamedBy
        <4>3. f.pids \ {Unquantified} = f.pids
          BY <2>10, <4>1
        <4> QED
          BY <2>7, <2>8, <4>1, <4>2, <4>3 DEF Claimable
      <3> QED
        BY <3>1, <3>2
    <2>12. ~Superfluous(log, fallback, a, f)
      <3> SUFFICES ASSUME IsUnquantified(f), a.unquantified
                   PROVE  FALSE
        BY <2>7 DEF Superfluous
      <3>1. PICK k \in 1 .. (i - 1) : IsUnquantified(finds[k])
        BY <1>4 DEF ClaimedSoFar
      <3> QED
        BY <2>9, <3>1 DEF IsUnquantified
    <2>13. /\ r \in PatternAccs /\ r.outcome = "ok" /\ r.done = Append(a.done, f)
           /\ r.used = a.used \cup (f.pids \ {Unquantified})
           /\ r.unquantified <=> a.unquantified \/ IsUnquantified(f)
      BY <2>2, <2>3, <2>7, <2>8, <2>11, <2>12 DEF Claims
    <2>14. r.used = NamedBy(log, finds, i)
      <3>1. f.pids \ {Unquantified} = f.pids \cap m
        BY <2>6, <2>10 DEF Named, IsUnquantified
      <3> QED
        BY <2>1, <2>2, <2>4, <2>5, <2>13, <3>1 DEF NamedBy
    <2>15. r.unquantified => \E k \in 1 .. i : IsUnquantified(finds[k])
      <3>1. CASE a.unquantified
        BY <1>4, <2>5, <3>1 DEF ClaimedSoFar
      <3>2. CASE IsUnquantified(f)
        BY <2>1, <2>4, <3>2
      <3> QED
        BY <2>13, <3>1, <3>2
    <2>16. PICK done \in Seq(FindingRecords) : done = a.done /\ Len(done) = i - 1
      BY <1>4, <2>2 DEF PatternAccs, ClaimedSoFar
    <2>17. Len(r.done) = i /\ \A k \in 1 .. i : r.done[k] = finds[k]
      <3>1. PICK l \in Nat : l = i - 1 /\ l + 1 = i
        BY <2>4
      <3>2. /\ Len(Append(done, f)) = l + 1
            /\ Append(done, f)[l + 1] = f
            /\ \A k \in 1 .. l : Append(done, f)[k] = done[k]
        BY <2>16, <3>1, AppendedParts
      <3> QED
        BY <1>4, <2>1, <2>4, <2>13, <2>16, <3>1, <3>2 DEF ClaimedSoFar
    <2> QED
      BY <2>13, <2>14, <2>15, <2>17 DEF ClaimedSoFar
  <1> HIDE DEF To
  <1> DEFINE Holding == {i \in Nat : i <= n => ClaimedSoFar(log, finds, h[i], i)}
  <1>5. 0 \in Holding
    <2>1. NoPatterns \in PatternAccs /\ NoPatterns.done = <<>> /\ NoPatterns.outcome = "ok"
          /\ NoPatterns.used = {} /\ ~NoPatterns.unquantified
      BY DEF NoPatterns, PatternAccs
    <2>2. NamedBy(log, finds, 0) = {}
      BY DEF NamedBy
    <2>3. ClaimedSoFar(log, finds, NoPatterns, 0)
      BY <2>1, <2>2 DEF ClaimedSoFar
    <2> QED
      BY <1>3, <2>3
  <1>6. ASSUME NEW i \in Nat, i \in Holding
        PROVE  i + 1 \in Holding
    <2> SUFFICES ASSUME i + 1 <= n
                 PROVE  ClaimedSoFar(log, finds, h[i + 1], i + 1)
      OBVIOUS
    <2>1. i + 1 \in 1 .. n /\ (i + 1) - 1 = i
      BY <1>2
    <2> QED
      BY <1>3, <1>4, <1>6, <2>1
  <1>7. \A i \in Nat : i \in Holding
    <2> HIDE DEF Holding
    <2> QED
      BY <1>5, <1>6, EachNumber
  <1>8. PICK a : a = ClaimPatterns(finds, log, m, fallback)
    OBVIOUS
  <1>9. ClaimedSoFar(log, finds, a, n)
    BY <1>2, <1>3, <1>7, <1>8
  <1>10. a.done = finds
    <2>1. PICK done \in Seq(FindingRecords) : done = a.done
      BY <1>9 DEF ClaimedSoFar, PatternAccs
    <2> QED
      BY <1>1, <1>2, <1>9, <2>1, SeqEqual DEF ClaimedSoFar
  <1> QED
    BY <1>8, <1>9, <1>10 DEF ClaimedSoFar

-----------------------------------------------------------------------------
(***************************************************************************)
(* Findings in another order, and some of them left out.                   *)
(***************************************************************************)

\* A sequence with the elements of s at the positions A and of t at the positions
\* B, each once.
Gathers(u, s, A, t, B) ==
    \E o \in [DOMAIN u -> A \cup B] :
        /\ \A i, j \in DOMAIN u : o[i] = o[j] => i = j
        /\ \A x \in A \cup B : \E i \in DOMAIN u : o[i] = x
        /\ \A k \in DOMAIN u : /\ o[k] \in A => u[k] = s[o[k]]
                               /\ o[k] \in B => u[k] = t[o[k]]

\* The elements of a concatenation.
LEMMA ConcatParts ==
  ASSUME NEW T, NEW v \in Seq(T), NEW w \in Seq(T), NEW a, NEW b, a = Len(v), b = Len(w),
         NEW u, u = v \o w
  PROVE  /\ a \in Nat /\ b \in Nat /\ u \in Seq(T) /\ DOMAIN u = 1 .. (a + b)
         /\ \A i \in 1 .. (a + b) : u[i] = IF i <= a THEN v[i] ELSE w[i - a]
  <1>1. u \in Seq(T) /\ Len(u) = a + b
    BY ConcatProperties
  <1>2. \A i \in 1 .. (a + b) : u[i] = IF i <= a THEN v[i] ELSE w[i - a]
    BY ConcatProperties
  <1> QED
    BY <1>1, <1>2, LenProperties

\* Two selections, one after the other, gather from both.
LEMMA SelectionsGather ==
  ASSUME NEW T, NEW n \in Nat, NEW A \in SUBSET (1 .. n), NEW B \in SUBSET (1 .. n),
         A \cap B = {}, NEW s, NEW t, \A i \in A : s[i] \in T, \A i \in B : t[i] \in T,
         NEW u, u = AtPositions(s, A) \o AtPositions(t, B)
  PROVE  u \in Seq(T) /\ Gathers(u, s, A, t, B)
  <1>1. PICK v : v = AtPositions(s, A)
    OBVIOUS
  <1>2. PICK w : w = AtPositions(t, B)
    OBVIOUS
  <1>3. PICK a \in Nat : a = Cardinality(A) /\ v \in Seq(T) /\ Len(v) = a /\ Selection(v, s, A)
    BY <1>1, PositionsSelect
  <1>4. PICK b \in Nat : b = Cardinality(B) /\ w \in Seq(T) /\ Len(w) = b /\ Selection(w, t, B)
    BY <1>2, PositionsSelect
  <1>5. PICK p \in [1 .. a -> A] :
           /\ \A i, j \in 1 .. a : p[i] = p[j] => i = j
           /\ \A x \in A : \E i \in 1 .. a : p[i] = x
           /\ \A k \in 1 .. a : v[k] = s[p[k]]
    <2>1. Cardinality(A) = a /\ Selection(v, s, A)
      BY <1>3
    <2> QED
      BY <2>1, Zenon DEF Selection
  <1>6. PICK q \in [1 .. b -> B] :
           /\ \A i, j \in 1 .. b : q[i] = q[j] => i = j
           /\ \A x \in B : \E i \in 1 .. b : q[i] = x
           /\ \A k \in 1 .. b : w[k] = t[q[k]]
    BY <1>4, SMTT(20) DEF Selection
  <1>7. /\ u \in Seq(T) /\ DOMAIN u = 1 .. (a + b)
        /\ \A i \in 1 .. (a + b) : u[i] = IF i <= a THEN v[i] ELSE w[i - a]
    <2>1. u = v \o w
      BY <1>1, <1>2
    <2>2. v \in Seq(T) /\ w \in Seq(T) /\ a = Len(v) /\ b = Len(w)
      BY <1>3, <1>4
    <2> QED
      BY <2>1, <2>2, ConcatParts
  <1>8. \A i \in 1 .. (a + b) : IF i <= a THEN i \in 1 .. a ELSE i - a \in 1 .. b
    OBVIOUS
  <1> DEFINE o == [i \in 1 .. (a + b) |-> IF i <= a THEN p[i] ELSE q[i - a]]
  <1>9. ASSUME NEW i \in 1 .. (a + b)
        PROVE  IF i <= a THEN o[i] = p[i] /\ o[i] \in A /\ o[i] \notin B /\ u[i] = s[o[i]]
               ELSE o[i] = q[i - a] /\ o[i] \in B /\ o[i] \notin A /\ u[i] = t[o[i]]
    <2>1. CASE i <= a
      <3>1. i \in 1 .. a
        BY <1>8, <2>1
      <3>2. o[i] = p[i] /\ p[i] \in A
        BY <1>5, <2>1, <3>1
      <3> HIDE DEF o
      <3> QED
        BY <1>5, <1>7, <2>1, <3>1, <3>2
    <2>2. CASE ~(i <= a)
      <3>1. i - a \in 1 .. b
        BY <1>8, <2>2
      <3>2. o[i] = q[i - a] /\ q[i - a] \in B
        BY <1>6, <2>2, <3>1
      <3> HIDE DEF o
      <3> QED
        BY <1>6, <1>7, <2>2, <3>1, <3>2
    <2> QED
      BY <2>1, <2>2
  <1>10. o \in [DOMAIN u -> A \cup B]
    <2>1. \A i \in 1 .. (a + b) : o[i] \in A \cup B
      <3> HIDE DEF o
      <3> QED
        BY <1>9
    <2>2. o = [i \in 1 .. (a + b) |-> o[i]]
      OBVIOUS
    <2> HIDE DEF o
    <2> QED
      BY <1>7, <2>1, <2>2
  <1>11. ASSUME NEW x \in A \cup B
         PROVE  \E i \in 1 .. (a + b) : o[i] = x
    <2>1. CASE x \in A
      <3>1. PICK i \in 1 .. a : p[i] = x
        BY <1>5, <2>1
      <3>2. i \in 1 .. (a + b) /\ i <= a
        OBVIOUS
      <3> HIDE DEF o
      <3> QED
        BY <1>9, <3>1, <3>2
    <2>2. CASE x \in B
      <3>1. PICK i \in 1 .. b : q[i] = x
        BY <1>6, <2>2
      <3>2. i + a \in 1 .. (a + b) /\ ~(i + a <= a) /\ (i + a) - a = i
        OBVIOUS
      <3> HIDE DEF o
      <3> QED
        BY <1>9, <3>1, <3>2
    <2> QED
      BY <2>1, <2>2
  <1> HIDE DEF o
  <1>12. ASSUME NEW i \in 1 .. (a + b), NEW j \in 1 .. (a + b), o[i] = o[j]
         PROVE  i = j
    <2>1. CASE i <= a
      <3>1. j <= a
        BY <1>9, <1>12, <2>1
      <3> QED
        BY <1>5, <1>8, <1>9, <1>12, <2>1, <3>1
    <2>2. CASE ~(i <= a)
      <3>1. ~(j <= a)
        BY <1>9, <1>12, <2>2
      <3>2. i - a \in 1 .. b /\ j - a \in 1 .. b /\ q[i - a] = q[j - a]
        BY <1>8, <1>9, <1>12, <2>2, <3>1
      <3>3. i - a = j - a
        BY <1>6, <3>2
      <3> QED
        BY <3>3
    <2> QED
      BY <2>1, <2>2
  <1>13. \A k \in 1 .. (a + b) : /\ o[k] \in A => u[k] = s[o[k]]
                                 /\ o[k] \in B => u[k] = t[o[k]]
    BY <1>9
  <1>14. DOMAIN u = 1 .. (a + b)
    BY <1>7
  <1>15. o \in [DOMAIN u -> A \cup B]
    BY <1>10, <1>14
  <1>16. /\ \A i, j \in DOMAIN u : o[i] = o[j] => i = j
         /\ \A x \in A \cup B : \E i \in DOMAIN u : o[i] = x
         /\ \A k \in DOMAIN u : /\ o[k] \in A => u[k] = s[o[k]]
                                /\ o[k] \in B => u[k] = t[o[k]]
    <2> HIDE DEF o
    <2> QED
      BY <1>11, <1>12, <1>13, <1>14
  <1>17. Gathers(u, s, A, t, B)
    <2> HIDE DEF o
    <2> QED
      BY <1>15, <1>16, Zenon DEF Gathers
  <1> QED
    BY <1>7, <1>17

\* The same elements in another order.
Rearranges(u, s) ==
    \E o \in [DOMAIN u -> DOMAIN s] :
        /\ \A i, j \in DOMAIN u : o[i] = o[j] => i = j
        /\ \A x \in DOMAIN s : \E i \in DOMAIN u : o[i] = x
        /\ \A k \in DOMAIN u : u[k] = s[o[k]]

\* The result lists the key finds and then the secondary ones: nothing else.
LEMMA ByGroupRearranges ==
  ASSUME NEW finds \in Seq(FindingRecords), NEW u, u = ByGroup(finds)
  PROVE  u \in Seq(FindingRecords) /\ Rearranges(u, finds)
  <1>1. PICK n \in Nat : n = Len(finds) /\ DOMAIN finds = 1 .. n
    BY LenProperties
  <1>2. \A i \in 1 .. n : finds[i] \in FindingRecords
    BY <1>1, ElementOfSeq
  <1>3. PICK A : A = {k \in DOMAIN finds : finds[k].group = "key"}
    OBVIOUS
  <1>4. PICK B : B = {k \in DOMAIN finds : finds[k].group = "secondary"}
    OBVIOUS
  <1>5. A \in SUBSET (1 .. n) /\ B \in SUBSET (1 .. n) /\ A \cap B = {}
    BY <1>1, <1>3, <1>4
  <1>6. A \cup B = DOMAIN finds
    BY <1>1, <1>2, <1>3, <1>4 DEF FindingRecords
  <1>7. u = AtPositions(finds, A) \o AtPositions(finds, B)
    BY <1>3, <1>4 DEF ByGroup, InGroup
  <1>8. u \in Seq(FindingRecords) /\ Gathers(u, finds, A, finds, B)
    <2>1. (\A i \in A : finds[i] \in FindingRecords) /\ (\A i \in B : finds[i] \in FindingRecords)
      BY <1>2, <1>5
    <2> QED
      BY <1>5, <1>7, <2>1, SelectionsGather
  <1>9. PICK o \in [DOMAIN u -> A \cup B] :
        /\ \A i, j \in DOMAIN u : o[i] = o[j] => i = j
        /\ \A x \in A \cup B : \E i \in DOMAIN u : o[i] = x
        /\ \A k \in DOMAIN u : /\ o[k] \in A => u[k] = finds[o[k]]
                               /\ o[k] \in B => u[k] = finds[o[k]]
    BY <1>8 DEF Gathers
  <1>10. \A k \in DOMAIN u : u[k] = finds[o[k]]
    BY <1>9
  <1> QED
    BY <1>6, <1>8, <1>9, <1>10 DEF Rearranges

-----------------------------------------------------------------------------
(***************************************************************************)
(* MergeFamilies                                                           *)
(***************************************************************************)

\* Sets that divide the findings with patterns: each is closed, and is the set of
\* all its members.
Divides(comp, D, Q, families) ==
    /\ \A n \in D : n \in comp[n] /\ (n \notin Q => comp[n] = {n})
    /\ \A n \in Q : comp[n] \subseteq Q /\ Closed(comp[n], Q, families)
    /\ \A n \in Q : \A m \in comp[n] : comp[m] = comp[n]

\* The components do: they are closed, and so is what lies outside of one.
LEMMA ComponentsDivide ==
  ASSUME NEW D, NEW Q \in SUBSET D, NEW families, DOMAIN families = D,
         NEW comp, comp = Components(Q, families)
  PROVE  Divides(comp, D, Q, families)
  <1>1. \A n \in D : comp[n] = {n} \cup
          {m \in Q : n \in Q /\ \A C \in SUBSET Q : n \in C /\ Closed(C, Q, families) => m \in C}
    BY DEF Components
  <1>2. \A n \in D : n \in comp[n] /\ (n \notin Q => comp[n] = {n})
    BY <1>1
  <1>3. \A n \in Q : comp[n] \subseteq Q
    BY <1>1
  <1>4. ASSUME NEW n \in Q, NEW C \in SUBSET Q, n \in C, Closed(C, Q, families)
        PROVE  comp[n] \subseteq C
    BY <1>1, <1>4
  <1>5. ASSUME NEW n \in Q
        PROVE  Closed(comp[n], Q, families)
    <2>1. ASSUME NEW i \in comp[n], NEW j \in Q, families[i] \cap families[j] # {}
          PROVE  j \in comp[n]
      <3>1. ASSUME NEW C \in SUBSET Q, n \in C, Closed(C, Q, families)
            PROVE  j \in C
        <4>1. i \in C
          BY <1>4, <3>1
        <4> QED
          BY <2>1, <3>1, <4>1 DEF Closed
      <3> QED
        BY <1>1, <3>1
    <2> QED
      BY <2>1 DEF Closed
  <1>6. ASSUME NEW n \in Q, NEW m \in comp[n]
        PROVE  comp[m] = comp[n]
    <2>1. m \in Q
      BY <1>3
    <2>2. comp[m] \subseteq comp[n]
      BY <1>3, <1>4, <1>5, <2>1
    <2>3. n \in comp[m]
      <3> SUFFICES ASSUME n \notin comp[m]
                   PROVE  FALSE
        OBVIOUS
      <3> DEFINE rest == Q \ comp[m]
      <3>1. Closed(rest, Q, families)
        <4>1. Closed(comp[m], Q, families)
          BY <1>5, <2>1
        <4> QED
          BY <4>1 DEF Closed
      <3>2. n \in rest /\ rest \in SUBSET Q
        OBVIOUS
      <3> HIDE DEF rest
      <3>3. m \in rest
        BY <1>4, <3>1, <3>2
      <3> QED
        BY <1>2, <2>1, <3>3 DEF rest
    <2>4. comp[n] \subseteq comp[m]
      BY <1>3, <1>4, <1>5, <2>1, <2>3
    <2> QED
      BY <2>2, <2>4
  <1> QED
    BY <1>2, <1>3, <1>5, <1>6 DEF Divides

\* A name outside the manifest has no family, and the families of a union are the
\* families of its parts.
LEMMA FamiliesOfUnion ==
  ASSUME NEW log, NEW S
  PROVE  /\ FamiliesOf(log, {Unquantified}) = {}
         /\ FamiliesOf(log, UNION S) = UNION {FamiliesOf(log, pids) : pids \in S}
  BY DEF FamiliesOf

\* The finding that speaks for some others has all their names.
LEMMA MergedFields ==
  ASSUME NEW finds \in Seq(FindingRecords), NEW C \in SUBSET DOMAIN finds, C # {}
  PROVE  /\ Primary(finds, C) \in C
         /\ LET g == Merged(finds, C)
            IN /\ g \in FindingRecords
               /\ g.cites = finds[Primary(finds, C)].cites
               /\ g.pids = UNION {finds[i].pids : i \in C}
  <1>1. PICK n \in Nat : n = Len(finds) /\ DOMAIN finds = 1 .. n
    BY LenProperties
  <1>2. \A i \in C : finds[i] \in FindingRecords
    BY <1>1, ElementOfSeq
  <1>3. C \in SUBSET Nat
    BY <1>1
  <1>4. PICK p : p = Primary(finds, C)
    OBVIOUS
  <1>5. p \in C
    <2>1. PICK keys : keys = {i \in C : finds[i].group = "key"}
      OBVIOUS
    <2>2. PICK S : S = IF keys = {} THEN C ELSE keys
      OBVIOUS
    <2>3. S \in SUBSET C /\ S # {} /\ S \in SUBSET Nat
      BY <1>3, <2>1, <2>2
    <2>4. p = Min(S)
      BY <1>4, <2>1, <2>2 DEF Primary
    <2>5. Min(S) \in S
      BY <2>3, MinIsLower
    <2> QED
      BY <2>3, <2>4, <2>5
  <1>6. PICK pids : pids = UNION {finds[i].pids : i \in C}
    OBVIOUS
  <1>7. pids \in SUBSET Int
    BY <1>2, <1>6 DEF FindingRecords
  <1>8. PICK f \in FindingRecords : f = finds[p]
    BY <1>2, <1>5
  <1>9. PICK g : g = Merged(finds, C)
    OBVIOUS
  <1>10. g = [f EXCEPT !.pids = pids]
    BY <1>4, <1>6, <1>8, <1>9 DEF Merged
  <1>11. g \in FindingRecords /\ g.cites = f.cites /\ g.pids = pids
    BY <1>7, <1>10 DEF FindingRecords
  <1> QED
    BY <1>4, <1>5, <1>6, <1>8, <1>9, <1>11

\* Findings with their patterns, no two with patterns of one family.
Separate(log, finds) ==
    /\ finds \in Seq(FindingRecords)
    /\ \A k \in DOMAIN finds : ~finds[k].cites /\ Named(log, finds[k])
    /\ \A j, k \in DOMAIN finds : j # k =>
         FamiliesOf(log, finds[j].pids) \cap FamiliesOf(log, finds[k].pids) = {}

\* They stay so in another order.
LEMMA SeparateRearranged ==
  ASSUME NEW log, NEW s, NEW u \in Seq(FindingRecords), Separate(log, s), Rearranges(u, s)
  PROVE  Separate(log, u)
  <1>1. PICK o \in [DOMAIN u -> DOMAIN s] :
        /\ \A i, j \in DOMAIN u : o[i] = o[j] => i = j
        /\ \A k \in DOMAIN u : u[k] = s[o[k]]
    BY DEF Rearranges
  <1>2. \A k \in DOMAIN u : o[k] \in DOMAIN s
    BY <1>1
  <1>3. ASSUME NEW k \in DOMAIN u
        PROVE  ~u[k].cites /\ Named(log, u[k])
    BY <1>1, <1>2 DEF Separate
  <1>4. ASSUME NEW j \in DOMAIN u, NEW k \in DOMAIN u, j # k
        PROVE  FamiliesOf(log, u[j].pids) \cap FamiliesOf(log, u[k].pids) = {}
    <2>1. o[j] \in DOMAIN s /\ o[k] \in DOMAIN s /\ o[j] # o[k]
      BY <1>1, <1>2, <1>4
    <2>2. u[j] = s[o[j]] /\ u[k] = s[o[k]]
      BY <1>1
    <2> QED
      BY <2>1, <2>2 DEF Separate
  <1> QED
    BY <1>3, <1>4 DEF Separate

\* MergeFamilies: when it leaves the findings alone, no two of them have patterns of
\* one family; otherwise it gives them one finding, and the rest is as it was.
LEMMA FamiliesMerged ==
  ASSUME NEW log \in Seq(LogLines), NEW finds \in Seq(FindingRecords),
         \A k \in DOMAIN finds : ~finds[k].cites /\ Named(log, finds[k]),
         NEW res, res = MergeFamilies(log, finds)
  PROVE  /\ Separate(log, res.finds)
         /\ res.left \in Seq(FindingRecords)
         /\ res.anew \in BOOLEAN
         /\ ~res.anew => res.finds = finds
  <1>1. PICK n \in Nat : n = Len(finds) /\ DOMAIN finds = 1 .. n
    BY LenProperties
  <1>2. \A i \in 1 .. n : finds[i] \in FindingRecords
    BY <1>1, ElementOfSeq
  <1>3. PICK Q : Q = {k \in DOMAIN finds : ~IsUnquantified(finds[k])}
    OBVIOUS
  <1>4. PICK families : families = [k \in DOMAIN finds |-> FamiliesOf(log, finds[k].pids)]
    OBVIOUS
  <1>5. PICK comp : comp = Components(Q, families)
    OBVIOUS
  <1>6. res = Merge(finds, Q, comp)
    BY <1>3, <1>4, <1>5 DEF MergeFamilies
  <1>7. Q \in SUBSET DOMAIN finds /\ DOMAIN families = DOMAIN finds
    BY <1>3, <1>4
  <1>8. /\ \A k \in DOMAIN finds : k \in comp[k] /\ (k \notin Q => comp[k] = {k})
        /\ \A k \in Q : comp[k] \subseteq Q /\ Closed(comp[k], Q, families)
        /\ \A k \in Q : \A m \in comp[k] : comp[m] = comp[k]
    <2>1. Divides(comp, DOMAIN finds, Q, families)
      BY <1>5, <1>7, ComponentsDivide
    <2> QED
      BY <2>1 DEF Divides
  <1>9. \A k \in DOMAIN finds : k \notin Q => families[k] = {}
    BY <1>3, <1>4, FamiliesOfUnion DEF IsUnquantified
  <1>10. CASE \A k \in DOMAIN finds : comp[k] = {k}
    <2>1. res = [finds |-> finds, left |-> finds, anew |-> FALSE]
      BY <1>6, <1>10 DEF Merge
    <2>2. ASSUME NEW j \in DOMAIN finds, NEW k \in DOMAIN finds, j # k
          PROVE  families[j] \cap families[k] = {}
      <3>1. CASE j \in Q /\ k \in Q
        <4>1. Closed({j}, Q, families) /\ k \notin {j}
          BY <1>8, <1>10, <2>2, <3>1
        <4> QED
          BY <3>1, <4>1 DEF Closed
      <3> QED
        BY <1>9, <3>1
    <2>3. Separate(log, finds)
      BY <1>4, <2>2 DEF Separate
    <2> QED
      BY <2>1, <2>3
  <1>11. CASE ~(\A k \in DOMAIN finds : comp[k] = {k})
    <2>1. PICK heads : heads = {k \in Q : k = Min(comp[k])}
      OBVIOUS
    <2>2. PICK unq : unq = {k \in DOMAIN finds : IsUnquantified(finds[k])}
      OBVIOUS
    <2>3. PICK merged : merged = [k \in DOMAIN finds |-> Merged(finds, comp[k])]
      OBVIOUS
    <2>4. PICK prim : prim = {Primary(finds, comp[k]) : k \in heads}
      OBVIOUS
    <2>5. PICK left : left = [k \in DOMAIN finds |->
                                 IF k \in prim THEN Merged(finds, comp[k]) ELSE finds[k]]
      OBVIOUS
    <2>6. PICK u : u = AtPositions(merged, heads) \o AtPositions(finds, unq)
      OBVIOUS
    <2>7. res = [finds |-> ByGroup(u), left |-> left, anew |-> TRUE]
      <3>1. res = Rebuilt(finds, comp, heads)
        BY <1>6, <1>11, <2>1 DEF Merge
      <3> QED
        BY <2>2, <2>3, <2>4, <2>5, <2>6, <3>1 DEF Rebuilt
    <2>8. ASSUME NEW k \in DOMAIN finds
          PROVE  comp[k] \in SUBSET DOMAIN finds /\ comp[k] # {}
      <3>1. CASE k \in Q
        BY <1>7, <1>8, <3>1
      <3>2. CASE k \notin Q
        BY <1>8, <3>2
      <3> QED
        BY <3>1, <3>2
    <2>9. ASSUME NEW k \in DOMAIN finds
          PROVE  /\ Primary(finds, comp[k]) \in comp[k]
                 /\ merged[k] = Merged(finds, comp[k])
                 /\ merged[k] \in FindingRecords
                 /\ merged[k].cites = finds[Primary(finds, comp[k])].cites
                 /\ merged[k].pids = UNION {finds[i].pids : i \in comp[k]}
      <3>1. merged[k] = Merged(finds, comp[k])
        BY <2>3
      <3> QED
        BY <2>8, <3>1, MergedFields
    <2>10. left \in Seq(FindingRecords)
      <3>1. \A k \in DOMAIN finds : left[k] \in FindingRecords
        BY <1>1, <1>2, <2>5, <2>9
      <3>2. left = [k \in 1 .. n |-> left[k]]
        BY <1>1, <2>5
      <3>3. left \in [1 .. n -> FindingRecords]
        BY <1>1, <3>1, <3>2
      <3> QED
        BY <3>3, SeqDef
    <2>11. heads \in SUBSET (1 .. n) /\ unq \in SUBSET (1 .. n) /\ heads \cap unq = {}
           /\ heads \subseteq Q
      BY <1>1, <1>3, <2>1, <2>2
    <2>12. u \in Seq(FindingRecords) /\ Gathers(u, merged, heads, finds, unq)
      <3>1. \A i \in heads : merged[i] \in FindingRecords
        BY <1>1, <2>9, <2>11
      <3>2. \A i \in unq : finds[i] \in FindingRecords
        BY <1>2, <2>11
      <3> QED
        BY <2>6, <2>11, <3>1, <3>2, SelectionsGather
    <2>13. ASSUME NEW k \in heads
           PROVE  /\ ~merged[k].cites /\ Named(log, merged[k])
                  /\ FamiliesOf(log, merged[k].pids) = UNION {families[i] : i \in comp[k]}
      <3>1. k \in Q /\ k \in DOMAIN finds /\ comp[k] \subseteq Q /\ comp[k] \subseteq DOMAIN finds
        BY <1>7, <1>8, <2>11
      <3>2. ~merged[k].cites
        BY <2>9, <3>1
      <3>3. merged[k].pids \subseteq pattern_manifest(log)
        <4>1. \A i \in comp[k] : finds[i].pids \subseteq pattern_manifest(log)
          BY <1>3, <3>1 DEF Named
        <4> QED
          BY <2>9, <3>1, <4>1
      <3>4. FamiliesOf(log, merged[k].pids) = UNION {families[i] : i \in comp[k]}
        <4>1. PICK S : S = {finds[i].pids : i \in comp[k]}
          OBVIOUS
        <4>2. merged[k].pids = UNION S
          BY <2>9, <3>1, <4>1
        <4>3. FamiliesOf(log, UNION S) = UNION {FamiliesOf(log, pids) : pids \in S}
          BY FamiliesOfUnion
        <4>4. {FamiliesOf(log, pids) : pids \in S} = {families[i] : i \in comp[k]}
          BY <1>4, <3>1, <4>1
        <4> QED
          BY <4>2, <4>3, <4>4
      <3> QED
        BY <3>2, <3>3, <3>4 DEF Named
    <2>14. ASSUME NEW j \in heads, NEW k \in heads, j # k
           PROVE  FamiliesOf(log, merged[j].pids) \cap FamiliesOf(log, merged[k].pids) = {}
      <3>1. j \in Q /\ k \in Q /\ j = Min(comp[j]) /\ k = Min(comp[k])
        BY <2>1
      <3>2. ASSUME NEW x \in comp[j]
            PROVE  x \notin comp[k]
        BY <1>8, <2>14, <3>1
      <3>3. ASSUME NEW x \in comp[j], NEW y \in comp[k]
            PROVE  families[x] \cap families[y] = {}
        BY <1>8, <3>1, <3>2 DEF Closed
      <3>4. FamiliesOf(log, merged[j].pids) = UNION {families[i] : i \in comp[j]}
        BY <2>13
      <3>5. FamiliesOf(log, merged[k].pids) = UNION {families[i] : i \in comp[k]}
        BY <2>13
      <3> QED
        BY <3>3, <3>4, <3>5
    <2>15. ASSUME NEW k \in unq
           PROVE  /\ ~finds[k].cites /\ Named(log, finds[k])
                  /\ FamiliesOf(log, finds[k].pids) = {}
      BY <2>2, FamiliesOfUnion DEF IsUnquantified
    <2>16. Separate(log, u)
      <3>1. PICK o \in [DOMAIN u -> heads \cup unq] :
              /\ \A i, j \in DOMAIN u : o[i] = o[j] => i = j
              /\ \A k \in DOMAIN u : /\ o[k] \in heads => u[k] = merged[o[k]]
                                     /\ o[k] \in unq => u[k] = finds[o[k]]
        BY <2>12 DEF Gathers
      <3>2. ASSUME NEW k \in DOMAIN u
            PROVE  \/ o[k] \in heads /\ u[k] = merged[o[k]]
                   \/ o[k] \in unq /\ u[k] = finds[o[k]]
        BY <3>1
      <3>3. ASSUME NEW k \in DOMAIN u
            PROVE  ~u[k].cites /\ Named(log, u[k])
        BY <2>13, <2>15, <3>2
      <3>4. ASSUME NEW j \in DOMAIN u, NEW k \in DOMAIN u, j # k
            PROVE  FamiliesOf(log, u[j].pids) \cap FamiliesOf(log, u[k].pids) = {}
        <4>1. CASE o[j] \in heads /\ u[j] = merged[o[j]] /\ o[k] \in heads /\ u[k] = merged[o[k]]
          <5>1. o[j] # o[k]
            BY <3>1, <3>4
          <5> QED
            BY <2>14, <4>1, <5>1
        <4>2. CASE o[j] \in unq /\ u[j] = finds[o[j]]
          BY <2>15, <4>2
        <4>3. CASE o[k] \in unq /\ u[k] = finds[o[k]]
          BY <2>15, <4>3
        <4> QED
          BY <3>2, <4>1, <4>2, <4>3
      <3> QED
        BY <2>12, <3>3, <3>4 DEF Separate
    <2>17. PICK v : v = ByGroup(u)
      OBVIOUS
    <2>18. Separate(log, v)
      BY <2>12, <2>16, <2>17, ByGroupRearranges, SeparateRearranged
    <2> QED
      BY <2>7, <2>10, <2>17, <2>18
  <1> QED
    BY <1>10, <1>11

-----------------------------------------------------------------------------
(***************************************************************************)
(* MergeRepeated                                                           *)
(***************************************************************************)

\* The accumulators of RepeatedDetails.
DetailAccs == [owners : SUBSET [sig : Nat, by : Nat], dup : SUBSET (Nat \X Nat)]
NoDetails == [owners |-> {}, dup |-> {}]

\* What NoteDetails adds: owners that are the finding itself, and at most one pair
\* of it and an owner.
Notes(a, n, f, r) ==
    /\ r \in DetailAccs
    /\ IsUnquantified(f) => r = a
    /\ \A o \in r.owners : o \in a.owners \/ o.by = n
    /\ \/ r.dup = a.dup
       \/ \E o \in a.owners : r.dup = a.dup \cup {<<n, o.by>>}

\* NoteDetails is that step.
LEMMA NoteStep ==
  ASSUME NEW a \in DetailAccs, NEW n \in Nat, NEW f \in FindingRecords, NEW r,
         r = NoteDetails(a, n, f)
  PROVE  Notes(a, n, f, r)
  <1>1. /\ a.owners \in SUBSET [sig : Nat, by : Nat] /\ a.dup \in SUBSET (Nat \X Nat)
        /\ a = [owners |-> a.owners, dup |-> a.dup]
    BY DEF DetailAccs
  <1>2. f.detail.en \in Nat /\ f.detail.zh \in Nat
    BY DEF FindingRecords
  <1> DEFINE owned(sig) == sig # NoSignature /\ \E o \in a.owners : o.sig = sig
             owner(sig) == (CHOOSE o \in a.owners : o.sig = sig).by
             mine(sigs) == a.owners \cup {[sig |-> s, by |-> n] : s \in sigs \ {NoSignature}}
  <1>3. ASSUME NEW sig, owned(sig)
        PROVE  \E o \in a.owners : o.by = owner(sig) /\ owner(sig) \in Nat
    <2>1. PICK o \in a.owners : o = CHOOSE x \in a.owners : x.sig = sig
      BY <1>3
    <2>2. o.by \in Nat
      BY <1>1, <2>1
    <2> QED
      BY <2>1, <2>2
  <1>4. ASSUME NEW sigs \in SUBSET Nat
        PROVE  /\ mine(sigs) \in SUBSET [sig : Nat, by : Nat]
               /\ \A o \in mine(sigs) : o \in a.owners \/ o.by = n
    BY <1>1
  <1>5. CASE IsUnquantified(f)
    <2>1. r = a
      BY <1>5 DEF NoteDetails
    <2> QED
      BY <2>1 DEF Notes
  <1>6. CASE ~IsUnquantified(f) /\ owned(f.detail.en)
    <2>1. r = [owners |-> a.owners, dup |-> a.dup \cup {<<n, owner(f.detail.en)>>}]
      BY <1>1, <1>6 DEF NoteDetails
    <2>2. PICK o \in a.owners : o.by = owner(f.detail.en) /\ owner(f.detail.en) \in Nat
      BY <1>3, <1>6
    <2> HIDE DEF owner, owned, mine
    <2>3. r \in DetailAccs
      BY <1>1, <2>1, <2>2 DEF DetailAccs
    <2> QED
      BY <1>6, <2>1, <2>2, <2>3 DEF Notes
  <1>7. CASE ~IsUnquantified(f) /\ ~owned(f.detail.en) /\ owned(f.detail.zh)
    <2>1. r = [owners |-> mine({f.detail.en}), dup |-> a.dup \cup {<<n, owner(f.detail.zh)>>}]
      BY <1>1, <1>7 DEF NoteDetails
    <2>2. PICK o \in a.owners : o.by = owner(f.detail.zh) /\ owner(f.detail.zh) \in Nat
      BY <1>3, <1>7
    <2>3. {f.detail.en} \in SUBSET Nat
      BY <1>2
    <2> HIDE DEF owner, owned, mine
    <2>4. /\ mine({f.detail.en}) \in SUBSET [sig : Nat, by : Nat]
          /\ \A x \in mine({f.detail.en}) : x \in a.owners \/ x.by = n
      BY <1>4, <2>3
    <2>5. r \in DetailAccs
      <3>1. a.dup \cup {<<n, owner(f.detail.zh)>>} \in SUBSET (Nat \X Nat)
        BY <1>1, <2>2
      <3>2. PICK D : D = a.dup \cup {<<n, owner(f.detail.zh)>>}
        OBVIOUS
      <3>3. PICK O : O = mine({f.detail.en})
        OBVIOUS
      <3>4. r = [owners |-> O, dup |-> D]
        BY <2>1, <3>2, <3>3
      <3>5. O \in SUBSET [sig : Nat, by : Nat] /\ D \in SUBSET (Nat \X Nat)
        BY <2>4, <3>1, <3>2, <3>3
      <3> QED
        BY <3>4, <3>5 DEF DetailAccs
    <2> QED
      BY <1>7, <2>1, <2>2, <2>4, <2>5 DEF Notes
  <1>8. CASE ~IsUnquantified(f) /\ ~owned(f.detail.en) /\ ~owned(f.detail.zh)
    <2>1. r = [owners |-> mine({f.detail.en, f.detail.zh}), dup |-> a.dup]
      BY <1>1, <1>8 DEF NoteDetails
    <2>2. {f.detail.en, f.detail.zh} \in SUBSET Nat
      BY <1>2
    <2> HIDE DEF owner, owned, mine
    <2>3. /\ mine({f.detail.en, f.detail.zh}) \in SUBSET [sig : Nat, by : Nat]
          /\ \A x \in mine({f.detail.en, f.detail.zh}) : x \in a.owners \/ x.by = n
      BY <1>4, <2>2
    <2>4. r \in DetailAccs
      BY <1>1, <2>1, <2>3 DEF DetailAccs
    <2> QED
      BY <1>8, <2>1, <2>3, <2>4 DEF Notes
  <1> QED
    BY <1>5, <1>6, <1>7, <1>8

\* RepeatedDetails goes through the findings one by one.
LEMMA DetailFold ==
  ASSUME NEW finds \in Seq(FindingRecords)
  PROVE  \E h : /\ h[0] = NoDetails
                /\ \A i \in 1 .. Len(finds) : h[i] = NoteDetails(h[i - 1], i, finds[i])
                /\ RepeatedDetails(finds) = h[Len(finds)].dup
  <1>1. PICK n \in Nat : n = Len(finds) /\ DOMAIN finds = 1 .. n
    BY LenProperties
  <1> DEFINE step == [i \in 1 .. n |-> [a \in DetailAccs |-> NoteDetails(a, i, finds[i])]]
             Unfolds(h) == h = [s \in SUBSET (1 .. n) |->
                 IF s = {} THEN NoDetails
                 ELSE NoteDetails(h[s \ {Max(s)}], [k \in 1 .. n |-> k][Max(s)],
                                  finds[[k \in 1 .. n |-> k][Max(s)]])]
             it == CHOOSE h : Unfolds(h)
  <1>2. \A i \in 1 .. n : finds[i] \in FindingRecords /\ i \in Nat
    BY <1>1, ElementOfSeq
  <1>3. \A i \in 1 .. n : \A a \in DetailAccs : step[i][a] \in DetailAccs
    BY <1>2, NoteStep DEF Notes
  <1>4. NoDetails \in DetailAccs
    BY DEF NoDetails, DetailAccs
  <1>5. PICK g \in [SUBSET (1 .. n) -> DetailAccs] : Iterates(g, step, NoDetails, n)
    <2> HIDE DEF step
    <2> QED
      BY <1>3, <1>4, IterationExists
  <1>6. Unfolds(g)
    <2>1. ASSUME NEW s \in SUBSET (1 .. n), s # {}
          PROVE  /\ step[Max(s)][g[s \ {Max(s)}]]
                      = NoteDetails(g[s \ {Max(s)}], Max(s), finds[Max(s)])
                 /\ [k \in 1 .. n |-> k][Max(s)] = Max(s)
      <3>1. Max(s) \in 1 .. n
        BY <2>1, IdsFinite, MaxIsUpper
      <3> QED
        BY <3>1, <1>5
    <2> HIDE DEF step
    <2> QED
      BY <1>5, <2>1 DEF Iterates
  <1>7. Unfolds(it)
    <2> HIDE DEF Unfolds
    <2> QED
      BY <1>6
  <1>8. RepeatedDetails(finds) = it[1 .. n].dup
    BY <1>1 DEF RepeatedDetails, NoDetails, FoldLeftDomain, FoldLeft, MapThenFoldSet
  <1> HIDE DEF it
  <1> DEFINE h == [i \in 0 .. n |-> it[1 .. i]]
  <1>9. h[0] = NoDetails
    BY <1>7
  <1>10. ASSUME NEW i \in 1 .. n
         PROVE  h[i] = NoteDetails(h[i - 1], i, finds[i])
    <2>1. 1 .. i \in SUBSET (1 .. n) /\ i \in Nat \ {0}
      OBVIOUS
    <2>2. Max(1 .. i) = i /\ (1 .. i) \ {i} = 1 .. (i - 1) /\ 1 .. i # {}
      BY <2>1, LastPosition
    <2>3. it[1 .. i] = NoteDetails(it[1 .. (i - 1)], i, finds[i])
      BY <1>7, <2>1, <2>2
    <2> QED
      BY <2>3
  <1>11. RepeatedDetails(finds) = h[n].dup
    BY <1>8
  <1> HIDE DEF h
  <1> QED
    BY <1>1, <1>9, <1>10, <1>11

\* After i findings: owners and duplicates are findings with patterns, an owner comes
\* before its duplicates, and a duplicate has one owner.
DetailInv(finds, a, i) ==
    /\ a \in DetailAccs
    /\ \A o \in a.owners : o.by \in 1 .. i /\ ~IsUnquantified(finds[o.by])
    /\ \A d \in a.dup : /\ d[1] \in 1 .. i /\ d[2] \in 1 .. i /\ d[2] < d[1]
                        /\ ~IsUnquantified(finds[d[1]]) /\ ~IsUnquantified(finds[d[2]])
    /\ \A d, e \in a.dup : d[1] = e[1] => d[2] = e[2]

\* Pairs of a finding and an earlier one whose detail it repeats: both have
\* patterns, and no finding has two such partners.
LEMMA DetailsPair ==
  ASSUME NEW finds \in Seq(FindingRecords), NEW n \in Nat, n = Len(finds), NEW dup,
         dup = RepeatedDetails(finds)
  PROVE  /\ dup \in SUBSET (Nat \X Nat)
         /\ \A d \in dup : /\ d[1] \in 1 .. n /\ d[2] \in 1 .. n /\ d[2] < d[1]
                           /\ ~IsUnquantified(finds[d[1]]) /\ ~IsUnquantified(finds[d[2]])
         /\ \A d, e \in dup : d[1] = e[1] => d[2] = e[2]
  <1>1. PICK h : /\ h[0] = NoDetails
                 /\ \A i \in 1 .. n : h[i] = NoteDetails(h[i - 1], i, finds[i])
                 /\ dup = h[n].dup
    BY DetailFold
  <1>2. ASSUME NEW i \in 1 .. n, NEW a, DetailInv(finds, a, i - 1), NEW r,
               r = NoteDetails(a, i, finds[i])
        PROVE  DetailInv(finds, r, i)
    <2>1. PICK f \in FindingRecords : f = finds[i]
      BY ElementOfSeq
    <2>2. a \in DetailAccs /\ i \in Nat
      BY <1>2 DEF DetailInv
    <2>3. Notes(a, i, f, r)
      BY <1>2, <2>1, <2>2, NoteStep
    <2>4. \A j \in 1 .. (i - 1) : j \in 1 .. i /\ j < i /\ j # i
      BY <2>2
    <2>5. i \in 1 .. i
      BY <2>2
    <2>6. CASE IsUnquantified(f)
      <3>1. r = a
        BY <2>3, <2>6 DEF Notes
      <3> QED
        BY <1>2, <2>4, <3>1 DEF DetailInv
    <2>7. CASE ~IsUnquantified(f)
      <3>1. r \in DetailAccs
        BY <2>3 DEF Notes
      <3>2. \A o \in r.owners : o.by \in 1 .. i /\ ~IsUnquantified(finds[o.by])
        BY <1>2, <2>1, <2>3, <2>4, <2>5, <2>7 DEF Notes, DetailInv
      <3>3. CASE r.dup = a.dup
        <4>1. \A d \in r.dup : /\ d[1] \in 1 .. i /\ d[2] \in 1 .. i /\ d[2] < d[1]
                               /\ ~IsUnquantified(finds[d[1]]) /\ ~IsUnquantified(finds[d[2]])
          BY <1>2, <2>4, <3>3 DEF DetailInv
        <4> QED
          BY <1>2, <3>1, <3>2, <3>3, <4>1 DEF DetailInv
      <3>4. ASSUME NEW o \in a.owners, r.dup = a.dup \cup {<<i, o.by>>}
            PROVE  DetailInv(finds, r, i)
        <4>1. PICK b : b = o.by /\ b \in 1 .. (i - 1) /\ ~IsUnquantified(finds[b])
          BY <1>2 DEF DetailInv
        <4>2. \A d \in r.dup : d \in a.dup \/ d = <<i, b>>
          BY <3>4, <4>1
        <4>3. \A d \in a.dup : d[1] \in 1 .. (i - 1)
          BY <1>2 DEF DetailInv
        <4>4. \A d \in r.dup : /\ d[1] \in 1 .. i /\ d[2] \in 1 .. i /\ d[2] < d[1]
                               /\ ~IsUnquantified(finds[d[1]]) /\ ~IsUnquantified(finds[d[2]])
          <5>1. ASSUME NEW d \in r.dup, d \in a.dup
                PROVE  /\ d[1] \in 1 .. i /\ d[2] \in 1 .. i /\ d[2] < d[1]
                       /\ ~IsUnquantified(finds[d[1]]) /\ ~IsUnquantified(finds[d[2]])
            BY <1>2, <2>4, <5>1 DEF DetailInv
          <5>2. ASSUME NEW d \in r.dup, d = <<i, b>>
                PROVE  /\ d[1] \in 1 .. i /\ d[2] \in 1 .. i /\ d[2] < d[1]
                       /\ ~IsUnquantified(finds[d[1]]) /\ ~IsUnquantified(finds[d[2]])
            BY <2>1, <2>4, <2>5, <2>7, <4>1, <5>2
          <5> QED
            BY <4>2, <5>1, <5>2
        <4>5. ASSUME NEW d \in r.dup, NEW e \in r.dup, d[1] = e[1]
              PROVE  d[2] = e[2]
          <5>1. CASE d \in a.dup /\ e \in a.dup
            BY <1>2, <4>5, <5>1 DEF DetailInv
          <5>2. CASE d = <<i, b>> /\ e = <<i, b>>
            BY <5>2
          <5>3. CASE d \in a.dup /\ e = <<i, b>>
            BY <2>4, <4>3, <4>5, <5>3
          <5>4. CASE d = <<i, b>> /\ e \in a.dup
            BY <2>4, <4>3, <4>5, <5>4
          <5> QED
            BY <4>2, <5>1, <5>2, <5>3, <5>4
        <4> QED
          BY <3>1, <3>2, <4>4, <4>5 DEF DetailInv
      <3> QED
        BY <2>3, <3>3, <3>4 DEF Notes
    <2> QED
      BY <2>6, <2>7
  <1> DEFINE Holding == {i \in Nat : i <= n => DetailInv(finds, h[i], i)}
  <1>3. 0 \in Holding
    <2>1. NoDetails \in DetailAccs /\ NoDetails.owners = {} /\ NoDetails.dup = {}
      BY DEF NoDetails, DetailAccs
    <2>2. DetailInv(finds, NoDetails, 0)
      BY <2>1 DEF DetailInv
    <2> QED
      BY <1>1, <2>2
  <1>4. ASSUME NEW i \in Nat, i \in Holding
        PROVE  i + 1 \in Holding
    <2> SUFFICES ASSUME i + 1 <= n
                 PROVE  DetailInv(finds, h[i + 1], i + 1)
      OBVIOUS
    <2>1. i + 1 \in 1 .. n /\ (i + 1) - 1 = i
      OBVIOUS
    <2> QED
      BY <1>1, <1>2, <1>4, <2>1
  <1>5. \A i \in Nat : i \in Holding
    <2> HIDE DEF Holding
    <2> QED
      BY <1>3, <1>4, EachNumber
  <1>6. DetailInv(finds, h[n], n)
    BY <1>5
  <1>7. h[n].dup \in SUBSET (Nat \X Nat)
    BY <1>6 DEF DetailInv, DetailAccs
  <1> QED
    BY <1>1, <1>6, <1>7 DEF DetailInv

\* Two findings whose details are not the same in either language.
Unlike(f, g) ==
    \A lang \in {"en", "zh"} : f.detail[lang] # NoSignature => f.detail[lang] # g.detail[lang]

\* What the validator wants of findings whose patterns are of different families:
\* each names something, and ids, details and the two names without a family are
\* not repeated.  A finding with the id of a family's own finding has that family.
Sound(log, finds) ==
    /\ \A k \in DOMAIN finds : finds[k].pids # {}
    /\ \A j, k \in DOMAIN finds : j # k =>
         /\ finds[j].id # finds[k].id
         /\ finds[j].pids \cap finds[k].pids \cap {Other, Unquantified} = {}
         /\ Unlike(finds[j], finds[k])
    /\ \A k \in DOMAIN finds, e \in DOMAIN log :
         finds[k].id = UnlabeledId(log[e].family) =>
             log[e].family \in FamiliesOf(log, finds[k].pids)

\* The findings that become one: a finding and those that repeat it.
Block(dup, x) == {x} \cup {d[1] : d \in {y \in dup : y[2] = x}}

\* The finding x with the patterns of its duplicates.
FullOf(s, dup, x) ==
    [s[x] EXCEPT !.pids = @ \cup UNION {s[d[1]].pids : d \in {y \in dup : y[2] = x}}]

\* A finding with the patterns of those that repeat it.
LEMMA FullFields ==
  ASSUME NEW log \in Seq(LogLines), NEW s, Separate(log, s), NEW dup, dup = RepeatedDetails(s),
         NEW x \in DOMAIN s, NEW g, g = FullOf(s, dup, x)
  PROVE  /\ g \in FindingRecords /\ g.id = s[x].id /\ g.detail = s[x].detail
         /\ g.group = s[x].group
         /\ ~g.cites /\ Named(log, g)
         /\ Block(dup, x) \subseteq DOMAIN s
         /\ g.pids = UNION {s[i].pids : i \in Block(dup, x)}
  <1>1. s \in Seq(FindingRecords)
    BY DEF Separate
  <1>2. PICK n \in Nat : n = Len(s) /\ DOMAIN s = 1 .. n
    BY <1>1, LenProperties
  <1>3. \A k \in 1 .. n : s[k] \in FindingRecords
    BY <1>1, <1>2, ElementOfSeq
  <1>4. \A d \in dup : /\ d[1] \in 1 .. n /\ d[2] \in 1 .. n
                       /\ ~IsUnquantified(s[d[1]]) /\ ~IsUnquantified(s[d[2]])
    BY <1>1, <1>2, DetailsPair
  <1>5. Block(dup, x) \subseteq DOMAIN s
    BY <1>2, <1>4 DEF Block
  <1>6. PICK pids : pids = UNION {s[i].pids : i \in Block(dup, x)}
    OBVIOUS
  <1>7. pids \in SUBSET Int
    BY <1>2, <1>3, <1>5, <1>6 DEF FindingRecords
  <1>8. PICK f \in FindingRecords : f = s[x] /\ ~f.cites
    BY <1>2, <1>3 DEF Separate
  <1>9. pids = f.pids \cup UNION {s[d[1]].pids : d \in {y \in dup : y[2] = x}}
    BY <1>6, <1>8 DEF Block
  <1>10. g = [f EXCEPT !.pids = pids]
    BY <1>8, <1>9 DEF FindingRecords, FullOf
  <1>11. /\ g \in FindingRecords /\ g.id = f.id /\ g.detail = f.detail /\ g.group = f.group
         /\ g.cites = f.cites /\ g.pids = pids
    BY <1>7, <1>10 DEF FindingRecords
  <1>12. Named(log, g)
    <2>1. CASE Block(dup, x) = {x}
      <3>1. g.pids = f.pids
        BY <1>6, <1>8, <1>11, <2>1
      <3> QED
        BY <1>8, <3>1 DEF Named, IsUnquantified, Separate
    <2>2. CASE Block(dup, x) # {x}
      <3>1. \A i \in Block(dup, x) : ~IsUnquantified(s[i])
        BY <1>4, <2>2 DEF Block
      <3>2. \A i \in Block(dup, x) : s[i].pids \subseteq pattern_manifest(log)
        BY <1>5, <3>1 DEF Separate, Named
      <3>3. pids \subseteq pattern_manifest(log)
        BY <1>6, <3>2
      <3> QED
        BY <1>11, <3>3 DEF Named
    <2> QED
      BY <2>1, <2>2
  <1> QED
    BY <1>5, <1>6, <1>8, <1>11, <1>12

\* MergeRepeated keeps the findings apart, and some of them.
LEMMA RepeatedMerged ==
  ASSUME NEW log \in Seq(LogLines), NEW s, Separate(log, s), NEW u, u = MergeRepeated(s)
  PROVE  /\ Separate(log, u)
         /\ Sound(log, s) => Sound(log, u)
         /\ s # <<>> => u # <<>>
  <1>1. s \in Seq(FindingRecords)
    BY DEF Separate
  <1>2. PICK n \in Nat : n = Len(s) /\ DOMAIN s = 1 .. n
    BY <1>1, LenProperties
  <1>3. PICK dup : dup = RepeatedDetails(s)
    OBVIOUS
  <1>4. /\ \A d \in dup : d[1] \in 1 .. n /\ d[2] \in 1 .. n /\ d[2] < d[1]
        /\ \A d, e \in dup : d[1] = e[1] => d[2] = e[2]
    BY <1>1, <1>2, <1>3, DetailsPair
  <1>5. PICK gone : gone = {d[1] : d \in dup}
    OBVIOUS
  <1>6. PICK full : full = [k \in DOMAIN s |-> FullOf(s, dup, k)]
    OBVIOUS
  <1>7. PICK keep : keep = DOMAIN s \ gone /\ keep \in SUBSET (1 .. n)
    BY <1>2
  <1>8. u = AtPositions(full, keep)
    BY <1>3, <1>5, <1>6, <1>7 DEF MergeRepeated, FullOf
  <1>9. ASSUME NEW x \in keep
        PROVE  /\ full[x] \in FindingRecords /\ full[x].id = s[x].id
               /\ full[x].detail = s[x].detail
               /\ ~full[x].cites /\ Named(log, full[x])
               /\ Block(dup, x) \subseteq DOMAIN s
               /\ full[x].pids = UNION {s[i].pids : i \in Block(dup, x)}
               /\ x \in DOMAIN s
    <2>1. x \in DOMAIN s
      BY <1>7
    <2>2. full[x] = FullOf(s, dup, x)
      BY <1>6, <2>1
    <2> QED
      BY <1>3, <2>1, <2>2, FullFields
  <1>10. PICK c \in Nat : /\ u \in Seq(FindingRecords) /\ Len(u) = c /\ c = Cardinality(keep)
                          /\ Selection(u, full, keep)
    <2>1. \A x \in keep : full[x] \in FindingRecords
      BY <1>9
    <2> QED
      BY <1>7, <1>8, <2>1, PositionsSelect
  <1>11. DOMAIN u = 1 .. c
    BY <1>10, LenProperties
  <1>12. PICK o \in [1 .. c -> keep] :
           /\ \A i, j \in 1 .. c : o[i] = o[j] => i = j
           /\ \A x \in keep : \E i \in 1 .. c : o[i] = x
           /\ \A k \in 1 .. c : u[k] = full[o[k]]
    <2>1. Cardinality(keep) = c /\ Selection(u, full, keep)
      BY <1>10
    <2> QED
      BY <2>1, Zenon DEF Selection
  <1>13. \A k \in 1 .. c : o[k] \in keep
    BY <1>12
  <1>14. ASSUME NEW x \in keep, NEW y \in keep, x # y
         PROVE  Block(dup, x) \cap Block(dup, y) = {}
    <2>1. x \notin gone /\ y \notin gone
      BY <1>7
    <2> QED
      BY <1>4, <1>5, <1>14, <2>1 DEF Block
  <1>15. ASSUME NEW x \in keep
         PROVE  FamiliesOf(log, full[x].pids)
                  = UNION {FamiliesOf(log, s[i].pids) : i \in Block(dup, x)}
    <2>1. PICK S : S = {s[i].pids : i \in Block(dup, x)}
      OBVIOUS
    <2>2. full[x].pids = UNION S
      BY <1>9, <2>1
    <2>3. FamiliesOf(log, UNION S) = UNION {FamiliesOf(log, pids) : pids \in S}
      BY FamiliesOfUnion
    <2>4. {FamiliesOf(log, pids) : pids \in S} = {FamiliesOf(log, s[i].pids) : i \in Block(dup, x)}
      BY <2>1
    <2> QED
      BY <2>2, <2>3, <2>4
  <1>16. ASSUME NEW x \in keep, NEW y \in keep, x # y
         PROVE  FamiliesOf(log, full[x].pids) \cap FamiliesOf(log, full[y].pids) = {}
    <2>1. ASSUME NEW i \in Block(dup, x), NEW j \in Block(dup, y)
          PROVE  FamiliesOf(log, s[i].pids) \cap FamiliesOf(log, s[j].pids) = {}
      <3>1. i # j
        BY <1>14, <1>16
      <3>2. i \in DOMAIN s /\ j \in DOMAIN s
        BY <1>9
      <3> QED
        BY <3>1, <3>2 DEF Separate
    <2>2. FamiliesOf(log, full[x].pids)
            = UNION {FamiliesOf(log, s[i].pids) : i \in Block(dup, x)}
      BY <1>15
    <2>3. FamiliesOf(log, full[y].pids)
            = UNION {FamiliesOf(log, s[i].pids) : i \in Block(dup, y)}
      BY <1>15
    <2> SUFFICES ASSUME NEW z \in FamiliesOf(log, full[x].pids),
                        z \in FamiliesOf(log, full[y].pids)
                 PROVE  FALSE
      OBVIOUS
    <2>4. PICK i \in Block(dup, x) : z \in FamiliesOf(log, s[i].pids)
      BY <2>2
    <2>5. PICK j \in Block(dup, y) : z \in FamiliesOf(log, s[j].pids)
      BY <2>3
    <2> QED
      BY <2>1, <2>4, <2>5
  <1>17. Separate(log, u)
    <2>1. \A k \in DOMAIN u : ~u[k].cites /\ Named(log, u[k])
      BY <1>9, <1>11, <1>12, <1>13
    <2>2. ASSUME NEW j \in DOMAIN u, NEW k \in DOMAIN u, j # k
          PROVE  FamiliesOf(log, u[j].pids) \cap FamiliesOf(log, u[k].pids) = {}
      <3>1. o[j] \in keep /\ o[k] \in keep /\ o[j] # o[k] /\ u[j] = full[o[j]] /\ u[k] = full[o[k]]
        BY <1>11, <1>12, <1>13, <2>2
      <3> QED
        BY <1>16, <3>1
    <2> QED
      BY <1>10, <2>1, <2>2 DEF Separate
  <1>18. ASSUME Sound(log, s)
         PROVE  Sound(log, u)
    <2>1. ASSUME NEW x \in keep
          PROVE  full[x].pids # {} /\ s[x].pids \subseteq full[x].pids
      <3>1. x \in Block(dup, x)
        BY DEF Block
      <3> QED
        BY <1>9, <1>18, <3>1 DEF Sound
    <2>2. ASSUME NEW x \in keep, NEW y \in keep, x # y
          PROVE  /\ full[x].id # full[y].id /\ Unlike(full[x], full[y])
                 /\ full[x].pids \cap full[y].pids \cap {Other, Unquantified} = {}
      <3>1. full[x].id # full[y].id /\ Unlike(full[x], full[y])
        BY <1>9, <1>18, <2>2 DEF Sound, Unlike
      <3>2. ASSUME NEW i \in Block(dup, x), NEW j \in Block(dup, y)
            PROVE  s[i].pids \cap s[j].pids \cap {Other, Unquantified} = {}
        <4>1. i # j
          BY <1>14, <2>2
        <4>2. i \in DOMAIN s /\ j \in DOMAIN s
          BY <1>9
        <4> QED
          BY <1>18, <4>1, <4>2 DEF Sound
      <3>3. full[x].pids = UNION {s[i].pids : i \in Block(dup, x)}
        BY <1>9
      <3>4. full[y].pids = UNION {s[i].pids : i \in Block(dup, y)}
        BY <1>9
      <3>5. full[x].pids \cap full[y].pids \cap {Other, Unquantified} = {}
        BY <3>2, <3>3, <3>4
      <3> QED
        BY <3>1, <3>5
    <2>3. ASSUME NEW x \in keep, NEW e \in DOMAIN log,
                 full[x].id = UnlabeledId(log[e].family)
          PROVE  log[e].family \in FamiliesOf(log, full[x].pids)
      <3>1. log[e].family \in FamiliesOf(log, s[x].pids)
        BY <1>9, <1>18, <2>3 DEF Sound
      <3>2. x \in Block(dup, x)
        BY DEF Block
      <3> QED
        BY <1>15, <3>1, <3>2
    <2>4. \A k \in DOMAIN u : u[k].pids # {}
      BY <1>11, <1>12, <1>13, <2>1
    <2>5. ASSUME NEW j \in DOMAIN u, NEW k \in DOMAIN u, j # k
          PROVE  /\ u[j].id # u[k].id /\ Unlike(u[j], u[k])
                 /\ u[j].pids \cap u[k].pids \cap {Other, Unquantified} = {}
      <3>1. o[j] \in keep /\ o[k] \in keep /\ o[j] # o[k] /\ u[j] = full[o[j]] /\ u[k] = full[o[k]]
        BY <1>11, <1>12, <1>13, <2>5
      <3> QED
        BY <2>2, <3>1
    <2>6. \A k \in DOMAIN u, e \in DOMAIN log : u[k].id = UnlabeledId(log[e].family) =>
             log[e].family \in FamiliesOf(log, u[k].pids)
      BY <1>11, <1>12, <1>13, <2>3
    <2> QED
      BY <2>4, <2>5, <2>6 DEF Sound
  <1>19. ASSUME s # <<>>
         PROVE  u # <<>>
    <2>1. n # 0
      BY <1>1, <1>2, <1>19, EmptySeq
    <2>2. 1 \in 1 .. n
      BY <2>1
    <2>3. 1 \notin gone
      BY <1>4, <1>5
    <2>4. PICK i \in 1 .. c : o[i] = 1
      BY <1>2, <1>7, <1>12, <2>2, <2>3
    <2>5. c # 0
      BY <2>4
    <2> QED
      BY <1>10, <2>5
  <1> QED
    BY <1>17, <1>18, <1>19

-----------------------------------------------------------------------------
(***************************************************************************)
(* AttachHinted                                                            *)
(***************************************************************************)

\* The accumulators of AttachHinted.
AttachAccs(U) == [done : Seq(FindingRecords), used : SUBSET U]

\* The kept patterns of the named families.
KeptOf(log, named) == {p \in Kept(log) : pattern_families(log, p) \in named}

\* What Attach does with one finding.
Attaches(log, U, a, f, named, r) ==
    /\ r \in AttachAccs(U)
    /\ ~IsUnquantified(f) \/ Cardinality(named) # 1 =>
         r.done = Append(a.done, f) /\ r.used = a.used
    /\ IsUnquantified(f) /\ Cardinality(named) = 1 /\ named \subseteq a.used => r = a
    /\ IsUnquantified(f) /\ Cardinality(named) = 1 /\ ~(named \subseteq a.used) =>
         /\ r.done = Append(a.done, [f EXCEPT !.pids = KeptOf(log, named)])
         /\ r.used = a.used \cup named

\* A finding with the kept patterns of some families.
LEMMA HintedFields ==
  ASSUME NEW log \in Seq(LogLines), NEW f \in FindingRecords, NEW named, NEW g,
         g = [f EXCEPT !.pids = KeptOf(log, named)]
  PROVE  /\ g \in FindingRecords /\ g.id = f.id /\ g.detail = f.detail /\ g.group = f.group
         /\ g.cites = f.cites /\ g.pids = KeptOf(log, named)
  <1>1. PICK pids : pids = KeptOf(log, named)
    OBVIOUS
  <1>2. pids \in SUBSET Int
    BY <1>1, PatternsFinite DEF KeptOf
  <1> QED
    BY <1>1, <1>2 DEF FindingRecords

\* Attach is that step.
LEMMA AttachStep ==
  ASSUME NEW log \in Seq(LogLines), NEW U, NEW a \in AttachAccs(U), NEW f \in FindingRecords,
         NEW named \in SUBSET U, NEW r, r = Attach(log, Kept(log), a, f, named)
  PROVE  Attaches(log, U, a, f, named, r)
  <1>1. /\ a.done \in Seq(FindingRecords) /\ a.used \in SUBSET U
        /\ a = [done |-> a.done, used |-> a.used]
    BY DEF AttachAccs
  <1>2. CASE ~IsUnquantified(f) \/ Cardinality(named) # 1
    <2>1. r = [done |-> Append(a.done, f), used |-> a.used]
      BY <1>1, <1>2 DEF Attach
    <2>2. Append(a.done, f) \in Seq(FindingRecords)
      BY <1>1, AppendProperties
    <2>3. r \in AttachAccs(U)
      BY <1>1, <2>1, <2>2 DEF AttachAccs
    <2> QED
      BY <1>2, <2>1, <2>3 DEF Attaches
  <1>3. CASE IsUnquantified(f) /\ Cardinality(named) = 1 /\ named \subseteq a.used
    <2>1. r = a
      BY <1>3 DEF Attach
    <2> QED
      BY <1>3, <2>1 DEF Attaches
  <1>4. CASE IsUnquantified(f) /\ Cardinality(named) = 1 /\ ~(named \subseteq a.used)
    <2>1. PICK g : g = [f EXCEPT !.pids = KeptOf(log, named)]
      OBVIOUS
    <2>2. g \in FindingRecords
      BY <2>1, HintedFields
    <2>3. r = [done |-> Append(a.done, g), used |-> a.used \cup named]
      BY <1>1, <1>4, <2>1 DEF Attach, KeptOf
    <2>4. Append(a.done, g) \in Seq(FindingRecords)
      BY <1>1, <2>2, AppendProperties
    <2>5. r \in AttachAccs(U)
      BY <1>1, <2>3, <2>4 DEF AttachAccs
    <2> QED
      BY <1>4, <2>1, <2>3, <2>5 DEF Attaches
  <1> QED
    BY <1>2, <1>3, <1>4

\* The accumulators of AttachHinted, one after another.
AttachRun(h, log, finds, base, present) ==
    /\ h[0] = base
    /\ \A i \in 1 .. Len(finds) :
         h[i] = Attach(log, Kept(log), h[i - 1], finds[i], finds[i].hints \cap present)
    /\ AttachHinted(log, finds) = h[Len(finds)].done

\* AttachHinted goes through the findings one by one.
LEMMA AttachFold ==
  ASSUME NEW log \in Seq(LogLines), NEW finds \in Seq(FindingRecords), NEW base, NEW present,
         base = [done |-> <<>>, used |-> FamiliesOf(log, UsedBy(finds))],
         present = FamiliesOf(log, Kept(log)), NEW U, Nat \subseteq U, base.used \subseteq U
  PROVE  \E h : AttachRun(h, log, finds, base, present)
  <1>1. PICK n \in Nat : n = Len(finds) /\ DOMAIN finds = 1 .. n
    BY LenProperties
  <1> DEFINE To(a, i) == Attach(log, Kept(log), a, finds[i], finds[i].hints \cap present)
             step == [i \in 1 .. n |-> [a \in AttachAccs(U) |-> To(a, i)]]
             Unfolds(h) == h = [s \in SUBSET (1 .. n) |->
                 IF s = {} THEN base ELSE To(h[s \ {Max(s)}], Max(s))]
             it == CHOOSE h : Unfolds(h)
  <1>2. \A i \in 1 .. n : finds[i] \in FindingRecords /\ finds[i].hints \cap present \in SUBSET U
    <2>1. \A i \in 1 .. n : finds[i] \in FindingRecords
      BY <1>1, ElementOfSeq
    <2> QED
      BY <2>1 DEF FindingRecords
  <1>3. \A i \in 1 .. n : \A a \in AttachAccs(U) : To(a, i) \in AttachAccs(U)
    <2>1. ASSUME NEW i \in 1 .. n, NEW a \in AttachAccs(U)
          PROVE  Attaches(log, U, a, finds[i], finds[i].hints \cap present, To(a, i))
      BY <1>2, AttachStep
    <2> HIDE DEF To
    <2> QED
      BY <2>1 DEF Attaches
  <1>4. base \in AttachAccs(U)
    BY DEF AttachAccs
  <1>5. PICK g \in [SUBSET (1 .. n) -> AttachAccs(U)] : Iterates(g, step, base, n)
    <2>1. \A i \in 1 .. n : \A a \in AttachAccs(U) : step[i][a] \in AttachAccs(U)
      <3> HIDE DEF To
      <3> QED
        BY <1>3
    <2> HIDE DEF step
    <2> QED
      BY <1>4, <2>1, IterationExists
  <1>6. Unfolds(g)
    <2>1. ASSUME NEW s \in SUBSET (1 .. n), s # {}
          PROVE  step[Max(s)][g[s \ {Max(s)}]] = To(g[s \ {Max(s)}], Max(s))
      <3>1. Max(s) \in 1 .. n
        BY <2>1, IdsFinite, MaxIsUpper
      <3> HIDE DEF To
      <3> QED
        BY <3>1, <1>5
    <2> HIDE DEF step, To
    <2> QED
      BY <1>5, <2>1 DEF Iterates
  <1>7. Unfolds(it)
    <2> HIDE DEF Unfolds
    <2> QED
      BY <1>6
  <1>8. AttachHinted(log, finds) = it[1 .. n].done
    BY <1>1 DEF AttachHinted, AttachAll, FoldLeft, MapThenFoldSet
  <1> HIDE DEF it
  <1> DEFINE h == [i \in 0 .. n |-> it[1 .. i]]
  <1>9. h[0] = base
    BY <1>7
  <1>10. ASSUME NEW i \in 1 .. n
         PROVE  h[i] = To(h[i - 1], i)
    <2>1. 1 .. i \in SUBSET (1 .. n) /\ i \in Nat \ {0}
      OBVIOUS
    <2>2. Max(1 .. i) = i /\ (1 .. i) \ {i} = 1 .. (i - 1) /\ 1 .. i # {}
      BY <2>1, LastPosition
    <2> HIDE DEF To
    <2>3. it[1 .. i] = To(it[1 .. (i - 1)], i)
      BY <1>7, <2>1, <2>2
    <2> QED
      BY <2>3
  <1>11. AttachHinted(log, finds) = h[n].done
    BY <1>8
  <1>12. AttachRun(h, log, finds, base, present)
    <2> HIDE DEF h
    <2> QED
      BY <1>1, <1>9, <1>10, <1>11 DEF AttachRun
  <1> HIDE DEF h
  <1> QED
    BY <1>12

\* A finding as Attach leaves it: with the patterns it had, or with kept ones in the
\* place of none.
From(log, f, g) ==
    /\ g \in FindingRecords /\ g.id = f.id /\ g.detail = f.detail /\ ~g.cites /\ Named(log, g)
    /\ \/ g.pids = f.pids
       \/ IsUnquantified(f) /\ g.pids \subseteq Kept(log) /\ g.pids # {}

\* After i findings: each that was kept comes from one of them (o says which), and has
\* either its patterns or those of a family nobody used.
AttachInv(log, s, U, a, i, o) ==
    /\ a \in AttachAccs(U)
    /\ FamiliesOf(log, UsedBy(s)) \subseteq a.used
    /\ o \in [DOMAIN a.done -> 1 .. i]
    /\ \A j, k \in DOMAIN a.done : o[j] = o[k] => j = k
    /\ \A k \in DOMAIN a.done :
         /\ From(log, s[o[k]], a.done[k])
         /\ FamiliesOf(log, a.done[k].pids) \subseteq a.used
         /\ \/ a.done[k].pids = s[o[k]].pids
            \/ FamiliesOf(log, a.done[k].pids) \cap FamiliesOf(log, UsedBy(s)) = {}
    /\ \A j, k \in DOMAIN a.done : j # k =>
         FamiliesOf(log, a.done[j].pids) \cap FamiliesOf(log, a.done[k].pids) = {}
    /\ Kept(log) = {} => Len(a.done) = i

\* One more finding from the next position.
LEMMA AttachOneMore ==
  ASSUME NEW log, NEW s, NEW U, NEW a, NEW i \in Nat \ {0}, NEW o,
         AttachInv(log, s, U, a, i - 1, o), NEW r \in AttachAccs(U), NEW g,
         r.done = Append(a.done, g), a.used \subseteq r.used,
         From(log, s[i], g), FamiliesOf(log, g.pids) \subseteq r.used,
         g.pids = s[i].pids \/ FamiliesOf(log, g.pids) \cap FamiliesOf(log, UsedBy(s)) = {},
         \A k \in DOMAIN a.done :
            FamiliesOf(log, a.done[k].pids) \cap FamiliesOf(log, g.pids) = {}
  PROVE  \E p : AttachInv(log, s, U, r, i, p)
  <1>1. PICK done \in Seq(FindingRecords) : done = a.done
    BY DEF AttachInv, AttachAccs
  <1>2. PICK n \in Nat : n = Len(done)
    BY <1>1, LenProperties
  <1>3. g \in FindingRecords
    BY DEF From
  <1>4. PICK d : d = r.done
    OBVIOUS
  <1>5. /\ Len(d) = n + 1 /\ DOMAIN d = 1 .. (n + 1) /\ DOMAIN done = 1 .. n
        /\ d[n + 1] = g /\ \A k \in 1 .. n : d[k] = done[k]
        /\ \A k \in 1 .. (n + 1) : k = n + 1 \/ k \in 1 .. n
    BY <1>1, <1>2, <1>3, <1>4, AppendedParts
  <1> DEFINE p == [k \in 1 .. (n + 1) |-> IF k = n + 1 THEN i ELSE o[k]]
  <1>6. /\ o \in [1 .. n -> 1 .. (i - 1)]
        /\ \A j, k \in 1 .. n : o[j] = o[k] => j = k
        /\ \A k \in 1 .. n :
             /\ From(log, s[o[k]], done[k])
             /\ FamiliesOf(log, done[k].pids) \subseteq a.used
             /\ \/ done[k].pids = s[o[k]].pids
                \/ FamiliesOf(log, done[k].pids) \cap FamiliesOf(log, UsedBy(s)) = {}
        /\ \A j, k \in 1 .. n : j # k =>
             FamiliesOf(log, done[j].pids) \cap FamiliesOf(log, done[k].pids) = {}
    BY <1>1, <1>5 DEF AttachInv
  <1>7. \A k \in 1 .. n : o[k] \in 1 .. (i - 1) /\ o[k] \in 1 .. i /\ o[k] # i /\ k # n + 1
    BY <1>6
  <1>8. /\ p[n + 1] = i /\ \A k \in 1 .. n : p[k] = o[k]
    BY <1>7
  <1>9. p \in [1 .. (n + 1) -> 1 .. i]
    BY <1>5, <1>7
  <1> HIDE DEF p
  <1>10. \A j, k \in 1 .. (n + 1) : p[j] = p[k] => j = k
    BY <1>5, <1>6, <1>7, <1>8
  <1>11. ASSUME NEW k \in 1 .. (n + 1)
         PROVE  /\ From(log, s[p[k]], d[k])
                /\ FamiliesOf(log, d[k].pids) \subseteq r.used
                /\ \/ d[k].pids = s[p[k]].pids
                   \/ FamiliesOf(log, d[k].pids) \cap FamiliesOf(log, UsedBy(s)) = {}
    <2>1. CASE k = n + 1
      BY <1>5, <1>8, <2>1
    <2>2. CASE k \in 1 .. n
      BY <1>5, <1>6, <1>8, <2>2
    <2> QED
      BY <1>5, <2>1, <2>2
  <1>12. ASSUME NEW j \in 1 .. (n + 1), NEW k \in 1 .. (n + 1), j # k
         PROVE  FamiliesOf(log, d[j].pids) \cap FamiliesOf(log, d[k].pids) = {}
    <2>1. CASE j \in 1 .. n /\ k \in 1 .. n
      BY <1>5, <1>6, <1>12, <2>1
    <2>2. CASE j = n + 1 /\ k \in 1 .. n
      BY <1>1, <1>5, <2>2
    <2>3. CASE j \in 1 .. n /\ k = n + 1
      BY <1>1, <1>5, <2>3
    <2> QED
      BY <1>5, <1>12, <2>1, <2>2, <2>3
  <1>13. Kept(log) = {} => Len(d) = i
    <2>1. Kept(log) = {} => n = i - 1
      BY <1>1, <1>2 DEF AttachInv
    <2> QED
      BY <1>5, <2>1
  <1>14. FamiliesOf(log, UsedBy(s)) \subseteq r.used
    BY DEF AttachInv
  <1>15. PICK D : D = 1 .. (n + 1)
    OBVIOUS
  <1>16. DOMAIN d = D /\ p \in [D -> 1 .. i]
    BY <1>5, <1>9, <1>15
  <1>17. AttachInv(log, s, U, r, i, p)
    <2>1. \A j, k \in D : p[j] = p[k] => j = k
      BY <1>10, <1>15
    <2>2. \A k \in D : /\ From(log, s[p[k]], d[k])
                       /\ FamiliesOf(log, d[k].pids) \subseteq r.used
                       /\ \/ d[k].pids = s[p[k]].pids
                          \/ FamiliesOf(log, d[k].pids) \cap FamiliesOf(log, UsedBy(s)) = {}
      BY <1>11, <1>15
    <2>3. \A j, k \in D : j # k =>
             FamiliesOf(log, d[j].pids) \cap FamiliesOf(log, d[k].pids) = {}
      BY <1>12, <1>15
    <2> QED
      BY <1>4, <1>13, <1>14, <1>16, <2>1, <2>2, <2>3 DEF AttachInv
  <1> QED
    BY <1>17

\* The families of finitely many patterns are finitely many.
LEMMA KeptFamiliesFinite ==
  ASSUME NEW log \in Seq(LogLines), NEW S \in SUBSET Kept(log)
  PROVE  IsFiniteSet(FamiliesOf(log, S))
  <1> DEFINE T == S \ {Other, Unquantified}
             f == [p \in T |-> pattern_families(log, p)]
  <1>1. IsFiniteSet(Kept(log))
    BY PatternsFinite, FS_Subset
  <1>2. IsFiniteSet(T)
    BY <1>1, FS_Subset
  <1>3. f \in Surjection(T, FamiliesOf(log, S))
    BY DEF Surjection, FamiliesOf
  <1> HIDE DEF T, f
  <1> QED
    BY <1>2, <1>3, FS_Surjection

\* Kept patterns are patterns of lines, and so are their families.
LEMMA KeptFamilies ==
  ASSUME NEW log \in Seq(LogLines), NEW p \in Kept(log)
  PROVE  /\ p # Other /\ p # Unquantified /\ p \in Nat
         /\ pattern_families(log, p) \in Nat
         /\ \E e \in DOMAIN log : pattern_families(log, p) = log[e].family
  <1>1. p \in Nat \ {Other} /\ p \in PatternsOf(log)
    BY PatternsFinite
  <1>2. PICK S : S = {e \in DOMAIN log : log[e].pattern = p}
    OBVIOUS
  <1>3. S # {} /\ S \in SUBSET DOMAIN log
    BY <1>1, <1>2 DEF PatternsOf
  <1>4. Max(S) \in S
    BY <1>3, EntriesFinite, MaxIsUpper
  <1>5. pattern_families(log, p) = log[Max(S)].family
    BY <1>2 DEF pattern_families
  <1>6. log[Max(S)] \in LogLines
    BY <1>3, <1>4, LenProperties, ElementOfSeq
  <1>7. log[Max(S)].family \in Nat
    BY <1>6 DEF LogLines
  <1> QED
    BY <1>1, <1>3, <1>4, <1>5, <1>7 DEF Unquantified

\* One more finding keeps this.
LEMMA AttachInvStep ==
  ASSUME NEW log \in Seq(LogLines), NEW s, Separate(log, s), NEW U, NEW i \in 1 .. Len(s),
         NEW a, NEW o, AttachInv(log, s, U, a, i - 1, o), NEW r, NEW named,
         named = s[i].hints \cap FamiliesOf(log, Kept(log)),
         Attaches(log, U, a, s[i], named, r)
  PROVE  \E p : AttachInv(log, s, U, r, i, p)
  <1>1. s \in Seq(FindingRecords)
    BY DEF Separate
  <1>2. i \in DOMAIN s /\ i \in Nat \ {0}
    BY <1>1, LenProperties
  <1>3. PICK f \in FindingRecords : f = s[i] /\ ~f.cites /\ Named(log, f)
    BY <1>1, <1>2, ElementOfSeq DEF Separate
  <1>4. r \in AttachAccs(U) /\ a \in AttachAccs(U)
    BY DEF Attaches, AttachInv
  <1>5. IsFiniteSet(named)
    BY KeptFamiliesFinite, FS_Subset
  <1>6. PICK used : used = FamiliesOf(log, UsedBy(s)) /\ used \subseteq a.used
    BY DEF AttachInv
  <1>7. FamiliesOf(log, f.pids) \subseteq used
    BY <1>2, <1>3, <1>6 DEF FamiliesOf, UsedBy
  <1>8. \A k \in DOMAIN a.done : o[k] \in 1 .. (i - 1)
    BY DEF AttachInv
  <1>9. CASE ~IsUnquantified(f) \/ Cardinality(named) # 1
    <2>1. r.done = Append(a.done, f) /\ r.used = a.used
      BY <1>3, <1>9 DEF Attaches
    <2>2. From(log, s[i], f)
      BY <1>3 DEF From
    <2>3. ASSUME NEW k \in DOMAIN a.done
          PROVE  FamiliesOf(log, a.done[k].pids) \cap FamiliesOf(log, f.pids) = {}
      <3>1. CASE a.done[k].pids = s[o[k]].pids
        <4>1. o[k] \in DOMAIN s /\ o[k] # i
          BY <1>1, <1>2, <1>8, LenProperties
        <4> QED
          BY <1>2, <1>3, <3>1, <4>1 DEF Separate
      <3>2. CASE FamiliesOf(log, a.done[k].pids) \cap used = {}
        BY <1>7, <3>2
      <3> QED
        BY <1>6, <3>1, <3>2 DEF AttachInv
    <2>4. FamiliesOf(log, f.pids) \subseteq r.used
      BY <1>6, <1>7, <2>1
    <2> QED
      BY <1>2, <1>3, <1>4, <2>1, <2>2, <2>3, <2>4, AttachOneMore
  <1>10. CASE IsUnquantified(f) /\ Cardinality(named) = 1
    <2>1. PICK x : named = {x}
      BY <1>5, <1>10, FS_Singleton
    <2>2. PICK p \in Kept(log) : x = pattern_families(log, p)
      BY <2>1 DEF FamiliesOf
    <2>3. CASE named \subseteq a.used
      <3>1. r = a
        BY <1>3, <1>10, <2>3 DEF Attaches
      <3>2. o \in [DOMAIN a.done -> 1 .. i]
        <4>1. \A k \in DOMAIN a.done : o[k] \in 1 .. i
          BY <1>2, <1>8
        <4>2. o = [k \in DOMAIN a.done |-> o[k]]
          BY DEF AttachInv
        <4> QED
          BY <4>1, <4>2
      <3>3. Kept(log) # {}
        BY <2>2
      <3>4. AttachInv(log, s, U, r, i, o)
        BY <3>1, <3>2, <3>3 DEF AttachInv
      <3> QED
        BY <3>4
    <2>4. CASE ~(named \subseteq a.used)
      <3>1. PICK g : g = [f EXCEPT !.pids = KeptOf(log, named)]
        OBVIOUS
      <3>2. r.done = Append(a.done, g) /\ r.used = a.used \cup named
        BY <1>3, <1>10, <2>4, <3>1 DEF Attaches
      <3>3. /\ g \in FindingRecords /\ g.id = f.id /\ g.detail = f.detail
            /\ g.cites = f.cites /\ g.pids = KeptOf(log, named)
        BY <3>1, HintedFields
      <3>4. g.pids \subseteq Kept(log) /\ p \in g.pids
        BY <2>1, <2>2, <3>3 DEF KeptOf
      <3>5. Named(log, g)
        BY <3>4, PatternsFinite DEF Named
      <3>6. From(log, s[i], g)
        BY <1>3, <1>10, <3>3, <3>4, <3>5 DEF From
      <3>7. FamiliesOf(log, g.pids) \subseteq {x}
        BY <2>1, <3>3 DEF KeptOf, FamiliesOf
      <3>8. x \notin a.used /\ FamiliesOf(log, g.pids) \subseteq r.used /\ a.used \subseteq r.used
        BY <2>1, <2>4, <3>2, <3>7
      <3>9. FamiliesOf(log, g.pids) \cap FamiliesOf(log, UsedBy(s)) = {}
        BY <1>6, <3>7, <3>8
      <3>10. \A k \in DOMAIN a.done :
                FamiliesOf(log, a.done[k].pids) \cap FamiliesOf(log, g.pids) = {}
        <4>1. \A k \in DOMAIN a.done : FamiliesOf(log, a.done[k].pids) \subseteq a.used
          BY DEF AttachInv
        <4> QED
          BY <3>7, <3>8, <4>1
      <3> QED
        BY <1>2, <1>4, <3>2, <3>6, <3>8, <3>9, <3>10, AttachOneMore
    <2> QED
      BY <2>3, <2>4
  <1> QED
    BY <1>9, <1>10

\* AttachHinted keeps the findings apart, and drops none when nothing was kept.
LEMMA HintedAttached ==
  ASSUME NEW log \in Seq(LogLines), NEW s, Separate(log, s), NEW u, u = AttachHinted(log, s)
  PROVE  /\ Separate(log, u)
         /\ Sound(log, s) => Sound(log, u)
         /\ s # <<>> /\ Kept(log) = {} => u # <<>>
  <1>1. s \in Seq(FindingRecords)
    BY DEF Separate
  <1>2. PICK n \in Nat : n = Len(s) /\ DOMAIN s = 1 .. n
    BY <1>1, LenProperties
  <1>3. PICK used : used = FamiliesOf(log, UsedBy(s))
    OBVIOUS
  <1>4. PICK U : U = Nat \cup used
    OBVIOUS
  <1>5. PICK base : base = [done |-> <<>>, used |-> used]
    OBVIOUS
  <1>6. PICK present : present = FamiliesOf(log, Kept(log))
    OBVIOUS
  <1>7. PICK h : /\ h[0] = base
                 /\ \A i \in 1 .. n : h[i] = Attach(log, Kept(log), h[i - 1], s[i],
                                                    s[i].hints \cap present)
                 /\ u = h[n].done
    <2>1. Nat \subseteq U /\ base.used \subseteq U
      BY <1>4, <1>5
    <2>2. base = [done |-> <<>>, used |-> FamiliesOf(log, UsedBy(s))]
      BY <1>3, <1>5
    <2>3. \E h : AttachRun(h, log, s, base, present)
      BY <1>1, <1>6, <2>1, <2>2, AttachFold
    <2> QED
      BY <1>2, <2>3 DEF AttachRun
  <1> DEFINE Holding == {i \in Nat : i <= n => \E o : AttachInv(log, s, U, h[i], i, o)}
  <1>8. 0 \in Holding
    <2>1. base.done = <<>> /\ base.used = used /\ base \in AttachAccs(U)
      BY <1>4, <1>5 DEF AttachAccs
    <2>2. AttachInv(log, s, U, base, 0, <<>>)
      BY <1>3, <2>1 DEF AttachInv
    <2> QED
      BY <1>7, <2>2
  <1>9. ASSUME NEW i \in Nat, i \in Holding, i + 1 <= n
        PROVE  \E o : AttachInv(log, s, U, h[i + 1], i + 1, o)
    <2>1. PICK j \in 1 .. Len(s) : j = i + 1 /\ j - 1 = i
      BY <1>2, <1>9
    <2>2. PICK a : a = h[j - 1]
      OBVIOUS
    <2>3. PICK r : r = h[j]
      OBVIOUS
    <2>4. PICK o : AttachInv(log, s, U, a, j - 1, o)
      BY <1>9, <2>1, <2>2
    <2>5. PICK f \in FindingRecords : f = s[j]
      BY <1>1, <2>1, ElementOfSeq
    <2>6. PICK named : named = f.hints \cap present
      OBVIOUS
    <2>7. named \in SUBSET U
      BY <1>4, <2>5, <2>6 DEF FindingRecords
    <2>8. r = Attach(log, Kept(log), a, f, named)
      BY <1>2, <1>7, <2>1, <2>2, <2>3, <2>5, <2>6
    <2>9. a \in AttachAccs(U)
      BY <2>4 DEF AttachInv
    <2>10. Attaches(log, U, a, f, named, r)
      BY <2>7, <2>8, <2>9, AttachStep
    <2>11. \E p : AttachInv(log, s, U, r, j, p)
      BY <1>6, <2>1, <2>4, <2>5, <2>6, <2>10, AttachInvStep
    <2> QED
      BY <2>1, <2>3, <2>11
  <1>10. \A i \in Nat : i \in Holding
    <2>1. \A i \in Nat : i \in Holding => i + 1 \in Holding
      BY <1>9
    <2> HIDE DEF Holding
    <2> QED
      BY <1>8, <2>1, EachNumber
  <1>11. PICK a : a = h[n]
    OBVIOUS
  <1>12. PICK o : AttachInv(log, s, U, a, n, o)
    <2>1. n \in Holding
      BY <1>10
    <2> QED
      BY <1>11, <2>1
  <1>13. /\ u \in Seq(FindingRecords)
         /\ o \in [DOMAIN u -> DOMAIN s]
         /\ \A j, k \in DOMAIN u : o[j] = o[k] => j = k
         /\ \A k \in DOMAIN u : From(log, s[o[k]], u[k])
         /\ \A j, k \in DOMAIN u : j # k =>
              FamiliesOf(log, u[j].pids) \cap FamiliesOf(log, u[k].pids) = {}
         /\ Kept(log) = {} => Len(u) = n
    BY <1>2, <1>7, <1>11, <1>12 DEF AttachInv, AttachAccs
  <1>14. Separate(log, u)
    BY <1>13 DEF Separate, From
  <1>15. ASSUME Sound(log, s)
         PROVE  Sound(log, u)
    <2>1. ASSUME NEW k \in DOMAIN u
          PROVE  /\ o[k] \in DOMAIN s /\ u[k].pids # {} /\ u[k].id = s[o[k]].id
                 /\ u[k].detail = s[o[k]].detail
                 /\ u[k].pids \cap {Other, Unquantified} \subseteq s[o[k]].pids
      <3>1. o[k] \in DOMAIN s /\ From(log, s[o[k]], u[k])
        BY <1>13
      <3>2. \A p \in Kept(log) : p # Other /\ p # Unquantified
        BY KeptFamilies
      <3> QED
        BY <1>15, <3>1, <3>2 DEF From, Sound
    <2>2. ASSUME NEW j \in DOMAIN u, NEW k \in DOMAIN u, j # k
          PROVE  /\ u[j].id # u[k].id /\ Unlike(u[j], u[k])
                 /\ u[j].pids \cap u[k].pids \cap {Other, Unquantified} = {}
      <3>1. o[j] # o[k] /\ o[j] \in DOMAIN s /\ o[k] \in DOMAIN s
        BY <1>13, <2>1, <2>2
      <3>2. /\ s[o[j]].id # s[o[k]].id /\ Unlike(s[o[j]], s[o[k]])
            /\ s[o[j]].pids \cap s[o[k]].pids \cap {Other, Unquantified} = {}
        BY <1>15, <3>1 DEF Sound
      <3> QED
        BY <2>1, <3>2 DEF Unlike
    <2>3. ASSUME NEW k \in DOMAIN u, NEW e \in DOMAIN log, u[k].id = UnlabeledId(log[e].family)
          PROVE  log[e].family \in FamiliesOf(log, u[k].pids)
      <3>1. log[e].family \in FamiliesOf(log, s[o[k]].pids)
        BY <1>15, <2>1, <2>3 DEF Sound
      <3>2. ~IsUnquantified(s[o[k]])
        BY <3>1, FamiliesOfUnion DEF IsUnquantified
      <3> QED
        BY <1>13, <3>1, <3>2 DEF From
    <2> QED
      BY <2>1, <2>2, <2>3 DEF Sound
  <1>16. ASSUME s # <<>>, Kept(log) = {}
         PROVE  u # <<>>
    <2>1. n # 0
      BY <1>1, <1>2, <1>16, EmptySeq
    <2> QED
      BY <1>13, <1>16, <2>1
  <1> QED
    BY <1>14, <1>15, <1>16

-----------------------------------------------------------------------------
(***************************************************************************)
(* AppendOmitted                                                           *)
(***************************************************************************)

\* The parts of AppendOmitted: the patterns no finding has, those of a family, the
\* findings of a family, the families without one, and the two kinds of findings.
Omitted(log, s) == Kept(log) \ UsedBy(s)
Members(log, s, x) == {p \in Omitted(log, s) : pattern_families(log, p) = x}
Holders(log, s, x) == {n \in DOMAIN s : x \in FamiliesOf(log, s[n].pids)}
Missing(log, s) == {x \in FamiliesOf(log, Omitted(log, s)) : Holders(log, s, x) = {}}
Joining(log, s, n) ==
    UNION {Members(log, s, x) : x \in {y \in FamiliesOf(log, Omitted(log, s)) :
               Holders(log, s, y) # {} /\ Max(Holders(log, s, y)) = n}}
Joined(log, s, n) == [s[n] EXCEPT !.pids = @ \cup Joining(log, s, n)]
Fresh(log, s, x) ==
    [id |-> UnlabeledId(x), group |-> "secondary", cites |-> FALSE, entries |-> {},
     pids |-> Members(log, s, x), count |-> NoCount, occurrences |-> 0,
     detail |-> [en |-> NoSignature, zh |-> NoSignature], hints |-> {}]

\* The last finding of a family is one of its findings.
LEMMA LastHolder ==
  ASSUME NEW s \in Seq(FindingRecords), NEW log, NEW x, Holders(log, s, x) # {}
  PROVE  /\ Max(Holders(log, s, x)) \in DOMAIN s
         /\ x \in FamiliesOf(log, s[Max(Holders(log, s, x))].pids)
  <1>1. PICK n \in Nat : DOMAIN s = 1 .. n
    BY LenProperties
  <1>2. PICK H : H = Holders(log, s, x) /\ H \in SUBSET (1 .. n) /\ H # {}
    BY <1>1 DEF Holders
  <1>3. Max(H) \in H
    BY <1>2, IdsFinite, MaxIsUpper
  <1> QED
    BY <1>2, <1>3 DEF Holders

\* A finding gets kept patterns of families it already has, and an unquantified
\* one gets none.
LEMMA JoinedFields ==
  ASSUME NEW log \in Seq(LogLines), NEW s, Separate(log, s), NEW n \in DOMAIN s,
         NEW g, g = Joined(log, s, n)
  PROVE  /\ g \in FindingRecords /\ g.id = s[n].id /\ g.detail = s[n].detail
         /\ g.group = s[n].group /\ ~g.cites /\ Named(log, g)
         /\ g.pids = s[n].pids \cup Joining(log, s, n)
         /\ Joining(log, s, n) \subseteq Kept(log)
         /\ FamiliesOf(log, g.pids) = FamiliesOf(log, s[n].pids)
         /\ Kept(log) \subseteq UsedBy(s) => g = s[n]
  <1>1. s \in Seq(FindingRecords) /\ s[n] \in FindingRecords /\ ~s[n].cites /\ Named(log, s[n])
    BY LenProperties, ElementOfSeq DEF Separate
  <1>2. PICK J : J = Joining(log, s, n)
    OBVIOUS
  <1>3. ASSUME NEW p \in J
        PROVE  /\ p \in Omitted(log, s) /\ p \in Kept(log)
               /\ pattern_families(log, p) \in FamiliesOf(log, s[n].pids)
    <2>1. PICK x : /\ Holders(log, s, x) # {} /\ Max(Holders(log, s, x)) = n
                   /\ p \in Members(log, s, x)
      BY <1>2, <1>3 DEF Joining
    <2>2. x \in FamiliesOf(log, s[n].pids)
      BY <1>1, <2>1, LastHolder
    <2> QED
      BY <2>1, <2>2 DEF Members, Omitted
  <1>4. J \subseteq Kept(log) /\ J \subseteq pattern_manifest(log) /\ J \subseteq Int
    <2>1. J \subseteq Kept(log)
      BY <1>3
    <2>2. \A p \in Kept(log) : p \in pattern_manifest(log) /\ p \in Int
      BY PatternsFinite
    <2> QED
      BY <2>1, <2>2
  <1>5. PICK f \in FindingRecords : f = s[n]
    BY <1>1
  <1>6. f = [id |-> f.id, group |-> f.group, cites |-> f.cites, entries |-> f.entries,
             pids |-> f.pids, count |-> f.count, occurrences |-> f.occurrences,
             detail |-> f.detail, hints |-> f.hints]
    BY DEF FindingRecords
  <1>7. g = [id |-> f.id, group |-> f.group, cites |-> f.cites, entries |-> f.entries,
             pids |-> f.pids \cup J, count |-> f.count, occurrences |-> f.occurrences,
             detail |-> f.detail, hints |-> f.hints]
    BY <1>2, <1>5, <1>6 DEF Joined
  <1>8. f.pids \cup J \in SUBSET Int
    BY <1>4 DEF FindingRecords
  <1>9. g \in FindingRecords
    BY <1>7, <1>8 DEF FindingRecords
  <1>10. ASSUME IsUnquantified(f)
         PROVE  J = {}
    <2>1. FamiliesOf(log, f.pids) = {}
      BY <1>10, FamiliesOfUnion DEF IsUnquantified
    <2> QED
      BY <1>3, <1>5, <2>1
  <1>11. Named(log, g)
    <2>0. g.pids = f.pids \cup J
      BY <1>7
    <2>1. CASE IsUnquantified(f)
      BY <1>10, <2>0, <2>1 DEF Named, IsUnquantified
    <2>2. CASE ~IsUnquantified(f)
      <3>1. f.pids \subseteq pattern_manifest(log)
        BY <1>1, <1>5, <2>2 DEF Named
      <3> QED
        BY <1>4, <2>0, <3>1 DEF Named
    <2> QED
      BY <2>1, <2>2
  <1>12. FamiliesOf(log, f.pids \cup J) = FamiliesOf(log, f.pids)
    <2>1. FamiliesOf(log, f.pids \cup J) \subseteq FamiliesOf(log, f.pids)
      BY <1>3, <1>5 DEF FamiliesOf
    <2>2. FamiliesOf(log, f.pids) \subseteq FamiliesOf(log, f.pids \cup J)
      BY DEF FamiliesOf
    <2> QED
      BY <2>1, <2>2
  <1>13. ASSUME Kept(log) \subseteq UsedBy(s)
         PROVE  g = f
    <2>1. J = {}
      BY <1>3, <1>13 DEF Omitted
    <2>2. f.pids \cup J = f.pids
      BY <2>1
    <2> QED
      BY <1>6, <1>7, <2>2
  <1>14. ~g.cites
    BY <1>1, <1>5, <1>7
  <1> QED
    BY <1>2, <1>4, <1>5, <1>7, <1>9, <1>11, <1>12, <1>13, <1>14

\* What a finding added for the family x is like.
AddedFor(log, s, x, g) ==
    /\ g \in FindingRecords /\ g.id = UnlabeledId(x) /\ x \in Nat
    /\ g.detail = [en |-> NoSignature, zh |-> NoSignature]
    /\ ~g.cites /\ Named(log, g) /\ g.pids = Members(log, s, x)
    /\ g.pids \subseteq Kept(log) /\ g.pids # {}
    /\ FamiliesOf(log, g.pids) = {x}

\* A family without a finding has omitted patterns, and they have no other family.
LEMMA FreshFields ==
  ASSUME NEW log \in Seq(LogLines), NEW s, NEW x \in Missing(log, s)
  PROVE  AddedFor(log, s, x, Fresh(log, s, x))
  <1> DEFINE g == Fresh(log, s, x)
  <1>1. PICK p \in Omitted(log, s) : x = pattern_families(log, p)
    BY DEF Missing, FamiliesOf
  <1>2. p \in Members(log, s, x) /\ p \in Kept(log)
    BY <1>1 DEF Members, Omitted
  <1>3. x \in Nat /\ p # Other /\ p # Unquantified
    BY <1>1, <1>2, KeptFamilies
  <1>4. PICK M : M = Members(log, s, x) /\ M \subseteq Kept(log)
    BY DEF Members, Omitted
  <1>5. M \subseteq pattern_manifest(log) /\ M \in SUBSET Int
    BY <1>4, PatternsFinite
  <1>6. UnlabeledId(x) \in Nat
    BY <1>3 DEF UnlabeledId
  <1>7. g = [id |-> UnlabeledId(x), group |-> "secondary", cites |-> FALSE, entries |-> {},
             pids |-> M, count |-> NoCount, occurrences |-> 0,
             detail |-> [en |-> NoSignature, zh |-> NoSignature], hints |-> {}]
    BY <1>4 DEF Fresh
  <1>8. g \in FindingRecords
    BY <1>5, <1>6, <1>7 DEF FindingRecords, NoCount, NoSignature
  <1>9. Named(log, g)
    BY <1>5, <1>7 DEF Named
  <1>10. FamiliesOf(log, M) = {x}
    <2>1. x \in FamiliesOf(log, M)
      BY <1>1, <1>2, <1>3, <1>4 DEF FamiliesOf
    <2>2. \A y \in FamiliesOf(log, M) : y = x
      BY <1>4 DEF FamiliesOf, Members
    <2> QED
      BY <2>1, <2>2
  <1> QED
    BY <1>2, <1>3, <1>4, <1>7, <1>8, <1>9, <1>10 DEF AddedFor

\* What AppendOmitted makes of the findings s.
Adds(log, s, u) ==
    /\ u \in Seq(FindingRecords)
    /\ DOMAIN s \subseteq DOMAIN u
    /\ \A n \in DOMAIN s : u[n] = Joined(log, s, n)
    /\ \A i \in DOMAIN u \ DOMAIN s : \E x \in Missing(log, s) : u[i] = Fresh(log, s, x)
    /\ \A i, j \in DOMAIN u \ DOMAIN s : u[i].id = u[j].id => i = j
    /\ \A x \in Missing(log, s) : \E i \in DOMAIN u \ DOMAIN s : u[i] = Fresh(log, s, x)

\* Every finding joined by its patterns, then one for each missing family.
LEMMA OmittedAdds ==
  ASSUME NEW log \in Seq(LogLines), NEW s, Separate(log, s), NEW u, u = AppendOmitted(log, s)
  PROVE  Adds(log, s, u) /\ (Kept(log) \subseteq UsedBy(s) => u = s)
  <1>1. s \in Seq(FindingRecords)
    BY DEF Separate
  <1>2. PICK a \in Nat : DOMAIN s = 1 .. a /\ Len(s) = a
    BY <1>1, LenProperties
  <1>3. PICK M : M = Missing(log, s)
    OBVIOUS
  <1>4. M \in SUBSET Nat /\ IsFiniteSet(M)
    <2>1. M \subseteq Nat
      BY <1>3, FreshFields DEF AddedFor
    <2>2. M \subseteq FamiliesOf(log, Omitted(log, s))
      BY <1>3 DEF Missing
    <2>3. Omitted(log, s) \in SUBSET Kept(log)
      BY DEF Omitted
    <2> QED
      BY <2>1, <2>2, <2>3, KeptFamiliesFinite, FS_Subset
  <1>5. PICK b \in Nat : b = Cardinality(M)
    BY <1>4, FS_CardinalityType
  <1>6. PICK asc : asc = Ascending(M)
    OBVIOUS
  <1>7. /\ asc \in [1 .. b -> M]
        /\ \A i, j \in 1 .. b : asc[i] = asc[j] => i = j
        /\ \A x \in M : \E i \in 1 .. b : asc[i] = x
    BY <1>4, <1>5, <1>6, AscendingLists
  <1>8. PICK v : v = [n \in DOMAIN s |-> Joined(log, s, n)]
    OBVIOUS
  <1>9. PICK w : w = [k \in DOMAIN asc |-> Fresh(log, s, asc[k])]
    OBVIOUS
  <1>10. u = v \o w
    BY <1>3, <1>6, <1>8, <1>9
       DEF AppendOmitted, Joined, Fresh, Missing, Joining, Members, Holders, Omitted
  <1>11. \A n \in DOMAIN s : Joined(log, s, n) \in FindingRecords
    BY JoinedFields
  <1>12. v \in [1 .. a -> FindingRecords]
    BY <1>2, <1>8, <1>11
  <1>13. \A x \in M : /\ Fresh(log, s, x) \in FindingRecords /\ x \in Nat
                      /\ Fresh(log, s, x).id = UnlabeledId(x)
    BY <1>3, FreshFields DEF AddedFor
  <1>14. w \in [1 .. b -> FindingRecords]
    BY <1>7, <1>9, <1>13
  <1>15. v \in Seq(FindingRecords) /\ w \in Seq(FindingRecords)
    BY <1>12, <1>14, SeqDef
  <1>16. Len(v) = a /\ Len(w) = b
    BY <1>12, <1>14, <1>15, LenProperties
  <1>17. /\ u \in Seq(FindingRecords) /\ DOMAIN u = 1 .. (a + b)
         /\ \A i \in 1 .. (a + b) : u[i] = IF i <= a THEN v[i] ELSE w[i - a]
    <2>1. a = Len(v) /\ b = Len(w)
      BY <1>16
    <2> QED
      BY <1>10, <1>15, <2>1, ConcatParts
  <1>18. DOMAIN s \subseteq DOMAIN u /\ \A n \in DOMAIN s : u[n] = Joined(log, s, n)
    <2>1. \A n \in 1 .. a : n \in 1 .. (a + b) /\ n <= a
      OBVIOUS
    <2> QED
      BY <1>2, <1>8, <1>17, <2>1
  <1>19. ASSUME NEW i \in DOMAIN u \ DOMAIN s
         PROVE  i \in Nat /\ i - a \in 1 .. b /\ u[i] = Fresh(log, s, asc[i - a])
    <2>1. i \in 1 .. (a + b) /\ ~(i <= a) /\ i - a \in 1 .. b
      BY <1>2, <1>17, <1>19
    <2>2. u[i] = w[i - a]
      BY <1>17, <2>1
    <2> QED
      BY <1>7, <1>9, <2>1, <2>2
  <1>20. \A i \in DOMAIN u \ DOMAIN s : \E x \in M : u[i] = Fresh(log, s, x)
    BY <1>7, <1>19
  <1>21. ASSUME NEW i \in DOMAIN u \ DOMAIN s, NEW j \in DOMAIN u \ DOMAIN s, u[i].id = u[j].id
         PROVE  i = j
    <2>1. PICK k \in 1 .. b : k = i - a /\ u[i] = Fresh(log, s, asc[k]) /\ i \in Nat
      BY <1>19
    <2>2. PICK l \in 1 .. b : l = j - a /\ u[j] = Fresh(log, s, asc[l]) /\ j \in Nat
      BY <1>19
    <2>3. PICK x \in M : x = asc[k]
      BY <1>7
    <2>4. PICK y \in M : y = asc[l]
      BY <1>7
    <2>5. UnlabeledId(x) = UnlabeledId(y) /\ x \in Nat /\ y \in Nat
      BY <1>13, <1>21, <2>1, <2>2, <2>3, <2>4
    <2>6. x = y
      BY <2>5 DEF UnlabeledId
    <2>7. k = l
      BY <1>7, <2>3, <2>4, <2>6
    <2> QED
      BY <2>1, <2>2, <2>7
  <1>22. ASSUME NEW x \in M
         PROVE  \E i \in DOMAIN u \ DOMAIN s : u[i] = Fresh(log, s, x)
    <2>1. PICK k \in 1 .. b : asc[k] = x
      BY <1>7
    <2>2. PICK i \in 1 .. (a + b) : i = a + k /\ ~(i <= a) /\ i - a = k
      OBVIOUS
    <2>3. u[i] = w[k] /\ i \in DOMAIN u \ DOMAIN s
      BY <1>2, <1>17, <2>2
    <2> QED
      BY <1>7, <1>9, <2>1, <2>3
  <1>23. Adds(log, s, u)
    BY <1>3, <1>17, <1>18, <1>20, <1>21, <1>22 DEF Adds
  <1>24. ASSUME Kept(log) \subseteq UsedBy(s)
         PROVE  u = s
    <2>1. Omitted(log, s) = {}
      BY <1>24 DEF Omitted
    <2>2. M = {}
      BY <1>3, <2>1 DEF Missing, FamiliesOf
    <2>3. b = 0
      BY <1>5, <2>2, FS_EmptySet
    <2>4. \A n \in DOMAIN s : u[n] = s[n]
      BY <1>18, <1>24, JoinedFields
    <2>5. DOMAIN u = DOMAIN s /\ Len(u) = Len(s)
      BY <1>1, <1>2, <1>17, <2>3, LenProperties
    <2> QED
      BY <1>1, <1>2, <1>17, <2>4, <2>5, SeqEqual
  <1> QED
    BY <1>23, <1>24

\* An id that the application made up for a family is on a finding of the family.
Labelled(log, finds) ==
    \A k \in DOMAIN finds, e \in DOMAIN log :
        finds[k].id = UnlabeledId(log[e].family) =>
            log[e].family \in FamiliesOf(log, finds[k].pids)

\* AppendOmitted keeps the findings apart and leaves no kept pattern out, and what
\* it adds has an id, a family and details of its own.
LEMMA OmittedAppended ==
  ASSUME NEW log \in Seq(LogLines), NEW s, Separate(log, s), NEW u, u = AppendOmitted(log, s)
  PROVE  /\ Separate(log, u)
         /\ Kept(log) \subseteq UsedBy(u)
         /\ Labelled(log, s) => Labelled(log, u)
         /\ Sound(log, s) => Sound(log, u)
         /\ s # <<>> => u # <<>>
         /\ Kept(log) \subseteq UsedBy(s) => u = s
  <1>1. Adds(log, s, u)
    BY OmittedAdds
  <1>2. ASSUME NEW i \in DOMAIN s
        PROVE  /\ i \in DOMAIN u
               /\ u[i] \in FindingRecords /\ u[i].id = s[i].id /\ u[i].detail = s[i].detail
               /\ ~u[i].cites /\ Named(log, u[i])
               /\ u[i].pids = s[i].pids \cup Joining(log, s, i)
               /\ Joining(log, s, i) \subseteq Kept(log)
               /\ FamiliesOf(log, u[i].pids) = FamiliesOf(log, s[i].pids)
    BY <1>1, JoinedFields DEF Adds
  <1>3. ASSUME NEW i \in DOMAIN u \ DOMAIN s
        PROVE  \E x \in Missing(log, s) :
                 /\ u[i].id = UnlabeledId(x) /\ x \in Nat
                 /\ u[i].detail = [en |-> NoSignature, zh |-> NoSignature]
                 /\ ~u[i].cites /\ Named(log, u[i]) /\ u[i].pids # {}
                 /\ u[i].pids \subseteq Kept(log) /\ FamiliesOf(log, u[i].pids) = {x}
    <2>1. PICK x \in Missing(log, s) : u[i] = Fresh(log, s, x)
      BY <1>1, <1>3 DEF Adds
    <2>2. AddedFor(log, s, x, u[i])
      BY <2>1, FreshFields
    <2> QED
      BY <2>2 DEF AddedFor
  <1>4. ASSUME NEW i \in DOMAIN s, NEW x \in Missing(log, s)
        PROVE  x \notin FamiliesOf(log, s[i].pids)
    BY <1>4 DEF Missing, Holders
  <1>5. ASSUME NEW j \in DOMAIN u, NEW k \in DOMAIN u, j # k
        PROVE  FamiliesOf(log, u[j].pids) \cap FamiliesOf(log, u[k].pids) = {}
    <2>1. CASE j \in DOMAIN s /\ k \in DOMAIN s
      BY <1>2, <1>5, <2>1 DEF Separate
    <2>2. CASE j \in DOMAIN s /\ k \notin DOMAIN s
      BY <1>2, <1>3, <1>4, <2>2
    <2>3. CASE j \notin DOMAIN s /\ k \in DOMAIN s
      BY <1>2, <1>3, <1>4, <2>3
    <2>4. CASE j \notin DOMAIN s /\ k \notin DOMAIN s
      <3>1. PICK x : u[j].id = UnlabeledId(x) /\ FamiliesOf(log, u[j].pids) = {x}
        BY <1>3, <2>4
      <3>2. PICK y : u[k].id = UnlabeledId(y) /\ FamiliesOf(log, u[k].pids) = {y}
        BY <1>3, <2>4
      <3>3. x # y
        BY <1>1, <1>5, <2>4, <3>1, <3>2 DEF Adds
      <3> QED
        BY <3>1, <3>2, <3>3
    <2> QED
      BY <2>1, <2>2, <2>3, <2>4
  <1>6. Separate(log, u)
    <2>1. u \in Seq(FindingRecords)
      BY <1>1 DEF Adds
    <2>2. \A k \in DOMAIN u : ~u[k].cites /\ Named(log, u[k])
      BY <1>2, <1>3
    <2> QED
      BY <1>5, <2>1, <2>2 DEF Separate
  <1>7. ASSUME NEW p \in Kept(log)
        PROVE  \E i \in DOMAIN u : p \in u[i].pids
    <2>1. CASE p \in UsedBy(s)
      <3>1. PICK i \in DOMAIN s : p \in s[i].pids
        BY <2>1 DEF UsedBy
      <3> QED
        BY <1>2, <3>1
    <2>2. CASE p \notin UsedBy(s)
      <3>1. PICK x : x = pattern_families(log, p)
        OBVIOUS
      <3>2. p \in Members(log, s, x) /\ x \in FamiliesOf(log, Omitted(log, s))
        BY <2>2, <3>1, KeptFamilies DEF Members, Omitted, FamiliesOf
      <3>3. CASE Holders(log, s, x) = {}
        <4>1. x \in Missing(log, s)
          BY <3>2, <3>3 DEF Missing
        <4>2. PICK i \in DOMAIN u \ DOMAIN s : u[i] = Fresh(log, s, x)
          BY <1>1, <4>1 DEF Adds
        <4>3. u[i].pids = Members(log, s, x)
          BY <4>1, <4>2, FreshFields DEF AddedFor
        <4> QED
          BY <3>2, <4>2, <4>3
      <3>4. CASE Holders(log, s, x) # {}
        <4>1. PICK i : i = Max(Holders(log, s, x)) /\ i \in DOMAIN s
          BY <3>4, LastHolder DEF Separate
        <4>2. p \in Joining(log, s, i)
          BY <3>2, <3>4, <4>1 DEF Joining
        <4> QED
          BY <1>2, <4>1, <4>2
      <3> QED
        BY <3>3, <3>4
    <2> QED
      BY <2>1, <2>2
  <1>8. Kept(log) \subseteq UsedBy(u)
    BY <1>7 DEF UsedBy
  <1>9. ASSUME Labelled(log, s)
         PROVE  Labelled(log, u)
    <2>1. ASSUME NEW k \in DOMAIN u, NEW e \in DOMAIN log, u[k].id = UnlabeledId(log[e].family)
          PROVE  log[e].family \in FamiliesOf(log, u[k].pids)
      <3>1. CASE k \in DOMAIN s
        BY <1>2, <1>9, <2>1, <3>1 DEF Labelled
      <3>2. CASE k \notin DOMAIN s
        <4>1. PICK x \in Nat : u[k].id = UnlabeledId(x) /\ FamiliesOf(log, u[k].pids) = {x}
          BY <1>3, <3>2
        <4>2. log[e] \in LogLines
          BY LenProperties, ElementOfSeq
        <4>3. log[e].family \in Nat
          BY <4>2 DEF LogLines
        <4>4. log[e].family = x
          BY <2>1, <4>1, <4>3 DEF UnlabeledId
        <4> QED
          BY <4>1, <4>4
      <3> QED
        BY <3>1, <3>2
    <2> QED
      BY <2>1 DEF Labelled
  <1>10. ASSUME Sound(log, s)
        PROVE  Sound(log, u)
    <2>1. \A p \in Kept(log) : p # Other /\ p # Unquantified
      BY KeptFamilies
    <2>2. \A k \in DOMAIN u : u[k].pids # {}
      BY <1>2, <1>3, <1>10 DEF Sound
    <2>3. Labelled(log, u)
      <3>1. Labelled(log, s)
        BY <1>10 DEF Sound, Labelled
      <3> QED
        BY <1>9, <3>1
    <2>4. ASSUME NEW j \in DOMAIN s, NEW k \in DOMAIN u \ DOMAIN s
          PROVE  /\ u[j].id # u[k].id
                 /\ u[k].pids \cap {Other, Unquantified} = {}
                 /\ Unlike(u[j], u[k]) /\ Unlike(u[k], u[j])
      <3>1. PICK x \in Missing(log, s) :
                 /\ u[k].id = UnlabeledId(x)
                 /\ u[k].detail = [en |-> NoSignature, zh |-> NoSignature]
                 /\ u[k].pids \subseteq Kept(log)
        BY <1>3
      <3>2. PICK p \in Kept(log) : x = pattern_families(log, p)
        BY DEF Missing, FamiliesOf, Omitted
      <3>3. PICK e \in DOMAIN log : x = log[e].family
        BY <3>2, KeptFamilies
      <3>4. u[j].id # u[k].id
        BY <1>2, <1>4, <1>10, <3>1, <3>3 DEF Sound
      <3>5. Unlike(u[j], u[k]) /\ Unlike(u[k], u[j])
        BY <3>1 DEF Unlike
      <3> QED
        BY <2>1, <3>1, <3>4, <3>5
    <2>5. ASSUME NEW j \in DOMAIN u, NEW k \in DOMAIN u, j # k
          PROVE  /\ u[j].id # u[k].id
                 /\ u[j].pids \cap u[k].pids \cap {Other, Unquantified} = {}
                 /\ Unlike(u[j], u[k])
      <3>1. CASE j \in DOMAIN s /\ k \in DOMAIN s
        <4>1. /\ s[j].id # s[k].id
              /\ s[j].pids \cap s[k].pids \cap {Other, Unquantified} = {}
              /\ Unlike(s[j], s[k])
          BY <1>10, <2>5, <3>1 DEF Sound
        <4>2. u[j].id # u[k].id /\ Unlike(u[j], u[k])
          BY <1>2, <3>1, <4>1 DEF Unlike
        <4>3. ASSUME NEW p \in u[j].pids \cap u[k].pids \cap {Other, Unquantified}
              PROVE  FALSE
          <5>1. p \in s[j].pids /\ p \in s[k].pids
            BY <1>2, <2>1, <3>1, <4>3
          <5> QED
            BY <4>1, <4>3, <5>1
        <4> QED
          BY <4>2, <4>3
      <3>2. CASE j \in DOMAIN s /\ k \notin DOMAIN s
        BY <2>4, <3>2
      <3>3. CASE j \notin DOMAIN s /\ k \in DOMAIN s
        BY <2>4, <3>3
      <3>4. CASE j \notin DOMAIN s /\ k \notin DOMAIN s
        <4>1. u[j].id # u[k].id
          BY <1>1, <2>5, <3>4 DEF Adds
        <4>2. /\ u[j].detail = [en |-> NoSignature, zh |-> NoSignature]
              /\ u[j].pids \subseteq Kept(log)
          BY <1>3, <3>4
        <4>3. Unlike(u[j], u[k])
          BY <4>2 DEF Unlike
        <4> QED
          BY <2>1, <4>1, <4>2, <4>3
      <3> QED
        BY <3>1, <3>2, <3>3, <3>4
    <2> QED
      BY <2>2, <2>3, <2>5 DEF Sound, Labelled
  <1>11. ASSUME s # <<>>
         PROVE  u # <<>>
    <2>1. s \in Seq(FindingRecords) /\ u \in Seq(FindingRecords)
      BY <1>1 DEF Separate, Adds
    <2>2. PICK n \in Nat : Len(s) = n /\ DOMAIN s = 1 .. n
      BY <2>1, LenProperties
    <2>3. n # 0
      BY <1>11, <2>1, <2>2, EmptySeq
    <2>4. 1 \in DOMAIN s
      BY <2>2, <2>3
    <2>5. 1 \in DOMAIN u
      BY <1>2, <2>4
    <2> QED
      BY <2>5, EmptySeq
  <1> QED
    BY <1>6, <1>8, <1>9, <1>10, <1>11, OmittedAdds

-----------------------------------------------------------------------------
(***************************************************************************)
(* Finished                                                                *)
(***************************************************************************)

\* Findings that differ in their counts and groups at most.
Resembles(u, s) ==
    /\ u \in Seq(FindingRecords)
    /\ DOMAIN u = DOMAIN s
    /\ \A k \in DOMAIN s : /\ u[k].id = s[k].id /\ u[k].detail = s[k].detail
                           /\ u[k].pids = s[k].pids /\ u[k].cites = s[k].cites

\* Every count is the one Counted writes.
Tallies(log, finds) ==
    \A k \in DOMAIN finds :
        finds[k].count = IF IsUnquantified(finds[k]) THEN NoCount
                         ELSE SumOfCounts(log, finds[k].pids)

\* Such findings are apart together, and use the same patterns.
LEMMA SeparateResembled ==
  ASSUME NEW log, NEW s, NEW u, Separate(log, s), Resembles(u, s)
  PROVE  /\ Separate(log, u) /\ UsedBy(u) = UsedBy(s)
         /\ Sound(log, s) => Sound(log, u)
         /\ Labelled(log, s) => Labelled(log, u)
  <1>1. Separate(log, u)
    BY DEF Separate, Resembles, Named, IsUnquantified
  <1>2. UsedBy(u) = UsedBy(s)
    BY DEF UsedBy, Resembles
  <1>3. ASSUME Sound(log, s)
        PROVE  Sound(log, u)
    BY <1>3 DEF Sound, Resembles, Unlike
  <1>4. Labelled(log, s) => Labelled(log, u)
    BY DEF Labelled, Resembles
  <1> QED
    BY <1>1, <1>2, <1>3, <1>4

\* The order of the findings matters to none of this.
LEMMA Rearranged ==
  ASSUME NEW log, NEW s, NEW u, Rearranges(u, s)
  PROVE  /\ UsedBy(u) = UsedBy(s)
         /\ Sound(log, s) => Sound(log, u)
         /\ Labelled(log, s) => Labelled(log, u)
         /\ Tallies(log, s) => Tallies(log, u)
         /\ Distinct(s) => Distinct(u)
         /\ \A k \in DOMAIN s : \E i \in DOMAIN u : u[i] = s[k]
  <1>1. PICK o \in [DOMAIN u -> DOMAIN s] :
            /\ \A i, j \in DOMAIN u : o[i] = o[j] => i = j
            /\ \A x \in DOMAIN s : \E i \in DOMAIN u : o[i] = x
            /\ \A k \in DOMAIN u : u[k] = s[o[k]]
    BY DEF Rearranges
  <1>2. \A k \in DOMAIN u : o[k] \in DOMAIN s
    BY <1>1
  <1>3. \A k \in DOMAIN s : \E i \in DOMAIN u : u[i] = s[k]
    BY <1>1
  <1>4. UsedBy(u) = UsedBy(s)
    <2>1. UsedBy(u) \subseteq UsedBy(s)
      BY <1>1, <1>2 DEF UsedBy
    <2>2. UsedBy(s) \subseteq UsedBy(u)
      <3> SUFFICES ASSUME NEW k \in DOMAIN s, NEW p \in s[k].pids
                   PROVE  \E i \in DOMAIN u : p \in u[i].pids
        BY DEF UsedBy
      <3> QED
        BY <1>3
    <2> QED
      BY <2>1, <2>2
  <1>5. ASSUME Sound(log, s)
        PROVE  Sound(log, u)
    <2>1. \A j, k \in DOMAIN u : j # k => o[j] # o[k]
      BY <1>1
    <2> QED
      BY <1>1, <1>2, <1>5, <2>1 DEF Sound
  <1>6. Tallies(log, s) => Tallies(log, u)
    BY <1>1, <1>2 DEF Tallies
  <1>7. Distinct(s) => Distinct(u)
    <2>1. \A j, k \in DOMAIN u : j # k => o[j] # o[k]
      BY <1>1
    <2> QED
      BY <1>1, <1>2, <2>1 DEF Distinct
  <1>8. Labelled(log, s) => Labelled(log, u)
    BY <1>1, <1>2 DEF Labelled
  <1> QED
    BY <1>3, <1>4, <1>5, <1>6, <1>7, <1>8

\* Counting the findings writes counts and nothing else.
LEMMA AllCounted ==
  ASSUME NEW log \in Seq(LogLines), NEW s, Separate(log, s), NEW c,
         c = [n \in DOMAIN s |-> Counted(log, s[n])]
  PROVE  /\ Resembles(c, s) /\ Tallies(log, c)
         /\ Tallies(log, s) => c = s
  <1>1. s \in Seq(FindingRecords)
    BY DEF Separate
  <1>2. PICK n \in Nat : DOMAIN s = 1 .. n /\ Len(s) = n
    BY <1>1, LenProperties
  <1>3. ASSUME NEW k \in DOMAIN s
        PROVE  /\ c[k] \in FindingRecords
               /\ c[k].id = s[k].id /\ c[k].detail = s[k].detail
               /\ c[k].pids = s[k].pids /\ c[k].cites = s[k].cites
               /\ c[k].count = IF IsUnquantified(s[k]) THEN NoCount
                               ELSE SumOfCounts(log, s[k].pids)
    <2>1. PICK f \in FindingRecords : f = s[k] /\ Named(log, f)
      BY <1>1, ElementOfSeq DEF Separate
    <2>2. c[k] = Counted(log, f)
      BY <2>1
    <2> QED
      BY <2>1, <2>2, CountedFields
  <1>4. c \in [1 .. n -> FindingRecords]
    BY <1>2, <1>3
  <1>5. c \in Seq(FindingRecords)
    BY <1>4, SeqDef
  <1>6. Resembles(c, s)
    BY <1>3, <1>5 DEF Resembles
  <1>7. Tallies(log, c)
    <2>1. DOMAIN c = DOMAIN s
      OBVIOUS
    <2>2. \A k \in DOMAIN s : IsUnquantified(c[k]) <=> IsUnquantified(s[k])
      BY <1>3 DEF IsUnquantified
    <2> QED
      BY <1>3, <2>1, <2>2 DEF Tallies
  <1>8. ASSUME Tallies(log, s)
        PROVE  c = s
    <2>1. \A k \in DOMAIN s : c[k] = s[k]
      <3> TAKE k \in DOMAIN s
      <3>1. PICK f \in FindingRecords : f = s[k] /\ Named(log, f)
        BY <1>1, ElementOfSeq DEF Separate
      <3>2. f.count = IF IsUnquantified(f) THEN NoCount ELSE SumOfCounts(log, f.pids)
        BY <1>8, <3>1 DEF Tallies
      <3>3. Counted(log, f) = f
        BY <3>1, <3>2, NamedStays
      <3> QED
        BY <3>1, <3>3
    <2>2. s = [k \in DOMAIN s |-> s[k]]
      BY <1>1, <1>2, SeqDef
    <2> QED
      BY <2>1, <2>2
  <1> QED
    BY <1>6, <1>7, <1>8

\* Promoting a finding changes its group, and then there is a key find.
LEMMA OnePromoted ==
  ASSUME NEW log, NEW s \in Seq(FindingRecords), NEW p, p = Promoted(s)
  PROVE  /\ Resembles(p, s)
         /\ Tallies(log, s) => Tallies(log, p)
         /\ s # <<>> => \E k \in DOMAIN p : p[k].group = "key"
  <1>1. PICK n \in Nat : DOMAIN s = 1 .. n /\ Len(s) = n
    BY LenProperties
  <1>2. \A k \in DOMAIN s : s[k] \in FindingRecords
    BY ElementOfSeq
  <1>3. CASE s = <<>>
    BY <1>3 DEF Promoted, Resembles, Tallies
  <1>4. CASE s # <<>> /\ InGroup(s, "key") # <<>>
    <2>1. p = s
      BY <1>4 DEF Promoted
    <2>2. PICK S : S = {m \in DOMAIN s : s[m].group = "key"}
      OBVIOUS
    <2>3. S # {}
      <3>1. SUFFICES ASSUME S = {}
                     PROVE  FALSE
        OBVIOUS
      <3>2. Cardinality(S) = 0
        BY <3>1, FS_EmptySet
      <3>3. AtPositions(s, S) = <<>>
        <4>1. S \in SUBSET (1 .. n) /\ \A i \in S : s[i] \in FindingRecords
          BY <3>1
        <4>2. AtPositions(s, S) \in Seq(FindingRecords) /\ Len(AtPositions(s, S)) = 0
          BY <3>2, <4>1, PositionsSelect
        <4> QED
          BY <4>2, EmptySeq
      <3> QED
        BY <1>4, <2>2, <3>3 DEF InGroup
    <2>4. \E k \in DOMAIN p : p[k].group = "key"
      BY <2>1, <2>2, <2>3
    <2> QED
      BY <2>1, <2>4 DEF Resembles
  <1>5. CASE s # <<>> /\ InGroup(s, "key") = <<>>
    <2>1. 1 \in DOMAIN s
      <3>1. n # 0
        BY <1>1, <1>5, EmptySeq
      <3> QED
        BY <1>1, <3>1
    <2>2. PICK f \in FindingRecords : f = s[1]
      BY <1>2, <2>1
    <2>3. f = [id |-> f.id, group |-> f.group, cites |-> f.cites, entries |-> f.entries,
               pids |-> f.pids, count |-> f.count, occurrences |-> f.occurrences,
               detail |-> f.detail, hints |-> f.hints]
      BY DEF FindingRecords
    <2>4. PICK g : g = [id |-> f.id, group |-> "key", cites |-> f.cites, entries |-> f.entries,
                        pids |-> f.pids, count |-> f.count, occurrences |-> f.occurrences,
                        detail |-> f.detail, hints |-> f.hints]
      OBVIOUS
    <2>5. [f EXCEPT !.group = "key"] = g
      BY <2>3, <2>4
    <2>6. g \in FindingRecords
      BY <2>4 DEF FindingRecords
    <2>7. p = [s EXCEPT ![1] = g]
      BY <1>5, <2>2, <2>5 DEF Promoted
    <2>8. DOMAIN p = DOMAIN s /\ p[1] = g /\ \A k \in DOMAIN s : k # 1 => p[k] = s[k]
      <3>1. s = [k \in DOMAIN s |-> s[k]]
        BY <1>1, SeqDef
      <3> QED
        BY <2>1, <2>7, <3>1
    <2>9. p \in Seq(FindingRecords)
      <3>1. p = [k \in 1 .. n |-> p[k]]
        BY <1>1, <2>7
      <3>2. \A k \in 1 .. n : p[k] \in FindingRecords
        BY <1>1, <1>2, <2>6, <2>8
      <3>3. p \in [1 .. n -> FindingRecords]
        BY <3>1, <3>2
      <3> QED
        BY <3>3, SeqDef
    <2>10. ASSUME NEW k \in DOMAIN s
           PROVE  /\ p[k].id = s[k].id /\ p[k].detail = s[k].detail /\ p[k].pids = s[k].pids
                  /\ p[k].cites = s[k].cites /\ p[k].count = s[k].count
      <3>1. CASE k = 1
        BY <2>2, <2>4, <2>8, <3>1
      <3>2. CASE k # 1
        BY <2>8, <3>2
      <3> QED
        BY <3>1, <3>2
    <2>11. Resembles(p, s)
      BY <2>8, <2>9, <2>10 DEF Resembles
    <2>12. Tallies(log, s) => Tallies(log, p)
      BY <2>8, <2>10 DEF Tallies, IsUnquantified
    <2>13. p[1].group = "key"
      BY <2>4, <2>8
    <2> QED
      BY <2>1, <2>8, <2>11, <2>12, <2>13
  <1> QED
    BY <1>3, <1>4, <1>5

\* The findings that are returned reconcile.
LEMMA FinishedReconciles ==
  ASSUME NEW log \in Seq(LogLines), NEW s, Separate(log, s), Kept(log) \subseteq UsedBy(s),
         NEW fallback \in BOOLEAN, NEW u, u = Finished(log, s, fallback)
  PROVE  /\ Reconciles(log, u)
         /\ Sound(log, s) => Sound(log, u)
         /\ Labelled(log, s) => Labelled(log, u)
         /\ s # <<>> /\ fallback => \E k \in DOMAIN u : u[k].group = "key"
         /\ Tallies(log, s) /\ ~fallback => u = ByGroup(s)
  <1>1. PICK c : c = [n \in DOMAIN s |-> Counted(log, s[n])]
    OBVIOUS
  <1>2. PICK p : p = IF fallback THEN Promoted(c) ELSE c
    OBVIOUS
  <1>3. u = ByGroup(p)
    BY <1>1, <1>2 DEF Finished
  <1>4. Resembles(c, s) /\ Tallies(log, c) /\ (Tallies(log, s) => c = s)
    BY <1>1, AllCounted
  <1>5. Separate(log, c) /\ UsedBy(c) = UsedBy(s) /\ (Sound(log, s) => Sound(log, c))
        /\ (Labelled(log, s) => Labelled(log, c))
    BY <1>4, SeparateResembled
  <1>6. Resembles(p, c) /\ Tallies(log, p)
    <2>1. c \in Seq(FindingRecords)
      BY <1>4 DEF Resembles
    <2>2. CASE fallback
      BY <1>2, <1>4, <2>1, <2>2, OnePromoted
    <2>3. CASE ~fallback
      BY <1>2, <1>4, <2>1, <2>3 DEF Resembles
    <2> QED
      BY <2>2, <2>3
  <1>7. Separate(log, p) /\ UsedBy(p) = UsedBy(c) /\ (Sound(log, c) => Sound(log, p))
        /\ (Labelled(log, c) => Labelled(log, p))
    BY <1>5, <1>6, SeparateResembled
  <1>8. u \in Seq(FindingRecords) /\ Rearranges(u, p)
    <2>1. p \in Seq(FindingRecords)
      BY <1>6 DEF Resembles
    <2> QED
      BY <1>3, <2>1, ByGroupRearranges
  <1>9. Separate(log, u)
    BY <1>7, <1>8, SeparateRearranged
  <1>10. /\ UsedBy(u) = UsedBy(p) /\ Tallies(log, u) /\ (Sound(log, p) => Sound(log, u))
         /\ (Labelled(log, p) => Labelled(log, u))
         /\ \A k \in DOMAIN p : \E i \in DOMAIN u : u[i] = p[k]
    <2>1. Rearranges(u, p)
      BY <1>8
    <2>2. UsedBy(u) = UsedBy(p) /\ (Tallies(log, p) => Tallies(log, u))
      BY <2>1, Rearranged
    <2>4. \A k \in DOMAIN p : \E i \in DOMAIN u : u[i] = p[k]
      BY <2>1 DEF Rearranges
    <2>3. /\ Sound(log, p) => Sound(log, u)
          /\ Labelled(log, p) => Labelled(log, u)
      BY <2>1, Rearranged
    <2> QED
      BY <1>6, <2>2, <2>3, <2>4
  <1>11. Reconciles(log, u)
    <2>1. Kept(log) \subseteq UsedBy(u)
      BY <1>5, <1>7, <1>10
    <2> QED
      BY <1>9, <1>10, <2>1 DEF Reconciles, Separate, Tallies
  <1>12. ASSUME s # <<>>, fallback
         PROVE  \E k \in DOMAIN u : u[k].group = "key"
    <2>1. c \in Seq(FindingRecords) /\ s \in Seq(FindingRecords) /\ DOMAIN c = DOMAIN s
      BY <1>4 DEF Resembles, Separate
    <2>2. Len(s) # 0 /\ Len(s) \in Nat /\ DOMAIN s = 1 .. Len(s)
      BY <1>12, <2>1, EmptySeq, LenProperties
    <2>3. 1 \in DOMAIN c
      BY <2>1, <2>2
    <2>4. c # <<>>
      BY <2>3
    <2>5. \E k \in DOMAIN p : p[k].group = "key"
      BY <1>2, <1>12, <2>1, <2>4, OnePromoted
    <2> QED
      BY <1>10, <2>5
  <1>13. ASSUME Tallies(log, s), ~fallback
         PROVE  u = ByGroup(s)
    BY <1>2, <1>3, <1>4, <1>13
  <1>14. (Sound(log, s) => Sound(log, u)) /\ (Labelled(log, s) => Labelled(log, u))
    BY <1>5, <1>7, <1>10
  <1> QED
    BY <1>11, <1>12, <1>13, <1>14

-----------------------------------------------------------------------------
(***************************************************************************)
(* reconcile_result for findings that name patterns, as a whole.           *)
(***************************************************************************)

\* No two findings have patterns of one family.
FamiliesApart(log, finds) ==
    \A j, k \in DOMAIN finds : j # k =>
        FamiliesOf(log, finds[j].pids) \cap FamiliesOf(log, finds[k].pids) = {}

\* MergeFamilies builds the result anew exactly when findings share a family.
LEMMA MergedAnew ==
  ASSUME NEW log, NEW finds, NEW res, res = MergeFamilies(log, finds)
  PROVE  /\ FamiliesApart(log, finds) =>
              res = [finds |-> finds, left |-> finds, anew |-> FALSE]
         /\ ~res.anew => FamiliesApart(log, finds)
  <1>1. PICK Q : Q = {k \in DOMAIN finds : ~IsUnquantified(finds[k])}
    OBVIOUS
  <1>2. PICK families : families = [k \in DOMAIN finds |-> FamiliesOf(log, finds[k].pids)]
    OBVIOUS
  <1>3. PICK comp : comp = Components(Q, families)
    OBVIOUS
  <1>4. res = Merge(finds, Q, comp)
    BY <1>1, <1>2, <1>3 DEF MergeFamilies
  <1>5. Q \in SUBSET DOMAIN finds /\ DOMAIN families = DOMAIN finds
    BY <1>1, <1>2
  <1>6. \A k \in DOMAIN finds : k \notin Q => families[k] = {}
    BY <1>1, <1>2, FamiliesOfUnion DEF IsUnquantified
  <1>7. ASSUME FamiliesApart(log, finds)
        PROVE  res = [finds |-> finds, left |-> finds, anew |-> FALSE]
    <2>1. ASSUME NEW k \in DOMAIN finds
          PROVE  comp[k] = {k}
      <3>1. comp[k] = {k} \cup {m \in Q : k \in Q /\ \A C \in SUBSET Q :
                                           k \in C /\ Closed(C, Q, families) => m \in C}
        BY <1>3, <1>5 DEF Components
      <3>2. ASSUME k \in Q
            PROVE  Closed({k}, Q, families)
        <4>1. \A j \in Q : j # k => families[k] \cap families[j] = {}
          BY <1>2, <1>5, <1>7 DEF FamiliesApart
        <4> QED
          BY <4>1 DEF Closed
      <3>3. ASSUME NEW m \in Q, k \in Q,
                   \A C \in SUBSET Q : k \in C /\ Closed(C, Q, families) => m \in C
            PROVE  m = k
        <4>1. {k} \in SUBSET Q
          BY <3>3
        <4>2. m \in {k}
          BY <3>2, <3>3, <4>1
        <4> QED
          BY <4>2
      <3> QED
        BY <3>1, <3>3
    <2> QED
      BY <1>4, <2>1 DEF Merge
  <1>8. ASSUME ~res.anew
        PROVE  FamiliesApart(log, finds)
    <2>1. \A k \in DOMAIN finds : comp[k] = {k}
      BY <1>4, <1>8 DEF Merge, Rebuilt
    <2>2. Divides(comp, DOMAIN finds, Q, families)
      BY <1>3, <1>5, ComponentsDivide
    <2>3. ASSUME NEW j \in DOMAIN finds, NEW k \in DOMAIN finds, j # k
          PROVE  families[j] \cap families[k] = {}
      <3>1. CASE j \in Q /\ k \in Q
        <4>1. Closed({j}, Q, families) /\ k \notin {j}
          BY <2>1, <2>2, <2>3, <3>1 DEF Divides
        <4> QED
          BY <3>1, <4>1 DEF Closed
      <3> QED
        BY <1>6, <3>1
    <2> QED
      BY <1>2, <2>3 DEF FamiliesApart
  <1> QED
    BY <1>7, <1>8

\* What the answer holds afterwards are findings.
LEMMA LeftoverType ==
  ASSUME NEW left \in Seq(FindingRecords), NEW final \in Seq(FindingRecords)
  PROVE  Leftover(left, final) \in Seq(FindingRecords)
  <1>1. PICK n \in Nat : DOMAIN left = 1 .. n
    BY LenProperties
  <1>2. ASSUME NEW k \in 1 .. n
        PROVE  Leftover(left, final)[k] \in FindingRecords
    <2>1. PICK same : same = {j \in DOMAIN final : final[j].id = left[k].id}
      OBVIOUS
    <2>2. Leftover(left, final)[k] = IF same = {} THEN left[k]
                                     ELSE final[CHOOSE j \in same : TRUE]
      BY <1>1, <2>1 DEF Leftover
    <2>3. same # {} => (CHOOSE j \in same : TRUE) \in DOMAIN final
      BY <2>1
    <2>4. left[k] \in FindingRecords
      BY <1>1, ElementOfSeq
    <2>5. \A j \in DOMAIN final : final[j] \in FindingRecords
      BY ElementOfSeq
    <2> QED
      BY <2>2, <2>3, <2>4, <2>5
  <1>3. Leftover(left, final) = [k \in 1 .. n |-> Leftover(left, final)[k]]
    BY <1>1 DEF Leftover
  <1>4. Leftover(left, final) \in [1 .. n -> FindingRecords]
    BY <1>2, <1>3
  <1> QED
    BY <1>4, SeqDef

\* The stages after the claims, for findings that are apart.
LEMMA WholeReconciles ==
  ASSUME NEW log \in Seq(LogLines), NEW s, Separate(log, s), NEW fallback \in BOOLEAN, NEW u,
         u = Finished(log, AppendOmitted(log, RepairFinds(log, s, fallback)), fallback)
  PROVE  /\ Reconciles(log, u)
         /\ Sound(log, s) => Sound(log, u)
         /\ Labelled(log, s) /\ ~fallback => Labelled(log, u)
         /\ s # <<>> /\ fallback => \E k \in DOMAIN u : u[k].group = "key"
         /\ Reconciles(log, s) /\ ~fallback => u = ByGroup(s)
  <1>1. PICK a : a = MergeRepeated(s)
    OBVIOUS
  <1>2. PICK b : b = AttachHinted(log, a)
    OBVIOUS
  <1>3. PICK r : r = RepairFinds(log, s, fallback)
    OBVIOUS
  <1>4. r = IF fallback THEN b ELSE s
    BY <1>1, <1>2, <1>3 DEF RepairFinds
  <1>5. /\ Separate(log, a) /\ (Sound(log, s) => Sound(log, a))
        /\ s # <<>> => a # <<>>
    BY <1>1, RepeatedMerged
  <1>6. /\ Separate(log, b) /\ (Sound(log, a) => Sound(log, b))
        /\ a # <<>> /\ Kept(log) = {} => b # <<>>
    BY <1>2, <1>5, HintedAttached
  <1>7. Separate(log, r) /\ (Sound(log, s) => Sound(log, r))
    BY <1>4, <1>5, <1>6
  <1>8. PICK o : o = AppendOmitted(log, r)
    OBVIOUS
  <1>9. /\ Separate(log, o) /\ Kept(log) \subseteq UsedBy(o)
        /\ Labelled(log, r) => Labelled(log, o)
        /\ Sound(log, r) => Sound(log, o)
        /\ r # <<>> => o # <<>>
        /\ Kept(log) \subseteq UsedBy(r) => o = r
    BY <1>7, <1>8, OmittedAppended
  <1>10. u = Finished(log, o, fallback)
    BY <1>3, <1>8
  <1>11. /\ Reconciles(log, u)
         /\ Sound(log, o) => Sound(log, u)
         /\ Labelled(log, o) => Labelled(log, u)
         /\ o # <<>> /\ fallback => \E k \in DOMAIN u : u[k].group = "key"
         /\ Tallies(log, o) /\ ~fallback => u = ByGroup(o)
    BY <1>9, <1>10, FinishedReconciles
  <1>12. ASSUME s # <<>>, fallback
         PROVE  o # <<>>
    <2>1. CASE Kept(log) = {}
      BY <1>4, <1>5, <1>6, <1>9, <1>12, <2>1
    <2>2. CASE Kept(log) # {}
      <3>1. UsedBy(o) # {}
        BY <1>9, <2>2
      <3> QED
        BY <3>1 DEF UsedBy
    <2> QED
      BY <2>1, <2>2
  <1>13. ASSUME Reconciles(log, s), ~fallback
         PROVE  u = ByGroup(s)
    <2>1. r = s
      BY <1>4, <1>13
    <2>2. Kept(log) \subseteq UsedBy(s) /\ Tallies(log, s)
      BY <1>13 DEF Reconciles, Tallies
    <2> QED
      BY <1>9, <1>11, <1>13, <2>1, <2>2
  <1>14. Labelled(log, s) /\ ~fallback => Labelled(log, u)
    BY <1>4, <1>9, <1>11
  <1> QED
    BY <1>7, <1>9, <1>11, <1>12, <1>13, <1>14

\* The findings that reconcile_result returns reconcile; whatever the outcome, it
\* leaves findings.
LEMMA PatternPath ==
  ASSUME NEW log \in Seq(LogLines), NEW finds \in Seq(FindingRecords), NamesPatterns(finds),
         NEW fallback \in BOOLEAN, NEW res, res = ReconcilePatterns(finds, log, fallback)
  PROVE  /\ res.finds \in Seq(FindingRecords) /\ res.left \in Seq(FindingRecords)
         /\ res.outcome = "ok" => Reconciles(log, res.finds)
  <1>1. PICK acc : acc = ClaimPatterns(finds, log, pattern_manifest(log), fallback)
    OBVIOUS
  <1>2. ClaimInv(log, fallback, finds, acc, Len(finds))
    BY <1>1, PatternsAreClaimed
  <1>3. acc.done \in Seq(FindingRecords)
    BY <1>2 DEF ClaimInv, PatternAccs
  <1>4. res = AfterClaims(acc, log, fallback)
    BY <1>1 DEF ReconcilePatterns
  <1>5. CASE acc.outcome # "ok"
    BY <1>3, <1>4, <1>5 DEF AfterClaims
  <1>6. CASE acc.outcome = "ok"
    <2>1. \A k \in DOMAIN acc.done : ~acc.done[k].cites /\ Named(log, acc.done[k])
      BY <1>2, <1>6 DEF ClaimInv
    <2>2. PICK merge : merge = MergeFamilies(log, acc.done)
      OBVIOUS
    <2>3. /\ Separate(log, merge.finds)
          /\ merge.left \in Seq(FindingRecords)
      BY <1>3, <2>1, <2>2, FamiliesMerged
    <2>4. PICK u : u = Finished(log,
                          AppendOmitted(log, RepairFinds(log, merge.finds, fallback)), fallback)
      OBVIOUS
    <2>5. Reconciles(log, u)
      BY <2>3, <2>4, WholeReconciles
    <2>6. u \in Seq(FindingRecords)
      BY <2>5 DEF Reconciles
    <2>7. res = Outcome(merge, u)
      BY <1>4, <1>6, <2>2, <2>4 DEF AfterClaims, Whole
    <2>8. Leftover(merge.left, u) \in Seq(FindingRecords)
      BY <2>3, <2>6, LeftoverType
    <2> QED
      BY <2>5, <2>6, <2>7, <2>8 DEF Outcome
  <1> QED
    BY <1>5, <1>6

\* Findings that reconcile and have patterns of their own count each line once,
\* except for lines beyond max_patterns that none of them names.
LEMMA PatternsConserved ==
  ASSUME NEW log \in Seq(LogLines), NEW finds, Reconciles(log, finds), Distinct(finds)
  PROVE  Total(finds, DOMAIN finds) = Len(log) - (IF Other \in UsedBy(finds) THEN 0 ELSE CountOf(log, Other))
  <1>1. finds \in Seq(FindingRecords)
    BY DEF Reconciles
  <1>2. PICK n \in Nat : DOMAIN finds = 1 .. n
    BY <1>1, LenProperties
  <1>3. PICK L \in Nat : L = Len(log) /\ DOMAIN log = 1 .. L
    BY LenProperties
  <1>4. PICK S : S = Tallied(finds, DOMAIN finds)
    OBVIOUS
  <1>5. PICK lines : lines = [k \in DOMAIN finds |-> LinesOfAll(log, finds[k].pids)]
    OBVIOUS
  <1>6. ASSUME NEW k \in DOMAIN finds, ~IsUnquantified(finds[k])
        PROVE  /\ finds[k].pids \in SUBSET pattern_manifest(log)
               /\ finds[k].count = Cardinality(lines[k]) /\ finds[k].count \in Nat
               /\ lines[k] \in SUBSET DOMAIN log
    <2>1. /\ finds[k].pids \in SUBSET pattern_manifest(log)
          /\ finds[k].count = SumOfCounts(log, finds[k].pids)
      BY <1>6 DEF Reconciles, Named
    <2>2. /\ SumOfCounts(log, finds[k].pids) = Cardinality(LinesOfAll(log, finds[k].pids))
          /\ LinesOfAll(log, finds[k].pids) \in SUBSET DOMAIN log
          /\ SumOfCounts(log, finds[k].pids) \in 0 .. L
      BY <1>3, <2>1, SumIsLines
    <2> QED
      BY <1>5, <2>1, <2>2
  <1>7. ASSUME NEW k \in DOMAIN finds
        PROVE  k \in S <=> ~IsUnquantified(finds[k])
    <2>1. CASE IsUnquantified(finds[k])
      BY <1>4, <2>1 DEF Reconciles, Tallied
    <2>2. CASE ~IsUnquantified(finds[k])
      <3>1. finds[k].count \in Nat
        BY <1>6, <2>2
      <3>2. finds[k].count # NoCount
        BY <3>1 DEF NoCount
      <3> QED
        BY <1>4, <2>2, <3>2 DEF Tallied
    <2> QED
      BY <2>1, <2>2
  <1>8. S \in SUBSET DOMAIN finds /\ S \in SUBSET (1 .. n)
    BY <1>2, <1>4 DEF Tallied
  <1>9. IsFiniteSet(S)
    BY <1>8, IdsFinite
  <1>10. ASSUME NEW j \in S, NEW k \in S, j # k
         PROVE  lines[j] \cap lines[k] = {}
    <2> SUFFICES ASSUME NEW e \in lines[j], e \in lines[k]
                 PROVE  FALSE
      OBVIOUS
    <2>1. PICK p \in finds[j].pids : e \in LinesOf(log, p)
      BY <1>5, <1>8 DEF LinesOfAll
    <2>2. PICK q \in finds[k].pids : e \in LinesOf(log, q)
      BY <1>5, <1>8 DEF LinesOfAll
    <2>3. p # q
      BY <1>8, <1>10, <2>1, <2>2 DEF Distinct
    <2>4. p \in pattern_manifest(log) /\ q \in pattern_manifest(log)
      BY <1>6, <1>7, <1>8, <2>1, <2>2
    <2>5. (p = Other \/ p \in Kept(log)) /\ (q = Other \/ q \in Kept(log))
      BY <2>4, PatternsFinite
    <2> QED
      BY <2>1, <2>2, <2>3, <2>5 DEF LinesOf
  <1>11. Apart(lines, S) /\ \A k \in S : finds[k].count = Cardinality(lines[k])
    <2>1. \A k \in S : lines[k] \in SUBSET DOMAIN log /\ finds[k].count = Cardinality(lines[k])
      BY <1>6, <1>7, <1>8
    <2>2. \A k \in S : IsFiniteSet(lines[k])
      BY <2>1, EntriesFinite
    <2> QED
      BY <1>10, <2>1, <2>2 DEF Apart
  <1>12. Total(finds, DOMAIN finds) = Cardinality(UnionOf(lines, S))
    BY <1>4, <1>9, <1>11, CountsAddUp
  <1>13. PICK rest : rest = IF Other \in UsedBy(finds) THEN {} ELSE LinesOf(log, Other)
    OBVIOUS
  <1>14. rest \in SUBSET DOMAIN log
    BY <1>13 DEF LinesOf
  <1>15. ASSUME NEW e \in DOMAIN log
         PROVE  e \in UnionOf(lines, S) <=> e \notin rest
    <2>1. ASSUME NEW p \in UsedBy(finds), p # Unquantified
          PROVE  \E k \in S : p \in finds[k].pids
      <3>1. PICK k \in DOMAIN finds : p \in finds[k].pids
        BY <2>1 DEF UsedBy
      <3>2. ~IsUnquantified(finds[k])
        BY <2>1, <3>1 DEF IsUnquantified
      <3> QED
        BY <1>7, <3>1, <3>2
    <2>2. e \in UnionOf(lines, S) <=> \E k \in S : \E p \in finds[k].pids : e \in LinesOf(log, p)
      <3>1. e \in UnionOf(lines, S) <=> \E k \in S : e \in lines[k]
        BY DEF UnionOf
      <3>2. \A k \in S : e \in lines[k] <=> \E p \in finds[k].pids : e \in LinesOf(log, p)
        BY <1>5, <1>8 DEF LinesOfAll
      <3> QED
        BY <3>1, <3>2
    <2>3. CASE log[e].pattern \in Kept(log)
      <3>1. PICK p : p = log[e].pattern /\ p # Other /\ p # Unquantified /\ p \in Kept(log)
        BY <2>3, KeptFamilies
      <3>2. e \in LinesOf(log, p) /\ e \notin LinesOf(log, Other)
        BY <3>1 DEF LinesOf
      <3>3. p \in UsedBy(finds)
        BY <3>1 DEF Reconciles
      <3>4. PICK k \in S : p \in finds[k].pids
        BY <2>1, <3>1, <3>3
      <3> QED
        BY <1>13, <2>2, <3>2, <3>4
    <2>4. CASE log[e].pattern \notin Kept(log)
      <3>1. e \in LinesOf(log, Other)
        BY <2>4 DEF LinesOf
      <3>2. \A p \in Kept(log) : e \notin LinesOf(log, p)
        BY <2>4, KeptFamilies DEF LinesOf
      <3>3. CASE Other \in UsedBy(finds)
        <4>1. Other # Unquantified
          BY DEF Other, Unquantified
        <4>2. PICK k \in S : Other \in finds[k].pids
          BY <2>1, <3>3, <4>1
        <4> QED
          BY <1>13, <2>2, <3>1, <3>3, <4>2
      <3>4. CASE Other \notin UsedBy(finds)
        <4>1. e \in rest
          BY <1>13, <3>1, <3>4
        <4>2. ASSUME NEW k \in S, NEW p \in finds[k].pids
              PROVE  e \notin LinesOf(log, p)
          <5>1. p # Other
            BY <1>8, <3>4, <4>2 DEF UsedBy
          <5>2. p \in pattern_manifest(log)
            BY <1>6, <1>7, <1>8, <4>2
          <5> QED
            BY <3>2, <5>1, <5>2, PatternsFinite
        <4> QED
          BY <2>2, <4>1, <4>2
      <3> QED
        BY <3>3, <3>4
    <2> QED
      BY <2>3, <2>4
  <1>16. PICK U : U = UnionOf(lines, S)
    OBVIOUS
  <1>17. U = (1 .. L) \ rest
    <2>1. U \subseteq DOMAIN log
      <3>1. \A k \in S : lines[k] \subseteq DOMAIN log
        BY <1>6, <1>7, <1>8
      <3> QED
        BY <1>16, <3>1 DEF UnionOf
    <2> QED
      BY <1>3, <1>15, <1>16, <2>1
  <1>18. IsFiniteSet(1 .. L) /\ Cardinality(1 .. L) = L
    BY FS_Interval
  <1>19. PICK r \in Nat : r = Cardinality(rest) /\ IsFiniteSet(rest)
    BY <1>14, EntriesFinite
  <1>20. Cardinality(U) = L - r
    <2>1. rest \in SUBSET (1 .. L)
      BY <1>3, <1>14
    <2>2. (1 .. L) \cap rest = rest
      BY <2>1
    <2>3. Cardinality((1 .. L) \ rest) = Cardinality(1 .. L) - Cardinality((1 .. L) \cap rest)
      BY <1>18, <1>19, FS_Difference
    <2> QED
      BY <1>17, <1>18, <1>19, <2>2, <2>3
  <1>21. r = IF Other \in UsedBy(finds) THEN 0 ELSE CountOf(log, Other)
    <2>1. CASE Other \in UsedBy(finds)
      BY <1>13, <1>19, <2>1, FS_EmptySet
    <2>2. CASE Other \notin UsedBy(finds)
      BY <1>13, <1>19, <2>2 DEF CountOf, LinesOf
    <2> QED
      BY <2>1, <2>2
  <1> QED
    BY <1>3, <1>12, <1>16, <1>20, <1>21

\* What validation says of findings that reconcile, and what it takes to pass it.
LEMMA ValidatedPatterns ==
  ASSUME NEW log \in Seq(LogLines), NEW finds, Reconciles(log, finds)
  PROVE  /\ FindingsHold(finds, log) =>
              /\ Distinct(finds) /\ finds # <<>>
              /\ Labelled(log, finds) => Sound(log, finds)
         /\ Sound(log, finds) /\ (\E k \in DOMAIN finds : finds[k].group = "key")
              => FindingsHold(finds, log)
  <1>1. ASSUME FindingsHold(finds, log)
        PROVE  /\ Distinct(finds) /\ finds # <<>>
               /\ Labelled(log, finds) => Sound(log, finds)
    <2>1. Distinct(finds)
      BY <1>1 DEF FindingsHold, Distinct
    <2>2. finds # <<>>
      BY <1>1 DEF FindingsHold
    <2>3. ASSUME NEW j \in DOMAIN finds, NEW k \in DOMAIN finds, j # k
          PROVE  Unlike(finds[j], finds[k])
      BY <1>1, <2>3 DEF FindingsHold, Repeats, Unlike
    <2>4. ASSUME NEW j \in DOMAIN finds, NEW k \in DOMAIN finds, j # k
          PROVE  finds[j].id # finds[k].id
      BY <1>1, <2>4 DEF FindingsHold
    <2>5. ASSUME Labelled(log, finds)
          PROVE  Sound(log, finds)
      BY <2>1, <2>3, <2>4, <2>5 DEF Sound, Labelled, Distinct
    <2> QED
      BY <2>1, <2>2, <2>5
  <1>2. ASSUME Sound(log, finds), \E k \in DOMAIN finds : finds[k].group = "key"
        PROVE  FindingsHold(finds, log)
    <2>1. \A k \in DOMAIN finds : finds[k].pids # {}
      BY <1>2 DEF Sound
    <2>2. ASSUME NEW k \in DOMAIN finds
          PROVE  NumbersAgree(finds[k], Len(log))
      <3>1. PICK f : f = finds[k]
        OBVIOUS
      <3>2. /\ ~f.cites /\ Named(log, f)
            /\ f.count = IF IsUnquantified(f) THEN NoCount ELSE SumOfCounts(log, f.pids)
        BY <3>1 DEF Reconciles
      <3>3. ~IsUnquantified(f) => SumOfCounts(log, f.pids) \in 0 .. Len(log)
        BY <3>2, SumIsLines DEF Named
      <3> QED
        BY <3>1, <3>2, <3>3 DEF NumbersAgree
    <2>3. ASSUME NEW j \in DOMAIN finds, NEW k \in DOMAIN finds, j # k
          PROVE  finds[j].id # finds[k].id /\ finds[j].pids \cap finds[k].pids = {}
      <3>1. finds[j].id # finds[k].id
        BY <1>2, <2>3 DEF Sound
      <3>2. ASSUME NEW p \in finds[j].pids, p \in finds[k].pids
            PROVE  FALSE
        <4>1. p # Other /\ p # Unquantified
          BY <1>2, <2>3, <3>2 DEF Sound
        <4>2. /\ pattern_families(log, p) \in FamiliesOf(log, finds[j].pids)
              /\ pattern_families(log, p) \in FamiliesOf(log, finds[k].pids)
          BY <3>2, <4>1 DEF FamiliesOf
        <4> QED
          BY <2>3, <4>2 DEF Reconciles
      <3> QED
        BY <3>1, <3>2
    <2>4. ~Repeats(finds)
      BY <1>2 DEF Repeats, Sound, Unlike
    <2> QED
      BY <1>2, <2>1, <2>2, <2>3, <2>4 DEF FindingsHold
  <1> QED
    BY <1>1, <1>2

\* Validation does not depend on the order of the findings.
LEMMA ValidatedRearranged ==
  ASSUME NEW log, NEW s, NEW u, Rearranges(u, s), NEW text,
         validate_log_triage_result(s, log, text)
  PROVE  validate_log_triage_result(u, log, text)
  <1>1. PICK o \in [DOMAIN u -> DOMAIN s] :
            /\ \A i, j \in DOMAIN u : o[i] = o[j] => i = j
            /\ \A x \in DOMAIN s : \E i \in DOMAIN u : o[i] = x
            /\ \A k \in DOMAIN u : u[k] = s[o[k]]
    BY DEF Rearranges
  <1>2. \A k \in DOMAIN u : o[k] \in DOMAIN s
    BY <1>1
  <1>3. \A j, k \in DOMAIN u : j # k => o[j] # o[k]
    BY <1>1
  <1>4. FindingsHold(s, log) /\ Readable(s, text)
    BY DEF validate_log_triage_result
  <1>5. FindingsHold(u, log)
    <2>1. \E k \in DOMAIN u : u[k].group = "key"
      <3>1. PICK x \in DOMAIN s : s[x].group = "key"
        BY <1>4 DEF FindingsHold
      <3> QED
        BY <1>1, <3>1
    <2>2. \A k \in DOMAIN u : u[k].pids # {} /\ NumbersAgree(u[k], Len(log))
      BY <1>1, <1>2, <1>4 DEF FindingsHold
    <2>3. ASSUME NEW j \in DOMAIN u, NEW k \in DOMAIN u, j # k
          PROVE  u[j].id # u[k].id /\ u[j].pids \cap u[k].pids = {}
      BY <1>1, <1>2, <1>3, <1>4, <2>3 DEF FindingsHold
    <2>4. ~Repeats(u)
      <3>1. ~Repeats(s)
        BY <1>4 DEF FindingsHold
      <3> QED
        BY <1>1, <1>2, <1>3, <3>1 DEF Repeats
    <2> QED
      BY <2>1, <2>2, <2>3, <2>4 DEF FindingsHold
  <1>6. Readable(u, text)
    <2>1. Supported(u, text)
      <3>1. Supported(s, text)
        BY <1>4 DEF Readable
      <3>2. \A x \in DOMAIN s : \E k \in DOMAIN u : u[k].id = s[x].id
        BY <1>1
      <3> QED
        BY <3>1, <3>2 DEF Supported
    <2>2. \A k \in DOMAIN u : OverLimit(u[k], text) = {}
      BY <1>1, <1>2, <1>4 DEF Readable
    <2> QED
      BY <1>4, <2>1, <2>2 DEF Readable
  <1> QED
    BY <1>5, <1>6 DEF validate_log_triage_result

\* Reconciled again, findings that reconcile only change their order; the repair
\* keeps them sound.
LEMMA PatternPathAgain ==
  ASSUME NEW log \in Seq(LogLines), NEW finds, Reconciles(log, finds), Distinct(finds),
         NEW fallback \in BOOLEAN, NEW res, res = ReconcilePatterns(finds, log, fallback)
  PROVE  /\ res.outcome = "ok"
         /\ ~fallback => res.left = ByGroup(finds)
         /\ Reconciles(log, res.finds)
         /\ Sound(log, finds) => Sound(log, res.finds)
         /\ finds # <<>> /\ fallback => \E k \in DOMAIN res.finds : res.finds[k].group = "key"
  <1>1. PICK acc : acc = ClaimPatterns(finds, log, pattern_manifest(log), fallback)
    OBVIOUS
  <1>2. acc.outcome = "ok" /\ acc.done = finds
    BY <1>1, ClaimsAgain
  <1>3. PICK merge : merge = MergeFamilies(log, finds)
    OBVIOUS
  <1>4. merge = [finds |-> finds, left |-> finds, anew |-> FALSE]
    <2>1. FamiliesApart(log, finds)
      BY DEF Reconciles, FamiliesApart
    <2> QED
      BY <1>3, <2>1, MergedAnew
  <1>5. PICK u : u = Finished(log, AppendOmitted(log, RepairFinds(log, finds, fallback)), fallback)
    OBVIOUS
  <1>6. res = [outcome |-> "ok", finds |-> u, left |-> u]
    <2>1. res = AfterClaims(acc, log, fallback)
      BY <1>1 DEF ReconcilePatterns
    <2>2. res = Whole(log, merge, fallback)
      BY <1>2, <1>3, <2>1 DEF AfterClaims
    <2>3. res = Outcome(merge, u)
      BY <1>4, <1>5, <2>2 DEF Whole
    <2> QED
      BY <1>4, <2>3 DEF Outcome
  <1>7. Separate(log, finds)
    BY DEF Reconciles, Separate
  <1>8. /\ Reconciles(log, u)
        /\ Sound(log, finds) => Sound(log, u)
        /\ finds # <<>> /\ fallback => \E k \in DOMAIN u : u[k].group = "key"
        /\ Reconciles(log, finds) /\ ~fallback => u = ByGroup(finds)
    BY <1>5, <1>7, WholeReconciles
  <1> QED
    BY <1>6, <1>8

-----------------------------------------------------------------------------
(***************************************************************************)
(* reconcile_result, for both kinds of answers.                            *)
(***************************************************************************)

\* Findings that account for the whole log, by entries or by patterns.
Grounded(log, finds) ==
    /\ finds \in Seq(FindingRecords)
    /\ \/ Accounted(log, finds, DOMAIN log) /\ \E k \in DOMAIN finds : finds[k].cites
       \/ Reconciles(log, finds)

\* Whatever reconcile_result is given, what it returns is grounded.
LEMMA ReconciledIsGrounded ==
  ASSUME NEW log \in Seq(LogLines), NEW finds \in Seq(FindingRecords), NEW fallback \in BOOLEAN,
         NEW res, res = reconcile_result(finds, log, fallback)
  PROVE  /\ res.finds \in Seq(FindingRecords) /\ res.left \in Seq(FindingRecords)
         /\ res.outcome = "ok" => Grounded(log, res.finds)
  <1>1. CASE \E n \in DOMAIN finds : finds[n].cites
    <2>1. res = _reconcile_entry_grouped_result(finds, log)
      BY <1>1 DEF reconcile_result
    <2>2. /\ res.finds \in Seq(FindingRecords) /\ res.left = res.finds
          /\ res.outcome = "ok" =>
               /\ Accounted(log, res.finds, DOMAIN log)
               /\ \A k \in DOMAIN finds : finds[k].cites =>
                     \E j \in DOMAIN res.finds : res.finds[j].cites
      BY <2>1, EntryPath
    <2> QED
      BY <1>1, <2>2 DEF Grounded
  <1>2. CASE ~(\E n \in DOMAIN finds : finds[n].cites)
    <2>1. res = ReconcilePatterns(finds, log, fallback) /\ NamesPatterns(finds)
      BY <1>2 DEF reconcile_result, NamesPatterns
    <2>2. /\ res.finds \in Seq(FindingRecords) /\ res.left \in Seq(FindingRecords)
          /\ res.outcome = "ok" => Reconciles(log, res.finds)
      BY <2>1, PatternPath
    <2> QED
      BY <2>2 DEF Grounded
  <1> QED
    BY <1>1, <1>2

\* Validated findings: those that cite entries cite some.
LEMMA ValidatedEntries ==
  ASSUME NEW log, NEW finds, FindingsHold(finds, log)
  PROVE  \A k \in DOMAIN finds : finds[k].cites => finds[k].entries # {}
  BY DEF FindingsHold, NumbersAgree

\* Grounded findings that passed validation count every line once: all of them, or
\* those that cite entries.
LEMMA GroundedConserves ==
  ASSUME NEW log \in Seq(LogLines), NEW finds, Grounded(log, finds), FindingsHold(finds, log)
  PROVE  /\ NamesPatterns(finds) =>
              Total(finds, DOMAIN finds) =
                Len(log) - (IF Other \in UsedBy(finds) THEN 0 ELSE CountOf(log, Other))
         /\ ~NamesPatterns(finds) =>
              /\ UNION {finds[n].entries : n \in Citing(finds)} = DOMAIN log
              /\ Total(finds, Citing(finds)) = Len(log)
  <1>1. finds \in Seq(FindingRecords)
    BY DEF Grounded
  <1>2. \A k \in DOMAIN finds : finds[k].cites => finds[k].entries # {}
    BY ValidatedEntries
  <1>3. CASE Reconciles(log, finds)
    <2>1. NamesPatterns(finds)
      BY <1>3 DEF NamesPatterns, Reconciles
    <2>2. Distinct(finds)
      BY <1>3, ValidatedPatterns
    <2> QED
      BY <1>3, <2>1, <2>2, PatternsConserved
  <1>4. CASE Accounted(log, finds, DOMAIN log) /\ \E k \in DOMAIN finds : finds[k].cites
    <2>1. ~NamesPatterns(finds)
      BY <1>4 DEF NamesPatterns
    <2> QED
      BY <1>1, <1>2, <1>4, <2>1, EntriesConserved
  <1> QED
    BY <1>3, <1>4 DEF Grounded

\* Reconciled again without the repair, they pass validation again.
LEMMA GroundedIsReused ==
  ASSUME NEW log \in Seq(LogLines), NEW finds, Grounded(log, finds), NEW text,
         validate_log_triage_result(finds, log, text), NEW again, NEW fallback \in BOOLEAN,
         ~fallback, again = reconcile_result(finds, log, fallback)
  PROVE  again.outcome = "ok" /\ validate_log_triage_result(again.left, log, text)
  <1>1. finds \in Seq(FindingRecords) /\ FindingsHold(finds, log)
    BY DEF Grounded, validate_log_triage_result
  <1>2. CASE Reconciles(log, finds)
    <2>1. again = ReconcilePatterns(finds, log, fallback)
      BY <1>2 DEF reconcile_result, Reconciles
    <2>2. Distinct(finds)
      BY <1>1, <1>2, ValidatedPatterns
    <2>3. again.outcome = "ok" /\ again.left = ByGroup(finds)
      BY <1>2, <2>1, <2>2, PatternPathAgain
    <2>4. Rearranges(again.left, finds)
      BY <1>1, <2>3, ByGroupRearranges
    <2> QED
      BY <2>3, <2>4, ValidatedRearranged
  <1>3. CASE Accounted(log, finds, DOMAIN log) /\ \E k \in DOMAIN finds : finds[k].cites
    <2>1. again = _reconcile_entry_grouped_result(finds, log)
      BY <1>3 DEF reconcile_result
    <2>2. \A k \in DOMAIN finds : finds[k].cites => finds[k].entries # {}
      BY <1>1, ValidatedEntries
    <2>3. again = [outcome |-> "ok", finds |-> finds, left |-> finds]
      BY <1>1, <1>3, <2>1, <2>2, EntryPathAgain
    <2>4. again.outcome = "ok" /\ again.left = finds
      BY <2>3
    <2> QED
      BY <2>4, Zenon
  <1> QED
    BY <1>2, <1>3 DEF Grounded

\* The repair of grounded findings that passed validation passes it, too.
LEMMA GroundedIsRepaired ==
  ASSUME NEW log \in Seq(LogLines), NEW finds, Grounded(log, finds),
         FindingsHold(finds, log),
         Reconciles(log, finds) => Labelled(log, finds), NEW fallback \in BOOLEAN,
         NEW rep, rep = reconcile_result(finds, log, fallback)
  PROVE  rep.outcome = "ok" /\ (fallback => FindingsHold(rep.finds, log))
  <1>1. finds \in Seq(FindingRecords)
    BY DEF Grounded
  <1>2. CASE Reconciles(log, finds)
    <2>1. rep = ReconcilePatterns(finds, log, fallback)
      BY <1>2 DEF reconcile_result, Reconciles
    <2>2. Distinct(finds) /\ finds # <<>> /\ Sound(log, finds)
      BY <1>2, ValidatedPatterns
    <2>3. /\ rep.outcome = "ok" /\ Reconciles(log, rep.finds) /\ Sound(log, rep.finds)
          /\ fallback => \E k \in DOMAIN rep.finds : rep.finds[k].group = "key"
      BY <1>2, <2>1, <2>2, PatternPathAgain
    <2> QED
      BY <2>3, ValidatedPatterns
  <1>3. CASE Accounted(log, finds, DOMAIN log) /\ \E k \in DOMAIN finds : finds[k].cites
    <2>1. rep = _reconcile_entry_grouped_result(finds, log)
      BY <1>3 DEF reconcile_result
    <2>2. \A k \in DOMAIN finds : finds[k].cites => finds[k].entries # {}
      BY ValidatedEntries
    <2>3. rep = [outcome |-> "ok", finds |-> finds, left |-> finds]
      BY <1>1, <1>3, <2>1, <2>2, EntryPathAgain
    <2>4. rep.outcome = "ok" /\ rep.finds = finds
      BY <2>3
    <2> QED
      BY <2>4, Zenon
  <1> QED
    BY <1>2, <1>3 DEF Grounded

\* Findings that differ in their details only.
SameButDetails(u, s) ==
    /\ u \in Seq(FindingRecords)
    /\ DOMAIN u = DOMAIN s
    /\ \A k \in DOMAIN s :
         /\ u[k].id = s[k].id /\ u[k].group = s[k].group /\ u[k].cites = s[k].cites
         /\ u[k].entries = s[k].entries /\ u[k].pids = s[k].pids /\ u[k].count = s[k].count
         /\ u[k].occurrences = s[k].occurrences

\* compact_log_triage_narrative changes nothing else in the findings.
LEMMA OnlyDetailsCut ==
  ASSUME NEW finds \in Seq(FindingRecords), NEW text \in Prose,
         NEW c, c = compact_log_triage_narrative(finds, text)
  PROVE  SameButDetails(c.finds, finds)
  <1>1. PICK n \in Nat : n = Len(finds) /\ DOMAIN finds = 1 .. n
    BY LenProperties
  <1>2. c.finds = [k \in 1 .. n |-> Brief(finds[k], text)]
    BY <1>1 DEF compact_log_triage_narrative
  <1>3. ASSUME NEW k \in 1 .. n
        PROVE  LET g == Brief(finds[k], text)
                   f == finds[k]
               IN /\ g \in FindingRecords
                  /\ g.id = f.id /\ g.group = f.group /\ g.cites = f.cites
                  /\ g.entries = f.entries /\ g.pids = f.pids /\ g.count = f.count
                  /\ g.occurrences = f.occurrences
    <2>1. PICK f \in FindingRecords : f = finds[k]
      BY <1>1, ElementOfSeq
    <2>2. CASE OverLimit(f, text) = {}
      BY <2>1, <2>2 DEF Brief
    <2>3. CASE OverLimit(f, text) # {}
      <3>1. PICK o \in OverLimit(f, text) : o = CHOOSE x \in OverLimit(f, text) : TRUE
        BY <2>3
      <3>2. o.brief \in [en : Nat, zh : Nat]
        BY <3>1 DEF OverLimit, Prose
      <3>3. Brief(f, text) = [f EXCEPT !.detail = o.brief]
        BY <2>3, <3>1 DEF Brief
      <3> QED
        BY <2>1, <3>2, <3>3 DEF FindingRecords
    <2> QED
      BY <2>2, <2>3
  <1>4. c.finds \in Seq(FindingRecords) /\ DOMAIN c.finds = 1 .. n
    <2>1. \A k \in 1 .. n : Brief(finds[k], text) \in FindingRecords
      BY <1>3
    <2> QED
      BY <1>2, <2>1, SeqDef
  <1> QED
    BY <1>1, <1>2, <1>3, <1>4 DEF SameButDetails

\* They are grounded as before.
LEMMA CutIsGrounded ==
  ASSUME NEW log, NEW s, NEW u, SameButDetails(u, s), Grounded(log, s)
  PROVE  Grounded(log, u)
  <1>1. CASE Accounted(log, s, DOMAIN log) /\ \E k \in DOMAIN s : s[k].cites
    <2>1. \A k \in DOMAIN s : Settled(log, s[k]) => Settled(log, u[k])
      BY DEF SameButDetails, Settled
    <2>2. /\ DOMAIN log \subseteq DOMAIN log /\ Expanded(log, DOMAIN log) = DOMAIN log
          /\ \A k \in DOMAIN u : u[k].cites =>
               u[k].entries \subseteq DOMAIN log /\ (u[k].entries = {} \/ Settled(log, u[k]))
          /\ \A j, k \in DOMAIN u : j # k /\ u[j].cites /\ u[k].cites =>
               u[j].entries \cap u[k].entries = {}
          /\ \A e \in DOMAIN log : \E k \in DOMAIN u : u[k].cites /\ e \in u[k].entries
      BY <1>1, <2>1 DEF Accounted, SameButDetails
    <2>3. Accounted(log, u, DOMAIN log)
      BY <2>2 DEF Accounted
    <2>4. \E k \in DOMAIN u : u[k].cites
      BY <1>1 DEF SameButDetails
    <2> QED
      BY <2>3, <2>4 DEF Grounded, SameButDetails
  <1>2. CASE Reconciles(log, s)
    <2>1. \A k \in DOMAIN s : /\ IsUnquantified(u[k]) <=> IsUnquantified(s[k])
                              /\ Named(log, s[k]) => Named(log, u[k])
      BY DEF SameButDetails, IsUnquantified, Named
    <2>2. UsedBy(u) = UsedBy(s)
      BY DEF SameButDetails, UsedBy
    <2>3. Reconciles(log, u)
      BY <1>2, <2>1, <2>2 DEF SameButDetails, Reconciles
    <2> QED
      BY <2>3 DEF Grounded, SameButDetails
  <1> QED
    BY <1>1, <1>2 DEF Grounded

\* They hold as before, unless details have become the same.
LEMMA CutStillHolds ==
  ASSUME NEW log, NEW s, NEW u, SameButDetails(u, s), FindingsHold(s, log), ~Repeats(u)
  PROVE  FindingsHold(u, log)
  <1>1. ASSUME NEW k \in DOMAIN u
        PROVE  u[k].pids # {} /\ NumbersAgree(u[k], Len(log))
    <2>1. NumbersAgree(s[k], Len(log)) /\ s[k].pids # {}
      BY <1>1 DEF FindingsHold, SameButDetails
    <2> QED
      BY <1>1, <2>1 DEF NumbersAgree, IsUnquantified, SameButDetails
  <1>2. \E k \in DOMAIN u : u[k].group = "key"
    BY DEF FindingsHold, SameButDetails
  <1>3. \A j, k \in DOMAIN u : j # k => u[j].id # u[k].id /\ u[j].pids \cap u[k].pids = {}
    BY DEF FindingsHold, SameButDetails
  <1> QED
    BY <1>1, <1>2, <1>3 DEF FindingsHold

\* What is left of the prose reads, when two sentences of the summary are left.
LEMMA CutIsReadable ==
  ASSUME NEW finds \in Seq(FindingRecords), NEW text \in Prose,
         text.reads, text.cutReads, text.fits >= 2, Supported(finds, text),
         NEW c, c = compact_log_triage_narrative(finds, text)
  PROVE  Readable(c.finds, c.text)
  <1>1. SameButDetails(c.finds, finds)
    BY OnlyDetailsCut
  <1>2. ASSUME NEW t, t.needs = text.needs
        PROVE  Supported(c.finds, t)
    BY <1>1, <1>2 DEF Supported, SameButDetails
  <1>3. text.sentences \in Nat /\ text.fits \in Nat
    BY DEF Prose
  <1>4. CASE SummaryFits(text) /\ \A n \in DOMAIN finds : OverLimit(finds[n], text) = {}
    <2>1. c.text = text
      BY <1>4 DEF compact_log_triage_narrative
    <2>2. \A n \in DOMAIN c.finds : OverLimit(c.finds[n], text) = {}
      BY <1>1, <1>4 DEF SameButDetails, OverLimit
    <2>3. text.sentences >= 2
      BY <1>4 DEF SummaryFits
    <2> QED
      BY <1>2, <1>4, <2>1, <2>2, <2>3 DEF Readable
  <1>5. CASE ~(SummaryFits(text) /\ \A n \in DOMAIN finds : OverLimit(finds[n], text) = {})
    <2>1. PICK k \in Nat : k = IF SummaryFits(text) THEN text.sentences ELSE CutSummary(text)
      BY <1>3 DEF CutSummary
    <2>2. k >= 2 /\ k <= 4
      BY <1>3, <2>1 DEF CutSummary, SummaryFits
    <2>3. PICK t : t = c.text
      OBVIOUS
    <2>4. /\ t.sentences = k /\ t.fits = k /\ t.reads = text.cutReads
          /\ t.needs = text.needs /\ t.over = {}
      BY <1>5, <2>1, <2>3 DEF compact_log_triage_narrative, Prose, SummaryFits
    <2>5. SummaryFits(t) /\ t.sentences >= 2
      BY <2>2, <2>4 DEF SummaryFits
    <2>6. \A n \in DOMAIN c.finds : OverLimit(c.finds[n], t) = {}
      BY <2>4 DEF OverLimit
    <2>7. Supported(c.finds, t) /\ t.reads
      BY <1>2, <2>4
    <2> QED
      BY <2>3, <2>5, <2>6, <2>7 DEF Readable
  <1> QED
    BY <1>4, <1>5

\* Findings of an answer that hold when they are reconciled hold after the repair,
\* unless findings of one family were merged.
LEMMA LongAnswerIsRepaired ==
  ASSUME NEW log \in Logs, NEW a \in Answers,
         NEW no \in BOOLEAN, ~no, NEW yes \in BOOLEAN, yes,
         NEW rec, rec = reconcile_result(a.finds, log, no), rec.outcome = "ok",
         FindingsHold(rec.finds, log),
         ~(NamesPatterns(a.finds) /\ MergeFamilies(log, a.finds).anew),
         NEW rep, rep = reconcile_result(rec.left, log, yes)
  PROVE  rep.outcome = "ok" /\ FindingsHold(rep.finds, log)
  <1>1. log \in Seq(LogLines)
    BY LogsAssumption
  <1>2. PICK finds \in Seq(FindingRecords) : finds = a.finds
    BY AnswersAssumption
  <1>3. CASE \E n \in DOMAIN finds : finds[n].cites
    <2>1. rec = _reconcile_entry_grouped_result(finds, log)
      BY <1>2, <1>3 DEF reconcile_result
    <2>2. PICK F \in Seq(FindingRecords) : F = rec.finds
      BY <1>1, <2>1, EntryPath
    <2>3. /\ rec.left = F /\ Accounted(log, F, DOMAIN log)
          /\ \E j \in DOMAIN F : F[j].cites
      BY <1>1, <1>3, <2>1, <2>2, EntryPath
    <2>4. Grounded(log, F) /\ ~Reconciles(log, F)
      BY <2>3 DEF Grounded, Reconciles
    <2> QED
      BY <1>1, <2>2, <2>3, <2>4, GroundedIsRepaired
  <1>4. CASE ~(\E n \in DOMAIN finds : finds[n].cites)
    <2>1. rec = ReconcilePatterns(finds, log, no) /\ NamesPatterns(finds)
      BY <1>2, <1>4 DEF reconcile_result, NamesPatterns
    <2>2. PICK acc : acc = ClaimPatterns(finds, log, pattern_manifest(log), no)
      OBVIOUS
    <2>3. rec = AfterClaims(acc, log, no)
      BY <2>1, <2>2 DEF ReconcilePatterns
    <2>4. acc.outcome = "ok"
      <3>1. ASSUME acc.outcome # "ok"
            PROVE  rec.outcome = acc.outcome
        BY <2>3, <3>1 DEF AfterClaims
      <3> QED
        BY <3>1
    <2>5. ClaimInv(log, no, finds, acc, Len(finds))
      BY <1>1, <2>1, <2>2, PatternsAreClaimed
    <2>6. PICK done \in Seq(FindingRecords) : done = acc.done
      BY <2>5 DEF ClaimInv, PatternAccs
    <2>7. /\ DOMAIN done = DOMAIN finds
          /\ \A k \in DOMAIN done : /\ done[k].pids = finds[k].pids /\ done[k].id = finds[k].id
                                    /\ ~done[k].cites /\ Named(log, done[k])
      <3>1. /\ Len(done) = Len(finds)
            /\ \A k \in 1 .. Len(finds) : done[k].pids = finds[k].pids /\ done[k].id = finds[k].id
            /\ \A k \in DOMAIN done : ~done[k].cites /\ Named(log, done[k])
        BY <2>4, <2>5, <2>6 DEF ClaimInv
      <3>2. DOMAIN done = 1 .. Len(finds) /\ DOMAIN finds = 1 .. Len(finds)
        BY <3>1, LenProperties
      <3> QED
        BY <3>1, <3>2
    <2>8. FamiliesApart(log, done)
      <3>1. FamiliesApart(log, finds)
        BY <1>2, <2>1, MergedAnew
      <3> QED
        BY <2>7, <3>1 DEF FamiliesApart
    <2>9. Separate(log, done)
      BY <2>7, <2>8 DEF Separate, FamiliesApart
    <2>10. PICK merge : merge = MergeFamilies(log, done)
      OBVIOUS
    <2>11. merge = [finds |-> done, left |-> done, anew |-> FALSE]
      BY <2>8, <2>10, MergedAnew
    <2>12. PICK u : u = Finished(log, AppendOmitted(log, RepairFinds(log, done, no)), no)
      OBVIOUS
    <2>13. rec = [outcome |-> "ok", finds |-> u, left |-> u]
      <3>1. rec = Whole(log, merge, no)
        BY <2>3, <2>4, <2>6, <2>10 DEF AfterClaims
      <3>2. rec = Outcome(merge, u)
        BY <2>11, <2>12, <3>1 DEF Whole
      <3> QED
        BY <2>11, <3>2 DEF Outcome
    <2>14. Labelled(log, done)
      <3>1. \A k \in DOMAIN finds, e \in DOMAIN log : finds[k].id # UnlabeledId(log[e].family)
        BY <1>2, RuntimeIdsAssumption
      <3> QED
        BY <2>7, <3>1 DEF Labelled
    <2>15. Reconciles(log, u) /\ Labelled(log, u)
      BY <1>1, <2>9, <2>12, <2>14, WholeReconciles
    <2>16. Grounded(log, u)
      BY <2>15 DEF Grounded, Reconciles
    <2>17. rec.finds = u /\ rec.left = u
      BY <2>13
    <2> QED
      BY <1>1, <2>15, <2>16, <2>17, GroundedIsRepaired
  <1> QED
    BY <1>3, <1>4

-----------------------------------------------------------------------------
(***************************************************************************)
(* The worker.                                                             *)
(***************************************************************************)

\* An analysis that passed validation after reconciliation.
Analysis(log, result) ==
    /\ Grounded(log, result.finds)
    /\ validate_log_triage_result(result.finds, log, result.text)

\* A report's result is its summary.
Plan(result) == result.text.reads

\* What the worker kept of the job j, in a delivery or in the store.
Stands(j, result) ==
    \/ result = Nothing
    \/ j.type = "log_triage" /\ Analysis(j.log, result)
    \/ j.type # "log_triage" /\ Plan(result)

\* The inductive invariant.
IInv ==
    /\ job \in TriageJobs \cup ReportJobs
    /\ phase = "answered" => answer \in Answers
    /\ Stands(job, output)
    /\ Stands(job, stored)

\* A triage job is about a log, a report job about a snapshot.
LEMMA JobParts ==
  ASSUME job \in TriageJobs \cup ReportJobs
  PROVE  /\ Triage => job.log \in Logs /\ job.log \in Seq(LogLines)
         /\ ~Triage => job.snapshot \in Snapshots
  <1>1. CASE job \in TriageJobs
    BY <1>1, LogsAssumption DEF TriageJobs, Triage
  <1>2. CASE job \in ReportJobs
    BY <1>2 DEF ReportJobs, Triage
  <1> QED
    BY <1>1, <1>2

\* The job is given and nothing was kept.
LEMMA InitInv == Init => IInv
  BY DEF Init, IInv, Stands

\* Every step keeps the job, and takes what it keeps from a validated reconciliation.
LEMMA NextInv == IInv /\ [Next]_vars => IInv'
  <1> SUFFICES ASSUME IInv, [Next]_vars
               PROVE  IInv'
    OBVIOUS
  <1>1. ASSUME UNCHANGED <<job, output, stored>>, phase' = "answered" => answer' \in Answers
        PROVE  IInv'
    BY <1>1 DEF IInv
  <1>2. CASE Reuse
    BY <1>1, <1>2 DEF Reuse
  <1>3. CASE Infer
    BY <1>1, <1>3 DEF Infer
  <1>4. CASE \E a \in Answers : Analyze(a)
    BY <1>1, <1>4 DEF Analyze
  <1>5. CASE \E end \in {"retryable", "terminal"} : RuntimeFails(end)
    BY <1>1, <1>5 DEF RuntimeFails
  <1>6. ASSUME NextAttempt
        PROVE  phase' # "answered"
    BY <1>6 DEF NextAttempt
  <1>7. CASE InvalidResponse
    BY <1>1, <1>6, <1>7 DEF InvalidResponse
  <1>8. CASE Reject
    BY <1>1, <1>6, <1>8 DEF Reject
  <1>9. CASE KeyErrorEscapes
    BY <1>1, <1>9 DEF KeyErrorEscapes
  <1>10. CASE RepairFails
    BY <1>1, <1>10 DEF RepairFails
  <1>11. CASE RejectPlan
    BY <1>1, <1>6, <1>11 DEF RejectPlan
  <1>12. CASE Complete
    BY <1>1, <1>12 DEF Complete
  <1>13. ASSUME NEW finds, NEW text, Keep(finds, text),
                Stands(job, [finds |-> finds, text |-> text])
         PROVE  IInv'
    BY <1>13 DEF IInv, Keep
  <1>14. ASSUME Triage, phase = "answered"
         PROVE  /\ job.log \in Seq(LogLines) /\ answer.finds \in Seq(FindingRecords)
                /\ answer.text \in Prose
    BY <1>14, JobParts, AnswersAssumption DEF IInv
  <1>15. ASSUME Triage, NEW finds, NEW text, Grounded(job.log, finds),
                validate_log_triage_result(finds, job.log, text)
         PROVE  Stands(job, [finds |-> finds, text |-> text])
    <2>1. PICK r : r = [finds |-> finds, text |-> text]
      OBVIOUS
    <2>2. r.finds = finds /\ r.text = text
      BY <2>1
    <2>3. Analysis(job.log, r)
      BY <1>15, <2>2 DEF Analysis
    <2> QED
      BY <1>15, <2>1, <2>3 DEF Stands, Triage
  <1>16. CASE Accept
    <2>1. Triage /\ phase = "answered" /\ Acceptable /\ Keep(Reconciled.finds, answer.text)
      BY <1>16 DEF Accept
    <2>2. PICK rec : rec = Reconciled
      OBVIOUS
    <2>3. rec.outcome = "ok" /\ validate_log_triage_result(rec.finds, job.log, answer.text)
      BY <2>1, <2>2 DEF Acceptable, Good
    <2>4. rec = reconcile_result(answer.finds, job.log, FALSE)
      BY <2>2 DEF Reconciled
    <2>5. Grounded(job.log, rec.finds)
      BY <1>14, <2>1, <2>3, <2>4, ReconciledIsGrounded
    <2> QED
      BY <1>13, <1>15, <2>1, <2>2, <2>3, <2>5
  <1>17. CASE Repair
    <2>1. Triage /\ phase = "answered" /\ Repairable /\ Keep(Compacted.finds, Compacted.text)
      BY <1>17 DEF Repair, LastResort
    <2>2. PICK rep : rep = Repaired
      OBVIOUS
    <2>3. PICK rec : rec = Reconciled
      OBVIOUS
    <2>4. PICK cut : cut = Compacted
      OBVIOUS
    <2>5. rep.outcome = "ok" /\ validate_log_triage_result(cut.finds, job.log, cut.text)
      BY <2>1, <2>2, <2>4 DEF Repairable, Good
    <2>6. rec = reconcile_result(answer.finds, job.log, FALSE)
      BY <2>3 DEF Reconciled
    <2>7. rec.left \in Seq(FindingRecords)
      BY <1>14, <2>1, <2>6, ReconciledIsGrounded
    <2>8. rep = reconcile_result(rec.left, job.log, TRUE)
      BY <2>2, <2>3 DEF Repaired
    <2>9. Grounded(job.log, rep.finds) /\ rep.finds \in Seq(FindingRecords)
      BY <1>14, <2>1, <2>5, <2>7, <2>8, ReconciledIsGrounded
    <2>10. cut = compact_log_triage_narrative(rep.finds, answer.text)
      BY <2>2, <2>4 DEF Compacted
    <2>11. Grounded(job.log, cut.finds)
      BY <1>14, <2>1, <2>9, <2>10, OnlyDetailsCut, CutIsGrounded
    <2> QED
      BY <1>13, <1>15, <2>1, <2>4, <2>5, <2>11
  <1>18. CASE AcceptPlan
    <2>1. PICK r : r = [finds |-> <<>>, text |-> answer.text]
      OBVIOUS
    <2>2. Plan(r)
      BY <1>18, <2>1 DEF AcceptPlan, Plan
    <2>3. Stands(job, r)
      BY <1>18, <2>2 DEF AcceptPlan, Stands, Triage
    <2> QED
      BY <1>13, <1>18, <2>1, <2>3 DEF AcceptPlan
  <1>19. CASE Upload
    BY <1>19 DEF Upload, IInv
  <1>20. CASE Redeliver
    BY <1>20 DEF Redeliver, IInv, Stands
  <1>21. CASE UNCHANGED vars
    BY <1>21 DEF vars, IInv
  <1> QED
    BY <1>2, <1>3, <1>4, <1>5, <1>7, <1>8, <1>9, <1>10, <1>11, <1>12, <1>16, <1>17, <1>18,
       <1>19, <1>20, <1>21 DEF Next

\* The inductive invariant, for any logs, answers, snapshots and numbers of attempts
\* and deliveries.
THEOREM InferenceInvariant == Spec => []IInv
  BY InitInv, NextInv, PTL DEF Spec

\* worker.py: what a delivery accepted, repaired or not, counts every line of the log
\* once, whatever the answer grouped, cited twice, named wrongly or left out: in all of
\* its findings when they name patterns, in the ones that cite entries when some do.
\* Findings of such an answer that cite nothing are not in the sum: they keep the
\* runtime's own numbers.
THEOREM InferenceConservesEvidence == Spec => []EvidenceIsConserved
  <1>1. ASSUME IInv
        PROVE  EvidenceIsConserved
    <2> SUFFICES ASSUME Triage, output # Nothing
                 PROVE  EvidenceIsConserved
      BY DEF EvidenceIsConserved
    <2>1. PICK finds : finds = output.finds
      OBVIOUS
    <2>2. PICK log \in Seq(LogLines) : log = job.log
      BY <1>1, JobParts DEF IInv
    <2>3. Grounded(log, finds) /\ FindingsHold(finds, log)
      BY <1>1, <2>1, <2>2 DEF IInv, Stands, Triage, Analysis, validate_log_triage_result
    <2>4. /\ NamesPatterns(finds) =>
               Total(finds, DOMAIN finds) =
                 Len(log) - (IF Other \in UsedBy(finds) THEN 0 ELSE CountOf(log, Other))
          /\ ~NamesPatterns(finds) =>
               /\ UNION {finds[n].entries : n \in Citing(finds)} = DOMAIN log
               /\ Total(finds, Citing(finds)) = Len(log)
      BY <2>2, <2>3, GroundedConserves
    <2> QED
      BY <2>1, <2>2, <2>4, Zenon DEF EvidenceIsConserved, UsedBy
  <1> QED
    BY <1>1, InferenceInvariant, PTL

\* worker.py, _artifact_exists_and_valid: whatever was stored is good enough to reuse, so
\* a delivery after a crash that can read it does not pay for a second inference.
THEOREM InferenceReusesStoredResults == Spec => []StoredResultIsReused
  <1>1. ASSUME IInv
        PROVE  StoredResultIsReused
    <2> SUFFICES ASSUME stored # Nothing
                 PROVE  Reusable
      BY DEF StoredResultIsReused
    <2>1. CASE ~Triage
      BY <1>1, <2>1 DEF IInv, Stands, Triage, Plan, Reusable, SavedPlanIsValid
    <2>2. CASE Triage
      <3>1. PICK log \in Seq(LogLines) : log = job.log
        BY <1>1, <2>2, JobParts DEF IInv
      <3>2. PICK finds : finds = stored.finds
        OBVIOUS
      <3>3. Grounded(log, finds) /\ validate_log_triage_result(finds, log, stored.text)
        BY <1>1, <2>2, <3>1, <3>2 DEF IInv, Stands, Triage, Analysis
      <3>4. PICK again : again = reconcile_result(finds, log, FALSE)
        OBVIOUS
      <3>5. again.outcome = "ok" /\ validate_log_triage_result(again.left, log, stored.text)
        BY <3>3, <3>4, GroundedIsReused
      <3> QED
        BY <2>2, <3>1, <3>2, <3>3, <3>4, <3>5 DEF Reusable, _artifact_exists_and_valid
    <2> QED
      BY <2>1, <2>2
  <1> QED
    BY <1>1, InferenceInvariant, PTL

\* preprocessing.py, _compact_narrative: a long but otherwise good answer is repaired on
\* the last attempt, unless findings of one family were merged, fewer than two sentences
\* of the summary fit, what is left does not read or repeats itself, or the evidence for
\* an asserted cause went with a finding that the repair drops.
THEOREM InferenceRepairsLongAnswers == Spec => []OnlyMergersAndCutsDefeatRepair
  <1>1. ASSUME IInv
        PROVE  OnlyMergersAndCutsDefeatRepair
    <2> SUFFICES ASSUME LastResort, Reconciled.outcome = "ok",
                        FindingsHold(Reconciled.finds, job.log), answer.text.reads,
                        ~(NamesPatterns(answer.finds) /\ MergeFamilies(job.log, answer.finds).anew),
                        ~(answer.text.fits < 2), answer.text.cutReads, ~Repeats(Compacted.finds),
                        Supported(Repaired.finds, answer.text)
                 PROVE  Repairable
      BY DEF OnlyMergersAndCutsDefeatRepair, LongNarrativesAreRepaired
    <2>1. Triage /\ answer \in Answers /\ job.log \in Logs
      BY <1>1, JobParts DEF LastResort, IInv
    <2>2. job.log \in Seq(LogLines) /\ answer.finds \in Seq(FindingRecords)
          /\ answer.text \in Prose
      BY <2>1, LogsAssumption, AnswersAssumption
    <2>3. PICK rec : rec = Reconciled
      OBVIOUS
    <2>4. PICK rep : rep = Repaired
      OBVIOUS
    <2>5. PICK cut : cut = Compacted
      OBVIOUS
    <2>6. /\ rec = reconcile_result(answer.finds, job.log, FALSE)
          /\ rep = reconcile_result(rec.left, job.log, TRUE)
          /\ cut = compact_log_triage_narrative(rep.finds, answer.text)
      BY <2>3, <2>4, <2>5 DEF Reconciled, Repaired, Compacted
    <2>7. rep.outcome = "ok" /\ FindingsHold(rep.finds, job.log)
      BY <2>1, <2>3, <2>6, LongAnswerIsRepaired
    <2>8. rep.finds \in Seq(FindingRecords)
      <3>1. rec.left \in Seq(FindingRecords)
        BY <2>2, <2>6, ReconciledIsGrounded
      <3> QED
        BY <2>2, <2>6, <3>1, ReconciledIsGrounded
    <2>9. FindingsHold(cut.finds, job.log)
      BY <2>2, <2>5, <2>6, <2>7, <2>8, OnlyDetailsCut, CutStillHolds
    <2>10. answer.text.fits >= 2
      BY <2>2 DEF Prose
    <2>11. Readable(cut.finds, cut.text)
      BY <2>2, <2>4, <2>6, <2>8, <2>10, CutIsReadable
    <2> QED
      BY <2>4, <2>5, <2>7, <2>9, <2>11 DEF Repairable, Good, validate_log_triage_result
  <1> QED
    BY <1>1, InferenceInvariant, PTL

\* report_composition.py: the document that is rendered has every frozen incident once,
\* under its own number, with links and screenshots that lead where they say.
THEOREM InferenceDocumentIsFaithful == Spec => []DocumentIsFaithful
  <1>1. ASSUME IInv
        PROVE  DocumentIsFaithful
    <2> SUFFICES ASSUME ~Triage, phase \in {"stored", "completed"}
                 PROVE  DocumentIsFaithful
      BY DEF DocumentIsFaithful
    <2>1. job.snapshot \in Snapshots
      BY <1>1, JobParts DEF IInv
    <2>2. Faithful(job.snapshot, compose_report(job.snapshot))
      BY <2>1, ComposedFaithfully
    <2> QED
      BY <2>2, Zenon DEF DocumentIsFaithful, Faithful
  <1> QED
    BY <1>1, InferenceInvariant, PTL
==============================================================================
