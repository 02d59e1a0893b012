---------------------------- MODULE PrefillProofs ----------------------------
(***************************************************************************)
(* IInv of Prefill is inductive: whatever the model does and whoever       *)
(* competes for it, the rules' suggestions are stored, the queue keeps its *)
(* bound, and only overlapping or repeated attachments share an object.    *)
(***************************************************************************)
EXTENDS Prefill, FiniteFacts, SequenceTheorems

-----------------------------------------------------------------------------
(***************************************************************************)
(* Types.                                                                  *)
(***************************************************************************)

\* What the fields of an open request are.
LEMMA RequestType ==
  ASSUME NEW r \in Request
  PROVE  /\ r.op \in {"idle", "uploaded", "queued", "asking", "built", "attach"}
         /\ r.op = "idle" => r = Idle
         /\ r.op # "idle" => r.prefill \in Nat
         /\ r.op \in {"queued", "asking"} => r.text \in Texts
         /\ r.op = "built" => /\ r.text \in Texts \cup {NoText} /\ r.status \in Statuses
                              /\ r.fields \in Suggestions \cup {<<>>} /\ r.error \in Errors
         /\ r.op = "attach" => r.incident \in Incidents
  <1>1. CASE r = Idle
    BY <1>1 DEF Idle
  <1>2. CASE r \in [op : {"uploaded"}, prefill : Nat]
    BY <1>2
  <1>3. CASE r \in [op : {"queued"}, prefill : Nat, text : Texts]
    BY <1>3
  <1>4. CASE r \in [op : {"asking"}, prefill : Nat, text : Texts, attempt : {1, 2}]
    BY <1>4
  <1>5. CASE r \in [op : {"built"}, prefill : Nat, text : Texts \cup {NoText}, status : Statuses,
                    fields : Suggestions \cup {<<>>}, error : Errors]
    BY <1>5
  <1>6. CASE r \in [op : {"attach"}, prefill : Nat, incident : Incidents]
    BY <1>6
  <1> QED
    BY <1>1, <1>2, <1>3, <1>4, <1>5, <1>6 DEF Request

\* A committed run is not the absence of one.
LEMMA RunIsOne ==
  ASSUME NEW x \in Run
  PROVE  x # NoRun /\ x.status # "none"
  BY DEF Run, NoRun, Statuses

\* What the rows of the tables are.
LEMMA Tables ==
  ASSUME TypeOK
  PROVE  /\ Len(runs) \in Nat /\ DOMAIN runs = 1 .. Len(runs) /\ Prefills = 1 .. Len(runs)
         /\ Len(evidence) \in Nat /\ DOMAIN evidence = 1 .. Len(evidence)
         /\ Rows = 1 .. Len(evidence)
         /\ \A p \in Prefills : runs[p] # NoRun => runs[p] \in Run
         /\ \A e \in Rows : evidence[e] \in Row
         /\ DOMAIN req = Threads /\ \A q \in Threads : req[q] \in Request
         /\ ops \in [requests : Nat, restarts : Nat, overlap : SUBSET Nat]
  <1>1. /\ runs \in Seq(Run \cup {NoRun}) /\ evidence \in Seq(Row)
        /\ req \in [Threads -> Request]
        /\ ops \in [requests : Nat, restarts : Nat, overlap : SUBSET Nat]
    BY DEF TypeOK
  <1>2. \A p \in 1 .. Len(runs) : runs[p] \in Run \cup {NoRun}
    BY <1>1, ElementOfSeq
  <1>3. \A e \in 1 .. Len(evidence) : evidence[e] \in Row
    BY <1>1, ElementOfSeq
  <1> QED
    BY <1>1, <1>2, <1>3 DEF Prefills, Rows

-----------------------------------------------------------------------------
(***************************************************************************)
(* Suggestions.                                                            *)
(***************************************************************************)

\* What the rules make of a text.
LEMMA RulesKeep ==
  ASSUME NEW t \in Texts
  PROVE  /\ deterministic_prefill(t) \in Suggestions
         /\ \A f \in Fields : t.rule[f] # "none" => deterministic_prefill(t)[f].by # "nobody"
  <1>1. t.rule \in [Fields -> {"none", "review", "high"}]
    BY PrefillAssumption
  <1>2. \A f \in Fields : t.rule[f] \in {"none", "review", "high"}
    BY <1>1
  <1> QED
    BY <1>2 DEF deterministic_prefill, Suggestions

\* An answer of the model only adds to them.
LEMMA AnswerKeeps ==
  ASSUME NEW fields \in Suggestions, NEW answer
  PROVE  /\ _apply_model_output(fields, answer) \in Suggestions
         /\ \A f \in Fields : fields[f].by # "nobody" =>
              _apply_model_output(fields, answer)[f].by # "nobody"
  BY DEF _apply_model_output, Suggestions

\* What is built from the rules alone, or from the rules and an answer.
LEMMA BuiltKeeps ==
  ASSUME NEW p \in Nat, NEW t \in Texts, NEW fields \in Suggestions, NEW status, NEW error,
         \A f \in Fields : t.rule[f] # "none" => fields[f].by # "nobody",
         \/ status = "REVIEW_REQUIRED" /\ error = "none"
         \/ status = "FALLBACK" /\ error \in {"busy", "model"} /\ fields = deterministic_prefill(t),
         NEW r, r = Built(p, t, status, fields, error)
  PROVE  r \in Request /\ r.op = "built" /\ r.prefill = p /\ KeepsSuggestions(r)
  <1>1. /\ r.op = "built" /\ r.prefill = p /\ r.text = t /\ r.status = status
        /\ r.fields = fields /\ r.error = error
    BY DEF Built
  <1>2. r \in [op : {"built"}, prefill : Nat, text : Texts \cup {NoText}, status : Statuses,
               fields : Suggestions \cup {<<>>}, error : Errors]
    <2>1. status \in Statuses /\ error \in Errors /\ t \in Texts \cup {NoText}
          /\ fields \in Suggestions \cup {<<>>}
      BY DEF Statuses, Errors
    <2> QED
      BY <2>1 DEF Built
  <1>3. KeepsSuggestions(r)
    BY <1>1 DEF KeepsSuggestions
  <1> QED
    BY <1>1, <1>2, <1>3 DEF Request

\* What is recorded of a failed OCR.
LEMMA FailureBuilt ==
  ASSUME NEW p \in Nat, NEW t \in Texts \cup {NoText}, NEW error \in {"engine", "date"},
         NEW r, r = Built(p, t, "OCR_FAILED", <<>>, error)
  PROVE  r \in Request /\ r.op = "built" /\ r.prefill = p /\ KeepsSuggestions(r)
  <1>1. r.op = "built" /\ r.prefill = p /\ r.error = error
    BY DEF Built
  <1>2. r \in [op : {"built"}, prefill : Nat, text : Texts \cup {NoText}, status : Statuses,
               fields : Suggestions \cup {<<>>}, error : Errors]
    <2>1. "OCR_FAILED" \in Statuses /\ error \in Errors /\ <<>> \in Suggestions \cup {<<>>}
      BY DEF Statuses, Errors
    <2> QED
      BY <2>1 DEF Built
  <1> QED
    BY <1>1, <1>2 DEF Request, KeepsSuggestions

-----------------------------------------------------------------------------
(***************************************************************************)
(* A request is replaced and nothing is committed.                         *)
(***************************************************************************)

\* One request is replaced.
LEMMA ReqReplaced ==
  ASSUME TypeOK, NEW q \in Threads, NEW r \in Request, req' = [req EXCEPT ![q] = r]
  PROVE  /\ req' \in [Threads -> Request] /\ req'[q] = r
         /\ \A t \in Threads : t # q => req'[t] = req[t]
  BY DEF TypeOK

\* The screenshots' part depends on the attachments only.
LEMMA ShotQuiet ==
  ASSUME ShotInv, UNCHANGED <<objects, runs, evidence>>, ops'.overlap = ops.overlap,
         \A t \in Threads : req'[t].op = "attach" => req'[t] = req[t]
  PROVE  ShotInv'
  <1>1. Prefills' = Prefills /\ Rows' = Rows /\ \A p : RowsOf(p)' = RowsOf(p)
    BY DEF Prefills, Rows, RowsOf
  <1>2. \A t \in Threads : req'[t].op = "attach" => req[t].op = "attach" /\ req'[t] = req[t]
    OBVIOUS
  <1> QED
    BY <1>1, <1>2 DEF ShotInv

\* The queue's part depends on who waits and who asks.
LEMMA QueueQuiet ==
  ASSUME QueueInv, UNCHANGED slots,
         \A t \in Threads : /\ req'[t].op = "asking" <=> req[t].op = "asking"
                            /\ req'[t].op = "queued" <=> req[t].op = "queued"
  PROVE  QueueInv'
  BY DEF QueueInv, slots

\* The next step of a request that builds a prefill.
LEMMA BuildStep ==
  ASSUME IInv, NEW q \in Threads, Building(q), NEW r \in Request,
         r.op \in {"queued", "asking", "built"}, r.prefill = req[q].prefill,
         r.op = "built" => KeepsSuggestions(r),
         req' = [req EXCEPT ![q] = r], UNCHANGED <<objects, tables, ops>>, QueueInv'
  PROVE  IInv'
  <1>1. /\ req' \in [Threads -> Request] /\ req'[q] = r
        /\ \A t \in Threads : t # q => req'[t] = req[t]
    BY ReqReplaced DEF IInv
  <1>2. UNCHANGED <<runs, evidence, ocr_runs, incidents>> /\ Prefills' = Prefills
    BY DEF tables, Prefills
  <1>3. TypeOK'
    BY <1>1, <1>2 DEF IInv, TypeOK
  <1>4. BuildInv'
    <2>1. SuggestionsSurvive'
      BY <1>2 DEF IInv, BuildInv, SuggestionsSurvive
    <2>2. \A t \in Threads : Building(t)' => Building(t) /\ req'[t].prefill = req[t].prefill
      BY <1>1 DEF Building
    <2>3. \A t \in Threads : req'[t].op = "built" => KeepsSuggestions(req'[t])
      BY <1>1 DEF IInv, BuildInv
    <2> QED
      BY <1>2, <2>1, <2>2, <2>3 DEF IInv, BuildInv
  <1>5. ShotInv'
    <2>1. \A t \in Threads : req'[t].op = "attach" => req'[t] = req[t]
      BY <1>1
    <2> QED
      BY <1>2, <2>1, ShotQuiet DEF IInv
  <1> QED
    BY <1>3, <1>4, <1>5 DEF IInv

\* What a request that builds starts its step from.
LEMMA BuildFacts ==
  ASSUME IInv, NEW q \in Threads, req[q].op \in {"uploaded", "queued", "asking", "built"}
  PROVE  /\ Building(q) /\ req[q] \in Request /\ req[q].prefill \in Nat
         /\ req[q].op \in {"queued", "asking"} => req[q].text \in Texts
         /\ TypeOK /\ QueueInv
  BY Tables, RequestType DEF IInv, Building

\* OCR, or the parsing of the date in it, fails.
LEMMA FailsInv ==
  ASSUME IInv, NEW q \in Threads, OcrFails(q) \/ DateFails(q)
  PROVE  IInv'
  <1>1. req[q].op = "uploaded" /\ UNCHANGED <<objects, tables, slots, ops>>
    BY DEF OcrFails, DateFails
  <1>2. \E t \in Texts \cup {NoText}, error \in {"engine", "date"} :
          req' = [req EXCEPT ![q] = Built(req[q].prefill, t, "OCR_FAILED", <<>>, error)]
    BY DEF OcrFails, DateFails, Goto
  <1>3. PICK t \in Texts \cup {NoText}, error \in {"engine", "date"} :
          req' = [req EXCEPT ![q] = Built(req[q].prefill, t, "OCR_FAILED", <<>>, error)]
    BY <1>2
  <1>4. PICK r : r = Built(req[q].prefill, t, "OCR_FAILED", <<>>, error)
    OBVIOUS
  <1>5. r \in Request /\ r.op = "built" /\ r.prefill = req[q].prefill /\ KeepsSuggestions(r)
    BY <1>1, <1>4, BuildFacts, FailureBuilt
  <1>6. req' = [req EXCEPT ![q] = r]
    BY <1>3, <1>4
  <1>7. QueueInv'
    <2>1. \A k \in Threads : k # q => req'[k] = req[k]
      BY <1>1, <1>5, <1>6, BuildFacts, ReqReplaced
    <2>2. req'[q] = r
      BY <1>1, <1>5, <1>6, BuildFacts, ReqReplaced
    <2> QED
      BY <1>1, <1>5, <2>1, <2>2, BuildFacts, QueueQuiet
  <1> QED
    BY <1>1, <1>5, <1>6, <1>7, BuildFacts, BuildStep

\* A request that is not in the queue builds without it.
LEMMA BuiltOutsideInv ==
  ASSUME IInv, NEW q \in Threads, req[q].op = "uploaded", NEW r \in Request, r.op = "built",
         r.prefill = req[q].prefill, KeepsSuggestions(r), req' = [req EXCEPT ![q] = r],
         UNCHANGED <<objects, tables, slots, ops>>
  PROVE  IInv'
  <1>1. req'[q] = r /\ \A k \in Threads : k # q => req'[k] = req[k]
    BY BuildFacts, ReqReplaced
  <1>2. QueueInv'
    BY <1>1, BuildFacts, QueueQuiet
  <1> QED
    BY <1>2, BuildFacts, BuildStep

\* No local model is configured, or the rules resolved everything.
LEMMA RulesSufficeInv ==
  ASSUME IInv, NEW q \in Threads, RulesSuffice(q)
  PROVE  IInv'
  <1>1. req[q].op = "uploaded" /\ UNCHANGED <<objects, tables, slots, ops>>
    BY DEF RulesSuffice
  <1>2. PICK t \in Texts : req' = [req EXCEPT ![q] =
          Built(req[q].prefill, t, "REVIEW_REQUIRED", deterministic_prefill(t), "none")]
    BY DEF RulesSuffice, Goto
  <1>3. PICK r : r = Built(req[q].prefill, t, "REVIEW_REQUIRED", deterministic_prefill(t), "none")
    OBVIOUS
  <1>4. r \in Request /\ r.op = "built" /\ r.prefill = req[q].prefill /\ KeepsSuggestions(r)
    <2>1. PICK fields : fields = deterministic_prefill(t)
      OBVIOUS
    <2>2. fields \in Suggestions /\ \A f \in Fields : t.rule[f] # "none" => fields[f].by # "nobody"
      BY <2>1, RulesKeep
    <2> QED
      BY <1>1, <1>3, <2>1, <2>2, BuildFacts, BuiltKeeps
  <1>5. req' = [req EXCEPT ![q] = r]
    BY <1>2, <1>3
  <1> QED
    BY <1>1, <1>4, <1>5, BuiltOutsideInv

\* What a fallback stores.
LEMMA FallbackKeeps ==
  ASSUME NEW p \in Nat, NEW t \in Texts, NEW error \in {"busy", "model"},
         NEW r, r = Fallback(p, t, error)
  PROVE  r \in Request /\ r.op = "built" /\ r.prefill = p /\ KeepsSuggestions(r)
  <1>1. PICK fields : fields = deterministic_prefill(t)
    OBVIOUS
  <1>2. fields \in Suggestions /\ \A f \in Fields : t.rule[f] # "none" => fields[f].by # "nobody"
    BY <1>1, RulesKeep
  <1>3. r = Built(p, t, "FALLBACK", fields, error)
    BY <1>1 DEF Fallback
  <1> QED
    BY <1>1, <1>2, <1>3, BuiltKeeps

\* The queue is full.
LEMMA BusyInv ==
  ASSUME IInv, NEW q \in Threads, Busy(q)
  PROVE  IInv'
  <1>1. req[q].op = "uploaded" /\ UNCHANGED <<objects, tables, slots, ops>>
    BY DEF Busy
  <1>2. PICK t \in Texts : req' = [req EXCEPT ![q] = Fallback(req[q].prefill, t, "busy")]
    BY DEF Busy, Goto
  <1>3. PICK r : r = Fallback(req[q].prefill, t, "busy")
    OBVIOUS
  <1>4. r \in Request /\ r.op = "built" /\ r.prefill = req[q].prefill /\ KeepsSuggestions(r)
    BY <1>1, <1>3, BuildFacts, FallbackKeeps
  <1>5. req' = [req EXCEPT ![q] = r]
    BY <1>2, <1>3
  <1> QED
    BY <1>1, <1>4, <1>5, BuiltOutsideInv

\* There is a place in the queue.
LEMMA QueueStepInv ==
  ASSUME IInv, NEW q \in Threads, Queue(q)
  PROVE  IInv'
  <1>1. /\ req[q].op = "uploaded" /\ UNCHANGED <<objects, tables, asking, ops>>
        /\ Cardinality(waiting) < MaxQueue /\ waiting' = waiting \cup {q}
    BY DEF Queue
  <1>2. PICK t \in Texts :
          req' = [req EXCEPT ![q] = [op |-> "queued", prefill |-> req[q].prefill, text |-> t]]
    BY DEF Queue, Goto
  <1>3. PICK r : r = [op |-> "queued", prefill |-> req[q].prefill, text |-> t]
    OBVIOUS
  <1>4. r \in Request /\ r.op = "queued" /\ r.prefill = req[q].prefill
    BY <1>1, <1>3, BuildFacts DEF Request
  <1>5. req' = [req EXCEPT ![q] = r]
    BY <1>2, <1>3
  <1>6. req'[q] = r /\ \A k \in Threads : k # q => req'[k] = req[k]
    BY <1>1, <1>4, <1>5, BuildFacts, ReqReplaced
  <1>7. QueueInv'
    <2>1. QueueInv /\ MaxQueue \in Nat
      BY PrefillAssumption DEF IInv
    <2>2. IsFiniteSet(waiting') /\ Cardinality(waiting') <= MaxQueue
      <3>1. IsFiniteSet(waiting) /\ Cardinality(waiting) \in Nat
        BY <2>1, FS_CardinalityType DEF QueueInv
      <3>2. IsFiniteSet(waiting \cup {q})
            /\ Cardinality(waiting \cup {q}) \in {Cardinality(waiting), Cardinality(waiting) + 1}
        BY <3>1, FS_AddElement
      <3> QED
        BY <1>1, <2>1, <3>1, <3>2
    <2>3. waiting' = {k \in Threads : req'[k].op \in {"queued", "asking"}}
      BY <1>1, <1>4, <1>6, <2>1 DEF QueueInv
    <2>4. asking' = {k \in Threads : req'[k].op = "asking"} /\ \A k, l \in asking' : k = l
      BY <1>1, <1>4, <1>6, <2>1 DEF QueueInv
    <2> QED
      BY <2>2, <2>3, <2>4 DEF QueueInv
  <1> QED
    BY <1>1, <1>4, <1>5, <1>7, BuildFacts, BuildStep

\* One request at a time asks, and it may ask twice.
LEMMA AskInv ==
  ASSUME IInv, NEW q \in Threads, TakeSlot(q) \/ ModelRetries(q)
  PROVE  IInv'
  <1>1. /\ req[q].op \in {"queued", "asking"} /\ UNCHANGED <<objects, tables, ops>>
        /\ waiting' = waiting
    BY DEF TakeSlot, ModelRetries, slots
  <1>2. PICK n \in {1, 2} :
          req' = [req EXCEPT ![q] = [op |-> "asking", prefill |-> req[q].prefill,
                                     text |-> req[q].text, attempt |-> n]]
    BY DEF TakeSlot, ModelRetries, Goto
  <1>3. PICK r : r = [op |-> "asking", prefill |-> req[q].prefill,
                      text |-> req[q].text, attempt |-> n]
    OBVIOUS
  <1>4. r \in Request /\ r.op = "asking" /\ r.prefill = req[q].prefill
    BY <1>1, <1>3, BuildFacts DEF Request
  <1>5. req' = [req EXCEPT ![q] = r]
    BY <1>2, <1>3
  <1>6. req'[q] = r /\ \A k \in Threads : k # q => req'[k] = req[k]
    BY <1>1, <1>4, <1>5, BuildFacts, ReqReplaced
  <1>7. QueueInv'
    <2>1. QueueInv
      BY DEF IInv
    <2>2. waiting' = {k \in Threads : req'[k].op \in {"queued", "asking"}}
      BY <1>1, <1>4, <1>6, <2>1 DEF QueueInv
    <2>3. CASE TakeSlot(q)
      <3>1. asking = {} /\ asking' = {q}
        BY <2>3 DEF TakeSlot
      <3>2. asking' = {k \in Threads : req'[k].op = "asking"}
        BY <1>4, <1>6, <2>1, <3>1 DEF QueueInv
      <3> QED
        BY <1>1, <2>1, <2>2, <3>1, <3>2 DEF QueueInv
    <2>4. CASE ModelRetries(q)
      <3>1. asking' = asking /\ req[q].op = "asking"
        BY <2>4 DEF ModelRetries, slots
      <3>2. asking' = {k \in Threads : req'[k].op = "asking"}
        BY <1>4, <1>6, <2>1, <3>1 DEF QueueInv
      <3> QED
        BY <1>1, <2>1, <2>2, <3>1, <3>2 DEF QueueInv
    <2> QED
      BY <2>3, <2>4
  <1> QED
    BY <1>1, <1>4, <1>5, <1>7, BuildFacts, BuildStep

\* Leaving complete_json gives the place and the lock back.
LEMMA ReleaseInv ==
  ASSUME IInv, NEW q \in Threads, req[q].op = "asking", NEW r \in Request, r.op = "built",
         r.prefill = req[q].prefill, KeepsSuggestions(r), req' = [req EXCEPT ![q] = r], Release(q),
         UNCHANGED <<objects, tables, ops>>
  PROVE  IInv'
  <1>1. req'[q] = r /\ \A k \in Threads : k # q => req'[k] = req[k]
    BY BuildFacts, ReqReplaced
  <1>2. QueueInv /\ asking' = asking \ {q} /\ waiting' = waiting \ {q} /\ MaxQueue \in Nat
    BY PrefillAssumption DEF IInv, Release
  <1>3. IsFiniteSet(waiting') /\ Cardinality(waiting') <= MaxQueue
    <2>1. IsFiniteSet(waiting) /\ Cardinality(waiting) \in Nat /\ Cardinality(waiting) <= MaxQueue
      BY <1>2, FS_CardinalityType DEF QueueInv
    <2>2. /\ IsFiniteSet(waiting \ {q})
          /\ Cardinality(waiting \ {q}) \in {Cardinality(waiting), Cardinality(waiting) - 1}
      BY <2>1, FS_RemoveElement
    <2> QED
      BY <1>2, <2>1, <2>2
  <1>4. waiting' = {k \in Threads : req'[k].op \in {"queued", "asking"}}
    BY <1>1, <1>2 DEF QueueInv
  <1>5. asking' = {k \in Threads : req'[k].op = "asking"} /\ \A k, l \in asking' : k = l
    BY <1>1, <1>2 DEF QueueInv
  <1>6. QueueInv'
    BY <1>3, <1>4, <1>5 DEF QueueInv
  <1> QED
    BY <1>6, BuildFacts, BuildStep

\* The model answers, or fails for good.
LEMMA ModelInv ==
  ASSUME IInv, NEW q \in Threads, NEW answer, ModelAnswers(q, answer) \/ ModelFails(q)
  PROVE  IInv'
  <1>1. req[q].op = "asking" /\ Release(q) /\ UNCHANGED <<objects, tables, ops>>
    BY DEF ModelAnswers, ModelFails
  <1>2. PICK p, t : p = req[q].prefill /\ t = req[q].text
    OBVIOUS
  <1>3. p \in Nat /\ t \in Texts
    BY <1>1, <1>2, BuildFacts
  <1>4. CASE ModelAnswers(q, answer)
    <2>1. PICK rules, fields : /\ rules = deterministic_prefill(t)
                               /\ fields = _apply_model_output(rules, answer)
      OBVIOUS
    <2>2. /\ fields \in Suggestions
          /\ \A f \in Fields : t.rule[f] # "none" => fields[f].by # "nobody"
      BY <1>3, <2>1, RulesKeep, AnswerKeeps
    <2>3. PICK r : r = Built(p, t, "REVIEW_REQUIRED", fields, "none")
      OBVIOUS
    <2>4. r \in Request /\ r.op = "built" /\ r.prefill = p /\ KeepsSuggestions(r)
      BY <1>3, <2>2, <2>3, BuiltKeeps
    <2>5. req' = [req EXCEPT ![q] = r]
      BY <1>2, <1>4, <2>1, <2>3 DEF ModelAnswers, Goto
    <2> QED
      BY <1>1, <1>2, <2>4, <2>5, ReleaseInv
  <1>5. CASE ModelFails(q)
    <2>1. PICK r : r = Fallback(p, t, "model")
      OBVIOUS
    <2>2. r \in Request /\ r.op = "built" /\ r.prefill = p /\ KeepsSuggestions(r)
      BY <1>3, <2>1, FallbackKeeps
    <2>3. req' = [req EXCEPT ![q] = r]
      BY <1>2, <1>5, <2>1 DEF ModelFails, Goto
    <2> QED
      BY <1>1, <1>2, <2>2, <2>3, ReleaseInv
  <1> QED
    BY <1>4, <1>5

-----------------------------------------------------------------------------
(***************************************************************************)
(* Requests begin, end and commit.                                         *)
(***************************************************************************)

\* A bound that is spent leaves the overlaps alone.
LEMMA SpendType ==
  ASSUME TypeOK
  PROVE  /\ Spend(ops) \in [requests : Nat, restarts : Nat, overlap : SUBSET Nat]
         /\ Spend(ops).overlap = ops.overlap
  <1>1. PICK o \in [requests : Nat, restarts : Nat, overlap : SUBSET Nat] : o = ops
    BY DEF TypeOK
  <1>2. PICK n \in Nat : n = o.requests + 1
    OBVIOUS
  <1>3. Spend(ops) = [o EXCEPT !.requests = n]
    BY <1>1, <1>2 DEF Spend
  <1> QED
    BY <1>1, <1>3

\* A request ends.
LEMMA Ended ==
  ASSUME TypeOK, NEW q \in Threads, End(q)
  PROVE  /\ req' \in [Threads -> Request] /\ req'[q].op = "idle"
         /\ \A t \in Threads : t # q => req'[t] = req[t]
  <1>1. Idle \in Request /\ Idle.op = "idle"
    BY DEF Request, Idle
  <1> QED
    BY <1>1, ReqReplaced DEF End, Goto

\* The suggestions of a run do not depend on its incident.
LEMMA SameSuggestions ==
  ASSUME NEW r, NEW s, KeepsSuggestions(r), s.error = r.error, s.status = r.status,
         s.text = r.text, s.fields = r.fields
  PROVE  KeepsSuggestions(s)
  BY DEF KeepsSuggestions

\* A screenshot is stored under a new number.
LEMMA CreatePrefillInv ==
  ASSUME IInv, NEW q \in Threads, CreatePrefill(q)
  PROVE  IInv'
  <1>1. PICK p, r : p = Len(runs) + 1 /\ r = [op |-> "uploaded", prefill |-> p]
    OBVIOUS
  <1>2. /\ req[q] = Idle /\ req' = [req EXCEPT ![q] = r] /\ objects' = objects \cup {p}
        /\ runs' = Append(runs, NoRun) /\ ops' = Spend(ops)
        /\ UNCHANGED <<evidence, ocr_runs, incidents, slots>>
    BY <1>1 DEF CreatePrefill, Begin
  <1>3. TypeOK /\ BuildInv /\ QueueInv /\ ShotInv
    BY DEF IInv
  <1>4. /\ Len(runs) \in Nat /\ Prefills = 1 .. Len(runs)
        /\ runs \in Seq(Run \cup {NoRun})
    BY <1>3, Tables DEF TypeOK
  <1>5. p \in Nat /\ r \in Request /\ r.op = "uploaded" /\ r.prefill = p /\ p \notin Prefills
    BY <1>1, <1>4 DEF Request
  <1>6. /\ runs' \in Seq(Run \cup {NoRun}) /\ Prefills' = Prefills \cup {p}
        /\ \A x \in Prefills : runs'[x] = runs[x]
        /\ runs'[p] = NoRun
    <2>1. NoRun \in Run \cup {NoRun}
      OBVIOUS
    <2>2. /\ runs' \in Seq(Run \cup {NoRun}) /\ Len(runs') = Len(runs) + 1
          /\ \A x \in 1 .. Len(runs) : runs'[x] = runs[x]
          /\ runs'[Len(runs) + 1] = NoRun
      BY <1>2, <1>4, <2>1, AppendProperties
    <2>3. DOMAIN runs' = 1 .. (Len(runs) + 1)
      BY <2>2
    <2>4. 1 .. (Len(runs) + 1) = (1 .. Len(runs)) \cup {Len(runs) + 1}
      BY <1>4
    <2> QED
      BY <1>1, <1>4, <2>2, <2>3, <2>4 DEF Prefills
  <1>7. /\ req' \in [Threads -> Request] /\ req'[q] = r
        /\ \A t \in Threads : t # q => req'[t] = req[t]
    BY <1>2, <1>3, <1>5, ReqReplaced
  <1>8. TypeOK'
    BY <1>2, <1>3, <1>6, <1>7, SpendType DEF TypeOK
  <1>9. BuildInv'
    <2>1. SuggestionsSurvive'
      BY <1>3, <1>6 DEF BuildInv, SuggestionsSurvive
    <2>2. ASSUME NEW t \in Threads, t # q, Building(t)'
          PROVE  Building(t) /\ req'[t] = req[t] /\ req[t].prefill \in Prefills
                 /\ runs[req[t].prefill] = NoRun
      BY <1>3, <1>7, <2>2 DEF Building, BuildInv
    <2>3. \A t \in Threads : Building(t)' => req'[t].prefill \in Prefills'
                                             /\ runs'[req'[t].prefill] = NoRun
      BY <1>5, <1>6, <1>7, <2>2
    <2>4. \A t, u \in Threads : Building(t)' /\ Building(u)' /\ req'[u].prefill = req'[t].prefill
             => u = t
      BY <1>3, <1>5, <1>7, <2>2 DEF BuildInv
    <2>5. \A t \in Threads : req'[t].op = "built" => KeepsSuggestions(req'[t])
      BY <1>3, <1>5, <1>7 DEF BuildInv
    <2> QED
      BY <2>1, <2>3, <2>4, <2>5 DEF BuildInv
  <1>10. QueueInv'
    <2>1. req[q].op = "idle"
      BY <1>2 DEF Idle
    <2> QED
      BY <1>2, <1>3, <1>5, <1>7, <2>1, QueueQuiet
  <1>11. ShotInv'
    <2>1. Rows' = Rows /\ \A x : RowsOf(x)' = RowsOf(x)
      BY <1>2 DEF Rows, RowsOf
    <2>2. RowsOf(p) = {}
      BY <1>3, <1>5 DEF ShotInv, RowsOf
    <2>3. ops'.overlap = ops.overlap
      BY <1>2, <1>3, SpendType
    <2>4. \A e \in Rows' :
            evidence'[e].prefill \in Prefills' /\ runs'[evidence'[e].prefill] # NoRun
      BY <1>2, <1>3, <1>6, <2>1 DEF ShotInv
    <2>5. \A x \in Prefills' \ objects' : \E e \in RowsOf(x)' : evidence'[e].state = "PURGED"
      BY <1>2, <1>3, <1>6, <2>1 DEF ShotInv
    <2>6. ASSUME NEW x \in Prefills' \ ops'.overlap
          PROVE  /\ \A e \in RowsOf(x)' : evidence'[e].incident \in {NoIncident, runs'[x].incident}
                 /\ \A d, e \in RowsOf(x)' : d # e =>
                      NoIncident \in {evidence'[d].incident, evidence'[e].incident}
      BY <1>2, <1>3, <1>6, <2>1, <2>2, <2>3 DEF ShotInv
    <2>7. \A t \in Threads : req'[t].op = "attach" => req[t].op = "attach" /\ req'[t] = req[t]
      BY <1>5, <1>7
    <2>8. ASSUME NEW t \in Threads, req'[t].op = "attach"
          PROVE  /\ req'[t].prefill \in Prefills' /\ runs'[req'[t].prefill] # NoRun
                 /\ req'[t].prefill \notin ops'.overlap =>
                      /\ \A e \in RowsOf(req[t].prefill)' : evidence'[e].incident = NoIncident
                      /\ \A u \in Threads :
                           req'[u].op = "attach" /\ req'[u].prefill = req'[t].prefill => u = t
      <3>1. PICK y : y = req[t].prefill
        OBVIOUS
      <3>2. req[t].op = "attach" /\ req'[t].prefill = y
        BY <2>7, <2>8, <3>1
      <3>3. /\ y \in Prefills /\ runs[y] # NoRun
            /\ y \notin ops.overlap =>
                 /\ \A e \in RowsOf(y) : evidence[e].incident = NoIncident
                 /\ \A u \in Threads : req[u].op = "attach" /\ req[u].prefill = y => u = t
        BY <1>3, <3>1, <3>2 DEF ShotInv
      <3>4. RowsOf(req[t].prefill)' = RowsOf(y)
        BY <1>2, <3>2 DEF RowsOf, Rows
      <3>5. y \in Prefills' /\ runs'[y] # NoRun
        BY <1>6, <3>3
      <3>6. y \notin ops'.overlap =>
              \A e \in RowsOf(req[t].prefill)' : evidence'[e].incident = NoIncident
        BY <1>2, <2>3, <3>3, <3>4
      <3>7. y \notin ops'.overlap =>
              \A u \in Threads : req'[u].op = "attach" /\ req'[u].prefill = y => u = t
        BY <2>3, <2>7, <3>3
      <3> QED
        BY <3>2, <3>5, <3>6, <3>7
    <2> QED
      BY <2>4, <2>5, <2>6, <2>8, Zenon DEF ShotInv
  <1> QED
    BY <1>8, <1>9, <1>10, <1>11 DEF IInv

\* The row appears with what was built.
LEMMA CommitPrefillInv ==
  ASSUME IInv, NEW q \in Threads, CommitPrefill(q)
  PROVE  IInv'
  <1>1. PICK p, x : /\ p = req[q].prefill
                    /\ x = [status |-> req[q].status, text |-> req[q].text,
                            fields |-> req[q].fields, error |-> req[q].error,
                            incident |-> NoIncident]
    OBVIOUS
  <1>2. /\ req[q].op = "built" /\ runs' = [runs EXCEPT ![p] = x] /\ End(q)
        /\ UNCHANGED <<objects, evidence, ocr_runs, incidents, slots, ops>>
    BY <1>1 DEF CommitPrefill
  <1>3. TypeOK /\ BuildInv /\ QueueInv /\ ShotInv
    BY DEF IInv
  <1>4. Building(q) /\ req[q] \in Request
    BY <1>2, BuildFacts
  <1>5. p \in Prefills /\ runs[p] = NoRun /\ KeepsSuggestions(req[q])
    BY <1>1, <1>2, <1>3, <1>4 DEF BuildInv
  <1>6. x \in Run /\ x # NoRun
    <2>1. /\ req[q].text \in Texts \cup {NoText} /\ req[q].status \in Statuses
          /\ req[q].fields \in Suggestions \cup {<<>>} /\ req[q].error \in Errors
      BY <1>2, <1>4, RequestType
    <2>2. x \in Run
      BY <1>1, <2>1 DEF Run
    <2> QED
      BY <2>2, RunIsOne
  <1>7. KeepsSuggestions(x)
    <2>1. x.error = req[q].error /\ x.status = req[q].status /\ x.text = req[q].text
          /\ x.fields = req[q].fields
      BY <1>1
    <2> QED
      BY <1>5, <2>1, SameSuggestions
  <1>8. /\ runs' \in Seq(Run \cup {NoRun}) /\ Prefills' = Prefills /\ runs'[p] = x
        /\ \A y \in Prefills : y # p => runs'[y] = runs[y]
    <2>1. runs \in Seq(Run \cup {NoRun}) /\ Prefills = 1 .. Len(runs) /\ DOMAIN runs = Prefills
      BY <1>3, Tables DEF TypeOK
    <2>2. x \in Run \cup {NoRun}
      BY <1>6
    <2>3. runs' \in Seq(Run \cup {NoRun})
      BY <1>2, <1>5, <2>1, <2>2, ExceptSeq
    <2> QED
      BY <1>2, <1>5, <2>1, <2>3 DEF Prefills
  <1>9. /\ req' \in [Threads -> Request] /\ req'[q].op = "idle"
        /\ \A t \in Threads : t # q => req'[t] = req[t]
    BY <1>2, <1>3, Ended
  <1>10. TypeOK'
    BY <1>2, <1>3, <1>8, <1>9 DEF TypeOK
  <1>11. BuildInv'
    <2>1. SuggestionsSurvive'
      BY <1>3, <1>7, <1>8 DEF BuildInv, SuggestionsSurvive
    <2>2. ASSUME NEW t \in Threads, Building(t)'
          PROVE  t # q /\ Building(t) /\ req'[t] = req[t]
      BY <1>9, <2>2 DEF Building
    <2>3. ASSUME NEW t \in Threads, Building(t)'
          PROVE  req[t].prefill \in Prefills /\ req[t].prefill # p /\ runs[req[t].prefill] = NoRun
      BY <1>1, <1>3, <1>4, <2>2, <2>3 DEF BuildInv
    <2>4. \A t \in Threads : Building(t)' => req'[t].prefill \in Prefills'
                                             /\ runs'[req'[t].prefill] = NoRun
      BY <1>8, <2>2, <2>3
    <2>5. \A t, u \in Threads : Building(t)' /\ Building(u)' /\ req'[u].prefill = req'[t].prefill
             => u = t
      BY <1>3, <2>2 DEF BuildInv
    <2>6. \A t \in Threads : req'[t].op = "built" => KeepsSuggestions(req'[t])
      BY <1>3, <1>9 DEF BuildInv
    <2> QED
      BY <2>1, <2>4, <2>5, <2>6 DEF BuildInv
  <1>12. QueueInv'
    BY <1>2, <1>3, <1>9, QueueQuiet
  <1>13. ShotInv'
    <2>1. Rows' = Rows /\ \A y : RowsOf(y)' = RowsOf(y)
      BY <1>2 DEF Rows, RowsOf
    <2>2. RowsOf(p) = {} /\ \A e \in Rows : evidence[e].prefill # p
      BY <1>3, <1>5 DEF ShotInv, RowsOf
    <2>3. \A e \in Rows : evidence[e].prefill \in Prefills /\ runs'[evidence[e].prefill] # NoRun
      BY <1>3, <1>8, <2>2 DEF ShotInv
    <2>4. ASSUME NEW y \in Prefills \ ops.overlap
          PROVE  /\ \A e \in RowsOf(y) : evidence[e].incident \in {NoIncident, runs'[y].incident}
                 /\ \A d, e \in RowsOf(y) : d # e =>
                      NoIncident \in {evidence[d].incident, evidence[e].incident}
      BY <1>3, <1>8, <2>2 DEF ShotInv
    <2>5. \A t \in Threads : req'[t].op = "attach" =>
             req[t].op = "attach" /\ req'[t] = req[t] /\ req[t].prefill # p
      BY <1>3, <1>5, <1>9 DEF ShotInv
    <2>6. ASSUME NEW t \in Threads, req'[t].op = "attach"
          PROVE  /\ req'[t].prefill \in Prefills /\ runs'[req'[t].prefill] # NoRun
                 /\ req'[t].prefill \notin ops.overlap =>
                      /\ \A e \in RowsOf(req'[t].prefill) : evidence[e].incident = NoIncident
                      /\ \A u \in Threads :
                           req'[u].op = "attach" /\ req'[u].prefill = req'[t].prefill => u = t
      BY <1>3, <1>8, <2>5, <2>6 DEF ShotInv
    <2>7. \A y \in Prefills \ objects : \E e \in RowsOf(y) : evidence[e].state = "PURGED"
      BY <1>3 DEF ShotInv
    <2> QED
      BY <1>2, <1>8, <2>1, <2>3, <2>4, <2>6, <2>7 DEF ShotInv
  <1> QED
    BY <1>10, <1>11, <1>12, <1>13 DEF IInv

\* The API restarts.
LEMMA RestartInv ==
  ASSUME IInv, Restart
  PROVE  IInv'
  <1>1. /\ req' = [q \in Threads |-> Idle] /\ waiting' = {} /\ asking' = {}
        /\ ops' = [ops EXCEPT !.restarts = @ + 1]
        /\ UNCHANGED <<objects, runs, evidence, ocr_runs, incidents>>
    BY DEF Restart, tables
  <1>2. Idle \in Request /\ \A q \in Threads : req'[q] = Idle /\ req'[q].op = "idle"
    BY <1>1 DEF Request, Idle
  <1>3. TypeOK' /\ ops'.overlap = ops.overlap
    <2>1. ops \in [requests : Nat, restarts : Nat, overlap : SUBSET Nat]
      BY DEF IInv, TypeOK
    <2>2. /\ ops' \in [requests : Nat, restarts : Nat, overlap : SUBSET Nat]
          /\ ops'.overlap = ops.overlap
      BY <1>1, <2>1
    <2>3. req' \in [Threads -> Request]
      BY <1>1, <1>2
    <2> QED
      BY <1>1, <2>2, <2>3 DEF IInv, TypeOK
  <1>4. BuildInv'
    <2>1. SuggestionsSurvive'
      BY <1>1 DEF IInv, BuildInv, SuggestionsSurvive, Prefills
    <2> QED
      BY <1>2, <2>1 DEF BuildInv, Building
  <1>5. QueueInv'
    <2>1. IsFiniteSet({}) /\ Cardinality({}) = 0 /\ MaxQueue \in Nat
      BY FS_EmptySet, PrefillAssumption
    <2> QED
      BY <1>1, <1>2, <2>1 DEF QueueInv
  <1>6. ShotInv'
    BY <1>1, <1>2, <1>3, ShotQuiet DEF IInv
  <1> QED
    BY <1>3, <1>4, <1>5, <1>6 DEF IInv

-----------------------------------------------------------------------------
(***************************************************************************)
(* Attachments.                                                            *)
(***************************************************************************)

\* An attachment is opened: either another one is open, and the overlap is
\* recorded, or no row of the screenshot belongs to an incident.
LEMMA AttachInv ==
  ASSUME IInv, NEW q \in Threads, NEW p \in Prefills, NEW i \in Incidents, Attach(q, p, i)
  PROVE  IInv'
  <1>1. PICK r : r = [op |-> "attach", prefill |-> p, incident |-> i]
    OBVIOUS
  <1>2. /\ req[q] = Idle /\ req' = [req EXCEPT ![q] = r]
        /\ runs[p] # NoRun /\ runs[p].incident \in {NoIncident, i}
        /\ \A e \in RowsOf(p) : evidence[e].incident # i
        /\ UNCHANGED <<objects, runs, evidence, ocr_runs, incidents, slots>>
    BY <1>1 DEF Attach, Begin, Attachable, tables
  <1>3. TypeOK /\ BuildInv /\ QueueInv /\ ShotInv
    BY DEF IInv
  <1>4. p \in Nat /\ r \in Request /\ r.op = "attach" /\ r.prefill = p
    BY <1>1, <1>3, Tables DEF Request
  <1>5. /\ req' \in [Threads -> Request] /\ req'[q] = r
        /\ \A t \in Threads : t # q => req'[t] = req[t]
    BY <1>2, <1>3, <1>4, ReqReplaced
  <1>6. PICK over : over = IF \E t \in Threads : req[t].op = "attach" /\ req[t].prefill = p
                           THEN ops.overlap \cup {p} ELSE ops.overlap
    OBVIOUS
  <1>7. /\ ops' \in [requests : Nat, restarts : Nat, overlap : SUBSET Nat]
        /\ ops'.overlap = over
    <2>1. PICK o : o = Spend(ops)
      OBVIOUS
    <2>2. /\ o \in [requests : Nat, restarts : Nat, overlap : SUBSET Nat]
          /\ o.overlap = ops.overlap
      BY <1>3, <2>1, SpendType
    <2>3. ops' = [o EXCEPT !.overlap =
             IF \E t \in Threads : req[t].op = "attach" /\ req[t].prefill = p
             THEN @ \cup {p} ELSE @]
      BY <2>1 DEF Attach
    <2>4. ops' = [o EXCEPT !.overlap = over]
      BY <1>6, <2>2, <2>3
    <2>5. over \in SUBSET Nat
      BY <1>4, <1>6, <2>2
    <2> QED
      BY <2>2, <2>4, <2>5
  <1>8. /\ ops.overlap \subseteq over
        /\ p \notin over => \A t \in Threads : ~(req[t].op = "attach" /\ req[t].prefill = p)
    BY <1>6
  <1>9. TypeOK'
    BY <1>2, <1>3, <1>5, <1>7 DEF TypeOK
  <1>10. BuildInv'
    <2>1. SuggestionsSurvive'
      BY <1>2, <1>3 DEF BuildInv, SuggestionsSurvive, Prefills
    <2>2. \A t \in Threads : Building(t)' => Building(t) /\ req'[t] = req[t]
      BY <1>4, <1>5 DEF Building
    <2>3. \A t \in Threads : req'[t].op = "built" => KeepsSuggestions(req'[t])
      BY <1>3, <1>4, <1>5 DEF BuildInv
    <2>4. Prefills' = Prefills
      BY <1>2 DEF Prefills
    <2> QED
      BY <1>2, <1>3, <2>1, <2>2, <2>3, <2>4 DEF BuildInv
  <1>11. QueueInv'
    <2>1. req[q].op = "idle"
      BY <1>2 DEF Idle
    <2> QED
      BY <1>2, <1>3, <1>4, <1>5, <2>1, QueueQuiet
  <1>12. ShotInv'
    <2>1. Prefills' = Prefills /\ Rows' = Rows /\ \A x : RowsOf(x)' = RowsOf(x)
      BY <1>2 DEF Prefills, Rows, RowsOf
    <2>2. \A x \in Prefills \ over :
            /\ \A e \in RowsOf(x) : evidence[e].incident \in {NoIncident, runs[x].incident}
            /\ \A d, e \in RowsOf(x) : d # e =>
                 NoIncident \in {evidence[d].incident, evidence[e].incident}
      BY <1>3, <1>8 DEF ShotInv
    <2>3. p \notin over => \A e \in RowsOf(p) : evidence[e].incident = NoIncident
      BY <1>2, <2>2
    <2>4. \A t \in Threads : t # q /\ req'[t].op = "attach" =>
             req[t].op = "attach" /\ req'[t] = req[t]
      BY <1>5
    <2>5. ASSUME NEW t \in Threads, t # q, req'[t].op = "attach"
          PROVE  /\ req[t].prefill \in Prefills /\ runs[req[t].prefill] # NoRun
                 /\ req[t].prefill \notin over =>
                      /\ req[t].prefill # p
                      /\ \A e \in RowsOf(req[t].prefill) : evidence[e].incident = NoIncident
                      /\ \A u \in Threads :
                           req[u].op = "attach" /\ req[u].prefill = req[t].prefill => u = t
      BY <1>3, <1>8, <2>4, <2>5 DEF ShotInv
    <2>6. ASSUME NEW t \in Threads, req'[t].op = "attach"
          PROVE  /\ req'[t].prefill \in Prefills /\ runs[req'[t].prefill] # NoRun
                 /\ req'[t].prefill \notin over =>
                      \A e \in RowsOf(req'[t].prefill) : evidence[e].incident = NoIncident
      BY <1>2, <1>4, <1>5, <2>3, <2>4, <2>5, <2>6
    <2>7. ASSUME NEW t \in Threads, req'[t].op = "attach", req'[t].prefill \notin over,
                 NEW u \in Threads, req'[u].op = "attach", req'[u].prefill = req'[t].prefill
          PROVE  u = t
      <3>1. CASE t = q
        <4>1. req'[t].prefill = p
          BY <1>4, <1>5, <3>1
        <4> QED
          BY <1>5, <1>8, <2>7, <3>1, <4>1
      <3>2. CASE t # q
        <4>1. req'[t] = req[t] /\ req[t].prefill # p
          BY <2>4, <2>5, <2>7, <3>2
        <4>2. u # q
          BY <1>4, <1>5, <2>7, <4>1
        <4>3. req'[u] = req[u]
          BY <1>5, <4>2
        <4> QED
          BY <2>5, <2>7, <3>2, <4>1, <4>3
      <3> QED
        BY <3>1, <3>2
    <2>8. /\ \A e \in Rows : evidence[e].prefill \in Prefills /\ runs[evidence[e].prefill] # NoRun
          /\ \A x \in Prefills \ objects : \E e \in RowsOf(x) : evidence[e].state = "PURGED"
      BY <1>3 DEF ShotInv
    <2> QED
      BY <1>2, <1>7, <2>1, <2>2, <2>6, <2>7, <2>8 DEF ShotInv
  <1> QED
    BY <1>9, <1>10, <1>11, <1>12 DEF IInv

\* The row is inserted and the prefill takes the incident.
LEMMA CommitAttachInv ==
  ASSUME IInv, NEW q \in Threads, CommitAttach(q)
  PROVE  IInv'
  <1>1. PICK p, i, n, row, x :
          /\ p = req[q].prefill /\ i = req[q].incident /\ n = Len(evidence) + 1
          /\ row = [state |-> "ACTIVE", prefill |-> p, incident |-> i]
          /\ x = [runs[p] EXCEPT !.incident = i]
    OBVIOUS
  <1>2. /\ req[q].op = "attach" /\ evidence' = Append(evidence, row)
        /\ runs' = [runs EXCEPT ![p] = x] /\ End(q)
        /\ UNCHANGED <<objects, ocr_runs, incidents, slots, ops>>
    BY <1>1 DEF CommitAttach
  <1>3. TypeOK /\ BuildInv /\ QueueInv /\ ShotInv
    BY DEF IInv
  <1>4. /\ Len(evidence) \in Nat /\ Rows = 1 .. Len(evidence) /\ req[q] \in Request
        /\ Prefills = 1 .. Len(runs) /\ DOMAIN runs = Prefills
        /\ runs \in Seq(Run \cup {NoRun}) /\ evidence \in Seq(Row)
    BY <1>3, Tables DEF TypeOK
  <1>5. p \in Prefills /\ runs[p] # NoRun /\ runs[p] \in Run /\ i \in Incidents /\ p \in Nat
    <2>1. p \in Prefills /\ runs[p] # NoRun
      BY <1>1, <1>2, <1>3 DEF ShotInv
    <2> QED
      BY <1>1, <1>2, <1>3, <1>4, <2>1, Tables, RequestType
  <1>6. /\ x \in Run /\ x # NoRun /\ x.incident = i
        /\ x.error = runs[p].error /\ x.status = runs[p].status
        /\ x.text = runs[p].text /\ x.fields = runs[p].fields
    <2>1. PICK y \in Run : y = runs[p]
      BY <1>5
    <2>2. x = [y EXCEPT !.incident = i]
      BY <1>1, <2>1
    <2>3. /\ x \in Run /\ x.incident = i
          /\ x.error = y.error /\ x.status = y.status
          /\ x.text = y.text /\ x.fields = y.fields
      BY <1>5, <2>2 DEF Run
    <2> QED
      BY <2>1, <2>3, RunIsOne
  <1>7. /\ runs' \in Seq(Run \cup {NoRun}) /\ Prefills' = Prefills /\ runs'[p] = x
        /\ \A y \in Prefills : y # p => runs'[y] = runs[y]
    <2>1. x \in Run \cup {NoRun}
      BY <1>6
    <2>2. runs' \in Seq(Run \cup {NoRun})
      BY <1>2, <1>4, <1>5, <2>1, ExceptSeq
    <2> QED
      BY <1>2, <1>4, <1>5, <2>2 DEF Prefills
  <1>8. /\ evidence' \in Seq(Row) /\ Rows' = Rows \cup {n} /\ n \notin Rows /\ evidence'[n] = row
        /\ \A e \in Rows : evidence'[e] = evidence[e]
    <2>1. row \in Row
      BY <1>1, <1>5 DEF Row
    <2>2. /\ evidence' \in Seq(Row) /\ Len(evidence') = Len(evidence) + 1
          /\ \A e \in 1 .. Len(evidence) : evidence'[e] = evidence[e]
          /\ evidence'[Len(evidence) + 1] = row
      BY <1>2, <1>4, <2>1, AppendProperties
    <2>3. DOMAIN evidence' = 1 .. (Len(evidence) + 1)
      BY <2>2
    <2>4. 1 .. (Len(evidence) + 1) = (1 .. Len(evidence)) \cup {Len(evidence) + 1}
      BY <1>4
    <2> QED
      BY <1>1, <1>4, <2>2, <2>3, <2>4 DEF Rows
  <1>9. row.prefill = p /\ row.incident = i
    BY <1>1
  <1>10. RowsOf(p)' = RowsOf(p) \cup {n} /\ \A y : y # p => RowsOf(y)' = RowsOf(y)
    BY <1>8, <1>9 DEF RowsOf
  <1>11. /\ req' \in [Threads -> Request] /\ req'[q].op = "idle"
         /\ \A t \in Threads : t # q => req'[t] = req[t]
    BY <1>2, <1>3, Ended
  <1>12. TypeOK'
    BY <1>2, <1>3, <1>7, <1>8, <1>11 DEF TypeOK
  <1>13. BuildInv'
    <2>1. SuggestionsSurvive'
      <3>1. KeepsSuggestions(runs[p])
        BY <1>3, <1>5 DEF BuildInv, SuggestionsSurvive
      <3>2. KeepsSuggestions(x)
        BY <1>6, <3>1, SameSuggestions
      <3> QED
        BY <1>3, <1>7, <3>2 DEF BuildInv, SuggestionsSurvive
    <2>2. ASSUME NEW t \in Threads, Building(t)'
          PROVE  Building(t) /\ req'[t] = req[t]
      BY <1>11, <2>2 DEF Building
    <2>3. ASSUME NEW t \in Threads, Building(t)'
          PROVE  req[t].prefill \in Prefills /\ req[t].prefill # p /\ runs[req[t].prefill] = NoRun
      BY <1>3, <1>5, <2>2, <2>3 DEF BuildInv
    <2>4. \A t \in Threads : Building(t)' => req'[t].prefill \in Prefills'
                                             /\ runs'[req'[t].prefill] = NoRun
      BY <1>7, <2>2, <2>3
    <2>5. \A t, u \in Threads : Building(t)' /\ Building(u)' /\ req'[u].prefill = req'[t].prefill
             => u = t
      BY <1>3, <2>2 DEF BuildInv
    <2>6. \A t \in Threads : req'[t].op = "built" => KeepsSuggestions(req'[t])
      BY <1>3, <1>11 DEF BuildInv
    <2> QED
      BY <2>1, <2>4, <2>5, <2>6 DEF BuildInv
  <1>14. QueueInv'
    BY <1>2, <1>3, <1>11, QueueQuiet
  <1>15. ShotInv'
    <2>1. \A e \in Rows' :
            evidence'[e].prefill \in Prefills' /\ runs'[evidence'[e].prefill] # NoRun
      <3>1. ASSUME NEW e \in Rows
            PROVE  evidence'[e].prefill \in Prefills' /\ runs'[evidence'[e].prefill] # NoRun
        <4>1. PICK y : y = evidence[e].prefill
          OBVIOUS
        <4>2. y \in Prefills /\ runs[y] # NoRun /\ evidence'[e].prefill = y
          BY <1>3, <1>8, <4>1 DEF ShotInv
        <4> QED
          BY <1>6, <1>7, <4>2
      <3>2. evidence'[n].prefill \in Prefills' /\ runs'[evidence'[n].prefill] # NoRun
        BY <1>5, <1>6, <1>7, <1>8, <1>9
      <3> QED
        BY <1>8, <3>1, <3>2
    <2>2. ASSUME NEW y \in Prefills' \ objects'
          PROVE  \E e \in RowsOf(y)' : evidence'[e].state = "PURGED"
      <3>1. PICK e \in RowsOf(y) : evidence[e].state = "PURGED"
        BY <1>2, <1>3, <1>7 DEF ShotInv
      <3> QED
        BY <1>8, <1>10, <3>1 DEF RowsOf
    <2>3. ASSUME NEW y \in Prefills' \ ops'.overlap
          PROVE  /\ \A e \in RowsOf(y)' : evidence'[e].incident \in {NoIncident, runs'[y].incident}
                 /\ \A d, e \in RowsOf(y)' : d # e =>
                      NoIncident \in {evidence'[d].incident, evidence'[e].incident}
      <3>1. \A e \in RowsOf(y) : e \in Rows /\ evidence'[e] = evidence[e]
        BY <1>8 DEF RowsOf
      <3>2. CASE y = p
        <4>1. \A e \in RowsOf(p) : evidence[e].incident = NoIncident
          BY <1>1, <1>2, <1>3, <2>3, <3>2 DEF ShotInv
        <4> QED
          BY <1>6, <1>7, <1>8, <1>9, <1>10, <3>1, <3>2, <4>1
      <3>3. CASE y # p
        <4>1. y \in Prefills \ ops.overlap /\ runs'[y] = runs[y] /\ RowsOf(y)' = RowsOf(y)
          BY <1>2, <1>7, <1>10, <2>3, <3>3
        <4>2. /\ \A e \in RowsOf(y) : evidence[e].incident \in {NoIncident, runs[y].incident}
              /\ \A d, e \in RowsOf(y) : d # e =>
                   NoIncident \in {evidence[d].incident, evidence[e].incident}
          BY <1>3, <4>1 DEF ShotInv
        <4> QED
          BY <3>1, <4>1, <4>2
      <3> QED
        BY <3>2, <3>3
    <2>4. \A t \in Threads : req'[t].op = "attach" =>
             t # q /\ req[t].op = "attach" /\ req'[t] = req[t]
      BY <1>11
    <2>5. ASSUME NEW t \in Threads, req'[t].op = "attach"
          PROVE  req'[t].prefill \in Prefills' /\ runs'[req'[t].prefill] # NoRun
      BY <1>3, <1>6, <1>7, <2>4, <2>5 DEF ShotInv
    <2>6. ASSUME NEW t \in Threads, req'[t].op = "attach", req'[t].prefill \notin ops'.overlap
          PROVE  /\ \A e \in RowsOf(req[t].prefill)' : evidence'[e].incident = NoIncident
                 /\ \A u \in Threads :
                      req'[u].op = "attach" /\ req'[u].prefill = req'[t].prefill => u = t
      <3>1. PICK y : y = req[t].prefill
        OBVIOUS
      <3>2. /\ t # q /\ req[t].op = "attach" /\ req'[t].prefill = y /\ y \notin ops.overlap
        BY <1>2, <2>4, <2>6, <3>1
      <3>3. /\ \A e \in RowsOf(y) : evidence[e].incident = NoIncident
            /\ \A u \in Threads : req[u].op = "attach" /\ req[u].prefill = y => u = t
        BY <1>3, <3>1, <3>2 DEF ShotInv
      <3>4. y # p
        BY <1>1, <1>2, <3>2, <3>3
      <3>5. \A e \in RowsOf(y) : e \in Rows /\ evidence'[e] = evidence[e]
        BY <1>8 DEF RowsOf
      <3>6. \A e \in RowsOf(y)' : evidence'[e].incident = NoIncident
        BY <1>10, <3>3, <3>4, <3>5
      <3>7. RowsOf(req[t].prefill)' = RowsOf(y)'
        BY <3>2 DEF RowsOf
      <3>8. \A u \in Threads : req'[u].op = "attach" /\ req'[u].prefill = req'[t].prefill => u = t
        BY <2>4, <3>2, <3>3
      <3> QED
        BY <3>6, <3>7, <3>8
    <2> QED
      BY <2>1, <2>2, <2>3, <2>5, <2>6, Zenon DEF ShotInv
  <1> QED
    BY <1>12, <1>13, <1>14, <1>15 DEF IInv

\* The incident is gone and the attachment is given up.
LEMMA AttachFailsInv ==
  ASSUME IInv, NEW q \in Threads, AttachFails(q)
  PROVE  IInv'
  <1>1. /\ req[q].op = "attach" /\ End(q)
        /\ UNCHANGED <<objects, runs, evidence, ocr_runs, incidents, slots, ops>>
    BY DEF AttachFails, tables
  <1>2. /\ req' \in [Threads -> Request] /\ req'[q].op = "idle"
        /\ \A t \in Threads : t # q => req'[t] = req[t]
    BY <1>1, Ended DEF IInv
  <1>3. TypeOK'
    BY <1>1, <1>2 DEF IInv, TypeOK
  <1>4. BuildInv'
    <2>1. SuggestionsSurvive'
      BY <1>1 DEF IInv, BuildInv, SuggestionsSurvive, Prefills
    <2>2. \A t \in Threads : Building(t)' => Building(t) /\ req'[t] = req[t]
      BY <1>2 DEF Building
    <2>3. \A t \in Threads : req'[t].op = "built" => KeepsSuggestions(req'[t])
      BY <1>2 DEF IInv, BuildInv
    <2>4. Prefills' = Prefills
      BY <1>1 DEF Prefills
    <2> QED
      BY <1>1, <2>1, <2>2, <2>3, <2>4 DEF IInv, BuildInv
  <1>5. QueueInv'
    BY <1>1, <1>2, QueueQuiet DEF IInv
  <1>6. ShotInv'
    <2>1. \A t \in Threads : req'[t].op = "attach" => req'[t] = req[t]
      BY <1>2
    <2> QED
      BY <1>1, <2>1, ShotQuiet DEF IInv
  <1> QED
    BY <1>3, <1>4, <1>5, <1>6 DEF IInv

-----------------------------------------------------------------------------
(***************************************************************************)
(* Rows change their state.                                                *)
(***************************************************************************)

\* No row moves to another screenshot or incident, and bytes go only with a row
\* that is purged.
LEMMA StatesInv ==
  ASSUME IInv, UNCHANGED <<runs, incidents, req, slots>>, evidence' \in Seq(Row), Rows' = Rows,
         \A e \in Rows : /\ evidence'[e].prefill = evidence[e].prefill
                         /\ evidence'[e].incident = evidence[e].incident
                         /\ evidence[e].state = "PURGED" => evidence'[e].state = "PURGED",
         \A p \in objects \ objects' : \E e \in RowsOf(p) : evidence'[e].state = "PURGED",
         ops' \in [requests : Nat, restarts : Nat, overlap : SUBSET Nat],
         ops'.overlap = ops.overlap
  PROVE  IInv'
  <1>1. Prefills' = Prefills /\ \A p : RowsOf(p)' = RowsOf(p)
    BY DEF Prefills, RowsOf
  <1>2. TypeOK'
    BY DEF IInv, TypeOK
  <1>3. BuildInv'
    <2>1. SuggestionsSurvive'
      BY <1>1 DEF IInv, BuildInv, SuggestionsSurvive
    <2>2. \A t \in Threads : Building(t)' <=> Building(t)
      BY DEF Building
    <2> QED
      BY <1>1, <2>1, <2>2 DEF IInv, BuildInv
  <1>4. QueueInv'
    BY DEF IInv, QueueInv, slots
  <1>5. ShotInv'
    <2>0. ShotInv
      BY DEF IInv
    <2>1. \A p : \A e \in RowsOf(p) : e \in Rows
      BY DEF RowsOf
    <2>2. \A e \in Rows' :
            evidence'[e].prefill \in Prefills' /\ runs'[evidence'[e].prefill] # NoRun
      BY <1>1, <2>0 DEF ShotInv
    <2>3. ASSUME NEW p \in Prefills' \ objects'
          PROVE  \E e \in RowsOf(p)' : evidence'[e].state = "PURGED"
      <3>1. CASE p \in objects
        BY <1>1, <3>1
      <3>2. CASE p \notin objects
        <4>1. PICK e \in RowsOf(p) : evidence[e].state = "PURGED"
          BY <1>1, <2>0, <3>2 DEF ShotInv
        <4> QED
          BY <1>1, <2>1, <4>1
      <3> QED
        BY <3>1, <3>2
    <2>4. ASSUME NEW p \in Prefills' \ ops'.overlap
          PROVE  /\ \A e \in RowsOf(p)' : evidence'[e].incident \in {NoIncident, runs'[p].incident}
                 /\ \A d, e \in RowsOf(p)' : d # e =>
                      NoIncident \in {evidence'[d].incident, evidence'[e].incident}
      <3>1. /\ \A e \in RowsOf(p) : evidence[e].incident \in {NoIncident, runs[p].incident}
            /\ \A d, e \in RowsOf(p) : d # e =>
                 NoIncident \in {evidence[d].incident, evidence[e].incident}
        BY <1>1, <2>0 DEF ShotInv
      <3> QED
        BY <1>1, <2>1, <3>1
    <2>5. ASSUME NEW t \in Threads, req'[t].op = "attach"
          PROVE  /\ req'[t].prefill \in Prefills' /\ runs'[req'[t].prefill] # NoRun
                 /\ req'[t].prefill \notin ops'.overlap =>
                      /\ \A e \in RowsOf(req[t].prefill)' : evidence'[e].incident = NoIncident
                      /\ \A u \in Threads :
                           req'[u].op = "attach" /\ req'[u].prefill = req'[t].prefill => u = t
      <3>1. PICK p : p = req[t].prefill
        OBVIOUS
      <3>2. /\ p \in Prefills /\ runs[p] # NoRun
            /\ p \notin ops.overlap =>
                 /\ \A e \in RowsOf(p) : evidence[e].incident = NoIncident
                 /\ \A u \in Threads : req[u].op = "attach" /\ req[u].prefill = p => u = t
        BY <2>0, <2>5, <3>1 DEF ShotInv
      <3>3. RowsOf(req[t].prefill)' = RowsOf(p)
        BY <3>1 DEF RowsOf
      <3> QED
        BY <1>1, <2>1, <3>1, <3>2, <3>3
    <2> QED
      BY <2>2, <2>3, <2>4, <2>5, Zenon DEF ShotInv
  <1> QED
    BY <1>2, <1>3, <1>4, <1>5 DEF IInv

\* One row takes another state.
LEMMA RowState ==
  ASSUME TypeOK, NEW e \in Rows, NEW s \in {"PURGE_PENDING", "PURGED"},
         evidence' = [evidence EXCEPT ![e].state = s]
  PROVE  /\ evidence' \in Seq(Row) /\ Rows' = Rows
         /\ \A d \in Rows : /\ evidence'[d].prefill = evidence[d].prefill
                            /\ evidence'[d].incident = evidence[d].incident
                            /\ d # e => evidence'[d] = evidence[d]
         /\ evidence'[e].state = s
  <1>1. evidence \in Seq(Row) /\ DOMAIN evidence = Rows /\ Rows = 1 .. Len(evidence)
    BY Tables DEF TypeOK, Rows
  <1>2. PICK x, y : x = evidence[e] /\ y = [x EXCEPT !.state = s]
    OBVIOUS
  <1>3. x \in Row
    BY <1>2, Tables
  <1>4. y \in Row /\ y.prefill = x.prefill /\ y.incident = x.incident /\ y.state = s
    BY <1>2, <1>3 DEF Row
  <1>5. evidence' = [evidence EXCEPT ![e] = y]
    BY <1>2
  <1>6. evidence' \in Seq(Row)
    BY <1>1, <1>4, <1>5, ExceptSeq
  <1> QED
    BY <1>1, <1>2, <1>4, <1>5, <1>6 DEF Rows

\* run_ocr_on_evidence.
LEMMA RunOcrInv ==
  ASSUME IInv, NEW e \in Rows, RunOcrOnEvidence(e)
  PROVE  IInv'
  <1>1. ops' = Spend(ops) /\ UNCHANGED <<objects, runs, evidence, incidents, req, slots>>
    BY DEF RunOcrOnEvidence
  <1>2. evidence' \in Seq(Row) /\ Rows' = Rows
    BY <1>1 DEF IInv, TypeOK, Rows
  <1> QED
    BY <1>1, <1>2, SpendType, StatesInv DEF IInv

\* delete_evidence.
LEMMA DeleteEvidenceInv ==
  ASSUME IInv, NEW e \in Rows, DeleteEvidence(e)
  PROVE  IInv'
  <1>1. /\ evidence[e].state = "ACTIVE"
        /\ evidence' = [evidence EXCEPT ![e].state = "PURGE_PENDING"]
        /\ ops' = Spend(ops) /\ UNCHANGED <<objects, runs, incidents, req, slots>>
    BY DEF DeleteEvidence
  <1>2. TypeOK
    BY DEF IInv
  <1>3. /\ evidence' \in Seq(Row) /\ Rows' = Rows
        /\ \A d \in Rows : /\ evidence'[d].prefill = evidence[d].prefill
                           /\ evidence'[d].incident = evidence[d].incident
                           /\ d # e => evidence'[d] = evidence[d]
    BY <1>1, <1>2, RowState
  <1>4. \A d \in Rows : evidence[d].state = "PURGED" => evidence'[d].state = "PURGED"
    BY <1>1, <1>3
  <1> QED
    BY <1>1, <1>2, <1>3, <1>4, SpendType, StatesInv

\* purge_storage and mark_purged.
LEMMA PurgeInv ==
  ASSUME IInv, NEW e \in Rows, Purge(e)
  PROVE  IInv'
  <1>1. /\ evidence' = [evidence EXCEPT ![e].state = "PURGED"]
        /\ objects' = objects \ {evidence[e].prefill}
        /\ UNCHANGED <<runs, incidents, req, slots, ops>>
    BY DEF Purge
  <1>2. TypeOK /\ ops \in [requests : Nat, restarts : Nat, overlap : SUBSET Nat]
    BY DEF IInv, TypeOK
  <1>3. /\ evidence' \in Seq(Row) /\ Rows' = Rows
        /\ \A d \in Rows : /\ evidence'[d].prefill = evidence[d].prefill
                           /\ evidence'[d].incident = evidence[d].incident
                           /\ d # e => evidence'[d] = evidence[d]
        /\ evidence'[e].state = "PURGED"
    BY <1>1, <1>2, RowState
  <1>4. \A d \in Rows : evidence[d].state = "PURGED" => evidence'[d].state = "PURGED"
    BY <1>3
  <1>5. \A p \in objects \ objects' : \E d \in RowsOf(p) : evidence'[d].state = "PURGED"
    BY <1>1, <1>3 DEF RowsOf
  <1> QED
    BY <1>1, <1>2, <1>3, <1>4, <1>5, StatesInv

\* delete_incident: its rows and its prefills lose it.
LEMMA DeleteIncidentInv ==
  ASSUME IInv, NEW i \in Incidents, DeleteIncident(i)
  PROVE  IInv'
  <1>1. /\ incidents' = incidents \ {i} /\ ops' = Spend(ops) /\ UNCHANGED <<objects, req, slots>>
        /\ evidence' = [e \in Rows |->
             IF evidence[e].incident = i THEN Detached(evidence[e]) ELSE evidence[e]]
        /\ runs' = [p \in Prefills |->
             IF runs[p] # NoRun /\ runs[p].incident = i
             THEN [runs[p] EXCEPT !.incident = NoIncident] ELSE runs[p]]
    <2>1. incidents' = incidents \ {i} /\ ops' = Spend(ops) /\ UNCHANGED <<objects, req, slots>>
      BY DEF DeleteIncident
    <2>2. evidence' = [e \in Rows |-> IF e \in {d \in Rows : evidence[d].incident = i}
                                     THEN Detached(evidence[e]) ELSE evidence[e]]
      BY Zenon DEF DeleteIncident
    <2>3. runs' = [p \in Prefills |->
             IF runs[p] # NoRun /\ runs[p].incident = i
             THEN [runs[p] EXCEPT !.incident = NoIncident] ELSE runs[p]]
      BY Zenon DEF DeleteIncident
    <2>4. evidence' = [e \in Rows |->
             IF evidence[e].incident = i THEN Detached(evidence[e]) ELSE evidence[e]]
      BY <2>2
    <2> QED
      BY <2>1, <2>3, <2>4
  <1>2. TypeOK /\ BuildInv /\ QueueInv /\ ShotInv /\ i # NoIncident
    BY PrefillAssumption DEF IInv
  <1>3. /\ Len(runs) \in Nat /\ Prefills = 1 .. Len(runs)
        /\ Len(evidence) \in Nat /\ Rows = 1 .. Len(evidence)
        /\ \A p \in Prefills : runs[p] # NoRun => runs[p] \in Run
        /\ \A e \in Rows : evidence[e] \in Row
    BY <1>2, Tables
  <1>4. ASSUME NEW e \in Rows
        PROVE  /\ evidence'[e] \in Row /\ evidence'[e].prefill = evidence[e].prefill
               /\ evidence'[e].incident =
                    IF evidence[e].incident = i THEN NoIncident ELSE evidence[e].incident
               /\ evidence[e].state = "PURGED" => evidence'[e].state = "PURGED"
    <2>1. PICK x \in Row : x = evidence[e]
      BY <1>3
    <2>2. evidence'[e] = IF x.incident = i THEN Detached(x) ELSE x
      BY <1>1, <2>1
    <2>3. /\ Detached(x) \in Row /\ Detached(x).prefill = x.prefill
          /\ Detached(x).incident = NoIncident
          /\ x.state = "PURGED" => Detached(x).state = "PURGED"
      BY DEF Row, Detached
    <2> QED
      BY <2>1, <2>2, <2>3
  <1>5. ASSUME NEW p \in Prefills
        PROVE  /\ runs[p] = NoRun => runs'[p] = NoRun
               /\ runs[p] # NoRun =>
                    /\ runs'[p] \in Run /\ runs'[p] # NoRun
                    /\ runs'[p].incident =
                         IF runs[p].incident = i THEN NoIncident ELSE runs[p].incident
                    /\ runs'[p].error = runs[p].error /\ runs'[p].status = runs[p].status
                    /\ runs'[p].text = runs[p].text /\ runs'[p].fields = runs[p].fields
    <2>1. CASE runs[p] = NoRun
      BY <1>1, <2>1
    <2>2. CASE runs[p] # NoRun
      <3>1. PICK x \in Run : x = runs[p]
        BY <1>3, <2>2
      <3>2. runs'[p] = IF x.incident = i THEN [x EXCEPT !.incident = NoIncident] ELSE x
        BY <1>1, <2>2, <3>1
      <3>3. /\ runs'[p] \in Run
            /\ runs'[p].incident = IF x.incident = i THEN NoIncident ELSE x.incident
            /\ runs'[p].error = x.error /\ runs'[p].status = x.status
            /\ runs'[p].text = x.text /\ runs'[p].fields = x.fields
        BY <3>2 DEF Run
      <3>4. runs'[p] # NoRun
        BY <3>3, RunIsOne
      <3> QED
        BY <2>2, <3>1, <3>3, <3>4
    <2> QED
      BY <2>1, <2>2
  <1>6. Rows' = Rows /\ Prefills' = Prefills
    BY <1>1 DEF Rows, Prefills
  <1>7. evidence' \in Seq(Row) /\ runs' \in Seq(Run \cup {NoRun})
    <2>1. /\ DOMAIN evidence' = 1 .. Len(evidence)
          /\ evidence' = [e \in DOMAIN evidence' |-> evidence'[e]]
          /\ DOMAIN runs' = 1 .. Len(runs) /\ runs' = [p \in DOMAIN runs' |-> runs'[p]]
      BY <1>1, <1>3
    <2>2. evidence' \in [1 .. Len(evidence) -> Row]
      BY <1>3, <1>4, <2>1
    <2>3. runs' \in [1 .. Len(runs) -> Run \cup {NoRun}]
      BY <1>3, <1>5, <2>1
    <2> QED
      BY <1>3, <2>2, <2>3, IsASeq
  <1>8. TypeOK'
    BY <1>1, <1>2, <1>7, SpendType DEF TypeOK
  <1>9. BuildInv'
    <2>1. SuggestionsSurvive'
      <3>1. ASSUME NEW p \in Prefills, runs'[p] # NoRun
            PROVE  KeepsSuggestions(runs'[p])
        <4>1. runs[p] # NoRun
          BY <1>5, <3>1
        <4>2. KeepsSuggestions(runs[p])
          BY <1>2, <4>1 DEF BuildInv, SuggestionsSurvive
        <4> QED
          BY <1>5, <4>1, <4>2, SameSuggestions
      <3> QED
        BY <1>6, <3>1 DEF SuggestionsSurvive
    <2>2. \A t \in Threads : Building(t)' <=> Building(t)
      BY <1>1 DEF Building
    <2> QED
      BY <1>1, <1>2, <1>5, <1>6, <2>1, <2>2 DEF BuildInv
  <1>10. QueueInv'
    BY <1>1, <1>2, QueueQuiet
  <1>11. ShotInv'
    <2>1. \A p : /\ RowsOf(p)' = RowsOf(p)
                 /\ \A e \in RowsOf(p) : e \in Rows /\ evidence[e].prefill = p
      BY <1>4, <1>6 DEF RowsOf
    <2>2. \A e \in Rows' :
            evidence'[e].prefill \in Prefills' /\ runs'[evidence'[e].prefill] # NoRun
      BY <1>2, <1>4, <1>5, <1>6 DEF ShotInv
    <2>3. ASSUME NEW p \in Prefills' \ objects'
          PROVE  \E e \in RowsOf(p)' : evidence'[e].state = "PURGED"
      <3>1. PICK e \in RowsOf(p) : evidence[e].state = "PURGED"
        BY <1>1, <1>2, <1>6 DEF ShotInv
      <3> QED
        BY <1>4, <2>1, <3>1
    <2>4. ops'.overlap = ops.overlap
      BY <1>1, <1>2, SpendType
    <2>5. ASSUME NEW p \in Prefills' \ ops'.overlap
          PROVE  /\ \A e \in RowsOf(p)' : evidence'[e].incident \in {NoIncident, runs'[p].incident}
                 /\ \A d, e \in RowsOf(p)' : d # e =>
                      NoIncident \in {evidence'[d].incident, evidence'[e].incident}
      <3>1. /\ \A e \in RowsOf(p) : evidence[e].incident \in {NoIncident, runs[p].incident}
            /\ \A d, e \in RowsOf(p) : d # e =>
                 NoIncident \in {evidence[d].incident, evidence[e].incident}
        BY <1>2, <1>6, <2>4 DEF ShotInv
      <3>2. ASSUME NEW e \in RowsOf(p)
            PROVE  /\ evidence'[e].incident \in {NoIncident, runs'[p].incident}
                   /\ evidence[e].incident = NoIncident => evidence'[e].incident = NoIncident
        <4>1. e \in Rows /\ runs[p] # NoRun
          BY <1>2, <2>1 DEF ShotInv
        <4> QED
          BY <1>2, <1>4, <1>5, <1>6, <3>1, <4>1
      <3> QED
        BY <2>1, <3>1, <3>2
    <2>6. ASSUME NEW t \in Threads, req'[t].op = "attach"
          PROVE  /\ req'[t].prefill \in Prefills' /\ runs'[req'[t].prefill] # NoRun
                 /\ req'[t].prefill \notin ops'.overlap =>
                      /\ \A e \in RowsOf(req[t].prefill)' : evidence'[e].incident = NoIncident
                      /\ \A u \in Threads :
                           req'[u].op = "attach" /\ req'[u].prefill = req'[t].prefill => u = t
      <3>1. PICK p : p = req[t].prefill
        OBVIOUS
      <3>2. /\ p \in Prefills /\ runs[p] # NoRun
            /\ p \notin ops.overlap =>
                 /\ \A e \in RowsOf(p) : evidence[e].incident = NoIncident
                 /\ \A u \in Threads : req[u].op = "attach" /\ req[u].prefill = p => u = t
        BY <1>1, <1>2, <2>6, <3>1 DEF ShotInv
      <3>3. RowsOf(req[t].prefill)' = RowsOf(p)
        BY <1>1, <1>4, <1>6, <3>1 DEF RowsOf
      <3>4. \A e \in RowsOf(p) :
              evidence[e].incident = NoIncident => evidence'[e].incident = NoIncident
        BY <1>2, <1>4, <2>1
      <3> QED
        BY <1>1, <1>5, <1>6, <2>4, <3>1, <3>2, <3>3, <3>4
    <2> QED
      BY <2>2, <2>3, <2>5, <2>6, Zenon DEF ShotInv
  <1> QED
    BY <1>8, <1>9, <1>10, <1>11 DEF IInv

-----------------------------------------------------------------------------
(***************************************************************************)
(* The theorems.                                                           *)
(***************************************************************************)

\* There is nothing yet.
LEMMA InitInv == Init => IInv
  <1> SUFFICES ASSUME Init PROVE IInv
    OBVIOUS
  <1>1. /\ runs = <<>> /\ evidence = <<>> /\ incidents = Incidents
        /\ req = [q \in Threads |-> Idle] /\ waiting = {} /\ asking = {}
        /\ ops = [requests |-> 0, restarts |-> 0, overlap |-> {}]
    BY DEF Init
  <1>2. Idle \in Request /\ \A q \in Threads : req[q] = Idle /\ req[q].op = "idle"
    BY <1>1 DEF Request, Idle
  <1>3. Prefills = {} /\ Rows = {}
    BY <1>1 DEF Prefills, Rows
  <1>4. TypeOK
    <2>1. runs \in Seq(Run \cup {NoRun}) /\ evidence \in Seq(Row)
      BY <1>1
    <2>2. req \in [Threads -> Request]
      BY <1>1, <1>2
    <2>3. ops \in [requests : Nat, restarts : Nat, overlap : SUBSET Nat]
      BY <1>1
    <2> QED
      BY <1>1, <2>1, <2>2, <2>3 DEF TypeOK
  <1>5. BuildInv
    BY <1>2, <1>3 DEF BuildInv, Building, SuggestionsSurvive
  <1>6. QueueInv
    <2>1. IsFiniteSet({}) /\ Cardinality({}) = 0 /\ MaxQueue \in Nat
      BY FS_EmptySet, PrefillAssumption
    <2> QED
      BY <1>1, <1>2, <2>1 DEF QueueInv
  <1>7. ShotInv
    BY <1>2, <1>3 DEF ShotInv
  <1> QED
    BY <1>4, <1>5, <1>6, <1>7 DEF IInv

\* A request's own steps.
LEMMA ProgressInv ==
  ASSUME IInv, NEW q \in Threads, Progress(q)
  PROVE  IInv'
  <1>1. CASE OcrFails(q) \/ DateFails(q)
    BY <1>1, FailsInv
  <1>2. CASE RulesSuffice(q)
    BY <1>2, RulesSufficeInv
  <1>3. CASE Queue(q)
    BY <1>3, QueueStepInv
  <1>4. CASE Busy(q)
    BY <1>4, BusyInv
  <1>5. CASE TakeSlot(q) \/ ModelRetries(q)
    BY <1>5, AskInv
  <1>6. CASE \E answer \in [Fields -> {"none", "supported", "unsupported"}] :
               ModelAnswers(q, answer)
    BY <1>6, ModelInv
  <1>7. CASE ModelFails(q)
    BY <1>7, ModelInv
  <1>8. CASE CommitPrefill(q)
    BY <1>8, CommitPrefillInv
  <1>9. CASE CommitAttach(q)
    BY <1>9, CommitAttachInv
  <1>10. CASE AttachFails(q)
    BY <1>10, AttachFailsInv
  <1> QED
    BY <1>1, <1>2, <1>3, <1>4, <1>5, <1>6, <1>7, <1>8, <1>9, <1>10 DEF Progress

\* Every step preserves the invariant.
LEMMA NextInv == IInv /\ [Next]_vars => IInv'
  <1> SUFFICES ASSUME IInv, [Next]_vars PROVE IInv'
    OBVIOUS
  <1>1. ASSUME NEW q \in Threads, CreatePrefill(q)
        PROVE  IInv'
    BY <1>1, CreatePrefillInv
  <1>2. ASSUME NEW q \in Threads, NEW p \in Prefills, NEW i \in Incidents, Attach(q, p, i)
        PROVE  IInv'
    BY <1>2, AttachInv
  <1>3. ASSUME NEW q \in Threads, Progress(q)
        PROVE  IInv'
    BY <1>3, ProgressInv
  <1>4. ASSUME NEW e \in Rows, RunOcrOnEvidence(e) \/ DeleteEvidence(e) \/ Purge(e)
        PROVE  IInv'
    BY <1>4, RunOcrInv, DeleteEvidenceInv, PurgeInv
  <1>5. ASSUME NEW i \in Incidents, DeleteIncident(i)
        PROVE  IInv'
    BY <1>5, DeleteIncidentInv
  <1>6. CASE Restart
    BY <1>6, RestartInv
  <1>7. CASE UNCHANGED vars
    BY <1>7 DEF vars, slots, IInv, TypeOK, BuildInv, SuggestionsSurvive, Building, QueueInv,
                ShotInv, Prefills, Rows, RowsOf
  <1> QED
    BY <1>1, <1>2, <1>3, <1>4, <1>5, <1>6, <1>7 DEF Next

\* The inductive invariant, for any threads, texts, queue length and bounds.
THEOREM PrefillInvariant == Spec => []IInv
  BY InitInv, NextInv, PTL DEF Spec

\* docs/adr/0020: whatever the model does and whoever competes for it, what the
\* rules resolved is in the stored run.
THEOREM PrefillSuggestionsSurvive == Spec => []SuggestionsSurvive
  <1>1. IInv => SuggestionsSurvive
    BY DEF IInv, BuildInv
  <1> QED
    BY <1>1, PrefillInvariant, PTL

\* Two rows share a screenshot only after overlapping or repeated attachments, and
\* a single live row has its bytes.
THEOREM PrefillOnlyReattachedShotsLoseBytes == Spec => []OnlyReattachedShotsLoseBytes
  <1>1. ASSUME IInv
        PROVE  OnlyReattachedShotsLoseBytes
    <2>1. ASSUME NEW p \in Prefills
          PROVE  /\ Cardinality(RowsOf(p)) > 1 =>
                      p \in ops.overlap \/ \E e \in RowsOf(p) : evidence[e].incident = NoIncident
                 /\ Cardinality(RowsOf(p)) = 1 =>
                      \A e \in RowsOf(p) : evidence[e].state = "ACTIVE" => p \in objects
      <3>1. PICK S : S = RowsOf(p)
        OBVIOUS
      <3>2. IsFiniteSet(S)
        <4>1. Len(evidence) \in Nat /\ S \in SUBSET (1 .. Len(evidence))
          BY <1>1, <3>1, Tables DEF IInv, RowsOf
        <4> QED
          BY <4>1, IdsFinite
      <3>3. ASSUME Cardinality(S) > 1, p \notin ops.overlap
            PROVE  \E e \in S : evidence[e].incident = NoIncident
        <4>1. Cardinality(S) \in Nat
          BY <3>2, FS_CardinalityType
        <4>2. ~(Cardinality(S) <= 1)
          BY <3>3, <4>1
        <4>3. PICK d \in S, e \in S : d # e
          BY <3>2, <4>2, AtMostOne
        <4>4. NoIncident \in {evidence[d].incident, evidence[e].incident}
          BY <1>1, <3>1, <3>3, <4>3 DEF IInv, ShotInv
        <4> QED
          BY <4>4
      <3>4. ASSUME Cardinality(S) = 1, NEW e \in S, evidence[e].state = "ACTIVE", p \notin objects
            PROVE  FALSE
        <4>1. \A c, d \in S : c = d
          BY <3>2, <3>4, ExactlyOne
        <4>2. PICK d \in S : evidence[d].state = "PURGED"
          BY <1>1, <3>1, <3>4 DEF IInv, ShotInv
        <4> QED
          BY <3>4, <4>1, <4>2
      <3> QED
        BY <3>1, <3>3, <3>4
    <2> QED
      BY <2>1 DEF OnlyReattachedShotsLoseBytes
  <1> QED
    BY <1>1, PrefillInvariant, PTL

\* local_inference.py: at most MaxQueue requests are in the queue, and at most one
\* of them asks the model.
THEOREM PrefillQueueIsBounded == Spec => []QueueIsBounded
  <1>1. IInv => QueueIsBounded
    BY DEF IInv, QueueInv, QueueIsBounded
  <1> QED
    BY <1>1, PrefillInvariant, PTL
==============================================================================
