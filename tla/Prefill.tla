------------------------------- MODULE Prefill -------------------------------
(***************************************************************************)
(* Screenshots before there is an incident: create_incident_prefill,       *)
(* attach_prefill_to_incident and run_ocr_on_evidence (routers/ocr.py),    *)
(* the mapping of the text to fields (incident_prefill.py) and the local   *)
(* model behind its bounded, single-flight queue (local_inference.py).     *)
(*                                                                         *)
(* A text is what the rules make of it: rule[f] is how well they resolve   *)
(* field f, evidence the fields whose words occur, and baddate that the    *)
(* recovery line has a date datetime.fromisoformat refuses.  A suggestion  *)
(* of the model is "supported" by a line of the text or not.               *)
(***************************************************************************)
EXTENDS Integers, Sequences, FiniteSets

CONSTANTS
    Fields,
    Incidents, NoIncident,
    Threads,        \* the API's request threads, as numbers
    Texts,          \* what OCR may read
    MaxQueue,       \* settings.local_prefill_max_queue
    MaxRequests,    \* bound on the requests
    MaxRestarts     \* bound on restarts of the API

\* A field that the rules resolve has its words in the text.
ASSUME PrefillAssumption ==
    /\ NoIncident \notin Incidents /\ Threads \subseteq Nat
    /\ MaxQueue \in Nat \ {0} /\ {MaxRequests, MaxRestarts} \subseteq Nat
    /\ \A t \in Texts :
         /\ t.rule \in [Fields -> {"none", "review", "high"}]
         /\ {f \in Fields : t.rule[f] # "none"} \subseteq t.evidence
         /\ t.evidence \subseteq Fields /\ t.baddate \in BOOLEAN

VARIABLES
    objects,     \* the screenshots in the bucket
    runs,        \* runs[p]: the row of incident_prefill_runs, or NoRun until it
                 \* is committed
    evidence,    \* the evidence rows that attachments made
    ocr_runs,    \* the evidence rows that an OCR run refers to
    incidents,   \* the incidents that exist
    req,         \* req[q]: the open request of thread q
    waiting,     \* the threads that hold a place of _queue_slots
    asking,      \* the threads that hold _inference_slot
    ops          \* what the bounds have been spent on

vars == <<objects, runs, evidence, ocr_runs, incidents, req, waiting, asking, ops>>
slots == <<waiting, asking>>
tables == <<runs, evidence, ocr_runs, incidents>>

Idle == [op |-> "idle"]
NoRun == [status |-> "none"]
NoText == [rule |-> <<>>]

\* Prefill runs and evidence rows are numbered as they are made.
Prefills == DOMAIN runs
Rows == DOMAIN evidence
RowsOf(p) == {e \in Rows : evidence[e].prefill = p}

\* Threads are alike: the first free one takes a request.
Begin(q, r) ==
    /\ req[q] = Idle /\ \A t \in Threads : t < q => req[t] # Idle
    /\ ops.requests < MaxRequests
    /\ req' = [req EXCEPT ![q] = r]

Spend(o) == [o EXCEPT !.requests = @ + 1]
Goto(q, r) == req' = [req EXCEPT ![q] = r]
End(q) == Goto(q, Idle)

-----------------------------------------------------------------------------
(***************************************************************************)
(* incident_prefill.py                                                     *)
(***************************************************************************)

\* deterministic_prefill
deterministic_prefill(text) ==
    [f \in Fields |-> [by |-> IF text.rule[f] = "none" THEN "nobody" ELSE "rule",
                       quality |-> text.rule[f]]]

\* The fields that the model is asked about.
Unresolved(text) == {f \in text.evidence : text.rule[f] # "high"}

\* _apply_model_output looks at every field of the answer, asked for or not,
\* and takes a value only if the line that it cites supports it.
_apply_model_output(fields, answer) ==
    [f \in Fields |-> IF answer[f] = "supported" THEN [by |-> "model", quality |-> "review"]
                      ELSE fields[f]]

Built(p, text, status, fields, error) ==
    [op |-> "built", prefill |-> p, text |-> text, status |-> status, fields |-> fields,
     error |-> error]

\* Mutant: the failed mapper's empty result is stored.
FallbackEmpty(p, text, error) ==
    Built(p, text, "FALLBACK", [f \in Fields |-> [by |-> "nobody", quality |-> "none"]], error)

\* Every failure of the mapper keeps what the rules found.
Fallback(p, text, error) == Built(p, text, "FALLBACK", deterministic_prefill(text), error)

-----------------------------------------------------------------------------
(***************************************************************************)
(* create_incident_prefill                                                 *)
(***************************************************************************)

\* The object is stored before there is a row for it.
CreatePrefill(q) ==
    LET p == Len(runs) + 1 IN
    /\ Begin(q, [op |-> "uploaded", prefill |-> p])
    /\ objects' = objects \cup {p}
    /\ runs' = Append(runs, NoRun)
    /\ ops' = Spend(ops)
    /\ UNCHANGED <<evidence, ocr_runs, incidents, slots>>

OcrFails(q) ==
    /\ req[q].op = "uploaded"
    /\ Goto(q, Built(req[q].prefill, NoText, "OCR_FAILED", <<>>, "engine"))
    /\ UNCHANGED <<objects, tables, slots, ops>>

\* deterministic_prefill parses the recovery date outside any handler of its
\* own: the failure is recorded as one of OCR.
DateFails(q) ==
    /\ req[q].op = "uploaded"
    /\ \E t \in Texts : t.baddate /\ Goto(q, Built(req[q].prefill, t, "OCR_FAILED", <<>>, "date"))
    /\ UNCHANGED <<objects, tables, slots, ops>>

\* No local model is configured, or the rules resolved everything.
RulesSuffice(q) ==
    /\ req[q].op = "uploaded"
    /\ \E t \in Texts :
         /\ ~t.baddate
         /\ Goto(q, Built(req[q].prefill, t, "REVIEW_REQUIRED", deterministic_prefill(t), "none"))
    /\ UNCHANGED <<objects, tables, slots, ops>>

\* complete_json: a place in the queue or LocalInferenceBusy.
Queue(q) ==
    /\ req[q].op = "uploaded"
    /\ Cardinality(waiting) < MaxQueue
    /\ \E t \in Texts :
         /\ ~t.baddate /\ Unresolved(t) # {}
         /\ Goto(q, [op |-> "queued", prefill |-> req[q].prefill, text |-> t])
    /\ waiting' = waiting \cup {q}
    /\ UNCHANGED <<objects, tables, asking, ops>>

Busy(q) ==
    /\ req[q].op = "uploaded"
    /\ Cardinality(waiting) >= MaxQueue
    /\ \E t \in Texts :
         /\ ~t.baddate /\ Unresolved(t) # {}
         /\ Goto(q, Fallback(req[q].prefill, t, "busy"))
    /\ UNCHANGED <<objects, tables, slots, ops>>

TakeSlot(q) ==
    /\ req[q].op = "queued" /\ asking = {}
    /\ Goto(q, [op |-> "asking", prefill |-> req[q].prefill, text |-> req[q].text, attempt |-> 1])
    /\ asking' = {q}
    /\ UNCHANGED <<objects, tables, waiting, ops>>

\* Mutant: only the lock is released.
ReleaseLockOnly(q) ==
    /\ asking' = asking \ {q}
    /\ UNCHANGED waiting

\* Leaving complete_json, by return or by exception, gives both back.
Release(q) ==
    /\ asking' = asking \ {q}
    /\ waiting' = waiting \ {q}

ModelAnswers(q, answer) ==
    /\ req[q].op = "asking"
    /\ Goto(q, Built(req[q].prefill, req[q].text, "REVIEW_REQUIRED",
                     _apply_model_output(deterministic_prefill(req[q].text), answer), "none"))
    /\ Release(q)
    /\ UNCHANGED <<objects, tables, ops>>

\* _complete_with_bounded_retry asks once more after a timeout, an HTTP error
\* or an answer that is not a JSON object.
ModelRetries(q) ==
    /\ req[q].op = "asking" /\ req[q].attempt = 1
    /\ Goto(q, [op |-> "asking", prefill |-> req[q].prefill, text |-> req[q].text, attempt |-> 2])
    /\ UNCHANGED <<objects, tables, slots, ops>>

\* The second failure, or an exception that the retry does not catch.
ModelFails(q) ==
    /\ req[q].op = "asking"
    /\ Goto(q, Fallback(req[q].prefill, req[q].text, "model"))
    /\ Release(q)
    /\ UNCHANGED <<objects, tables, ops>>

\* The row appears with its final status; nobody ever reads PROCESSING.
CommitPrefill(q) ==
    /\ req[q].op = "built"
    /\ runs' = [runs EXCEPT ![req[q].prefill] =
           [status |-> req[q].status, text |-> req[q].text, fields |-> req[q].fields,
            error |-> req[q].error, incident |-> NoIncident]]
    /\ End(q)
    /\ UNCHANGED <<objects, evidence, ocr_runs, incidents, slots, ops>>

\* The API restarts: transactions are undone and the queue is empty.
Restart ==
    /\ ops.restarts < MaxRestarts
    /\ \E q \in Threads : req[q] # Idle
    /\ req' = [q \in Threads |-> Idle]
    /\ waiting' = {} /\ asking' = {}
    /\ ops' = [ops EXCEPT !.restarts = @ + 1]
    /\ UNCHANGED <<objects, tables>>

-----------------------------------------------------------------------------
(***************************************************************************)
(* attach_prefill_to_incident: reads without locks, HEAD of the object,    *)
(* one commit.                                                             *)
(***************************************************************************)

\* Mutant: the incident a prefill already has is not looked at.
AttachableAnywhere(p, i) == runs[p] # NoRun /\ runs[p].status # "OCR_FAILED"

Attachable(p, i) ==
    /\ runs[p] # NoRun /\ runs[p].status # "OCR_FAILED"
    /\ runs[p].incident \in {NoIncident, i}

\* An evidence row of this incident and object, live or not, is the answer.
Attach(q, p, i) ==
    /\ i \in incidents /\ Attachable(p, i)
    /\ p \in objects
    /\ \A e \in RowsOf(p) : evidence[e].incident # i
    /\ Begin(q, [op |-> "attach", prefill |-> p, incident |-> i])
    /\ ops' = [Spend(ops) EXCEPT !.overlap =
           IF \E t \in Threads : req[t].op = "attach" /\ req[t].prefill = p
           THEN @ \cup {p} ELSE @]
    /\ UNCHANGED <<objects, tables, slots>>

CommitAttach(q) ==
    /\ req[q].op = "attach" /\ req[q].incident \in incidents
    /\ evidence' = Append(evidence, [state |-> "ACTIVE", prefill |-> req[q].prefill,
                                     incident |-> req[q].incident])
    /\ runs' = [runs EXCEPT ![req[q].prefill].incident = req[q].incident]
    /\ End(q)
    /\ UNCHANGED <<objects, ocr_runs, incidents, slots, ops>>

\* The foreign key: the incident was deleted in between.
AttachFails(q) ==
    /\ req[q].op = "attach" /\ req[q].incident \notin incidents
    /\ End(q)
    /\ UNCHANGED <<objects, tables, slots, ops>>

\* run_ocr_on_evidence commits its run whether or not OCR works.
RunOcrOnEvidence(e) ==
    /\ evidence[e].state = "ACTIVE" /\ e \notin ocr_runs
    /\ ops.requests < MaxRequests
    /\ ocr_runs' = ocr_runs \cup {e}
    /\ ops' = Spend(ops)
    /\ UNCHANGED <<objects, runs, evidence, incidents, req, slots>>

-----------------------------------------------------------------------------
(***************************************************************************)
(* Deletion, as far as it concerns screenshots; EvidenceLifecycle has its  *)
(* steps.                                                                  *)
(***************************************************************************)

DeleteEvidence(e) ==
    /\ evidence[e].state = "ACTIVE" /\ e \notin ocr_runs
    /\ ops.requests < MaxRequests
    /\ evidence' = [evidence EXCEPT ![e].state = "PURGE_PENDING"]
    /\ ops' = Spend(ops)
    /\ UNCHANGED <<objects, runs, ocr_runs, incidents, req, slots>>

\* A row of an incident that is deleted.
Detached(row) ==
    [state |-> IF row.state = "ACTIVE" THEN "PURGE_PENDING" ELSE row.state,
     prefill |-> row.prefill, incident |-> NoIncident]

\* The tombstones are detached, and the foreign key of the prefill is set null.
DeleteIncident(i) ==
    LET own == {e \in Rows : evidence[e].incident = i} IN
    /\ i \in incidents /\ own \cap ocr_runs = {}
    /\ ops.requests < MaxRequests
    /\ incidents' = incidents \ {i}
    /\ evidence' = [e \in Rows |-> IF e \in own THEN Detached(evidence[e]) ELSE evidence[e]]
    /\ runs' = [p \in Prefills |->
           IF runs[p] # NoRun /\ runs[p].incident = i
           THEN [runs[p] EXCEPT !.incident = NoIncident] ELSE runs[p]]
    /\ ops' = Spend(ops)
    /\ UNCHANGED <<objects, ocr_runs, req, slots>>

\* purge_storage and mark_purged, by the request or by the sweep.
Purge(e) ==
    /\ evidence[e].state = "PURGE_PENDING"
    /\ evidence' = [evidence EXCEPT ![e].state = "PURGED"]
    /\ objects' = objects \ {evidence[e].prefill}
    /\ UNCHANGED <<runs, ocr_runs, incidents, req, slots, ops>>

-----------------------------------------------------------------------------
Init ==
    /\ objects = {}
    /\ runs = <<>>
    /\ evidence = <<>>
    /\ ocr_runs = {}
    /\ incidents = Incidents
    /\ req = [q \in Threads |-> Idle]
    /\ waiting = {} /\ asking = {}
    /\ ops = [requests |-> 0, restarts |-> 0, overlap |-> {}]

\* The steps that a request makes by itself: OCR and the model answer, fail or
\* run into their timeouts.
Progress(q) ==
    \/ OcrFails(q) \/ DateFails(q) \/ RulesSuffice(q) \/ Queue(q) \/ Busy(q) \/ TakeSlot(q)
    \/ \E answer \in [Fields -> {"none", "supported", "unsupported"}] : ModelAnswers(q, answer)
    \/ ModelRetries(q) \/ ModelFails(q) \/ CommitPrefill(q)
    \/ CommitAttach(q) \/ AttachFails(q)

Next ==
    \/ \E q \in Threads :
         \/ CreatePrefill(q)
         \/ \E p \in Prefills, i \in Incidents : Attach(q, p, i)
         \/ Progress(q)
    \/ \E e \in Rows : RunOcrOnEvidence(e) \/ DeleteEvidence(e) \/ Purge(e)
    \/ \E i \in Incidents : DeleteIncident(i)
    \/ Restart

Fairness == \A q \in Threads : WF_vars(Progress(q))

Spec == Init /\ [][Next]_vars /\ Fairness

-----------------------------------------------------------------------------
(***************************************************************************)
(* What a prefill promises.                                                *)
(***************************************************************************)

\* A run, or a request that is about to commit one.
KeepsSuggestions(r) ==
    r.error \notin {"engine", "date"} =>
        /\ r.status # "OCR_FAILED"
        /\ \A f \in Fields : r.text.rule[f] # "none" => r.fields[f].by # "nobody"
        /\ r.error # "none" => r.fields = deterministic_prefill(r.text)

\* docs/adr/0020: "Ollama failure, timeout, invalid JSON, or queue saturation
\* preserves OCR and deterministic suggestions".  Whatever the model does, and
\* whoever competes for it, a field that the rules resolved has a value in the
\* stored run, and a fallback has exactly the rules' values.
SuggestionsSurvive == \A p \in Prefills : runs[p] # NoRun => KeepsSuggestions(runs[p])

\* attach_prefill_to_incident: "Prefill is already attached to another incident".
\* The bytes of a live screenshot are gone only if two rows share them, and two
\* rows share them only if two attachments overlapped, or a screenshot was
\* attached again after the incident that had it was deleted.
OnlyReattachedShotsLoseBytes ==
    \A p \in Prefills :
        /\ Cardinality(RowsOf(p)) > 1 =>
             p \in ops.overlap \/ \E e \in RowsOf(p) : evidence[e].incident = NoIncident
        /\ Cardinality(RowsOf(p)) = 1 =>
             \A e \in RowsOf(p) : evidence[e].state = "ACTIVE" => p \in objects

\* local_inference.py, "a bounded, single-flight queue": at most MaxQueue requests
\* are in it and one of them asks.
QueueIsBounded ==
    Cardinality(waiting) <= MaxQueue /\ asking \subseteq waiting /\ \A q, t \in asking : q = t

\* The queue keeps its bound, and every request comes to its end, so that no place
\* is lost to one that failed.
EveryRequestEnds ==
    /\ []QueueIsBounded
    /\ \A q \in Threads : [](req[q] # Idle => <>(req[q] = Idle /\ q \notin waiting))

(***************************************************************************)
(* The inductive invariant.                                                *)
(***************************************************************************)
Statuses == {"OCR_FAILED", "REVIEW_REQUIRED", "FALLBACK"}
Errors == {"engine", "date", "busy", "model", "none"}
Suggestions == [Fields -> [by : {"nobody", "rule", "model"}, quality : {"none", "review", "high"}]]
Run == [status : Statuses, text : Texts \cup {NoText}, fields : Suggestions \cup {<<>>},
        error : Errors, incident : Incidents \cup {NoIncident}]
Row == [state : {"ACTIVE", "PURGE_PENDING", "PURGED"}, prefill : Nat,
        incident : Incidents \cup {NoIncident}]
Request ==
    {Idle}
    \cup [op : {"uploaded"}, prefill : Nat]
    \cup [op : {"queued"}, prefill : Nat, text : Texts]
    \cup [op : {"asking"}, prefill : Nat, text : Texts, attempt : {1, 2}]
    \cup [op : {"built"}, prefill : Nat, text : Texts \cup {NoText}, status : Statuses,
          fields : Suggestions \cup {<<>>}, error : Errors]
    \cup [op : {"attach"}, prefill : Nat, incident : Incidents]

\* The tables, the open requests and what the bounds count.
TypeOK ==
    /\ runs \in Seq(Run \cup {NoRun})
    /\ evidence \in Seq(Row)
    /\ incidents \subseteq Incidents
    /\ req \in [Threads -> Request]
    /\ ops \in [requests : Nat, restarts : Nat, overlap : SUBSET Nat]

\* A request that builds a prefill is the only one, and nothing refers to the
\* prefill before it is committed.
Building(q) == req[q].op \in {"uploaded", "queued", "asking", "built"}

BuildInv ==
    /\ SuggestionsSurvive
    /\ \A q \in Threads : Building(q) =>
         /\ req[q].prefill \in Prefills /\ runs[req[q].prefill] = NoRun
         /\ \A t \in Threads : Building(t) /\ req[t].prefill = req[q].prefill => t = q
    /\ \A q \in Threads : req[q].op = "built" => KeepsSuggestions(req[q])

\* The places in the queue are those of the requests that wait or ask.
QueueInv ==
    /\ IsFiniteSet(waiting) /\ Cardinality(waiting) <= MaxQueue
    /\ waiting = {q \in Threads : req[q].op \in {"queued", "asking"}}
    /\ asking = {q \in Threads : req[q].op = "asking"}
    /\ \A q, t \in asking : q = t

\* Without overlapping attachments a prefill has at most one row that belongs to
\* an incident, and that incident is the prefill's; while an attachment is open it
\* has none.
ShotInv ==
    /\ \A e \in Rows : evidence[e].prefill \in Prefills /\ runs[evidence[e].prefill] # NoRun
    /\ \A p \in Prefills \ objects : \E e \in RowsOf(p) : evidence[e].state = "PURGED"
    /\ \A p \in Prefills \ ops.overlap :
         /\ \A e \in RowsOf(p) : evidence[e].incident \in {NoIncident, runs[p].incident}
         /\ \A d, e \in RowsOf(p) :
              d # e => NoIncident \in {evidence[d].incident, evidence[e].incident}
    /\ \A q \in Threads : req[q].op = "attach" =>
         /\ req[q].prefill \in Prefills /\ runs[req[q].prefill] # NoRun
         /\ req[q].prefill \notin ops.overlap =>
              /\ \A e \in RowsOf(req[q].prefill) : evidence[e].incident = NoIncident
              /\ \A t \in Threads :
                   req[t].op = "attach" /\ req[t].prefill = req[q].prefill => t = q

IInv == TypeOK /\ BuildInv /\ QueueInv /\ ShotInv
=============================================================================
