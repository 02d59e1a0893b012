--------------------------- MODULE Reconciliation ---------------------------
(***************************************************************************)
(* From a log and the runtime's answer to the analysis that is stored:     *)
(* preprocess_log and reconcile_result (sandbox/preprocessing.py) and      *)
(* validate_log_triage_result (noc_bridge/validation.py).                  *)
(*                                                                         *)
(* A line of a log is what the regular expressions make of it: the id of   *)
(* its template, the cause family that _cause_family finds in the whole    *)
(* line, and the trace id, if there is one.  A log is the sequence of its  *)
(* non-empty lines; the position of a line is its entry id.                *)
(*                                                                         *)
(* An answer is the findings, key_finds first, and what the validator and  *)
(* the repair make of its prose (Prose below).  Ids are numbers.           *)
(* reconcile_result changes the answer in place; what it leaves behind is  *)
(* part of it.                                                             *)
(***************************************************************************)
EXTENDS Integers, Sequences, SequencesExt, FiniteSets, FiniteSetsExt, Ordered

CONSTANTS
    Recoverable,     \* the families of _RECOVERABLE_FAMILY_PRESENTATIONS
    MaxPatterns      \* preprocess_log's max_patterns

\* Ids are numbers, and a log of any length keeps at least one pattern.
ASSUME ReconciliationAssumption == Recoverable \subseteq Nat /\ MaxPatterns \in Nat \ {0}

NoTrace == 0
Other == 0            \* the manifest's entry for what max_patterns cuts off
Unquantified == -1
NoCount == -1
NoSignature == 0      \* a detail of fewer than 32 letters

\* The pattern id of a semantic group, and the ids of findings that the
\* application adds: a function of the finding, of the family, and one more.
_semantic_pattern_id(id) == 1000 + id
RecoveredId(family) == 100 + family
UnlabeledId(family) == 200 + family
OtherActivityId == 300

-----------------------------------------------------------------------------
(***************************************************************************)
(* preprocess_log                                                          *)
(***************************************************************************)

\* What _template, _pattern_id, _cause_family and _trace_id make of a line.
LogLine(pattern, family, trace) == [pattern |-> pattern, family |-> family, trace |-> trace]

LogLines == [pattern : Nat \ {Other}, family : Nat, trace : Nat]

PatternsOf(log) == {log[e].pattern : e \in DOMAIN log}
pattern_counts(log, p) == Cardinality({e \in DOMAIN log : log[e].pattern = p})

\* The loop over the lines keeps the family of a pattern's last line.
pattern_families(log, p) == log[Max({e \in DOMAIN log : log[e].pattern = p})].family

\* The most frequent patterns are kept, and the rest become one entry.
Ahead(log, p, q) ==
    \/ pattern_counts(log, p) > pattern_counts(log, q)
    \/ pattern_counts(log, p) = pattern_counts(log, q) /\ p < q

Kept(log) ==
    {q \in PatternsOf(log) : Cardinality({p \in PatternsOf(log) : Ahead(log, p, q)}) < MaxPatterns}
pattern_manifest(log) == Kept(log) \cup (IF Kept(log) = PatternsOf(log) THEN {} ELSE {Other})

CountOf(log, p) ==
    IF p = Other
    THEN Cardinality({e \in DOMAIN log : log[e].pattern \notin Kept(log)})
    ELSE pattern_counts(log, p)

SumOfCounts(log, pids) == FoldSet(LAMBDA p, n : n + CountOf(log, p), 0, pids)

\* _occurrence_count: lines with one trace id are one occurrence.
_occurrence_count(log, entries) ==
    Cardinality({IF log[e].trace = NoTrace THEN <<"entry", e>> ELSE <<"trace", log[e].trace>> :
                 e \in entries})

-----------------------------------------------------------------------------
(***************************************************************************)
(* _reconcile_entry_grouped_result: the findings cite entries.             *)
(***************************************************************************)

\* A finding as the runtime or the application writes it.  The signatures of its
\* two details are what _compact_narrative_key makes of them.
FindingRecords ==
    [id : Nat, group : {"key", "secondary"}, cites : BOOLEAN, entries : SUBSET Nat,
     pids : SUBSET Int, count : Int, occurrences : Nat, detail : [en : Nat, zh : Nat],
     hints : SUBSET Nat]

Finding(id, group, entries, pids, log) ==
    [id |-> id, group |-> group, cites |-> TRUE, entries |-> entries, pids |-> pids,
     count |-> Cardinality(entries), occurrences |-> _occurrence_count(log, entries),
     detail |-> [en |-> NoSignature, zh |-> NoSignature], hints |-> {}]

\* A cited entry stands for its whole family.
Expanded(log, entries) ==
    {e \in DOMAIN log : \E c \in entries : log[c].family = log[e].family}

Quantified(f, entries, log) ==
    IF entries = {}
    THEN [f EXCEPT !.pids = {Unquantified}, !.count = NoCount]
    ELSE [Finding(f.id, f.group, entries, {_semantic_pattern_id(f.id)}, log)
            EXCEPT !.detail = f.detail, !.hints = f.hints]

\* An entry that does not exist, or that an earlier finding has taken.
Misassigned(log, claimed, f) == f.entries \ (DOMAIN log \ claimed) # {}

ClaimEntries(log, acc, f) ==
    IF acc.error \/ ~f.cites THEN [acc EXCEPT !.done = Append(@, f)]
    ELSE IF Misassigned(log, acc.claimed, f)
    THEN [acc EXCEPT !.done = Append(@, f), !.error = TRUE]
    ELSE LET own == Expanded(log, f.entries) \ acc.claimed
         IN [acc EXCEPT !.done = Append(@, Quantified(f, own, log)),
                        !.claimed = @ \cup own]

\* Mutant: records of families without a presentation are dropped.
LeftoversKnown(log, unclaimed) ==
    LET known == Ascending({log[e].family : e \in unclaimed} \cap Recoverable)
    IN [n \in DOMAIN known |->
           Finding(RecoveredId(known[n]), "secondary",
                   {e \in unclaimed : log[e].family = known[n]},
                   {_semantic_pattern_id(RecoveredId(known[n]))}, log)]

\* What no finding took: a finding per recoverable family, one for the rest.
Leftovers(log, unclaimed) ==
    LET known == {log[e].family : e \in unclaimed} \cap Recoverable
        rest == {e \in unclaimed : log[e].family \notin known}
        add(id, entries) ==
            Finding(id, "secondary", entries, {_semantic_pattern_id(id)}, log)
        families == Ascending(known)
    IN [n \in 1 .. Cardinality(known) |->
           add(RecoveredId(families[n]), {e \in unclaimed : log[e].family = families[n]})]
       \o (IF rest = {} THEN <<>> ELSE <<add(OtherActivityId, rest)>>)

EntriesClaimed(finds, log) ==
    FoldLeft(LAMBDA acc, f : ClaimEntries(log, acc, f),
             [done |-> <<>>, claimed |-> {}, error |-> FALSE], finds)

AfterEntries(acc, log) ==
    LET all == acc.done \o Leftovers(log, DOMAIN log \ acc.claimed)
    IN IF acc.error
       THEN [outcome |-> "value_error", finds |-> acc.done, left |-> acc.done]
       ELSE [outcome |-> "ok", finds |-> all, left |-> all]

_reconcile_entry_grouped_result(finds, log) == AfterEntries(EntriesClaimed(finds, log), log)

-----------------------------------------------------------------------------
(***************************************************************************)
(* reconcile_result for findings that name patterns.                       *)
(***************************************************************************)

IsUnquantified(f) == f.pids = {Unquantified}
Counted(log, f) ==
    IF IsUnquantified(f) THEN [f EXCEPT !.count = NoCount]
    ELSE [f EXCEPT !.count = SumOfCounts(log, f.pids)]

\* The repair drops names that are not in the manifest.
KnownIds(manifest, f, fallback) ==
    IF ~fallback \/ f.pids \subseteq manifest \cup {Unquantified} THEN f.pids
    ELSE IF f.pids \cap manifest = {} THEN {Unquantified}
    ELSE f.pids \cap manifest

\* A second use of a pattern and an unknown one are ValueErrors; "unquantified"
\* next to a pattern is a KeyError when the counts are added up.
Claim(log, manifest, fallback, acc, f, pids) ==
    LET real == pids \ {Unquantified}
    IN IF acc.outcome # "ok" THEN [acc EXCEPT !.done = Append(@, f)]
       ELSE IF real \ (manifest \ acc.used) # {}
       THEN [acc EXCEPT !.outcome = "value_error", !.done = Append(@, f)]
       ELSE IF real # {} /\ real # pids
       THEN [acc EXCEPT !.outcome = "key_error", !.done = Append(@, f)]
       ELSE IF pids = {Unquantified} /\ acc.unquantified /\ fallback THEN acc
       ELSE [acc EXCEPT !.done = Append(@, Counted(log, [f EXCEPT !.pids = pids])),
                        !.used = @ \cup real,
                        !.unquantified = @ \/ pids = {Unquantified}]

ClaimPatterns(finds, log, manifest, fallback) ==
    FoldLeft(LAMBDA acc, f : Claim(log, manifest, fallback, acc, f, KnownIds(manifest, f, fallback)),
             [done |-> <<>>, used |-> {}, unquantified |-> FALSE, outcome |-> "ok"], finds)

FamiliesOf(log, pids) == {pattern_families(log, p) : p \in pids \ {Other, Unquantified}}

\* Union-find over the findings that share a family: the component of a finding
\* is the least set with it that holds whatever shares a family with a member.
Closed(C, quantified, families) ==
    \A i \in C, j \in quantified : families[i] \cap families[j] # {} => j \in C

Components(quantified, families) ==
    [n \in DOMAIN families |-> {n} \cup
        {m \in quantified : n \in quantified /\ \A C \in SUBSET quantified :
                               n \in C /\ Closed(C, quantified, families) => m \in C}]

\* The finding that speaks for a component: the first key find, or the first.
Primary(finds, comp) ==
    LET keys == {i \in comp : finds[i].group = "key"}
    IN Min(IF keys = {} THEN comp ELSE keys)

Merged(finds, comp) ==
    [finds[Primary(finds, comp)] EXCEPT !.pids = UNION {finds[i].pids : i \in comp}]

InGroup(finds, group) == AtPositions(finds, {n \in DOMAIN finds : finds[n].group = group})
ByGroup(finds) == InGroup(finds, "key") \o InGroup(finds, "secondary")

\* When any two findings are merged the result is built anew, and the
\* unquantified findings come last.  The answer keeps every finding, the ones
\* that speak for a component with all its patterns.
Rebuilt(finds, comp, heads) ==
    LET merged == [n \in DOMAIN finds |-> Merged(finds, comp[n])]
        primaries == {Primary(finds, comp[n]) : n \in heads}
    IN [finds |-> ByGroup(AtPositions(merged, heads)
                  \o AtPositions(finds, {n \in DOMAIN finds : IsUnquantified(finds[n])})),
        left |-> [n \in DOMAIN finds |->
                     IF n \in primaries THEN Merged(finds, comp[n]) ELSE finds[n]],
        anew |-> TRUE]

Merge(finds, quantified, comp) ==
    IF \A n \in DOMAIN finds : comp[n] = {n}
    THEN [finds |-> finds, left |-> finds, anew |-> FALSE]
    ELSE Rebuilt(finds, comp, {n \in quantified : n = Min(comp[n])})

MergeFamilies(log, finds) ==
    LET quantified == {n \in DOMAIN finds : ~IsUnquantified(finds[n])}
        families == [n \in DOMAIN finds |-> FamiliesOf(log, finds[n].pids)]
    IN Merge(finds, quantified, Components(quantified, families))

\* The repair merges findings whose details repeat: first the English
\* signature decides, then the Chinese one.
NoteDetails(acc, n, f) ==
    LET owned(sig) == sig # NoSignature /\ \E o \in acc.owners : o.sig = sig
        owner(sig) == (CHOOSE o \in acc.owners : o.sig = sig).by
        mine(sigs) == acc.owners \cup {[sig |-> s, by |-> n] : s \in sigs \ {NoSignature}}
    IN IF IsUnquantified(f) THEN acc
       ELSE IF owned(f.detail.en) THEN [acc EXCEPT !.dup = @ \cup {<<n, owner(f.detail.en)>>}]
       ELSE IF owned(f.detail.zh)
       THEN [acc EXCEPT !.dup = @ \cup {<<n, owner(f.detail.zh)>>},
                        !.owners = mine({f.detail.en})]
       ELSE [acc EXCEPT !.owners = mine({f.detail.en, f.detail.zh})]

RepeatedDetails(finds) ==
    FoldLeftDomain(LAMBDA acc, n : NoteDetails(acc, n, finds[n]),
                   [owners |-> {}, dup |-> {}], finds).dup

MergeRepeated(finds) ==
    LET dup == RepeatedDetails(finds)
        gone == {d[1] : d \in dup}
        full == [n \in DOMAIN finds |->
                   [finds[n] EXCEPT !.pids = @ \cup UNION {finds[d[1]].pids : d \in {x \in dup : x[2] = n}}]]
    IN AtPositions(full, DOMAIN finds \ gone)

UsedBy(finds) == UNION {finds[n].pids : n \in DOMAIN finds}

\* The repair gives an unquantified finding the one family its words name, or
\* drops it when another finding already has that family.
Attach(log, kept, acc, f, named) ==
    IF ~IsUnquantified(f) \/ Cardinality(named) # 1 THEN [acc EXCEPT !.done = Append(@, f)]
    ELSE IF named \subseteq acc.used THEN acc
    ELSE [acc EXCEPT !.used = @ \cup named,
                     !.done = Append(@, [f EXCEPT !.pids =
                                  {p \in kept : pattern_families(log, p) \in named}])]

AttachAll(log, kept, present, finds) ==
    FoldLeft(LAMBDA acc, f : Attach(log, kept, acc, f, f.hints \cap present),
             [done |-> <<>>, used |-> FamiliesOf(log, UsedBy(finds))], finds).done

AttachHinted(log, finds) == AttachAll(log, Kept(log), FamiliesOf(log, Kept(log)), finds)

\* Mutant: a finding that already has the family is not looked up.
AppendOmittedApart(log, finds) ==
    LET omitted == Kept(log) \ UsedBy(finds)
        fresh == Ascending(FamiliesOf(log, omitted))
    IN finds \o [k \in DOMAIN fresh |->
             [id |-> UnlabeledId(fresh[k]), group |-> "secondary", cites |-> FALSE, entries |-> {},
              pids |-> {p \in omitted : pattern_families(log, p) = fresh[k]},
              count |-> NoCount, occurrences |-> 0,
              detail |-> [en |-> NoSignature, zh |-> NoSignature], hints |-> {}]]

\* Patterns that no finding has join their family's last finding, or become a
\* finding of their own.
AppendOmitted(log, finds) ==
    LET omitted == Kept(log) \ UsedBy(finds)
        holders(family) == {n \in DOMAIN finds : family \in FamiliesOf(log, finds[n].pids)}
        members(family) == {p \in omitted : pattern_families(log, p) = family}
        fresh == Ascending({x \in FamiliesOf(log, omitted) : holders(x) = {}})
    IN [n \in DOMAIN finds |->
           [finds[n] EXCEPT !.pids =
               @ \cup UNION {members(x) : x \in {y \in FamiliesOf(log, omitted) :
                                                   holders(y) # {} /\ Max(holders(y)) = n}}]]
       \o [k \in DOMAIN fresh |->
             [id |-> UnlabeledId(fresh[k]), group |-> "secondary", cites |-> FALSE, entries |-> {},
              pids |-> members(fresh[k]), count |-> NoCount, occurrences |-> 0,
              detail |-> [en |-> NoSignature, zh |-> NoSignature], hints |-> {}]]

\* The schema wants a key find, so the repair promotes the first finding.
Promoted(finds) ==
    IF finds = <<>> \/ InGroup(finds, "key") # <<>> THEN finds
    ELSE [finds EXCEPT ![1].group = "key"]

\* What the answer itself holds afterwards: all of it when nothing was built
\* anew, otherwise only what was done to its own findings.
Leftover(left, final) ==
    [n \in DOMAIN left |->
        LET same == {k \in DOMAIN final : final[k].id = left[n].id}
        IN IF same = {} THEN left[n] ELSE final[CHOOSE k \in same : TRUE]]

RepairFinds(log, finds, fallback) ==
    IF fallback THEN AttachHinted(log, MergeRepeated(finds)) ELSE finds

Finished(log, finds, fallback) ==
    LET counted == [n \in DOMAIN finds |-> Counted(log, finds[n])]
    IN ByGroup(IF fallback THEN Promoted(counted) ELSE counted)

Outcome(merge, final) ==
    [outcome |-> "ok", finds |-> final,
     left |-> IF merge.anew THEN Leftover(merge.left, final) ELSE final]

Whole(log, merge, fallback) ==
    Outcome(merge, Finished(log, AppendOmitted(log, RepairFinds(log, merge.finds, fallback)), fallback))

AfterClaims(acc, log, fallback) ==
    IF acc.outcome # "ok"
    THEN [outcome |-> acc.outcome, finds |-> acc.done, left |-> acc.done]
    ELSE Whole(log, MergeFamilies(log, acc.done), fallback)

ReconcilePatterns(finds, log, fallback) ==
    AfterClaims(ClaimPatterns(finds, log, pattern_manifest(log), fallback), log, fallback)

reconcile_result(finds, log, fallback) ==
    IF \E n \in DOMAIN finds : finds[n].cites
    THEN _reconcile_entry_grouped_result(finds, log)
    ELSE ReconcilePatterns(finds, log, fallback)

-----------------------------------------------------------------------------
(***************************************************************************)
(* validate_log_triage_result, with the parts of the JSON schema that      *)
(* reconciliation can break.                                               *)
(***************************************************************************)

NumbersAgree(f, total) ==
    /\ f.cites => f.entries # {} /\ f.occurrences <= Cardinality(f.entries)
    /\ f.cites /\ ~IsUnquantified(f) => f.count <= Cardinality(f.entries)
    /\ IF IsUnquantified(f) THEN f.count = NoCount ELSE f.count \in 0..total

\* _validate_repetition
Repeats(finds) ==
    \E m, n \in DOMAIN finds : m # n /\ \E lang \in {"en", "zh"} :
        finds[m].detail[lang] # NoSignature /\ finds[m].detail[lang] = finds[n].detail[lang]

\* What is said of the findings.
FindingsHold(finds, log) ==
    /\ \E n \in DOMAIN finds : finds[n].group = "key"
    /\ \A n \in DOMAIN finds : finds[n].pids # {} /\ NumbersAgree(finds[n], Len(log))
    /\ \A m, n \in DOMAIN finds : m # n =>
         finds[m].id # finds[n].id /\ finds[m].pids \cap finds[n].pids = {}
    /\ ~Repeats(finds)

\* The prose of an answer.  The summary, in the language that fares worse, has
\* sentences ends of sentences, fits of them within 800 characters.  reads: all of
\* it ends like sentences, no detail is copied into the summary, and a cause is
\* only asserted with evidence, which may be in the findings named in needs.
\* cutReads: so does what is left of it when it is cut to whole sentences within
\* the limits, and there is something left of every detail.  over: the findings
\* that have a detail over the limits of a group, with the signatures of the whole
\* sentences within them.
Prose ==
    [sentences : Nat, fits : Nat, reads : BOOLEAN, cutReads : BOOLEAN, needs : SUBSET Nat,
     over : SUBSET [id : Nat, group : {"key", "secondary"}, brief : [en : Nat, zh : Nat]]]

SummaryFits(text) == text.sentences <= 4 /\ text.fits = text.sentences
OverLimit(f, text) == {o \in text.over : o.id = f.id /\ o.group = f.group}
Supported(finds, text) == text.needs \subseteq {finds[n].id : n \in DOMAIN finds}

\* _validate_narrative_completion, _validate_finding_detail_density,
\* _validate_causation_language and the rest of _validate_repetition.
Readable(finds, text) ==
    /\ text.reads /\ Supported(finds, text)
    /\ SummaryFits(text) /\ text.sentences >= 2
    /\ \A n \in DOMAIN finds : OverLimit(finds[n], text) = {}

validate_log_triage_result(finds, log, text) == FindingsHold(finds, log) /\ Readable(finds, text)

\* _compact_narrative of the summary: at most four of the sentences within 800
\* characters.  With none of them it raises a ValueError, and no sentences fail
\* validation as well.
CutSummary(text) == IF text.fits < 4 THEN text.fits ELSE 4

\* _compact_narrative of a finding's details.
Brief(f, text) ==
    IF OverLimit(f, text) = {} THEN f
    ELSE [f EXCEPT !.detail = (CHOOSE o \in OverLimit(f, text) : TRUE).brief]

\* Mutant: the repair leaves the prose as it is.
compact_nothing(finds, text) == [finds |-> finds, text |-> text]

compact_log_triage_narrative(finds, text) ==
    [finds |-> [n \in DOMAIN finds |-> Brief(finds[n], text)],
     text |-> IF SummaryFits(text) /\ \A n \in DOMAIN finds : OverLimit(finds[n], text) = {}
              THEN text
              ELSE [text EXCEPT !.sentences = IF SummaryFits(text) THEN @ ELSE CutSummary(text),
                                !.fits = IF SummaryFits(text) THEN @ ELSE CutSummary(text),
                                !.reads = text.cutReads, !.over = {}]]
=============================================================================
