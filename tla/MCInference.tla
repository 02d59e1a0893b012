----------------------------- MODULE MCInference -----------------------------
(***************************************************************************)
(* A small instance of Inference: logs of up to three lines over three     *)
(* templates and two families, answers of up to two findings, one of them  *)
(* of three whose details repeat crosswise, prose within and over its      *)
(* limits, reports of two incidents.                                       *)
(***************************************************************************)
EXTENDS Inference

\* Two templates of family 1, one of family 2, and template 1 in a line whose
\* tail names family 2.
A == LogLine(1, 1, NoTrace)
B == LogLine(2, 1, 7)
C == LogLine(3, 2, 7)
D == LogLine(1, 2, NoTrace)

TriageLogs == {<<A>>, <<A, B>>, <<A, C>>, <<A, B, C>>, <<B, C, C>>, <<C, A, D>>, <<A, D, B>>}

Short == [en |-> NoSignature, zh |-> NoSignature]
Same == [en |-> 1, zh |-> 2]

Cite(e) == [entries |-> e, pids |-> {Unquantified}, count |-> NoCount, hints |-> {}]
Name(p, c) == [entries |-> {}, pids |-> p, count |-> c, hints |-> {}]

Said == {Cite({1}), Cite({2}), Cite({1, 3}), Cite({9}),
         Name({1}, NoCount), Name({2}, 1), Name({1, 3}, NoCount), Name({9}, NoCount),
         Name({1, 9}, NoCount), Name({Other}, NoCount), Name({Unquantified, 2}, NoCount),
         Name({Unquantified}, NoCount),
         [Name({Unquantified}, NoCount) EXCEPT !.hints = {1}]}

Find(id, group, said, detail) ==
    [id |-> id, group |-> group, cites |-> said.entries # {}, entries |-> said.entries,
     pids |-> said.pids, count |-> said.count, occurrences |-> 0, detail |-> detail,
     hints |-> said.hints]

Groups == {<<"key", "key">>, <<"key", "secondary">>, <<"secondary", "secondary">>}

Crosswise == <<Find(1, "key", Name({1}, NoCount), [en |-> 1, zh |-> 2]),
               Find(2, "secondary", Name({2}, NoCount), [en |-> 3, zh |-> 2]),
               Find(3, "secondary", Name({3}, NoCount), [en |-> 3, zh |-> 4])>>

Single == {<<Find(1, "key", s, Short)>> : s \in Said} \cup {<<>>}

Findings ==
    Single
    \cup {<<Find(1, g[1], s, d), Find(2, g[2], t, d)>> :
             g \in Groups, s \in Said, t \in Said, d \in {Short, Same}}
    \cup {Crosswise}

\* Prose within the limits, too long, with one sentence left, with an assertion
\* whose evidence is cut off, unfinished, and with evidence in finding 2.
Text(sentences, fits, reads, cutReads) ==
    [sentences |-> sentences, fits |-> fits, reads |-> reads, cutReads |-> cutReads,
     needs |-> {}, over |-> {}]
Fine == Text(2, 2, TRUE, TRUE)
Long == Text(5, 5, TRUE, TRUE)
OneLeft == Text(2, 1, TRUE, TRUE)
Unsupported == Text(5, 4, TRUE, FALSE)
Unfinished == Text(2, 2, FALSE, FALSE)
Needed == [Long EXCEPT !.needs = {2}]

\* Details over their limits: of two findings that begin alike, and of one that
\* would not be over the limit of a key find.
OverLong(id, group, en) == [id |-> id, group |-> group, brief |-> [en |-> en, zh |-> NoSignature]]
BeginAlike == [Fine EXCEPT !.over = {OverLong(1, "key", 5), OverLong(2, "secondary", 5)}]
Wordy == [Fine EXCEPT !.over = {OverLong(1, "secondary", 5), OverLong(2, "secondary", 6)}]

Hinted == [Name({Unquantified}, NoCount) EXCEPT !.hints = {1}]
TwoSaid == {<<Cite({1}), Cite({2})>>, <<Name({1}, NoCount), Hinted>>,
            <<Name({1}, NoCount), Name({}, NoCount)>>,
            <<Name({Unquantified}, NoCount), Name({}, NoCount)>>}
Two == {<<Find(1, g, t[1], [en |-> 1, zh |-> 2]), Find(2, "secondary", t[2], [en |-> 3, zh |-> 4])>> :
           g \in {"key", "secondary"}, t \in TwoSaid}

RuntimeAnswers ==
    [finds : Findings, text : {Fine, Long}]
    \cup [finds : Single, text : {OneLeft, Unfinished}]
    \cup [finds : Two, text : {Fine, Long, OneLeft, Unsupported, Needed, BeginAlike, Wordy}]

Policies == {<<"all", "all_available">>, <<"optional", "all_available">>, <<"all", "optional">>}
FrozenIncident(id) ==
    {Incident(id, NoRun, FALSE, <<id>>), Incident(id, id, FALSE, <<id>>),
     Incident(id, id, TRUE, <<id, 10 + id>>)}

ReportSnapshots ==
    {[incidents |-> i, incident_policy |-> p[1], analysis_policy |-> p[2]] :
        p \in Policies, i \in {<<>>} \cup {<<m, n>> : m \in FrozenIncident(1), n \in FrozenIncident(2)}}

Families == {1}
=============================================================================
