----------------------------- MODULE Composition -----------------------------
(***************************************************************************)
(* From a frozen report snapshot to the document that is rendered:         *)
(* compose_report (report_composition.py), the block types it builds       *)
(* (report_document.py) and document_to_preview_json                       *)
(* (report_document_json.py).                                              *)
(*                                                                         *)
(* A worker only composes plans that validate_daily_report_result has      *)
(* passed, and that accepts nothing but general_summary: the branch of     *)
(* compose_report for plans with blocks cannot be reached from it.  Titles, *)
(* links, metadata and dates are passed through and are left out.          *)
(***************************************************************************)
EXTENDS Integers, Sequences, SequencesExt, FiniteSets, FiniteSetsExt, Ordered

NoRun == 0
NoTarget == 0

\* An incident of a snapshot: its id (ids and display ids are unique columns, so
\* the lookup table never finds one twice), its current run, whether the run's
\* result was there when the snapshot was frozen, and its screenshots.
Incident(id, run, analysed, shots) ==
    [id |-> id, run |-> run, analysed |-> analysed, shots |-> shots]

Incidents == [id : Nat \ {NoTarget}, run : Nat, analysed : BOOLEAN, shots : Seq(Nat)]

_bookmark_name(incident) == incident.id

\* _analysis_block: an incident whose run has no frozen result gets a notice,
\* and no bookmark.
_analysis_block(incident, number) ==
    [kind |-> "analysis", incident |-> incident.id, number |-> number,
     available |-> incident.analysed,
     bookmark |-> IF incident.analysed THEN _bookmark_name(incident) ELSE NoTarget,
     shots |-> IF incident.analysed THEN incident.shots ELSE <<>>]

\* _incident_block
_incident_block(incident, number, target) ==
    [kind |-> "alert", incident |-> incident.id, number |-> number,
     target |-> target, shots |-> incident.shots]

\* The Alerts, in the order of the snapshot, and the analyses of the incidents
\* that have a run; an analysis has the number of its alert if there is one.
AlertIncidents(snapshot) == IF snapshot.incident_policy = "all" THEN snapshot.incidents ELSE <<>>
AnalysisIncidents(snapshot) ==
    IF snapshot.analysis_policy = "all_available"
    THEN AtPositions(snapshot.incidents,
                     {n \in DOMAIN snapshot.incidents : snapshot.incidents[n].run # NoRun})
    ELSE <<>>

NumberOf(alerts, incident, otherwise) ==
    IF \E n \in DOMAIN alerts : alerts[n].id = incident.id
    THEN CHOOSE n \in DOMAIN alerts : alerts[n].id = incident.id
    ELSE otherwise

TargetOf(analyses, incident) ==
    Max({NoTarget} \cup {analyses[n].bookmark : n \in {m \in DOMAIN analyses :
                            analyses[m].incident = incident.id /\ analyses[m].available}})

compose_report(snapshot) ==
    LET alerts == AlertIncidents(snapshot)
        runs == AnalysisIncidents(snapshot)
        analyses == [n \in DOMAIN runs |-> _analysis_block(runs[n], NumberOf(alerts, runs[n], n))]
        blocks == [n \in DOMAIN alerts |->
                     _incident_block(alerts[n], n, TargetOf(analyses, alerts[n]))]
    IN [navigation |-> AtPositions(blocks, {n \in DOMAIN blocks : blocks[n].target # NoTarget}),
        alerts |-> blocks,
        analyses |-> analyses]

-----------------------------------------------------------------------------
(***************************************************************************)
(* document_to_preview_json: a screenshot becomes its index in a list that *)
(* stays on the server.                                                    *)
(***************************************************************************)

\* Mutant: the index is that of the screenshot within its block.
_block_to_json_local(acc, block) ==
    [shots |-> acc.shots \o block.shots,
     blocks |-> Append(acc.blocks, [incident |-> block.incident,
                                    index |-> [n \in DOMAIN block.shots |-> n - 1]])]

_block_to_json(acc, block) ==
    [shots |-> acc.shots \o block.shots,
     blocks |-> Append(acc.blocks,
                       [incident |-> block.incident,
                        index |-> [n \in DOMAIN block.shots |-> Len(acc.shots) + n - 1]])]

document_to_preview_json(document) ==
    FoldLeft(_block_to_json, [shots |-> <<>>, blocks |-> <<>>],
             document.alerts \o document.analyses)

\* get_report_document_screenshot
Proxied(preview, index) == preview.shots[index + 1]
=============================================================================
