----------------------------- MODULE MCEvidence -----------------------------
(***************************************************************************)
(* Small instances of EvidenceLifecycle: uploads, requests and the sweeper *)
(* as model values.                                                        *)
(***************************************************************************)
EXTENDS EvidenceLifecycle

CONSTANTS u1, u2, r1, r2, s1
=============================================================================
