------------------------------ MODULE MCOutbox ------------------------------
(***************************************************************************)
(* Small instances of Outbox: the dispatchers as model values.             *)
(***************************************************************************)
EXTENDS Outbox

CONSTANTS d1, d2
=============================================================================
