------------------------------ MODULE MCPrefill ------------------------------
(***************************************************************************)
(* A small instance of Prefill: one field that the rules resolve without   *)
(* being sure, a good and a bad recovery date, a queue of two.             *)
(***************************************************************************)
EXTENDS Prefill

CONSTANT title

Text(bad) == [rule |-> [f \in Fields |-> "review"], evidence |-> Fields, baddate |-> bad]

ReadTexts == {Text(FALSE), Text(TRUE)}
=============================================================================
