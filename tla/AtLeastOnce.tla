---------------------------- MODULE AtLeastOnce ----------------------------
(***************************************************************************)
(* What a transactional outbox promises (ADR-0006, Batch A): an event that *)
(* was committed is owed to the broker until a copy of it has been         *)
(* accepted.  Copies may be sent more than once, never for an event that   *)
(* was not committed, and an event stops being owed only after a copy.     *)
(***************************************************************************)
EXTENDS Integers

CONSTANT Events

VARIABLES
    owed,     \* committed events the outbox must still publish
    copies    \* copies[e]: how many copies the broker has accepted

aloVars == <<owed, copies>>

Init ==
    /\ owed = {}
    /\ copies = [e \in Events |-> 0]

Accept(e) ==
    /\ e \notin owed /\ copies[e] = 0
    /\ owed' = owed \cup {e}
    /\ UNCHANGED copies

Send(e) ==
    /\ e \in owed
    /\ copies' = [copies EXCEPT ![e] = @ + 1]
    /\ UNCHANGED owed

Settle(e) ==
    /\ e \in owed /\ copies[e] > 0
    /\ owed' = owed \ {e}
    /\ UNCHANGED copies

Next == \E e \in Events : Accept(e) \/ Send(e) \/ Settle(e)

Spec == Init /\ [][Next]_aloVars
=============================================================================
