--------------------------- MODULE SkillRegistry ---------------------------
(***************************************************************************)
(* The skill registry (app/skills/registry.py, app/skills/runtime.py) and  *)
(* its mirror in the worker (noc_bridge/skill_registry.py).                *)
(*                                                                         *)
(* A skill is three files in the checkout; what counts is their hash, so a *)
(* model value stands for one edition of the files.  The table             *)
(* skill_snapshots is a sequence whose index is the row's id: rows are     *)
(* only ever appended, and only is_active of a row is updated.  The row of *)
(* a skill with a dependency pins the id of the dependency's row.          *)
(*                                                                         *)
(* An API request runs in its own transaction (READ COMMITTED, no          *)
(* autoflush); the steps of a request that others can observe, and what it *)
(* read before them, are in req[q].  This module has the operators; the    *)
(* requests that use them are in Analysis.                                 *)
(***************************************************************************)
EXTENDS Integers, Sequences, FiniteSets, FiniteSetsExt

CONSTANTS
    Skills,         \* skill names
    Dependency,     \* the skill a manifest names under "dependencies", or NoSkill
    NoSkill,
    Editions,       \* editions of a skill's three files
    Valid,          \* the editions that validate_snapshot accepts
    FirstEdition,   \* what the checkout holds at the start
    Histories       \* the tables that a run may start from

NoPin == 0
OwnChild == -1    \* the pin of a row whose dependency is registered with it

SnapRow == [skill : Skills, version : Nat, edition : Editions,
            pin : Int, active : BOOLEAN]

RowsOf(tab, s) == {n \in DOMAIN tab : tab[n].skill = s}
ActiveRows(tab, s) == {n \in RowsOf(tab, s) : tab[n].active}

\* A row pins a row that was there before it.
PinsPointBack(tab) == \A n \in DOMAIN tab : tab[n].pin = NoPin \/ tab[n].pin \in 1 .. n - 1

\* "there must always be exactly one active snapshot once a skill has any history".
ExactlyOneActive(tab) ==
    \A s \in Skills : RowsOf(tab, s) # {} => Cardinality(ActiveRows(tab, s)) = 1

\* The manifests of the repository: one skill has no dependency, and no
\* dependency has one of its own.  A run starts from a table that the registry
\* itself has written.
ASSUME SkillAssumption ==
    /\ NoSkill \notin Skills
    /\ Dependency \in [Skills -> Skills \cup {NoSkill}]
    /\ \A s \in Skills : Dependency[s] # NoSkill => Dependency[Dependency[s]] = NoSkill
    /\ Valid \subseteq Editions /\ FirstEdition \in Valid
    /\ \A tab \in Histories :
         /\ tab \in Seq(SnapRow)
         /\ \A n \in DOMAIN tab : tab[n].edition \in Valid
         /\ PinsPointBack(tab)
         /\ ExactlyOneActive(tab)

VARIABLES
    disk,     \* disk[s]: the edition in the checkout
    snaps     \* the table skill_snapshots

skillVars == <<disk, snaps>>

SkillTypeOK ==
    /\ disk \in [Skills -> Editions]
    /\ snaps \in Seq(SnapRow)

-----------------------------------------------------------------------------
(***************************************************************************)
(* get_or_create_snapshot, as the rows that it would add.                  *)
(***************************************************************************)

\* registry.py compares the content hash and the pinned dependency ids.
SameSnapshot(s, pin) ==
    {n \in RowsOf(snaps, s) : snaps[n].edition = disk[s] /\ snaps[n].pin = pin}

\* The next version label; the first snapshot of a skill is activated.
NewRow(s, pin) ==
    [skill |-> s,
     version |-> Max({0} \cup {snaps[n].version : n \in RowsOf(snaps, s)}) + 1,
     edition |-> disk[s],
     pin |-> pin,
     active |-> RowsOf(snaps, s) = {}]

\* The rows that registering s with this pin adds: none when it is known.
Registration(s, pin) == IF SameSnapshot(s, pin) = {} THEN <<NewRow(s, pin)>> ELSE <<>>

\* A dependency that has no active row is registered first, and the row found
\* or made for it is the one that is pinned.
get_or_create_snapshot(s) ==
    LET d == Dependency[s] IN
    IF d = NoSkill
    THEN Registration(s, NoPin)
    ELSE IF ActiveRows(snaps, d) # {}
    THEN Registration(s, Max(ActiveRows(snaps, d)))
    ELSE IF SameSnapshot(d, NoPin) # {}
    THEN Registration(s, Max(SameSnapshot(d, NoPin)))
    ELSE <<NewRow(d, NoPin)>> \o Registration(s, OwnChild)

\* validate_snapshot runs on every new row, so a broken edition in the checkout
\* makes the request fail before it reads the active snapshot.
CanRegister(s) ==
    LET rows == get_or_create_snapshot(s)
    IN \A n \in DOMAIN rows : rows[n].edition \in Valid

\* The table once a transaction's pending rows are inserted.
Inserted(tab, rows) ==
    tab \o [k \in DOMAIN rows |->
              IF rows[k].pin = OwnChild
              THEN [rows[k] EXCEPT !.pin = Len(tab) + k - 1] ELSE rows[k]]

\* uq_skill_snapshots_one_active_per_name.
OneActivePerName(tab) == \A s \in Skills : Cardinality(ActiveRows(tab, s)) <= 1

\* resolve_active_snapshot: the request sees the committed rows and its own.
resolve_active_snapshot(rows, s) == ActiveRows(Inserted(snaps, rows), s)

(***************************************************************************)
(* The identity that is stamped on a job, and the worker's check of it.    *)
(***************************************************************************)

\* Mutant: the dependency's latest row instead of the pinned one.
compute_execution_hash_latest(tab, n) ==
    [own |-> tab[n].edition,
     child |-> IF tab[n].pin = NoPin THEN <<>>
               ELSE <<tab[Max(RowsOf(tab, tab[tab[n].pin].skill))].edition>>]

\* compute_execution_hash: the hash of the row's own files and of the rows
\* that its pins lead to.
compute_execution_hash(tab, n) ==
    [own |-> tab[n].edition,
     child |-> IF tab[n].pin = NoPin THEN <<>> ELSE <<tab[tab[n].pin].edition>>]

\* The worker fetches the row by id, and it must belong to the skill; the bytes of
\* a row never change, so its content hash always verifies.
fetch_skill_snapshot(s, n) == n \in DOMAIN snaps /\ snaps[n].skill = s

\* The worker's own copy of compute_execution_hash.
_execution_hash(n) == compute_execution_hash(snaps, n)

\* materialize_snapshot: the row and the dependencies it pins must still hash
\* to what the job was stamped with.
materialize_snapshot(s, n, hash) == fetch_skill_snapshot(s, n) /\ _execution_hash(n) = hash

(***************************************************************************)
(* Steps on the registry.                                                  *)
(***************************************************************************)

\* A deployment or an editor changes the files of a skill.
EditFiles(s, e) ==
    /\ e # disk[s]
    /\ disk' = [disk EXCEPT ![s] = e]
    /\ UNCHANGED snaps

SkillInit ==
    /\ disk = [s \in Skills |-> FirstEdition]
    /\ snaps \in Histories
=============================================================================
