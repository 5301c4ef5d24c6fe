---------------------------- MODULE ChangeJournal ----------------------------
(***************************************************************************)
(* What the store promises a reader of its outbox (ADR-0001 section 5):    *)
(* a row and its journal change in one step.  The row is created once,     *)
(* every later change says what the row became, nothing removes a row, and *)
(* nothing that did not happen to the row is in its journal.               *)
(***************************************************************************)
EXTENDS Naturals, Sequences

CONSTANTS
  Ids,     \* row ids
  States,  \* the states of a row: records with at least deleted and version
  NoRow    \* the state of an id that was never inserted

VARIABLES
  row,     \* the current state of each row
  journal  \* what happened to each row, in order

Entry(op, state) == [op |-> op, version |-> state.version]

(* What row r becomes is one of States; its journal says so.               *)
Record(r, op) ==
  /\ row'[r] \in States
  /\ row' = [row EXCEPT ![r] = row'[r]]
  /\ journal' = [journal EXCEPT ![r] = Append(@, Entry(op, row'[r]))]

Create(r) ==
  /\ row[r] = NoRow
  /\ Record(r, "insert")
  /\ row'[r].version = 1
  /\ ~ row'[r].deleted

Change(r) ==
  /\ row[r] # NoRow
  /\ Record(r, IF row'[r].deleted THEN "delete" ELSE "update")
  /\ row'[r].version > 1

Init ==
  /\ row = [r \in Ids |-> NoRow]
  /\ journal = [r \in Ids |-> << >>]

Next == \E r \in Ids : Create(r) \/ Change(r)

Spec == Init /\ [][Next]_<<row, journal>>
=============================================================================
