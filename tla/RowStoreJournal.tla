--------------------------- MODULE RowStoreJournal ---------------------------
(***************************************************************************)
(* RowStore implements ChangeJournal: the committed rows are its rows, and *)
(* the outbox, read per row in the order of its ids, is its journal.       *)
(***************************************************************************)
EXTENDS RowStore, Sequences

(* The i-th record of a log, in the order of the ids.                      *)
Nth(log, i) == CHOOSE e \in log : Cardinality({o \in log : o.id <= e.id}) = i

(* The outbox records of row r, oldest id first.                           *)
History(r) ==
  LET mine == {e \in outbox : e.row = r}
  IN  [i \in 1 .. Cardinality(mine) |-> [op |-> Nth(mine, i).op, version |-> Nth(mine, i).version]]

Journal ==
  INSTANCE ChangeJournal
    WITH Ids <- Rows, States <- Row, NoRow <- Absent,
         row <- rows, journal <- [r \in Rows |-> History(r)]

(* The store implements the journal: no commit, rollback or order of       *)
(* commits shows a reader of the outbox anything but the row's own past.   *)
ImplementsJournal == Journal!Spec
=============================================================================
