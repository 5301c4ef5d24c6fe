---------------------------- MODULE StagingImport ----------------------------
(***************************************************************************)
(* The import of one staging set (core/src/cubes/staging): concurrent      *)
(* requests that post chunks, finish the import, name sensitive fields or  *)
(* delete the set.                                                         *)
(*                                                                         *)
(*   chunk:     load -> [lock -> insert rows .. -> tally, commit]          *)
(*                      failing that, update state := failed               *)
(*   finish:    load -> update state := done                               *)
(*   sensitive: load -> update sensitiveFields                             *)
(*   delete:    load -> [delete rows -> delete the set, commit]            *)
(*                                                                         *)
(* Brackets are one transaction (batch); the tally is an SQL increment.    *)
(* The rows of a chunk go in by INSERTs of BatchSize rows, 500 in the      *)
(* code, each of which counts the rows of the set anew.                    *)
(* An update is a SELECT and then a write of the whole merged row          *)
(* (RowStore).  Malformed lines are tallied like rows and left out.        *)
(***************************************************************************)
EXTENDS Integers, FiniteSets

CONSTANTS
  Calls,     \* requests: each runs one handler on the set
  Head,      \* the request that would post the first chunk of the file
  MaxLines,  \* the most lines a chunk has
  BatchSize, \* the most rows an INSERT has
  None,      \* no call
  NoSet      \* the set is deleted, or not read

VARIABLES
  format,  \* of the set's file, "csv" or "jsonl"
  op,      \* what each request does
  lines,   \* the lines of the chunk it posts
  stage,   \* where it is
  seen,    \* the set as its loadSet returned it
  read,    \* the set as its update's SELECT returned it
  own,     \* the rows its open transaction has inserted
  erased,  \* the rows its delete found
  prior,   \* history: the requests that had ended when its delete began
  lock,    \* the holder of the set's advisory lock
  set,     \* the row of the sets table
  rows,    \* the committed rows: which call inserted each, from which of
           \* its chunk's lines, and its number in the set
  crossed  \* history: the set changed under an update in progress

request == <<format, op, lines>>
vars == <<request, stage, seen, read, own, erased, prior, lock, set, rows, crossed>>

-----------------------------------------------------------------------------

SetRow == [state : {"importing", "done", "failed"}, rowCount : Int,
           header : Calls \cup {None}, sensitive : BOOLEAN]

Ops == {"chunk", "finish", "sensitive", "delete"}

(* broken: its batch threw; updating: its update's SELECT is done.  over:  *)
(* done, refused (4xx), thrown (500, after the state was set), dead.       *)
Over == {"done", "refused", "thrown", "dead"}
Stages == Over \cup {"idle", "loaded", "locked", "broken", "updating", "cleared"}

(* createSet.                                                              *)
NewSet == [state |-> "importing", rowCount |-> 0, header |-> None, sensitive |-> FALSE]

(* applyChunk: does the chunk's first line become the header?  It does     *)
(* where the set, as loaded, counts no rows.                               *)
IsFirst(c) == format = "csv" /\ seen[c].rowCount = 0

Parsed(c) ==
  IF format = "csv" /\ (IsFirst(c) \/ seen[c].header = None) THEN lines[c] - 1 ELSE lines[c]

Init ==
  /\ format \in {"csv", "jsonl"}
  /\ op \in [Calls -> Ops]
  /\ lines \in [Calls -> 0..MaxLines]
  /\ \A c \in Calls : lines[c] = 0 <=> op[c] # "chunk"
  /\ stage = [c \in Calls |-> "idle"]
  /\ seen = [c \in Calls |-> NoSet]
  /\ read = [c \in Calls |-> NoSet]
  /\ own = [c \in Calls |-> {}]
  /\ erased = [c \in Calls |-> {}]
  /\ prior = [c \in Calls |-> {}]
  /\ lock = None
  /\ set = NewSet
  /\ rows = {}
  /\ crossed = FALSE

Go(c, next) == stage' = [stage EXCEPT ![c] = next] /\ UNCHANGED request

(* loadSet; a chunk and a finish ask for an importing set.                 *)
Load(c) ==
  /\ stage[c] = "idle"
  /\ LET ok == set # NoSet /\ (op[c] \in {"chunk", "finish"} => set.state = "importing")
     IN  /\ Go(c, IF ok THEN "loaded" ELSE "refused")
         /\ seen' = [seen EXCEPT ![c] = IF ok THEN set ELSE NoSet]
  /\ prior' = [prior EXCEPT ![c] =
                 IF op[c] = "delete" THEN {d \in Calls : stage[d] \in Over} ELSE {}]
  /\ UNCHANGED <<read, own, erased, lock, set, rows, crossed>>

-----------------------------------------------------------------------------
(* A chunk.                                                                *)

(* Mutant: the batch does not open with the advisory lock.                 *)
NoLock(c) ==
  /\ stage[c] = "loaded"
  /\ op[c] = "chunk"
  /\ Go(c, "locked")
  /\ UNCHANGED <<seen, read, own, erased, prior, lock, set, rows, crossed>>

Lock(c) ==
  /\ stage[c] = "loaded"
  /\ op[c] = "chunk"
  /\ lock = None
  /\ lock' = c
  /\ Go(c, "locked")
  /\ UNCHANGED <<seen, read, own, erased, prior, set, rows, crossed>>

Row(c, line, num) == <<c, line, num>>

(* Mutant: every INSERT numbers its rows from the count before the chunk.  *)
InsertFromZero(c) ==
  LET start == Cardinality(own[c])
      end == IF Parsed(c) < start + BatchSize THEN Parsed(c) ELSE start + BatchSize
      base == Cardinality(rows) IN
  /\ stage[c] = "locked" /\ start < Parsed(c)
  /\ own' = [own EXCEPT ![c] = @ \cup {Row(c, i, base + (i - start)) : i \in start..(end - 1)}]
  /\ Go(c, "locked")
  /\ UNCHANGED <<seen, read, erased, prior, lock, set, rows, crossed>>

(* One INSERT, of the lines that are next.  It counts the rows it can see, *)
(* the committed ones and those of its transaction, and adds to the count  *)
(* the place of a line in the whole chunk.                                 *)
InsertRows(c) ==
  LET start == Cardinality(own[c])
      end == IF Parsed(c) < start + BatchSize THEN Parsed(c) ELSE start + BatchSize
      base == Cardinality(rows \cup own[c]) IN
  /\ stage[c] = "locked" /\ start < Parsed(c)
  /\ own' = [own EXCEPT ![c] = @ \cup {Row(c, i, base + i) : i \in start..(end - 1)}]
  /\ Go(c, "locked")
  /\ UNCHANGED <<seen, read, erased, prior, lock, set, rows, crossed>>

(* Mutant: the tally is computed from the set as the handler loaded it.    *)
TallySeen(c) ==
  [set EXCEPT !.rowCount = seen[c].rowCount + Parsed(c),
              !.header = IF IsFirst(c) THEN c ELSE @]

(* tallyStatement: increments the live row; a first CSV chunk stores its   *)
(* header.                                                                 *)
Tally(c) ==
  [set EXCEPT !.rowCount = @ + Parsed(c),
              !.header = IF IsFirst(c) THEN c ELSE @]

(* All lines are in, the transaction commits: the rows appear, the set is  *)
(* tallied if it is still there, the lock is released.                     *)
Commit(c) ==
  /\ stage[c] = "locked" /\ Cardinality(own[c]) = Parsed(c)
  /\ rows' = rows \cup own[c]
  /\ own' = [own EXCEPT ![c] = {}]
  /\ set' = IF set = NoSet THEN NoSet ELSE Tally(c)
  /\ lock' = None
  /\ crossed' = (crossed \/ \E d \in Calls : stage[d] = "updating")
  /\ Go(c, "done")
  /\ UNCHANGED <<seen, read, erased, prior>>

(* A statement of the batch throws: the transaction is rolled back.        *)
Throw(c) ==
  /\ \/ stage[c] = "loaded" /\ op[c] = "chunk"
     \/ stage[c] = "locked"
  /\ lock' = IF lock = c THEN None ELSE lock
  /\ own' = [own EXCEPT ![c] = {}]
  /\ Go(c, "broken")
  /\ UNCHANGED <<seen, read, erased, prior, set, rows, crossed>>

-----------------------------------------------------------------------------
(* store.update of the set: of finish, of sensitive, of a broken chunk.    *)

Ended(c) == IF op[c] = "chunk" THEN "thrown" ELSE "done"

(* Mutant: the state is not set when a batch throws.                       *)
SelectUnlessBroken(c) ==
  /\ stage[c] = "broken" \/ (stage[c] = "loaded" /\ op[c] \in {"finish", "sensitive"})
  /\ read' = [read EXCEPT ![c] = set]
  /\ Go(c, IF set = NoSet \/ stage[c] = "broken" THEN Ended(c) ELSE "updating")
  /\ UNCHANGED <<seen, own, erased, prior, lock, set, rows, crossed>>

(* A missing row is no error: the update returns undefined.                *)
Select(c) ==
  /\ stage[c] = "broken" \/ (stage[c] = "loaded" /\ op[c] \in {"finish", "sensitive"})
  /\ read' = [read EXCEPT ![c] = set]
  /\ Go(c, IF set = NoSet THEN Ended(c) ELSE "updating")
  /\ UNCHANGED <<seen, own, erased, prior, lock, set, rows, crossed>>

Patched(c) ==
  CASE op[c] = "chunk"     -> [read[c] EXCEPT !.state = "failed"]
    [] op[c] = "finish"    -> [read[c] EXCEPT !.state = "done"]
    [] op[c] = "sensitive" -> [read[c] EXCEPT !.sensitive = TRUE]

(* The whole row as read, patched; no row is written where none is left.   *)
Write(c) ==
  /\ stage[c] = "updating"
  /\ set' = IF set = NoSet THEN NoSet ELSE Patched(c)
  /\ crossed' = (crossed \/ \E d \in Calls \ {c} : stage[d] = "updating")
  /\ Go(c, Ended(c))
  /\ UNCHANGED <<seen, read, own, erased, prior, lock, rows>>

-----------------------------------------------------------------------------
(* A delete: one transaction of two statements, without the lock.          *)

(* Mutant: the set is deleted in a transaction of its own, first.          *)
DeleteApart(c) ==
  /\ stage[c] = "loaded"
  /\ op[c] = "delete"
  /\ erased' = [erased EXCEPT ![c] = rows]
  /\ set' = NoSet
  /\ Go(c, "cleared")
  /\ UNCHANGED <<seen, read, own, prior, lock, rows, crossed>>

DeleteRows(c) ==
  /\ stage[c] = "loaded"
  /\ op[c] = "delete"
  /\ erased' = [erased EXCEPT ![c] = rows]
  /\ Go(c, "cleared")
  /\ UNCHANGED <<seen, read, own, prior, lock, set, rows, crossed>>

DeleteSet(c) ==
  /\ stage[c] = "cleared"
  /\ rows' = rows \ erased[c]
  /\ set' = NoSet
  /\ Go(c, "done")
  /\ UNCHANGED <<seen, read, own, erased, prior, lock, crossed>>

(* The process dies, or the database under a handler that has no recourse: *)
(* an open transaction is rolled back, what was committed stays.           *)
Die(c) ==
  /\ stage[c] \notin Over \cup {"idle"}
  /\ lock' = IF lock = c THEN None ELSE lock
  /\ own' = [own EXCEPT ![c] = {}]
  /\ Go(c, "dead")
  /\ UNCHANGED <<seen, read, erased, prior, set, rows, crossed>>

Next ==
  \E c \in Calls :
    \/ Load(c)
    \/ Lock(c) \/ InsertRows(c) \/ Commit(c) \/ Throw(c)
    \/ Select(c) \/ Write(c)
    \/ DeleteRows(c) \/ DeleteSet(c)
    \/ Die(c)

Spec == Init /\ [][Next]_vars

-----------------------------------------------------------------------------

(* The state has its type; the tallies are never negative.                 *)
TypeOK ==
  /\ format \in {"csv", "jsonl"}
  /\ op \in [Calls -> Ops]
  /\ lines \in [Calls -> 0..MaxLines]
  /\ stage \in [Calls -> Stages]
  /\ seen \in [Calls -> SetRow \cup {NoSet}]
  /\ read \in [Calls -> SetRow \cup {NoSet}]
  /\ own \in [Calls -> SUBSET (Calls \X Nat \X Nat)]
  /\ erased \in [Calls -> SUBSET (Calls \X Nat \X Nat)]
  /\ prior \in [Calls -> SUBSET Calls]
  /\ lock \in Calls \cup {None}
  /\ set \in SetRow \cup {NoSet}
  /\ set # NoSet => set.rowCount >= 0
  /\ rows \subseteq Calls \X Nat \X Nat
  /\ crossed \in BOOLEAN

(* A chunk that takes more than one INSERT.                                *)
Long(c) == Parsed(c) > BatchSize

(* import-chunks.ts:9-13 and 28-33: however many chunks race, fail or die, *)
(* the rows of a set that is there are numbered 0, 1, ... with no number   *)
(* used twice and none left out, as long as no chunk takes a second        *)
(* INSERT; from one that does the numbers skip, since the place of a line  *)
(* is added to a count that has the chunk's own rows in it.  Only such a   *)
(* chunk can share a number with another, though the comment says that     *)
(* none can, and in a chunk the numbers always follow the lines.           *)
RowsAreNumbered ==
  set # NoSet =>
    /\ (\A r \in rows : ~ Long(r[1])) => {r[3] : r \in rows} = 0..(Cardinality(rows) - 1)
    /\ \A r, s \in rows :
         /\ r[1] # s[1] /\ r[3] = s[3] => Long(r[1]) \/ Long(s[1])
         /\ r[1] = s[1] /\ r[2] < s[2] => r[3] < s[3]
         /\ r[1] = s[1] /\ r[2] = s[2] => r = s

(* The tally of a set counts the rows it has, whatever chunks raced, as    *)
(* long as no update of the set overlapped another change of it.           *)
TallyCountsRows == set # NoSet /\ ~crossed => set.rowCount = Cardinality(rows)

(* handlers.ts:92-95: once the caller saw a chunk's batch throw, the set   *)
(* does not read as importing, unless overlapping updates undid it.        *)
ThrownChunkShows ==
  set # NoSet /\ ~crossed =>
    \A c \in Calls : stage[c] = "thrown" => set.state # "importing"

(* handlers.ts:142-143: a set that is gone was deleted by a request that   *)
(* took the rows with it.  Those a request still under way then commits    *)
(* later survive their set, no others: a delete takes no lock that a chunk *)
(* waits for, and a chunk does not look again whether its set is there.    *)
DeleteTakesTheRows ==
  set = NoSet =>
    \E d \in Calls : /\ op[d] = "delete"
                    /\ stage[d] = "done"
                    /\ \A r \in rows : r[1] \notin prior[d]

-----------------------------------------------------------------------------
(* A statement of the repository that the code does not keep.              *)

(* import-chunks.ts:121-123: the header is stored by the first chunk, and  *)
(* a chunk posted after it is not robbed of its first line.                *)
LaterChunkKeepsItsLines ==
  [][\A c \in Calls :
       /\ op[Head] = "chunk"
       /\ stage[Head] = "done"
       /\ op[c] = "chunk"
       /\ stage[c] = "idle"
       /\ stage'[c] = "loaded"
       => ~IsFirst(c)']_vars
=============================================================================
