------------------------------ MODULE RowStore ------------------------------
(***************************************************************************)
(* The CubeStore over Postgres (core/src/pg/store.ts): rows of one table   *)
(* of one cube, written by concurrent requests.  Every `insert` and        *)
(* `update` is one READ COMMITTED transaction of several statements; a     *)
(* statement is an action here, so the statements of two transactions      *)
(* interleave as they do in the database:                                  *)
(*                                                                         *)
(*   insert:  INSERT row                 -> outbox -> activity -> COMMIT   *)
(*   update:  SELECT row -> UPDATE row   -> outbox -> activity -> COMMIT   *)
(*                                                                         *)
(* What a transaction wrote is its own until COMMIT; INSERT and UPDATE     *)
(* hold the row's lock until the transaction ends; the SELECT takes none.  *)
(***************************************************************************)
EXTENDS Integers, FiniteSets

CONSTANTS
  Txs,      \* requests: each runs one insert or one update
  Rows,     \* row ids
  Entities, \* the rows whose type is the cube's capture entity
  Fields,   \* keys of the row body
  Vals,     \* values of a body key
  NoVal,    \* the value of a key the body does not hold
  Absent    \* an id nobody inserted; the target of a request that has none

ASSUME EntitiesAssumption == Entities \subseteq Rows
ASSUME NoValAssumption == NoVal \notin Vals

VARIABLES
  rows,       \* the committed rows
  outbox,     \* the committed qwbe.outbox records
  activity,   \* the committed qwbe.activity records
  outboxId,   \* the last id drawn from the outbox's bigserial
  activityId, \* the last id drawn from the activity's bigserial
  stage,      \* where each request's transaction is
  target,     \* the row it writes
  read,       \* an update: the row its SELECT returned
  patch,      \* what it sets: the body of an insert, the patch of an update
  oid, aid    \* the outbox and activity ids it drew, 0 before

db == <<rows, outbox, activity>>
vars == <<db, outboxId, activityId, stage, target, read, patch, oid, aid>>

-----------------------------------------------------------------------------

Body == [Fields -> Vals \cup {NoVal}]
Row == [deleted : BOOLEAN, version : Nat \ {0}, body : Body]

ASSUME AbsentAssumption == Absent \notin Rows \cup Row

(* Some keys and their new values; an undefined value drops the key from   *)
(* the stored JSON.                                                        *)
Keyed == UNION {[S -> Vals \cup {NoVal}] : S \in SUBSET Fields}

(* A soft delete is the patch {deleted: true}.                             *)
Patch == [deleted : BOOLEAN, keys : Keyed]
NoPatch == [deleted |-> FALSE, keys |-> [f \in {} |-> NoVal]]

Ops == {"insert", "update", "delete"}
OutboxRecord == [id : Nat, row : Rows, op : Ops, version : Nat]
ActivityRecord == [id : Nat, row : Rows, op : Ops, version : Nat, changes : Keyed]

Open == {"read", "written", "logged", "recorded"}
Stages == Open \cup {"idle", "committed", "aborted"}

(* Mutant: the SELECT of an update already takes a (shared) row lock.      *)
HoldsFromSelect(t, r) == stage[t] \in Open /\ target[t] = r

(* The lock an INSERT or an UPDATE takes on its row and keeps until the    *)
(* transaction ends.                                                       *)
Holds(t, r) == stage[t] \in {"written", "logged", "recorded"} /\ target[t] = r

EmptyBody == [f \in Fields |-> NoVal]

(* Mutant: a key the write removed is not in the diff.                     *)
DiffWithoutRemovals(before, after) ==
  [f \in {f \in Fields : before[f] # after[f] /\ after[f] # NoVal} |-> after[f]]

(* diffBody: the keys whose value differs, with the new value.             *)
Diff(before, after) ==
  [f \in {f \in Fields : before[f] # after[f]} |-> after[f]]

(* Mutant: deleted comes from the patch alone.                             *)
MergeForgetsDeleted(row, p) ==
  [deleted |-> p.deleted,
   version |-> row.version + 1,
   body    |-> [f \in Fields |-> IF f \in DOMAIN p.keys THEN p.keys[f] ELSE row.body[f]]]

(* The spread of patch p over the row as read, and the next version.       *)
Merge(row, p) ==
  [deleted |-> row.deleted \/ p.deleted,
   version |-> row.version + 1,
   body    |-> [f \in Fields |-> IF f \in DOMAIN p.keys THEN p.keys[f] ELSE row.body[f]]]

(* Mutant: an insert stores version 0.                                     *)
NewFromZero(t) ==
  IF read[t] = Absent THEN [deleted |-> FALSE, version |-> 0, body |-> patch[t].keys]
  ELSE Merge(read[t], patch[t])

(* The row request t writes, and its diff against the row it read; the     *)
(* values of a deleted row are withheld.                                   *)
New(t) ==
  IF read[t] = Absent THEN [deleted |-> FALSE, version |-> 1, body |-> patch[t].keys]
  ELSE Merge(read[t], patch[t])

Changes(t) ==
  IF New(t).deleted THEN NoPatch.keys
  ELSE Diff(IF read[t] = Absent THEN EmptyBody ELSE read[t].body, New(t).body)

(* ADR-0001 section 5: a soft delete is its own op.                        *)
Op(row) ==
  IF row.version = 1 THEN "insert" ELSE IF row.deleted THEN "delete" ELSE "update"

-----------------------------------------------------------------------------

Init ==
  /\ rows = [r \in Rows |-> Absent]
  /\ outbox = {}
  /\ activity = {}
  /\ outboxId = 0
  /\ activityId = 0
  /\ stage = [t \in Txs |-> "idle"]
  /\ target = [t \in Txs |-> Absent]
  /\ read = [t \in Txs |-> Absent]
  /\ patch = [t \in Txs |-> NoPatch]
  /\ oid = [t \in Txs |-> 0]
  /\ aid = [t \in Txs |-> 0]

(* insert: a row of version 1 under an id newId just made, so no other     *)
(* request has it.                                                         *)
Insert(t, r, body) ==
  /\ stage[t] = "idle"
  /\ rows[r] = Absent
  /\ \A u \in Txs : target[u] # r
  /\ stage' = [stage EXCEPT ![t] = "written"]
  /\ target' = [target EXCEPT ![t] = r]
  /\ patch' = [patch EXCEPT ![t] = [deleted |-> FALSE, keys |-> body]]
  /\ UNCHANGED <<db, outboxId, activityId, read, oid, aid>>

(* update, first statement: SELECT * WHERE id, with no lock and no filter  *)
(* on deleted.  Everything the transaction writes follows from it.         *)
Lookup(t, r, p) ==
  /\ stage[t] = "idle"
  /\ rows[r] # Absent
  /\ stage' = [stage EXCEPT ![t] = "read"]
  /\ target' = [target EXCEPT ![t] = r]
  /\ read' = [read EXCEPT ![t] = rows[r]]
  /\ patch' = [patch EXCEPT ![t] = p]
  /\ UNCHANGED <<db, outboxId, activityId, oid, aid>>

(* Mutant: the write does not wait for the row's lock.                     *)
WriteWithoutLock(t) ==
  /\ stage[t] = "read"
  /\ stage' = [stage EXCEPT ![t] = "written"]
  /\ UNCHANGED <<db, outboxId, activityId, target, read, patch, oid, aid>>

(* update, second statement: UPDATE ... WHERE id.  It waits for the row's  *)
(* lock, and then writes over whatever was committed since the SELECT.     *)
Write(t) ==
  /\ stage[t] = "read"
  /\ \A u \in Txs \ {t} : ~ Holds(u, target[t])
  /\ stage' = [stage EXCEPT ![t] = "written"]
  /\ UNCHANGED <<db, outboxId, activityId, target, read, patch, oid, aid>>

(* outboxInsert: the id is drawn now, the record is visible at COMMIT.     *)
LogOutbox(t) ==
  /\ stage[t] = "written"
  /\ stage' = [stage EXCEPT ![t] = "logged"]
  /\ outboxId' = outboxId + 1
  /\ oid' = [oid EXCEPT ![t] = outboxId + 1]
  /\ UNCHANGED <<db, activityId, target, read, patch, aid>>

(* activityInsert, for rows of the capture entity only.                    *)
LogActivity(t) ==
  /\ stage[t] = "logged"
  /\ target[t] \in Entities
  /\ stage' = [stage EXCEPT ![t] = "recorded"]
  /\ activityId' = activityId + 1
  /\ aid' = [aid EXCEPT ![t] = activityId + 1]
  /\ UNCHANGED <<db, outboxId, target, read, patch, oid>>

(* The request is over: what its transaction held is forgotten.            *)
End(t, how) ==
  /\ stage' = [stage EXCEPT ![t] = how]
  /\ target' = [target EXCEPT ![t] = Absent]
  /\ read' = [read EXCEPT ![t] = Absent]
  /\ patch' = [patch EXCEPT ![t] = NoPatch]
  /\ oid' = [oid EXCEPT ![t] = 0]
  /\ aid' = [aid EXCEPT ![t] = 0]
  /\ UNCHANGED <<outboxId, activityId>>

OutboxOf(t) ==
  [id |-> oid[t], row |-> target[t], op |-> Op(New(t)), version |-> New(t).version]

ActivityOf(t) ==
  [id |-> aid[t], row |-> target[t], op |-> Op(New(t)), version |-> New(t).version,
   changes |-> Changes(t)]

(* COMMIT publishes the row and its records together.                      *)
Commit(t) ==
  /\ stage[t] = IF target[t] \in Entities THEN "recorded" ELSE "logged"
  /\ rows' = [rows EXCEPT ![target[t]] = New(t)]
  /\ outbox' = outbox \cup {OutboxOf(t)}
  /\ activity' = IF target[t] \in Entities THEN activity \cup {ActivityOf(t)} ELSE activity
  /\ End(t, "committed")

(* Mutant: the outbox is written outside the transaction.                  *)
AbortKeepsOutbox(t) ==
  /\ stage[t] \in Open
  /\ outbox' = IF oid[t] # 0 THEN outbox \cup {OutboxOf(t)} ELSE outbox
  /\ UNCHANGED <<rows, activity>>
  /\ End(t, "aborted")

(* A refused custom cap, a failed CHECK, a lost connection or the process  *)
(* dying: the transaction is rolled back, the drawn ids are not.           *)
Abort(t) ==
  /\ stage[t] \in Open
  /\ UNCHANGED db
  /\ End(t, "aborted")

Step(t) == Write(t) \/ LogOutbox(t) \/ LogActivity(t) \/ Commit(t)

Next ==
  \E t \in Txs :
    \/ \E r \in Rows, body \in Body : Insert(t, r, body)
    \/ \E r \in Rows, p \in Patch : Lookup(t, r, p)
    \/ Step(t)
    \/ Abort(t)

Spec == Init /\ [][Next]_vars

(* The runtime keeps driving a transaction it has begun, and Postgres a    *)
(* statement whose lock is free.                                           *)
FairSpec == Spec /\ \A t \in Txs : WF_vars(Step(t))

-----------------------------------------------------------------------------

(* The state has its type.                                                 *)
TypeOK ==
  /\ rows \in [Rows -> Row \cup {Absent}]
  /\ outbox \subseteq OutboxRecord
  /\ activity \subseteq ActivityRecord
  /\ outboxId \in Nat
  /\ activityId \in Nat
  /\ stage \in [Txs -> Stages]
  /\ target \in [Txs -> Rows \cup {Absent}]
  /\ read \in [Txs -> Row \cup {Absent}]
  /\ patch \in [Txs -> Patch]
  /\ oid \in [Txs -> Nat]
  /\ aid \in [Txs -> Nat]

(* ADR-0001 section 5, "there is no state in which the row changed and the *)
(* event did not": read in the order of their ids, the outbox records of a *)
(* row end with the state the row has, whatever the interleaving.  The ids *)
(* are drawn inside the row lock; drawn before it, they could disagree.    *)
OutboxTellsTheRow ==
  \A r \in Rows :
    /\ rows[r] # Absent => \E e \in outbox : e.row = r
    /\ \A e \in outbox :
         e.row = r /\ (\A o \in outbox : o.row = r => o.id <= e.id)
           => /\ rows[r] # Absent
              /\ e.version = rows[r].version
              /\ e.op = Op(rows[r])

(* The two logs of one write agree: for rows of the capture entity the     *)
(* activity is the outbox, record for record and in the same order; other  *)
(* rows have none.  The ids come from two sequences, drawn at two moments. *)
LogsAgree ==
  /\ \A a \in activity :
       /\ a.row \in Entities
       /\ \E e \in outbox :
            /\ <<e.row, e.op, e.version>> = <<a.row, a.op, a.version>>
            /\ Cardinality({o \in outbox : o.row = e.row /\ o.id <= e.id})
                 = Cardinality({b \in activity : b.row = a.row /\ b.id <= a.id})
  /\ \A r \in Entities :
       Cardinality({o \in outbox : o.row = r}) = Cardinality({a \in activity : a.row = r})

Newest(log) == CHOOSE a \in log : \A b \in log : b.id <= a.id

(* The value of key f that the activity of row r tells: what the last      *)
(* record that mentions f says.                                            *)
Told(r, f) ==
  LET about == {a \in activity : a.row = r /\ f \in DOMAIN a.changes}
  IN  IF about = {} THEN NoVal ELSE Newest(about).changes[f]

(* Later outbox records of row r carry greater versions: no write of r     *)
(* started from a row that another write then replaced.                    *)
WritesInTurn(r) ==
  \A e, o \in outbox : e.row = r /\ o.row = r /\ e.id < o.id => e.version < o.version

(* What 0003-activity.sql promises, as far as the code keeps it: the       *)
(* activity of a live row replays to its body when the row's versions were *)
(* given out in turn.  So a body that disagrees with its activity shows in *)
(* the versions.                                                           *)
InTurnActivityReplays ==
  \A r \in Entities :
    rows[r] # Absent /\ WritesInTurn(r) /\ ~ rows[r].deleted
      => rows[r].body = [f \in Fields |-> Told(r, f)]

(* A soft delete is final as long as writes come in turn: only a write     *)
(* that read the row before the delete committed brings it back, and then  *)
(* the versions of the outbox tell.                                        *)
InTurnDeleteIsFinal ==
  \A r \in Rows :
    WritesInTurn(r) /\ (\E e \in outbox : e.row = r /\ e.op = "delete") => rows[r].deleted

(* What the logs of a row tell is so: the activity of a row is its outbox, *)
(* record for record (LogsAgree); while its versions are given out in      *)
(* turn, the activity replays to the live body (InTurnActivityReplays),    *)
(* and nothing brings a deleted row back (InTurnDeleteIsFinal).            *)
(* rows.ts:48-166, 0003-activity.sql.                                      *)
LogsTellTheRow == LogsAgree /\ InTurnActivityReplays /\ InTurnDeleteIsFinal

(* A request that began is answered: waiting for a row lock never becomes  *)
(* waiting for each other.                                                 *)
EveryRequestEnds == \A t \in Txs : stage[t] \in Open ~> stage[t] \in {"committed", "aborted"}

-----------------------------------------------------------------------------
(* Statements of the repository that the interleavings refute.             *)

(* store.ts:195, "`custom` merges (rows.ts), so a partial PATCH cannot     *)
(* wipe sibling values": a commit changes no key its patch does not name.  *)
PatchKeepsSiblings ==
  [][\A t \in Txs :
       stage[t] # "committed" /\ stage'[t] = "committed" /\ rows[target[t]] # Absent
         => LET r == target[t]
            IN  \A f \in Fields \ DOMAIN patch[t].keys : rows'[r].body[f] = rows[r].body[f]]_vars
=============================================================================
