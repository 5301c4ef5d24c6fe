---------------------------- MODULE MCStore_proofs ----------------------------
(***************************************************************************)
(* Proofs about RowStore, for any number of requests, rows and keys, and   *)
(* about SetupLocks, for any number of processes, schemas, callers and     *)
(* migration files.                                                        *)
(***************************************************************************)
EXTENDS MCStore, FiniteSetTheorems, SequenceTheorems, TLAPS

(* A request has a target exactly while its transaction is open; an update *)
(* is one that read a row, which is still there because rows stay; an      *)
(* insert owns its id, and sets every key of the body.                     *)
TargetInv ==
  \A t \in Txs :
    /\ stage[t] \in Open <=> target[t] # Absent
    /\ stage[t] = "read" => read[t] # Absent
    /\ read[t] # Absent => target[t] # Absent /\ rows[target[t]] # Absent
    /\ target[t] # Absent /\ read[t] = Absent
         => /\ rows[target[t]] = Absent
            /\ patch[t].keys \in Body
            /\ \A u \in Txs : target[u] = target[t] => u = t

(* Two transactions never hold one row.                                    *)
LockInv ==
  \A t, u \in Txs : \A r \in Rows : Holds(t, r) /\ Holds(u, r) => t = u

(* Ids are drawn in increasing order, and the id a transaction draws while *)
(* it holds its row is above every committed record of that row.           *)
IdInv ==
  /\ \A e \in outbox : e.id <= outboxId
  /\ \A t \in Txs :
       stage[t] \in {"logged", "recorded"} =>
         /\ oid[t] <= outboxId
         /\ \A e \in outbox : e.row = target[t] => e.id < oid[t]

(* The strengthening of OutboxTellsTheRow that steps preserve.             *)
IInv == TypeOK /\ TargetInv /\ LockInv /\ IdInv /\ OutboxTellsTheRow

-----------------------------------------------------------------------------

(* The merge of a patch into a row is a row of a later version.            *)
LEMMA MergeType ==
  ASSUME NEW row \in Row, NEW p \in Patch
  PROVE  Merge(row, p) \in Row /\ Merge(row, p).version > 1
<1>1. \A f \in DOMAIN p.keys : p.keys[f] \in Vals \cup {NoVal}
  BY DEF Patch, Keyed
<1>2. [f \in Fields |-> IF f \in DOMAIN p.keys THEN p.keys[f] ELSE row.body[f]] \in Body
  BY <1>1 DEF Row, Body
<1>3. (row.deleted \/ p.deleted) \in BOOLEAN
  BY DEF Row, Patch
<1>4. row.version + 1 \in Nat \ {0} /\ row.version + 1 > 1
  BY DEF Row
<1>5. Merge(row, p) = [deleted |-> row.deleted \/ p.deleted, version |-> row.version + 1,
        body |-> [f \in Fields |-> IF f \in DOMAIN p.keys THEN p.keys[f] ELSE row.body[f]]]
  BY DEF Merge
<1>6. QED
  BY <1>2, <1>3, <1>4, <1>5 DEF Row

(* What an open transaction writes is a row; an insert writes version 1,   *)
(* an update a later one.                                                  *)
LEMMA NewType ==
  ASSUME TypeOK, TargetInv, NEW t \in Txs, stage[t] \in Open
  PROVE  /\ target[t] \in Rows
         /\ New(t) \in Row
<1>1. target[t] \in Rows
  BY DEF TypeOK, TargetInv
<1>2. CASE read[t] = Absent
  <2>1. patch[t].keys \in Body
    BY <1>1, <1>2, AbsentAssumption DEF TargetInv
  <2> QED
    BY <1>1, <1>2, <2>1 DEF New, Row
<1>3. CASE read[t] # Absent
  <2>1. read[t] \in Row /\ patch[t] \in Patch
    BY <1>3 DEF TypeOK
  <2> QED
    BY <1>1, <1>3, <2>1, MergeType DEF New
<1> QED
  BY <1>2, <1>3

LEMMA InitInv == Init => IInv
<1> SUFFICES ASSUME Init PROVE IInv
  OBVIOUS
<1>1. NoPatch \in Patch
  <2>1. [f \in {} |-> NoVal] \in [{} -> Vals \cup {NoVal}]
    OBVIOUS
  <2>2. [f \in {} |-> NoVal] \in Keyed
    BY <2>1 DEF Keyed
  <2> QED
    BY <2>2 DEF NoPatch, Patch
<1>2. TypeOK
  BY <1>1 DEF Init, TypeOK, Stages
<1>3. TargetInv
  BY DEF Init, TargetInv, Open
<1>4. LockInv /\ IdInv
  BY DEF Init, LockInv, IdInv, Holds
<1>5. OutboxTellsTheRow
  BY DEF Init, OutboxTellsTheRow
<1> QED
  BY <1>2, <1>3, <1>4, <1>5 DEF IInv

(* What Abort and Commit share: the transaction forgets its row.           *)
LEMMA EndEffect ==
  ASSUME TypeOK, NEW t \in Txs, NEW how \in {"committed", "aborted"}, End(t, how)
  PROVE  /\ stage' = [stage EXCEPT ![t] = how]
         /\ target' = [target EXCEPT ![t] = Absent]
         /\ read' = [read EXCEPT ![t] = Absent]
         /\ oid' = [oid EXCEPT ![t] = 0]
         /\ UNCHANGED outboxId
  BY DEF End

(* The type is kept by every step.                                         *)
LEMMA TypeStep == TypeOK /\ TargetInv /\ [Next]_vars => TypeOK'
<1> SUFFICES ASSUME TypeOK, TargetInv, [Next]_vars PROVE TypeOK'
  OBVIOUS
<1>0. NoPatch \in Patch
  <2>1. [f \in {} |-> NoVal] \in [{} -> Vals \cup {NoVal}]
    OBVIOUS
  <2>2. [f \in {} |-> NoVal] \in Keyed
    BY <2>1 DEF Keyed
  <2> QED
    BY <2>2 DEF NoPatch, Patch
<1>1. ASSUME NEW t \in Txs, NEW r \in Rows, NEW body \in Body, Insert(t, r, body)
      PROVE  TypeOK'
  <2>1. [deleted |-> FALSE, keys |-> body] \in Patch
    BY DEF Body, Patch, Keyed
  <2> QED
    BY <1>1, <2>1 DEF Insert, TypeOK, Stages, Open, db
<1>2. ASSUME NEW t \in Txs, NEW r \in Rows, NEW p \in Patch, Lookup(t, r, p)
      PROVE  TypeOK'
  BY <1>2 DEF Lookup, TypeOK, Stages, Open, db
<1>3. ASSUME NEW t \in Txs, Write(t)
      PROVE  TypeOK'
  BY <1>3 DEF Write, TypeOK, Stages, Open, db
<1>4. ASSUME NEW t \in Txs, LogOutbox(t)
      PROVE  TypeOK'
  BY <1>4 DEF LogOutbox, TypeOK, Stages, Open, db
<1>5. ASSUME NEW t \in Txs, LogActivity(t)
      PROVE  TypeOK'
  BY <1>5 DEF LogActivity, TypeOK, Stages, Open, db
<1>6. ASSUME NEW t \in Txs, Commit(t)
      PROVE  TypeOK'
  <2>1. target[t] \in Rows /\ New(t) \in Row
    BY <1>6, NewType DEF Commit, Open
  <2>2. OutboxOf(t) \in OutboxRecord
    BY <2>1 DEF OutboxOf, OutboxRecord, TypeOK, Row, Ops, Op
  <2>3. ActivityOf(t) \in ActivityRecord
    <3>1. Changes(t) \in Keyed
      <4>1. NoPatch.keys \in Keyed
        BY <1>0 DEF Patch
      <4>2. ASSUME NEW before \in Body, NEW after \in Body PROVE Diff(before, after) \in Keyed
        <5> DEFINE S == {f \in Fields : before[f] # after[f]}
        <5>1. S \in SUBSET Fields
          OBVIOUS
        <5>2. Diff(before, after) \in [S -> Vals \cup {NoVal}]
          BY DEF Diff, Body
        <5> QED
          BY <5>1, <5>2 DEF Keyed
      <4>3. EmptyBody \in Body
        BY DEF EmptyBody, Body
      <4>4. read[t] # Absent => read[t].body \in Body
        BY DEF TypeOK, Row
      <4>5. New(t).body \in Body
        BY <2>1 DEF Row
      <4> QED
        BY <4>1, <4>2, <4>3, <4>4, <4>5 DEF Changes
    <3> QED
      BY <2>1, <3>1 DEF ActivityOf, ActivityRecord, TypeOK, Row, Ops, Op
  <2> QED
    BY <1>0, <1>6, <2>1, <2>2, <2>3 DEF Commit, End, TypeOK, Stages
<1>7. ASSUME NEW t \in Txs, Abort(t)
      PROVE  TypeOK'
  BY <1>0, <1>7 DEF Abort, End, TypeOK, Stages, db
<1>8. CASE UNCHANGED vars
  BY <1>8 DEF TypeOK, vars, db
<1> QED
  BY <1>1, <1>2, <1>3, <1>4, <1>5, <1>6, <1>7, <1>8 DEF Next, Step

(* Requests keep their targets in order: the facts an insert and an update *)
(* rely on when they commit.                                               *)
LEMMA TargetStep == TypeOK /\ TargetInv /\ [Next]_vars => TargetInv'
<1> SUFFICES ASSUME TypeOK, TargetInv, [Next]_vars PROVE TargetInv'
  OBVIOUS
<1> USE AbsentAssumption DEF Open
<1>1. ASSUME NEW t \in Txs, NEW r \in Rows, NEW body \in Body, Insert(t, r, body)
      PROVE  TargetInv'
  BY <1>1 DEF Insert, TargetInv, TypeOK, db
<1>2. ASSUME NEW t \in Txs, NEW r \in Rows, NEW p \in Patch, Lookup(t, r, p)
      PROVE  TargetInv'
  BY <1>2 DEF Lookup, TargetInv, TypeOK, db
<1>3. ASSUME NEW t \in Txs, Write(t)
      PROVE  TargetInv'
  BY <1>3 DEF Write, TargetInv, TypeOK, db
<1>4. ASSUME NEW t \in Txs, LogOutbox(t)
      PROVE  TargetInv'
  BY <1>4 DEF LogOutbox, TargetInv, TypeOK, db
<1>5. ASSUME NEW t \in Txs, LogActivity(t)
      PROVE  TargetInv'
  BY <1>5 DEF LogActivity, TargetInv, TypeOK, db
<1>6. ASSUME NEW t \in Txs, Commit(t)
      PROVE  TargetInv'
  <2>1. target[t] \in Rows /\ New(t) \in Row
    BY <1>6, NewType DEF Commit
  <2> QED
    BY <1>6, <2>1 DEF Commit, End, TargetInv, TypeOK
<1>7. ASSUME NEW t \in Txs, Abort(t)
      PROVE  TargetInv'
  BY <1>7 DEF Abort, End, TargetInv, TypeOK, db
<1>8. CASE UNCHANGED vars
  BY <1>8 DEF TargetInv, vars, db
<1> QED
  BY <1>1, <1>2, <1>3, <1>4, <1>5, <1>6, <1>7, <1>8 DEF Next, Step

(* A row has one writer at a time.                                         *)
LEMMA LockStep == TypeOK /\ TargetInv /\ LockInv /\ [Next]_vars => LockInv'
<1> SUFFICES ASSUME TypeOK, TargetInv, LockInv, [Next]_vars PROVE LockInv'
  OBVIOUS
<1> USE AbsentAssumption DEF Holds, Open
<1>1. ASSUME NEW t \in Txs, NEW r \in Rows, NEW body \in Body, Insert(t, r, body)
      PROVE  LockInv'
  BY <1>1 DEF Insert, LockInv, TypeOK
<1>2. ASSUME NEW t \in Txs, NEW r \in Rows, NEW p \in Patch, Lookup(t, r, p)
      PROVE  LockInv'
  BY <1>2 DEF Lookup, LockInv, TypeOK
<1>3. ASSUME NEW t \in Txs, Write(t)
      PROVE  LockInv'
  BY <1>3 DEF Write, LockInv, TypeOK
<1>4. ASSUME NEW t \in Txs, LogOutbox(t)
      PROVE  LockInv'
  BY <1>4 DEF LogOutbox, LockInv, TypeOK
<1>5. ASSUME NEW t \in Txs, LogActivity(t)
      PROVE  LockInv'
  BY <1>5 DEF LogActivity, LockInv, TypeOK
<1>6. ASSUME NEW t \in Txs, Commit(t)
      PROVE  LockInv'
  BY <1>6 DEF Commit, End, LockInv, TypeOK
<1>7. ASSUME NEW t \in Txs, Abort(t)
      PROVE  LockInv'
  BY <1>7 DEF Abort, End, LockInv, TypeOK
<1>8. CASE UNCHANGED vars
  BY <1>8 DEF LockInv, vars
<1> QED
  BY <1>1, <1>2, <1>3, <1>4, <1>5, <1>6, <1>7, <1>8 DEF Next, Step

(* Only a commit touches the tables, so the ids and the records keep their *)
(* order until one, and a commit leaves the ids of other rows alone.       *)
LEMMA IdStep == IInv /\ [Next]_vars => IdInv'
<1> SUFFICES ASSUME IInv, [Next]_vars PROVE IdInv'
  OBVIOUS
<1> USE AbsentAssumption DEF IInv, Open
<1>1. ASSUME NEW t \in Txs, NEW r \in Rows, NEW body \in Body, Insert(t, r, body)
      PROVE  IdInv'
  BY <1>1 DEF Insert, IdInv, TypeOK, db
<1>2. ASSUME NEW t \in Txs, NEW r \in Rows, NEW p \in Patch, Lookup(t, r, p)
      PROVE  IdInv'
  BY <1>2 DEF Lookup, IdInv, TypeOK, db
<1>3. ASSUME NEW t \in Txs, Write(t)
      PROVE  IdInv'
  BY <1>3 DEF Write, IdInv, TypeOK, db
<1>4. ASSUME NEW t \in Txs, LogOutbox(t)
      PROVE  IdInv'
  BY <1>4 DEF LogOutbox, IdInv, TypeOK, OutboxRecord, db
<1>5. ASSUME NEW t \in Txs, LogActivity(t)
      PROVE  IdInv'
  BY <1>5 DEF LogActivity, IdInv, TypeOK, db
<1>6. ASSUME NEW t \in Txs, Commit(t)
      PROVE  IdInv'
  <2>1. stage[t] \in {"logged", "recorded"} /\ target[t] \in Rows
    BY <1>6, NewType DEF Commit
  <2>2. \A u \in Txs \ {t} : stage[u] \in {"logged", "recorded"} => target[u] # target[t]
    BY <2>1 DEF LockInv, Holds
  <2>3. OutboxOf(t).id = oid[t] /\ OutboxOf(t).row = target[t]
    BY DEF OutboxOf
  <2> QED
    BY <1>6, <2>1, <2>2, <2>3 DEF Commit, End, IdInv, TypeOK
<1>7. ASSUME NEW t \in Txs, Abort(t)
      PROVE  IdInv'
  BY <1>7 DEF Abort, End, IdInv, TypeOK, db
<1>8. CASE UNCHANGED vars
  BY <1>8 DEF IdInv, vars, db
<1> QED
  BY <1>1, <1>2, <1>3, <1>4, <1>5, <1>6, <1>7, <1>8 DEF Next, Step

(* A commit makes its own record the last of its row: the id was drawn     *)
(* under the row's lock, after every committed record of the row.          *)
LEMMA OutboxStep == IInv /\ [Next]_vars => OutboxTellsTheRow'
<1> SUFFICES ASSUME IInv, [Next]_vars PROVE OutboxTellsTheRow'
  OBVIOUS
<1> USE DEF IInv
<1>1. CASE UNCHANGED <<rows, outbox>>
  BY <1>1 DEF OutboxTellsTheRow
<1>2. ASSUME NEW t \in Txs, Commit(t)
      PROVE  OutboxTellsTheRow'
  <2>1. stage[t] \in {"logged", "recorded"} /\ target[t] \in Rows /\ New(t) \in Row
    BY <1>2, NewType DEF Commit, Open
  <2>2. rows' = [rows EXCEPT ![target[t]] = New(t)] /\ outbox' = outbox \cup {OutboxOf(t)}
    BY <1>2 DEF Commit
  <2>3. /\ OutboxOf(t).id = oid[t]
        /\ OutboxOf(t).row = target[t]
        /\ OutboxOf(t).version = New(t).version
        /\ OutboxOf(t).op = Op(New(t))
    BY DEF OutboxOf
  <2>4. \A e \in outbox : e.row = target[t] => e.id < oid[t] /\ e.id \in Nat
    BY <2>1 DEF IdInv, TypeOK, OutboxRecord
  <2>5. ASSUME NEW r \in Rows, r # target[t]
        PROVE  /\ rows'[r] = rows[r]
               /\ \A e \in outbox' : e.row = r => e \in outbox
    BY <2>2, <2>3, <2>5 DEF TypeOK
  <2>6. rows'[target[t]] = New(t) /\ New(t) # Absent
    BY <2>1, <2>2, AbsentAssumption DEF TypeOK
  <2>7. ASSUME NEW e \in outbox', e.row = target[t],
               \A o \in outbox' : o.row = target[t] => o.id <= e.id
        PROVE  e = OutboxOf(t)
    <3>1. OutboxOf(t).id <= e.id
      BY <2>2, <2>3, <2>7
    <3> QED
      BY <2>2, <2>3, <2>4, <2>7, <3>1 DEF TypeOK
  <2>8. ASSUME NEW r \in Rows
        PROVE  /\ rows'[r] # Absent => \E e \in outbox' : e.row = r
               /\ \A e \in outbox' :
                    e.row = r /\ (\A o \in outbox' : o.row = r => o.id <= e.id)
                      => /\ rows'[r] # Absent
                         /\ e.version = rows'[r].version
                         /\ e.op = Op(rows'[r])
    <3>1. CASE r = target[t]
      BY <3>1, <2>2, <2>3, <2>6, <2>7
    <3>2. CASE r # target[t]
      BY <3>2, <2>2, <2>5 DEF OutboxTellsTheRow
    <3> QED
      BY <3>1, <3>2
  <2> QED
    BY <2>8 DEF OutboxTellsTheRow, Op
<1>3. ASSUME NEW t \in Txs, ~ Commit(t), Step(t) \/ Abort(t)
      PROVE  UNCHANGED <<rows, outbox>>
  BY <1>3 DEF Step, Write, LogOutbox, LogActivity, Abort, db
<1>4. ASSUME NEW t \in Txs,
             \/ \E r \in Rows, body \in Body : Insert(t, r, body)
             \/ \E r \in Rows, p \in Patch : Lookup(t, r, p)
      PROVE  UNCHANGED <<rows, outbox>>
  BY <1>4 DEF Insert, Lookup, db
<1> QED
  BY <1>1, <1>2, <1>3, <1>4 DEF Next, vars, db

LEMMA Inductive == Spec => []IInv
<1>1. IInv /\ [Next]_vars => IInv'
  BY TypeStep, TargetStep, LockStep, IdStep, OutboxStep DEF IInv
<1> QED
  BY InitInv, <1>1, PTL DEF Spec

(* The store's state always has its type.                                  *)
THEOREM TypeCorrect == Spec => []TypeOK
<1>1. IInv => TypeOK
  BY DEF IInv
<1> QED
  BY Inductive, <1>1, PTL

(* No interleaving, rollback or stale write makes the last outbox record   *)
(* of a row tell another state than the one the row has.                   *)
THEOREM OutboxIsTheRow == Spec => []OutboxTellsTheRow
<1>1. IInv => OutboxTellsTheRow
  BY DEF IInv
<1> QED
  BY Inductive, <1>1, PTL
-----------------------------------------------------------------------------
(* The logs: what the activity tells is what the outbox tells, and both    *)
(* tell the row.                                                           *)

FiniteInv == IsFiniteSet(outbox) /\ IsFiniteSet(activity)

(* The activity's ids, drawn under the row lock as the outbox's are.       *)
ActivityIdInv ==
  /\ \A a \in activity : a.id <= activityId
  /\ \A t \in Txs :
       stage[t] = "recorded" =>
         /\ aid[t] <= activityId
         /\ \A a \in activity : a.row = target[t] => a.id < aid[t]

(* A row that is there has a last outbox record; one that is not has none. *)
PresenceInv ==
  \A r \in Rows :
    /\ rows[r] # Absent
         => \E e \in outbox : e.row = r /\ \A o \in outbox : o.row = r => o.id <= e.id
    /\ rows[r] = Absent
         => (\A e \in outbox : e.row # r) /\ (\A a \in activity : a.row # r)

(* While versions are given out in turn, a row that an update read and     *)
(* another write replaced since has a version beyond the one it read.      *)
ReadInv ==
  \A t \in Txs :
    read[t] # Absent /\ WritesInTurn(target[t])
      => read[t] = rows[target[t]] \/ read[t].version < rows[target[t]].version

(* The strengthening of LogsTellTheRow that steps preserve.                *)
LogInv ==
  /\ IInv
  /\ FiniteInv
  /\ ActivityIdInv
  /\ PresenceInv
  /\ ReadInv
  /\ LogsTellTheRow

OfRow(log, r) == {e \in log : e.row = r}
UpTo(log, r, i) == {e \in log : e.row = r /\ e.id <= i}

(* A record x with the greatest id of its row comes after the row's other  *)
(* records, and moves none of them.                                        *)
LEMMA RankAppend ==
  ASSUME NEW log, IsFiniteSet(log), \A e \in log : e.id \in Nat,
         NEW x, x.id \in Nat, \A e \in log : e.row = x.row => e.id < x.id
  PROVE  /\ IsFiniteSet(log \cup {x})
         /\ x \notin log
         /\ Cardinality(OfRow(log, x.row)) \in Nat
         /\ Cardinality(OfRow(log \cup {x}, x.row)) = Cardinality(OfRow(log, x.row)) + 1
         /\ Cardinality(UpTo(log \cup {x}, x.row, x.id)) = Cardinality(OfRow(log, x.row)) + 1
         /\ \A e \in log : UpTo(log \cup {x}, e.row, e.id) = UpTo(log, e.row, e.id)
         /\ \A r : r # x.row => OfRow(log \cup {x}, r) = OfRow(log, r)
         /\ \A e \in log : Cardinality(UpTo(log, e.row, e.id)) \in Nat
         /\ \A e \in OfRow(log, x.row) :
              Cardinality(UpTo(log, e.row, e.id)) <= Cardinality(OfRow(log, x.row))
<1>1. IsFiniteSet(log \cup {x})
  BY FS_AddElement
<1>2. x \notin log
  OBVIOUS
<1>3. IsFiniteSet(OfRow(log, x.row)) /\ x \notin OfRow(log, x.row)
  BY <1>2, FS_Subset DEF OfRow
<1>4. OfRow(log \cup {x}, x.row) = OfRow(log, x.row) \cup {x}
  BY DEF OfRow
<1>5. UpTo(log \cup {x}, x.row, x.id) = OfRow(log, x.row) \cup {x}
  BY DEF OfRow, UpTo
<1>6. Cardinality(OfRow(log, x.row) \cup {x}) = Cardinality(OfRow(log, x.row)) + 1
  BY <1>3, FS_AddElement
<1>7. Cardinality(OfRow(log, x.row)) \in Nat
  BY <1>3, FS_CardinalityType
<1>8. ASSUME NEW e \in log
      PROVE  /\ UpTo(log \cup {x}, e.row, e.id) = UpTo(log, e.row, e.id)
             /\ Cardinality(UpTo(log, e.row, e.id)) \in Nat
  <2>1. UpTo(log \cup {x}, e.row, e.id) = UpTo(log, e.row, e.id)
    BY DEF UpTo
  <2>2. IsFiniteSet(UpTo(log, e.row, e.id))
    BY FS_Subset DEF UpTo
  <2> QED
    BY <2>1, <2>2, FS_CardinalityType
<1>9. ASSUME NEW r, r # x.row PROVE OfRow(log \cup {x}, r) = OfRow(log, r)
  BY <1>9 DEF OfRow
<1>10. ASSUME NEW e \in OfRow(log, x.row)
       PROVE  Cardinality(UpTo(log, e.row, e.id)) <= Cardinality(OfRow(log, x.row))
  <2>1. UpTo(log, e.row, e.id) \subseteq OfRow(log, x.row)
    BY DEF UpTo, OfRow
  <2> QED
    BY <1>3, <2>1, FS_Subset
<1> QED
  BY <1>1, <1>2, <1>4, <1>5, <1>6, <1>7, <1>8, <1>9, <1>10

(* What a commit does: the row it writes, the record it adds to each log.  *)
LEMMA CommitEffect ==
  ASSUME LogInv, NEW t \in Txs, Commit(t)
  PROVE  /\ target[t] \in Rows /\ New(t) \in Row
         /\ stage[t] = "logged" \/ stage[t] = "recorded"
         /\ rows' = [rows EXCEPT ![target[t]] = New(t)]
         /\ outbox' = outbox \cup {OutboxOf(t)}
         /\ target[t] \in Entities => activity' = activity \cup {ActivityOf(t)}
         /\ target[t] \notin Entities => activity' = activity
         /\ OutboxOf(t).row = target[t]
         /\ OutboxOf(t).id \in Nat
         /\ OutboxOf(t).op = Op(New(t))
         /\ OutboxOf(t).version = New(t).version
         /\ ActivityOf(t).row = target[t]
         /\ ActivityOf(t).id \in Nat
         /\ ActivityOf(t).op = Op(New(t))
         /\ ActivityOf(t).version = New(t).version
         /\ ActivityOf(t).changes = Changes(t)
         /\ \A e \in outbox : e.id \in Nat
         /\ \A a \in activity : a.id \in Nat
         /\ \A e \in outbox : e.row = target[t] => e.id < OutboxOf(t).id
         /\ target[t] \in Entities => \A a \in activity : a.row = target[t] => a.id < ActivityOf(t).id
<1> USE DEF LogInv, IInv
<1>1. target[t] \in Rows /\ New(t) \in Row
  BY NewType DEF Commit, Open
<1>2. stage[t] = "logged" \/ stage[t] = "recorded"
  BY DEF Commit
<1>3. target[t] \in Entities => stage[t] = "recorded"
  BY DEF Commit
<1>4. \A e \in outbox : e.row = target[t] => e.id < oid[t]
  BY <1>2 DEF IdInv
<1>5. target[t] \in Entities => \A a \in activity : a.row = target[t] => a.id < aid[t]
  BY <1>3 DEF ActivityIdInv
<1>6. oid[t] \in Nat /\ aid[t] \in Nat
  BY DEF TypeOK
<1>7. (\A e \in outbox : e.id \in Nat) /\ (\A a \in activity : a.id \in Nat)
  BY DEF TypeOK, OutboxRecord, ActivityRecord
<1>8. /\ rows' = [rows EXCEPT ![target[t]] = New(t)]
      /\ outbox' = outbox \cup {OutboxOf(t)}
      /\ target[t] \in Entities => activity' = activity \cup {ActivityOf(t)}
      /\ target[t] \notin Entities => activity' = activity
  BY DEF Commit
<1> QED
  BY <1>1, <1>2, <1>4, <1>5, <1>6, <1>7, <1>8 DEF OutboxOf, ActivityOf

(* The tables change by a commit only.                                     *)
LEMMA OnlyCommits ==
  ASSUME [Next]_vars
  PROVE  UNCHANGED db \/ \E t \in Txs : Commit(t)
<1>1. ASSUME NEW t \in Txs,
             \/ \E r \in Rows, body \in Body : Insert(t, r, body)
             \/ \E r \in Rows, p \in Patch : Lookup(t, r, p)
      PROVE  UNCHANGED db
  BY <1>1 DEF Insert, Lookup, db
<1>2. ASSUME NEW t \in Txs, Write(t) \/ LogOutbox(t) \/ LogActivity(t) \/ Abort(t)
      PROVE  UNCHANGED db
  BY <1>2 DEF Write, LogOutbox, LogActivity, Abort, db
<1> QED
  BY <1>1, <1>2 DEF Next, Step, vars

(* An update that wrote in turn wrote over the row it had read: the row's  *)
(* versions were given out in turn before it too.                          *)
LEMMA CommitInTurn ==
  ASSUME LogInv, NEW t \in Txs, Commit(t), NEW r \in Rows, r = target[t], WritesInTurn(r)'
  PROVE  /\ WritesInTurn(r)
         /\ read[t] = Absent <=> rows[r] = Absent
         /\ read[t] # Absent => read[t] = rows[r] /\ rows[r].version < New(t).version
<1> USE DEF LogInv, IInv
<1>1. WritesInTurn(r)
  <2>1. outbox \subseteq outbox'
    BY CommitEffect
  <2> QED
    BY <2>1 DEF WritesInTurn
<1>2. read[t] = Absent <=> rows[r] = Absent
  BY CommitEffect, AbsentAssumption DEF TargetInv
<1>3. ASSUME read[t] # Absent
      PROVE  read[t] = rows[r] /\ rows[r].version < New(t).version
  <2>1. rows[r] # Absent
    BY <1>2, <1>3, CommitEffect
  <2>2. PICK e \in outbox : e.row = r /\ \A o \in outbox : o.row = r => o.id <= e.id
    BY <2>1 DEF PresenceInv
  <2>3. e.version = rows[r].version
    BY <2>1, <2>2 DEF OutboxTellsTheRow
  <2>4. e.version < New(t).version
    <3>1. OutboxOf(t) \in outbox' /\ e \in outbox'
      BY CommitEffect
    <3>2. OutboxOf(t).row = r /\ e.id < OutboxOf(t).id /\ OutboxOf(t).version = New(t).version
      BY <2>2, CommitEffect
    <3> QED
      BY <2>2, <3>1, <3>2 DEF WritesInTurn
  <2>5. New(t).version = read[t].version + 1
    BY <1>3 DEF New, Merge
  <2>6. read[t] \in Row /\ rows[r] \in Row
    BY <1>3, <2>1 DEF TypeOK
  <2>7. read[t] = rows[r] \/ read[t].version < rows[r].version
    BY <1>1, <1>3 DEF ReadInv
  <2> QED
    BY <2>3, <2>4, <2>5, <2>6, <2>7 DEF Row
<1> QED
  BY <1>1, <1>2, <1>3

LEMMA FiniteStep == LogInv /\ [Next]_vars => FiniteInv'
<1> SUFFICES ASSUME LogInv, [Next]_vars PROVE FiniteInv'
  OBVIOUS
<1>1. CASE UNCHANGED db
  BY <1>1 DEF LogInv, FiniteInv, db
<1>2. ASSUME NEW t \in Txs, Commit(t)
      PROVE  FiniteInv'
  BY <1>2, CommitEffect, FS_AddElement DEF LogInv, FiniteInv
<1> QED
  BY <1>1, <1>2, OnlyCommits

LEMMA ActivityIdStep == LogInv /\ [Next]_vars => ActivityIdInv'
<1> SUFFICES ASSUME LogInv, [Next]_vars PROVE ActivityIdInv'
  OBVIOUS
<1> USE AbsentAssumption DEF LogInv, IInv, Open
<1>1. ASSUME NEW t \in Txs, NEW r \in Rows, NEW body \in Body, Insert(t, r, body)
      PROVE  ActivityIdInv'
  BY <1>1 DEF Insert, ActivityIdInv, TypeOK, db
<1>2. ASSUME NEW t \in Txs, NEW r \in Rows, NEW p \in Patch, Lookup(t, r, p)
      PROVE  ActivityIdInv'
  BY <1>2 DEF Lookup, ActivityIdInv, TypeOK, db
<1>3. ASSUME NEW t \in Txs, Write(t)
      PROVE  ActivityIdInv'
  BY <1>3 DEF Write, ActivityIdInv, TypeOK, db
<1>4. ASSUME NEW t \in Txs, LogOutbox(t)
      PROVE  ActivityIdInv'
  BY <1>4 DEF LogOutbox, ActivityIdInv, TypeOK, db
<1>5. ASSUME NEW t \in Txs, LogActivity(t)
      PROVE  ActivityIdInv'
  BY <1>5 DEF LogActivity, ActivityIdInv, TypeOK, ActivityRecord, db
<1>6. ASSUME NEW t \in Txs, Commit(t)
      PROVE  ActivityIdInv'
  <2>1. stage[t] \in {"logged", "recorded"} /\ target[t] \in Rows
    BY <1>6, CommitEffect
  <2>2. \A u \in Txs \ {t} : stage[u] = "recorded" => target[u] # target[t]
    BY <2>1 DEF LockInv, Holds
  <2>3. ActivityOf(t).id = aid[t] /\ ActivityOf(t).row = target[t]
    BY DEF ActivityOf
  <2>4. activity' = activity \/ (stage[t] = "recorded" /\ activity' = activity \cup {ActivityOf(t)})
    BY <1>6 DEF Commit
  <2> QED
    BY <1>6, <2>1, <2>2, <2>3, <2>4 DEF Commit, End, ActivityIdInv, TypeOK
<1>7. ASSUME NEW t \in Txs, Abort(t)
      PROVE  ActivityIdInv'
  BY <1>7 DEF Abort, End, ActivityIdInv, TypeOK, db
<1>8. CASE UNCHANGED vars
  BY <1>8 DEF ActivityIdInv, vars, db
<1> QED
  BY <1>1, <1>2, <1>3, <1>4, <1>5, <1>6, <1>7, <1>8 DEF Next, Step

LEMMA PresenceStep == LogInv /\ [Next]_vars => PresenceInv'
<1> SUFFICES ASSUME LogInv, [Next]_vars PROVE PresenceInv'
  OBVIOUS
<1>1. CASE UNCHANGED db
  BY <1>1 DEF LogInv, PresenceInv, db
<1>2. ASSUME NEW t \in Txs, Commit(t), NEW r \in Rows
      PROVE  /\ rows'[r] # Absent
                  => \E e \in outbox' : e.row = r /\ \A o \in outbox' : o.row = r => o.id <= e.id
             /\ rows'[r] = Absent
                  => (\A e \in outbox' : e.row # r) /\ (\A a \in activity' : a.row # r)
  <2>1. CASE r = target[t]
    <3>1. rows'[r] # Absent
      BY <1>2, <2>1, CommitEffect, AbsentAssumption DEF LogInv, IInv, TypeOK
    <3>2. \A o \in outbox' : o.row = r => o.id <= OutboxOf(t).id
      BY <1>2, <2>1, CommitEffect
    <3>3. OutboxOf(t) \in outbox' /\ OutboxOf(t).row = r
      BY <1>2, <2>1, CommitEffect
    <3> QED
      BY <3>1, <3>2, <3>3
  <2>2. CASE r # target[t]
    <3>1. rows'[r] = rows[r]
      BY <1>2, <2>2, CommitEffect DEF LogInv, IInv, TypeOK
    <3>2. \A e : e.row = r => (e \in outbox' <=> e \in outbox) /\ (e \in activity' <=> e \in activity)
      BY <1>2, <2>2, CommitEffect
    <3> QED
      BY <3>1, <3>2 DEF LogInv, PresenceInv
  <2> QED
    BY <2>1, <2>2
<1> QED
  BY <1>1, <1>2, OnlyCommits DEF PresenceInv

LEMMA ReadStep == LogInv /\ [Next]_vars => ReadInv'
<1> SUFFICES ASSUME LogInv, [Next]_vars PROVE ReadInv'
  OBVIOUS
<1> USE AbsentAssumption DEF LogInv, IInv
<1>1. ASSUME NEW t \in Txs, NEW r \in Rows, NEW body \in Body, Insert(t, r, body)
      PROVE  ReadInv'
  <2>1. \A u \in Txs : read'[u] # Absent => target'[u] = target[u] /\ read'[u] = read[u]
    BY <1>1 DEF Insert, TargetInv, TypeOK, Open
  <2> QED
    BY <1>1, <2>1 DEF Insert, ReadInv, WritesInTurn, db
<1>2. ASSUME NEW t \in Txs, NEW r \in Rows, NEW p \in Patch, Lookup(t, r, p)
      PROVE  ReadInv'
  BY <1>2 DEF Lookup, ReadInv, TypeOK, WritesInTurn, db
<1>3. ASSUME NEW t \in Txs, Write(t) \/ LogOutbox(t) \/ LogActivity(t)
      PROVE  ReadInv'
  BY <1>3 DEF Write, LogOutbox, LogActivity, ReadInv, WritesInTurn, db
<1>4. ASSUME NEW t \in Txs, Abort(t)
      PROVE  ReadInv'
  BY <1>4 DEF Abort, End, ReadInv, TypeOK, WritesInTurn, db
<1>5. ASSUME NEW t \in Txs, Commit(t), NEW u \in Txs, NEW r \in Rows,
             read'[u] # Absent, target'[u] = r, WritesInTurn(r)'
      PROVE  read'[u] = rows'[r] \/ read'[u].version < rows'[r].version
  <2>1. u # t /\ read'[u] = read[u] /\ target[u] = r /\ read[u] # Absent
    BY <1>5 DEF Commit, End, TypeOK
  <2>2. CASE r = target[t]
    <3>1. rows[r] # Absent
      BY <2>1 DEF TargetInv
    <3>2. rows[r].version < New(t).version /\ WritesInTurn(r)
      BY <1>5, <2>2, <3>1, CommitInTurn
    <3>3. read[u] = rows[r] \/ read[u].version < rows[r].version
      BY <2>1, <3>2 DEF ReadInv
    <3>4. rows'[r] = New(t) /\ New(t) \in Row /\ rows[r] \in Row /\ read[u] \in Row
      BY <1>5, <2>1, <2>2, <3>1, CommitEffect DEF TypeOK
    <3> QED
      BY <2>1, <3>2, <3>3, <3>4 DEF Row
  <2>3. CASE r # target[t]
    <3>1. rows'[r] = rows[r]
      BY <1>5, <2>3, CommitEffect DEF TypeOK
    <3>2. outbox \subseteq outbox'
      BY <1>5, CommitEffect
    <3>3. WritesInTurn(r)
      BY <1>5, <3>2 DEF WritesInTurn
    <3> QED
      BY <2>1, <3>1, <3>3 DEF ReadInv
  <2> QED
    BY <2>2, <2>3
<1>6. ASSUME NEW t \in Txs, Commit(t)
      PROVE  ReadInv'
  <2>1. \A u \in Txs : read'[u] # Absent => target'[u] \in Rows
    BY <1>6, TargetStep, TypeStep DEF TargetInv, TypeOK
  <2> QED
    BY <1>5, <1>6, <2>1 DEF ReadInv, WritesInTurn
<1>7. CASE UNCHANGED vars
  BY <1>7 DEF ReadInv, vars, WritesInTurn, db
<1> QED
  BY <1>1, <1>2, <1>3, <1>4, <1>6, <1>7 DEF Next, Step


(* A commit gives its record the same rank in both logs, and leaves the    *)
(* ranks of all other records alone.                                       *)
LEMMA AgreeStep == LogInv /\ [Next]_vars => LogsAgree'
<1> SUFFICES ASSUME LogInv, [Next]_vars PROVE LogsAgree'
  OBVIOUS
<1>0. LogsAgree <=>
        /\ \A a \in activity :
             /\ a.row \in Entities
             /\ \E e \in outbox :
                  /\ <<e.row, e.op, e.version>> = <<a.row, a.op, a.version>>
                  /\ Cardinality(UpTo(outbox, e.row, e.id)) = Cardinality(UpTo(activity, a.row, a.id))
        /\ \A r \in Entities : Cardinality(OfRow(outbox, r)) = Cardinality(OfRow(activity, r))
  BY DEF LogsAgree, OfRow, UpTo
<1>1. CASE UNCHANGED db
  BY <1>1 DEF LogInv, LogsTellTheRow, LogsAgree, db
<1>2. ASSUME NEW t \in Txs, Commit(t)
      PROVE  LogsAgree'
  <2> DEFINE x == OutboxOf(t)
             y == ActivityOf(t)
  <2>1. /\ \A a \in activity :
             /\ a.row \in Entities
             /\ \E e \in outbox :
                  /\ <<e.row, e.op, e.version>> = <<a.row, a.op, a.version>>
                  /\ Cardinality(UpTo(outbox, e.row, e.id)) = Cardinality(UpTo(activity, a.row, a.id))
        /\ \A r \in Entities : Cardinality(OfRow(outbox, r)) = Cardinality(OfRow(activity, r))
    BY <1>0 DEF LogInv, LogsTellTheRow
  <2>2. /\ x.row = target[t] /\ x.id \in Nat
        /\ y.row = target[t] /\ y.id \in Nat
        /\ x.op = y.op /\ x.version = y.version
        /\ outbox' = outbox \cup {x}
        /\ target[t] \in Entities => activity' = activity \cup {y}
        /\ target[t] \notin Entities => activity' = activity
    BY <1>2, CommitEffect
  <2>3. /\ Cardinality(OfRow(outbox', target[t])) = Cardinality(OfRow(outbox, target[t])) + 1
        /\ Cardinality(UpTo(outbox', target[t], x.id)) = Cardinality(OfRow(outbox, target[t])) + 1
        /\ \A e \in outbox : UpTo(outbox', e.row, e.id) = UpTo(outbox, e.row, e.id)
        /\ \A r : r # target[t] => OfRow(outbox', r) = OfRow(outbox, r)
    <3>1. IsFiniteSet(outbox) /\ \A e \in outbox : e.id \in Nat
      BY <1>2, CommitEffect DEF LogInv, FiniteInv
    <3>2. \A e \in outbox : e.row = x.row => e.id < x.id
      BY <1>2, CommitEffect
    <3> HIDE DEF x
    <3>3. /\ Cardinality(OfRow(outbox \cup {x}, x.row)) = Cardinality(OfRow(outbox, x.row)) + 1
          /\ Cardinality(UpTo(outbox \cup {x}, x.row, x.id)) = Cardinality(OfRow(outbox, x.row)) + 1
          /\ \A e \in outbox : UpTo(outbox \cup {x}, e.row, e.id) = UpTo(outbox, e.row, e.id)
          /\ \A r : r # x.row => OfRow(outbox \cup {x}, r) = OfRow(outbox, r)
      <4>1. x.id \in Nat
        BY <2>2
      <4> QED
        BY <3>1, <3>2, <4>1, RankAppend
    <3> QED
      BY <2>2, <3>3
  <2>4. CASE target[t] \in Entities
    <3>1. /\ Cardinality(OfRow(activity', target[t])) = Cardinality(OfRow(activity, target[t])) + 1
          /\ Cardinality(UpTo(activity', target[t], y.id)) = Cardinality(OfRow(activity, target[t])) + 1
          /\ \A a \in activity : UpTo(activity', a.row, a.id) = UpTo(activity, a.row, a.id)
          /\ \A r : r # target[t] => OfRow(activity', r) = OfRow(activity, r)
      <4>1. IsFiniteSet(activity) /\ \A a \in activity : a.id \in Nat
        BY <1>2, CommitEffect DEF LogInv, FiniteInv
      <4>2. \A a \in activity : a.row = y.row => a.id < y.id
        BY <1>2, <2>4, CommitEffect
      <4> HIDE DEF y
      <4>3. /\ Cardinality(OfRow(activity \cup {y}, y.row)) = Cardinality(OfRow(activity, y.row)) + 1
            /\ Cardinality(UpTo(activity \cup {y}, y.row, y.id)) = Cardinality(OfRow(activity, y.row)) + 1
            /\ \A e \in activity : UpTo(activity \cup {y}, e.row, e.id) = UpTo(activity, e.row, e.id)
            /\ \A r : r # y.row => OfRow(activity \cup {y}, r) = OfRow(activity, r)
        <5>1. y.id \in Nat
          BY <2>2
        <5> QED
          BY <4>1, <4>2, <5>1, RankAppend
      <4> QED
        BY <2>2, <2>4, <4>3
    <3>2. ASSUME NEW a \in activity'
          PROVE  /\ a.row \in Entities
                 /\ \E e \in outbox' :
                      /\ <<e.row, e.op, e.version>> = <<a.row, a.op, a.version>>
                      /\ Cardinality(UpTo(outbox', e.row, e.id)) = Cardinality(UpTo(activity', a.row, a.id))
      <4>1. CASE a \in activity
        <5>1. PICK e \in outbox :
                /\ <<e.row, e.op, e.version>> = <<a.row, a.op, a.version>>
                /\ Cardinality(UpTo(outbox, e.row, e.id)) = Cardinality(UpTo(activity, a.row, a.id))
          BY <2>1, <4>1
        <5>2. UpTo(outbox', e.row, e.id) = UpTo(outbox, e.row, e.id)
          BY <2>3
        <5>3. UpTo(activity', a.row, a.id) = UpTo(activity, a.row, a.id)
          BY <3>1, <4>1
        <5>4. e \in outbox' /\ a.row \in Entities
          BY <2>1, <2>2, <4>1
        <5> QED
          BY <5>1, <5>2, <5>3, <5>4
      <4>2. CASE a = y
        <5>1. x \in outbox' /\ <<x.row, x.op, x.version>> = <<a.row, a.op, a.version>>
          BY <2>2, <4>2
        <5>2. Cardinality(UpTo(outbox', x.row, x.id)) = Cardinality(UpTo(activity', a.row, a.id))
          BY <2>1, <2>2, <2>3, <2>4, <3>1, <4>2
        <5>3. a.row \in Entities
          BY <2>2, <2>4, <4>2
        <5> HIDE DEF x
        <5> QED
          BY <5>1, <5>2, <5>3
      <4> QED
        BY <2>2, <2>4, <4>1, <4>2
    <3>3. ASSUME NEW r \in Entities
          PROVE  Cardinality(OfRow(outbox', r)) = Cardinality(OfRow(activity', r))
      BY <2>1, <2>3, <2>4, <3>1
    <3> QED
      BY <3>2, <3>3 DEF LogsAgree, OfRow, UpTo
  <2>5. CASE target[t] \notin Entities
    <3>1. ASSUME NEW a \in activity'
          PROVE  /\ a.row \in Entities
                 /\ \E e \in outbox' :
                      /\ <<e.row, e.op, e.version>> = <<a.row, a.op, a.version>>
                      /\ Cardinality(UpTo(outbox', e.row, e.id)) = Cardinality(UpTo(activity', a.row, a.id))
      <4>1. activity' = activity
        BY <2>2, <2>5
      <4>2. PICK e \in outbox :
              /\ <<e.row, e.op, e.version>> = <<a.row, a.op, a.version>>
              /\ Cardinality(UpTo(outbox, e.row, e.id)) = Cardinality(UpTo(activity, a.row, a.id))
        BY <2>1, <4>1
      <4>3. UpTo(outbox', e.row, e.id) = UpTo(outbox, e.row, e.id) /\ e \in outbox'
        BY <2>2, <2>3
      <4> QED
        BY <2>1, <4>1, <4>2, <4>3
    <3>2. ASSUME NEW r \in Entities
          PROVE  Cardinality(OfRow(outbox', r)) = Cardinality(OfRow(activity', r))
      BY <2>1, <2>2, <2>3, <2>5
    <3> QED
      BY <3>1, <3>2 DEF LogsAgree, OfRow, UpTo
  <2> QED
    BY <2>4, <2>5
<1> QED
  BY <1>1, <1>2, OnlyCommits

(* Other rows and their records stand still when a commit writes row r.    *)
LEMMA OthersStand ==
  ASSUME LogInv, NEW t \in Txs, Commit(t), NEW r \in Rows, r # target[t]
  PROVE  /\ rows'[r] = rows[r]
         /\ WritesInTurn(r)' => WritesInTurn(r)
         /\ \A e : e.row = r => (e \in outbox' <=> e \in outbox) /\ (e \in activity' <=> e \in activity)
<1>1. rows'[r] = rows[r]
  BY CommitEffect DEF LogInv, IInv, TypeOK
<1>2. \A e : e.row = r => (e \in outbox' <=> e \in outbox) /\ (e \in activity' <=> e \in activity)
  BY CommitEffect
<1>3. outbox \subseteq outbox'
  BY CommitEffect
<1> QED
  BY <1>1, <1>2, <1>3 DEF WritesInTurn

LEMMA DeleteStep == LogInv /\ [Next]_vars => InTurnDeleteIsFinal'
<1> SUFFICES ASSUME LogInv, [Next]_vars PROVE InTurnDeleteIsFinal'
  OBVIOUS
<1>1. CASE UNCHANGED db
  BY <1>1 DEF LogInv, LogsTellTheRow, InTurnDeleteIsFinal, WritesInTurn, db
<1>2. ASSUME NEW t \in Txs, Commit(t), NEW r \in Rows, WritesInTurn(r)',
             NEW e \in outbox', e.row = r, e.op = "delete"
      PROVE  rows'[r].deleted
  <2>1. CASE r = target[t]
    <3>1. rows'[r] = New(t) /\ New(t) \in Row
      BY <1>2, <2>1, CommitEffect DEF LogInv, IInv, TypeOK
    <3>2. CASE e \in outbox
      <4>1. rows[r] # Absent
        BY <1>2, <3>2 DEF LogInv, PresenceInv
      <4>2. read[t] # Absent /\ read[t] = rows[r] /\ WritesInTurn(r)
        BY <1>2, <2>1, <4>1, CommitInTurn
      <4>3. rows[r].deleted
        <5>1. InTurnDeleteIsFinal
          BY DEF LogInv, LogsTellTheRow
        <5> QED
          BY <1>2, <3>2, <4>2, <5>1 DEF InTurnDeleteIsFinal
      <4>4. New(t).deleted = (rows[r].deleted \/ patch[t].deleted)
        BY <4>2 DEF New, Merge
      <4> QED
        BY <3>1, <4>3, <4>4
    <3>3. CASE e = OutboxOf(t)
      <4>1. Op(New(t)) = "delete"
        BY <1>2, <3>3, CommitEffect
      <4> QED
        BY <3>1, <4>1 DEF Op
    <3> QED
      BY <1>2, <3>2, <3>3, CommitEffect
  <2>2. CASE r # target[t]
    BY <1>2, <2>2, OthersStand DEF LogInv, LogsTellTheRow, InTurnDeleteIsFinal
  <2> QED
    BY <2>1, <2>2
<1> QED
  BY <1>1, <1>2, OnlyCommits DEF InTurnDeleteIsFinal

(* The record of the greatest id is the last one.                          *)
LEMMA NewestIs ==
  ASSUME NEW S, NEW x \in S, x.id \in Nat,
         \A a \in S : a = x \/ (a.id \in Nat /\ a.id < x.id)
  PROVE  Newest(S) = x
<1>1. \A b \in S : b.id <= x.id
  OBVIOUS
<1>2. \A a \in S : (\A b \in S : b.id <= a.id) => a = x
  OBVIOUS
<1> QED
  BY <1>1, <1>2 DEF Newest


(* What a commit in turn tells of a key of its row: the value it wrote.    *)
LEMMA CommitTells ==
  ASSUME LogInv, NEW t \in Txs, Commit(t), NEW r \in Entities, r = target[t], WritesInTurn(r)',
         ~ New(t).deleted, NEW f \in Fields
  PROVE  Told(r, f)' = New(t).body[f]
<1> DEFINE y == ActivityOf(t)
           before == IF read[t] = Absent THEN EmptyBody ELSE read[t].body
<1>1. /\ r \in Rows /\ activity' = activity \cup {y}
      /\ y.row = r /\ y.id \in Nat /\ y.changes = Changes(t)
      /\ \A a \in activity : a.row = r => a.id \in Nat /\ a.id < y.id
  BY CommitEffect, EntitiesAssumption
<1>2. y.changes = [k \in {k \in Fields : before[k] # New(t).body[k]} |-> New(t).body[k]]
  BY <1>1 DEF Changes, Diff
<1>3. before[f] = Told(r, f)
  <2>1. CASE read[t] = Absent
    <3>1. \A a \in activity : a.row # r
      BY <1>1, <2>1, CommitInTurn DEF LogInv, PresenceInv
    <3>2. Told(r, f) = NoVal
      BY <3>1 DEF Told
    <3> QED
      BY <2>1, <3>2 DEF EmptyBody
  <2>2. CASE read[t] # Absent
    <3>1. rows[r] # Absent /\ WritesInTurn(r) /\ read[t] = rows[r]
      BY <1>1, <2>2, CommitInTurn
    <3>2. New(t).deleted = (rows[r].deleted \/ patch[t].deleted)
      BY <2>2, <3>1 DEF New, Merge
    <3>3. InTurnActivityReplays
      BY DEF LogInv, LogsTellTheRow
    <3>4. rows[r].body = [k \in Fields |-> Told(r, k)]
      BY <3>1, <3>2, <3>3 DEF InTurnActivityReplays
    <3> QED
      BY <2>2, <3>1, <3>4
  <2> QED
    BY <2>1, <2>2
<1> HIDE DEF y, before
<1>4. CASE before[f] = New(t).body[f]
  <2>1. f \notin DOMAIN y.changes
    BY <1>2, <1>4
  <2>2. \A a : (a \in activity' /\ a.row = r /\ f \in DOMAIN a.changes)
                 <=> (a \in activity /\ a.row = r /\ f \in DOMAIN a.changes)
    BY <1>1, <2>1
  <2>3. {a \in activity' : a.row = r /\ f \in DOMAIN a.changes} = {a \in activity : a.row = r /\ f \in DOMAIN a.changes}
    BY <2>2
  <2>4. Told(r, f)' = Told(r, f)
    BY <2>3 DEF Told
  <2> QED
    BY <1>3, <1>4, <2>4
<1>5. CASE before[f] # New(t).body[f]
  <2>1. f \in DOMAIN y.changes /\ y.changes[f] = New(t).body[f]
    BY <1>2, <1>5
  <2> DEFINE S == {a \in activity' : a.row = r /\ f \in DOMAIN a.changes}
  <2>2. y \in S
    BY <1>1, <2>1
  <2>3. \A a \in S : a = y \/ (a.id \in Nat /\ a.id < y.id)
    BY <1>1
  <2>4. y.id \in Nat
    BY <1>1
  <2>5. Told(r, f)' = IF S = {} THEN NoVal ELSE Newest(S).changes[f]
    BY DEF Told
  <2> HIDE DEF S
  <2>6. Newest(S) = y
    BY <2>2, <2>3, <2>4, NewestIs
  <2>7. Told(r, f)' = y.changes[f]
    BY <2>2, <2>5, <2>6
  <2> QED
    BY <2>1, <2>7
<1> QED
  BY <1>4, <1>5

LEMMA ReplayStep == LogInv /\ [Next]_vars => InTurnActivityReplays'
<1> SUFFICES ASSUME LogInv, [Next]_vars PROVE InTurnActivityReplays'
  OBVIOUS
<1>0. InTurnActivityReplays
  BY DEF LogInv, LogsTellTheRow
<1>1. CASE UNCHANGED db
  BY <1>0, <1>1 DEF InTurnActivityReplays, WritesInTurn, Told, db
<1>2. ASSUME NEW t \in Txs, Commit(t), NEW r \in Entities,
             rows'[r] # Absent, WritesInTurn(r)', ~ rows'[r].deleted
      PROVE  rows'[r].body = [f \in Fields |-> Told(r, f)']
  <2>1. CASE r = target[t]
    <3>1. rows'[r] = New(t) /\ New(t) \in Row
      BY <1>2, <2>1, CommitEffect, EntitiesAssumption DEF LogInv, IInv, TypeOK
    <3>2. \A f \in Fields : Told(r, f)' = New(t).body[f]
      BY <1>2, <2>1, <3>1, CommitTells
    <3>3. New(t).body = [f \in Fields |-> New(t).body[f]]
      BY <3>1 DEF Row, Body
    <3> QED
      BY <3>1, <3>2, <3>3
  <2>2. CASE r # target[t]
    <3>1. /\ rows'[r] = rows[r]
          /\ WritesInTurn(r)
          /\ \A e : e.row = r => (e \in activity' <=> e \in activity)
      BY <1>2, <2>2, OthersStand, EntitiesAssumption
    <3>2. rows[r].body = [f \in Fields |-> Told(r, f)]
      BY <1>0, <1>2, <3>1 DEF InTurnActivityReplays
    <3>3. ASSUME NEW f \in Fields PROVE Told(r, f)' = Told(r, f)
      <4>1. {a \in activity' : a.row = r /\ f \in DOMAIN a.changes} = {a \in activity : a.row = r /\ f \in DOMAIN a.changes}
        BY <3>1
      <4> QED
        BY <4>1 DEF Told
    <3> QED
      BY <3>1, <3>2, <3>3
  <2> QED
    BY <2>1, <2>2
<1> QED
  BY <1>1, <1>2, OnlyCommits DEF InTurnActivityReplays

LEMMA LogInductive == Spec => []LogInv
<1>1. Init => LogInv
  <2> SUFFICES ASSUME Init PROVE LogInv
    OBVIOUS
  <2>1. outbox = {} /\ activity = {} /\ \A r \in Rows : rows[r] = Absent
    BY DEF Init
  <2>2. FiniteInv
    BY <2>1, FS_EmptySet DEF FiniteInv
  <2>3. ActivityIdInv /\ ReadInv
    BY DEF Init, ActivityIdInv, ReadInv
  <2>4. PresenceInv
    BY <2>1 DEF PresenceInv
  <2>5. LogsAgree
    BY <2>1 DEF LogsAgree
  <2>6. InTurnActivityReplays /\ InTurnDeleteIsFinal
    BY <2>1, EntitiesAssumption DEF InTurnActivityReplays, InTurnDeleteIsFinal
  <2> QED
    BY <2>2, <2>3, <2>4, <2>5, <2>6, InitInv DEF LogInv, LogsTellTheRow
<1>2. LogInv /\ [Next]_vars => LogInv'
  <2> SUFFICES ASSUME LogInv, [Next]_vars PROVE LogInv'
    OBVIOUS
  <2>1. IInv'
    BY TypeStep, TargetStep, LockStep, IdStep, OutboxStep DEF LogInv, IInv
  <2> QED
    BY <2>1, FiniteStep, ActivityIdStep, PresenceStep, ReadStep, AgreeStep, ReplayStep, DeleteStep
    DEF LogInv, LogsTellTheRow
<1> QED
  BY <1>1, <1>2, PTL DEF Spec

(* For any number of requests, rows and keys: the two logs of a row agree  *)
(* record for record, and as long as its versions are given out in turn    *)
(* the activity replays to the live body and a delete is final.            *)
THEOREM LogsAreTheRow == Spec => []LogsTellTheRow
<1>1. LogInv => LogsTellTheRow
  BY DEF LogInv
<1> QED
  BY LogInductive, <1>1, PTL

-----------------------------------------------------------------------------
(* RowStore implements ChangeJournal.                                      *)

(* A record with the greatest id becomes the last of its log.              *)
LEMMA NthAppend ==
  ASSUME NEW log, IsFiniteSet(log), \A e \in log : e.id \in Nat,
         NEW x, x.id \in Nat, \A e \in log : e.id < x.id
  PROVE  /\ Cardinality(log) \in Nat
         /\ Cardinality(log \cup {x}) = Cardinality(log) + 1
         /\ \A i \in 1 .. Cardinality(log) : Nth(log \cup {x}, i) = Nth(log, i)
         /\ Nth(log \cup {x}, Cardinality(log) + 1) = x
<1> DEFINE Rank(S, e) == Cardinality({o \in S : o.id <= e.id})
           longer == log \cup {x}
<1>1. x \notin log /\ Cardinality(log) \in Nat
  BY FS_CardinalityType
<1>2. Cardinality(longer) = Cardinality(log) + 1
  BY <1>1, FS_AddElement
<1>3. ASSUME NEW e \in log
      PROVE  Rank(longer, e) = Rank(log, e) /\ Rank(log, e) \in Nat /\ Rank(log, e) <= Cardinality(log)
  <2>1. {o \in longer : o.id <= e.id} = {o \in log : o.id <= e.id}
    OBVIOUS
  <2>2. {o \in log : o.id <= e.id} \subseteq log
    OBVIOUS
  <2>3. /\ IsFiniteSet({o \in log : o.id <= e.id})
        /\ Cardinality({o \in log : o.id <= e.id}) <= Cardinality(log)
    BY <2>2, FS_Subset
  <2> QED
    BY <2>1, <2>3, FS_CardinalityType
<1>4. Rank(longer, x) = Cardinality(log) + 1
  <2>1. {o \in longer : o.id <= x.id} = longer
    OBVIOUS
  <2> QED
    BY <1>2, <2>1
<1> HIDE DEF Rank
<1>5. ASSUME NEW i \in 1 .. Cardinality(log)
      PROVE  Nth(longer, i) = Nth(log, i)
  <2>1. \A e : (e \in longer /\ Rank(longer, e) = i) <=> (e \in log /\ Rank(log, e) = i)
    BY <1>1, <1>3, <1>4
  <2>2. (CHOOSE e \in longer : Rank(longer, e) = i) = (CHOOSE e \in log : Rank(log, e) = i)
    BY <2>1
  <2> QED
    BY <2>2 DEF Nth, Rank
<1>6. Nth(longer, Cardinality(log) + 1) = x
  <2>1. \A e \in longer : Rank(longer, e) = Cardinality(log) + 1 => e = x
    BY <1>1, <1>3
  <2>2. (CHOOSE e \in longer : Rank(longer, e) = Cardinality(log) + 1) = x
    BY <1>4, <2>1
  <2> QED
    BY <2>2 DEF Nth, Rank
<1> QED
  BY <1>1, <1>2, <1>5, <1>6

(* A function on 1 .. n + 1 whose first n values are those of another one. *)
Extends(g, f, n) ==
  /\ f = [i \in 1 .. n |-> f[i]] /\ g = [i \in 1 .. n + 1 |-> g[i]]
  /\ \A i \in 1 .. n : g[i] = f[i]

LEMMA AppendIs ==
  ASSUME NEW n \in Nat, NEW f, NEW g, Extends(g, f, n)
  PROVE  g = Append(f, g[n + 1])
<1> USE DEF Extends
<1> DEFINE S == {g[i] : i \in 1 .. n + 1}
<1>1. f \in Seq(S) /\ Len(f) = n
  <2>1. ASSUME NEW i \in 1 .. n PROVE f[i] \in S
    <3>1. f[i] = g[i] /\ i \in 1 .. n + 1
      OBVIOUS
    <3>2. g[i] \in S
      BY <3>1
    <3> QED
      BY <3>1, <3>2
  <2> HIDE DEF S
  <2>2. f \in [1 .. n -> S]
    BY <2>1
  <2> QED
    BY <2>2
<1>2. g \in Seq(S) /\ Len(g) = n + 1
  OBVIOUS
<1>3. g[n + 1] \in S
  OBVIOUS
<1> HIDE DEF S
<1>4. /\ Append(f, g[n + 1]) \in Seq(S)
      /\ Len(Append(f, g[n + 1])) = n + 1
      /\ \A i \in 1 .. n : Append(f, g[n + 1])[i] = f[i]
      /\ Append(f, g[n + 1])[n + 1] = g[n + 1]
  BY <1>1, <1>3
<1>5. \A i \in 1 .. n + 1 : g[i] = Append(f, g[n + 1])[i]
  BY <1>4
<1> QED
  BY <1>2, <1>4, <1>5, SeqEqual

LEMMA EmptyIs ==
  ASSUME NEW f, f = [i \in 1 .. 0 |-> f[i]]
  PROVE  f = << >>
<1>1. f \in Seq({}) /\ Len(f) = 0
  OBVIOUS
<1> QED
  BY <1>1, EmptySeq

(* A commit appends what it did to the journal of its row only.            *)
LEMMA HistoryAppend ==
  ASSUME LogInv, NEW t \in Txs, Commit(t), NEW r \in Rows
  PROVE  History(r)' = IF r = target[t]
                       THEN Append(History(r), [op |-> Op(New(t)), version |-> New(t).version])
                       ELSE History(r)
<1> DEFINE mine == {e \in outbox : e.row = r}
           x == OutboxOf(t)
<1>1. CASE r # target[t]
  <2>1. {e \in outbox' : e.row = r} = {e \in outbox : e.row = r}
    BY <1>1, OthersStand
  <2> QED
    BY <1>1, <2>1 DEF History
<1>2. CASE r = target[t]
  <2>1. /\ IsFiniteSet(mine) /\ \A e \in mine : e.id \in Nat /\ e.id < x.id
        /\ x.id \in Nat /\ x.op = Op(New(t)) /\ x.version = New(t).version
        /\ {e \in outbox' : e.row = r} = mine \cup {x}
    <3>1. IsFiniteSet(mine)
      BY FS_Subset DEF LogInv, FiniteInv
    <3>2. \A e \in mine : e.id \in Nat /\ e.id < x.id
      BY <1>2, CommitEffect
    <3>3. /\ x.id \in Nat /\ x.op = Op(New(t)) /\ x.version = New(t).version
          /\ x.row = r /\ outbox' = outbox \cup {x}
      BY <1>2, CommitEffect
    <3>4. {e \in outbox' : e.row = r} = mine \cup {x}
      BY <3>3
    <3> QED
      BY <3>1, <3>2, <3>3, <3>4
  <2> DEFINE n == Cardinality(mine)
             longer == mine \cup {x}
             f == [i \in 1 .. n |-> [op |-> Nth(mine, i).op, version |-> Nth(mine, i).version]]
             g == [i \in 1 .. n + 1 |-> [op |-> Nth(longer, i).op, version |-> Nth(longer, i).version]]
  <2>2. History(r) = f
    BY DEF History
  <2>3. History(r)' = [i \in 1 .. Cardinality(longer) |-> [op |-> Nth(longer, i).op, version |-> Nth(longer, i).version]]
    <3> HIDE DEF longer, x
    <3> QED
      BY <2>1 DEF History, longer
  <2> HIDE DEF mine, x
  <2>4. /\ n \in Nat /\ Cardinality(longer) = n + 1
        /\ \A i \in 1 .. n : Nth(longer, i) = Nth(mine, i)
        /\ Nth(longer, n + 1) = x
    BY <2>1, NthAppend
  <2> HIDE DEF n, longer
  <2>5. \A i \in 1 .. n : g[i] = f[i]
    BY <2>4
  <2>6. g[n + 1] = [op |-> Op(New(t)), version |-> New(t).version]
    BY <2>1, <2>4
  <2>7. History(r)' = g
    BY <2>3, <2>4
  <2>8. f = [i \in 1 .. n |-> f[i]] /\ g = [i \in 1 .. n + 1 |-> g[i]]
    OBVIOUS
  <2> HIDE DEF f, g
  <2>9. g = Append(f, g[n + 1])
    <3>1. n \in Nat
      BY <2>4
    <3>2. Extends(g, f, n)
      BY <2>5, <2>8 DEF Extends
    <3> QED
      BY <3>1, <3>2, AppendIs
  <2> QED
    BY <1>2, <2>2, <2>6, <2>7, <2>9
<1> QED
  BY <1>1, <1>2

(* A commit is a step of the journal: it creates its row or changes it.    *)
LEMMA CommitIsJournalled ==
  ASSUME LogInv, NEW t \in Txs, Commit(t)
  PROVE  Journal!Next
<1> DEFINE r == target[t]
           op == IF read[t] = Absent THEN "insert" ELSE IF New(t).deleted THEN "delete" ELSE "update"
<1>1. /\ r \in Rows /\ New(t) \in Row
      /\ rows' = [rows EXCEPT ![r] = New(t)]
      /\ rows'[r] = New(t)
  BY CommitEffect DEF LogInv, IInv, TypeOK
<1>2. read[t] = Absent <=> rows[r] = Absent
  BY <1>1, AbsentAssumption DEF LogInv, IInv, TargetInv
<1>3. /\ read[t] = Absent => New(t).version = 1 /\ ~ New(t).deleted
      /\ read[t] # Absent => New(t).version > 1
  <2>1. CASE read[t] = Absent
    BY <2>1 DEF New
  <2>2. CASE read[t] # Absent
    <3>1. read[t] \in Row /\ patch[t] \in Patch
      BY <2>2 DEF LogInv, IInv, TypeOK
    <3> QED
      BY <2>2, <3>1, MergeType DEF New
  <2> QED
    BY <2>1, <2>2
<1>4. Op(New(t)) = op
  BY <1>1, <1>3 DEF Op, Row
<1>5. [q \in Rows |-> History(q)]' =
        [[q \in Rows |-> History(q)] EXCEPT
           ![r] = Append(@, [op |-> op, version |-> New(t).version])]
  BY <1>1, <1>4, HistoryAppend
<1> QED
  BY <1>1, <1>2, <1>3, <1>5 DEF Journal!Next, Journal!Create, Journal!Change, Journal!Record, Journal!Entry

(* What a reader of the outbox sees is a journal of the rows: every commit *)
(* is a step of ChangeJournal and every other step changes nothing in it,  *)
(* for any number of requests, rows and versions.                          *)
THEOREM StoreImplementsJournal == Spec => ImplementsJournal
<1>1. Init => Journal!Init
  <2> SUFFICES ASSUME Init PROVE Journal!Init
    OBVIOUS
  <2>1. \A r \in Rows : History(r) = << >>
    <3>1. ASSUME NEW r \in Rows PROVE {e \in outbox : e.row = r} = {}
      BY DEF Init
    <3>2. Cardinality({}) = 0
      BY FS_EmptySet
    <3>3. ASSUME NEW r \in Rows
          PROVE  History(r) = [i \in 1 .. 0 |-> History(r)[i]]
      BY <3>1, <3>2 DEF History
    <3> QED
      BY <3>3, EmptyIs
  <2> QED
    BY <2>1 DEF Init, Journal!Init
<1>2. LogInv /\ [Next]_vars => [Journal!Next]_<<rows, [r \in Rows |-> History(r)]>>
  <2> SUFFICES ASSUME LogInv, [Next]_vars
               PROVE  Journal!Next \/ UNCHANGED <<rows, [r \in Rows |-> History(r)]>>
    OBVIOUS
  <2>1. CASE UNCHANGED db
    BY <2>1 DEF History, db
  <2>2. ASSUME NEW t \in Txs, Commit(t)
        PROVE  Journal!Next
    BY <2>2, CommitIsJournalled
  <2> QED
    BY <2>1, <2>2, OnlyCommits
<1> QED
  BY <1>1, <1>2, LogInductive, PTL DEF Spec, ImplementsJournal, Journal!Spec

-----------------------------------------------------------------------------
(* SetupLocks.                                                             *)

(* A file is recorded when its text is committed; who writes one, or waits *)
(* to, has found those before it applied and this one not; nobody writes   *)
(* the file that another writes.                                           *)
FilesInv ==
  /\ \A i \in 1 .. Files : /\ L!File(i) \in made => runs[i] = 1
                           /\ L!File(i) \notin made => runs[i] = 0
                           /\ L!File(i) \in made => \A j \in 1 .. i : L!File(j) \in made
  /\ \A p \in Procs :
       /\ boot[p].at \in {"down", "locking"} => boot[p].file = 1
       /\ boot[p].at \in {"probe", "wrote", "blocked"} =>
            \A j \in 1 .. Files : j < boot[p].file => L!File(j) \in made
       /\ boot[p].at \in {"wrote", "blocked"} => boot[p].file <= Files /\ L!File(boot[p].file) \notin made
  /\ \A p, r \in Procs :
       p # r /\ boot[p].at = "wrote" /\ boot[r].at = "wrote" => boot[p].file # boot[r].file

(* One process has the session lock, and without a fault it is the one     *)
(* that migrates.                                                          *)
SessionInv ==
  /\ \A p, r \in Procs : boot[p].lock /\ boot[r].lock => p = r
  /\ faults = 0 => \A p \in Procs : /\ boot[p].at # "failed"
                                    /\ boot[p].at \in {"probe", "wrote", "blocked"} => boot[p].lock

BootInv ==
  /\ boot \in [Procs -> [at : {"down", "locking", "probe", "wrote", "blocked", "up", "failed"},
                         file : Nat \ {0}, lock : BOOLEAN]]
  /\ runs \in [1 .. Files -> Nat] /\ faults \in Nat
  /\ FilesInv /\ SessionInv

(* An advisory lock has one holder; a lookup that writes has all of its.   *)
LookInv ==
  /\ look \in [Procs -> [L!Keys -> [at : {"idle", "asked", "joined", "tx", "wrote", "blocked"}, locks : Nat]]]
  /\ \A p \in Procs, k \in L!Keys :
       /\ look[p][k].locks <= Len(L!LocksOf(k))
       /\ look[p][k].at \in {"wrote", "blocked"} => look[p][k].locks = Len(L!LocksOf(k))
  /\ \A p, q \in Procs, k, h \in L!Keys : \A i \in 1 .. look[p][k].locks, j \in 1 .. look[q][h].locks :
       L!LocksOf(k)[i] = L!LocksOf(h)[j] => p = q /\ k = h

(* What a memo gives out is there, and so is what a call was given.        *)
MemoInv ==
  /\ memo \in [Procs -> [L!Keys -> {"none", "flight", "done"}]]
  /\ \A p \in Procs, k \in L!Keys : memo[p][k] = "done" => k \in made

CallsInv ==
  /\ L!Callers \in Bursts
  /\ calls \in [L!Callers -> [at : {"idle", "asks", "row", "ended", "failed"}, passed : Nat, waits : BOOLEAN]]
  /\ \A c \in L!Callers :
       /\ calls[c].passed <= Len(L!Asks(c))
       /\ \A i \in 1 .. calls[c].passed : L!Asks(c)[i] \in made
       /\ calls[c].at \in {"row", "ended"} => calls[c].passed = Len(L!Asks(c))

SetupInv == BootInv /\ LookInv /\ MemoInv /\ CallsInv /\ L!OnlyTheReaderClashes
SetupPart == part = "setup" => SetupInv

(* Keys and files.                                                         *)
LEMMA KeyKinds ==
  ASSUME NEW k \in L!Keys
  PROVE  \/ \E s \in Schemas : k = <<"schema", s>>
         \/ \E s \in Schemas : k = <<"table", s>>
         \/ k = <<"reader", Reader>>
BY DEF L!Keys

LEMMA KeysAreNoFiles ==
  ASSUME NEW k \in L!Keys
  PROVE  /\ k[1] \in {"schema", "table", "reader"} /\ k # <<"acl">>
         /\ \A i \in 1 .. Files : k # L!File(i) /\ L!File(i)[1] = "file"
BY KeyKinds DEF L!File

LEMMA FilesDiffer ==
  ASSUME NEW i \in 1 .. Files, NEW j \in 1 .. Files, L!File(i) = L!File(j)
  PROVE  i = j
BY DEF L!File

(* Whom a file's transaction meets: those who write the same file.         *)
LEMMA FileRivals ==
  ASSUME NEW p \in Procs, NEW i \in 1 .. Files, NEW point \in {"wrote", "blocked"},
         NEW v \in L!Rivals(<<p, L!File(i)>>, point)
  PROVE  /\ L!File(i) \notin made
         /\ \E r \in Procs \ {p} : v = <<r, L!File(i)>> /\ boot[r].file = i /\ boot[r].at = point
<1> DEFINE w == <<p, L!File(i)>>
<1>1. v \in L!Works /\ v # w /\ L!Stage(v) = point /\ L!Writes(v) \cap L!Writes(w) # {}
  BY DEF L!Rivals
<1>2. L!Writes(w) = {L!File(i)} \ made
  BY DEF L!Writes, L!File
<1>3. L!File(i) \notin made /\ L!File(i) \in L!Writes(v)
  BY <1>1, <1>2
<1>4. v[2] = L!File(i)
  BY <1>3 DEF L!Writes, L!File
<1>5. PICK r \in Procs : v = <<r, L!File(i)>>
  BY <1>1, <1>4 DEF L!Works
<1>6. r # p
  BY <1>1, <1>5
<1>7. boot[r].file = i /\ boot[r].at = point
  BY <1>1, <1>5 DEF L!Stage, L!File
<1> QED
  BY <1>3, <1>5, <1>6, <1>7

LEMMA FileIsRival ==
  ASSUME NEW p \in Procs, NEW r \in Procs \ {p}, NEW i \in 1 .. Files, L!File(i) \notin made,
         boot[r].file = i
  PROVE  <<r, L!File(i)>> \in L!Rivals(<<p, L!File(i)>>, boot[r].at)
<1> DEFINE w == <<p, L!File(i)>>
           v == <<r, L!File(i)>>
<1>1. v \in L!Works /\ v # w
  BY DEF L!Works
<1>2. L!File(i) \in L!Writes(v) /\ L!File(i) \in L!Writes(w)
  BY DEF L!Writes
<1>3. L!Stage(v) = boot[r].at
  BY DEF L!Stage, L!File
<1> QED
  BY <1>1, <1>2, <1>3 DEF L!Rivals

(* Whom a lookup's transaction meets: those of the same key; and, at the   *)
(* row of the activity's grants, those of schemas and of the reader.       *)
LEMMA KeyRivals ==
  ASSUME NEW p \in Procs, NEW k \in L!Keys, NEW point \in {"wrote", "blocked"},
         NEW v \in L!Rivals(<<p, k>>, point)
  PROVE  \E r \in Procs, h \in L!Keys :
           /\ v = <<r, h>> /\ look[r][h].at = point /\ <<r, h>> # <<p, k>>
           /\ h = k \/ (h[1] \in {"schema", "reader"} /\ k[1] \in {"schema", "reader"})
<1> DEFINE w == <<p, k>>
<1>1. v \in L!Works /\ v # w /\ L!Stage(v) = point /\ L!Writes(v) \cap L!Writes(w) # {}
  BY DEF L!Rivals
<1>2. PICK x : x \in L!Writes(v) /\ x \in L!Writes(w)
  BY <1>1
<1>3. PICK r \in Procs, h \in L!Keys \cup {L!File(i) : i \in 1 .. Files} : v = <<r, h>>
  BY <1>1 DEF L!Works
<1>4. x = k \/ (x = <<"acl">> /\ k[1] \in {"schema", "reader"})
  BY <1>2 DEF L!Writes
<1>5. x = h \/ (x = <<"acl">> /\ h[1] \in {"schema", "reader"})
  BY <1>2, <1>3 DEF L!Writes
<1>6. ASSUME NEW i \in 1 .. Files PROVE h # L!File(i)
  <2>1. k # L!File(i) /\ L!File(i) # <<"acl">> /\ L!File(i)[1] = "file"
    BY KeysAreNoFiles DEF L!File
  <2> QED
    BY <1>4, <1>5, <2>1
<1>7. h \in L!Keys
  BY <1>3, <1>6
<1>8. h[1] # "file" /\ h # <<"acl">> /\ k # <<"acl">>
  BY <1>7, KeysAreNoFiles
<1>9. look[r][h].at = point
  BY <1>1, <1>3, <1>8 DEF L!Stage
<1> QED
  BY <1>1, <1>3, <1>4, <1>5, <1>7, <1>8, <1>9

(* The locks keep all but the reader apart.                                *)
LEMMA LocksKeepApart ==
  ASSUME LookInv, NEW p \in Procs, NEW r \in Procs, NEW k \in L!Keys, NEW h \in L!Keys,
         look[p][k].at \in {"wrote", "blocked"}, look[r][h].at \in {"wrote", "blocked"},
         h = k \/ (h[1] \in {"schema", "reader"} /\ k[1] \in {"schema", "reader"}),
         k[1] # "reader", h[1] # "reader"
  PROVE  <<r, h>> = <<p, k>>
<1>1. look[p][k].locks = Len(L!LocksOf(k)) /\ look[r][h].locks = Len(L!LocksOf(h))
  BY DEF LookInv
<1>2. CASE k[1] = "schema"
  <2>1. h[1] = "schema"
    BY <1>2
  <2>2. L!LocksOf(k) = <<k, L!role>> /\ L!LocksOf(h) = <<h, L!role>>
    BY <1>2, <2>1 DEF L!LocksOf
  <2>3. look[p][k].locks = 2 /\ look[r][h].locks = 2 /\ L!LocksOf(k)[2] = L!LocksOf(h)[2]
    BY <1>1, <2>2
  <2> QED
    BY <2>3 DEF LookInv
<1>3. CASE k[1] = "table"
  <2>1. h = k
    BY <1>3
  <2>2. L!LocksOf(k) = <<<<"table", k[2]>>>>
    BY <1>3 DEF L!LocksOf
  <2>3. look[p][k].locks = 1 /\ look[r][h].locks = 1 /\ L!LocksOf(k)[1] = L!LocksOf(h)[1]
    BY <1>1, <2>1, <2>2
  <2> QED
    BY <2>3 DEF LookInv
<1> QED
  BY <1>2, <1>3, KeysAreNoFiles

(* The first state, and what moves nothing of each part.                   *)
LEMMA SetupInit == L!Init => SetupInv
<1> SUFFICES ASSUME L!Init PROVE SetupInv
  OBVIOUS
<1>1. BootInv
  <2>1. \A p \in Procs : boot[p] = [at |-> "down", file |-> 1, lock |-> FALSE]
    BY DEF L!Init
  <2>2. boot \in [Procs -> [at : {"down", "locking", "probe", "wrote", "blocked", "up", "failed"},
                            file : Nat \ {0}, lock : BOOLEAN]]
    BY DEF L!Init
  <2>3. made = {} /\ runs = [i \in 1 .. Files |-> 0] /\ faults = 0
    BY DEF L!Init
  <2> QED
    BY <2>1, <2>2, <2>3 DEF BootInv, FilesInv, SessionInv
<1>2. LookInv
  <2>1. look = [p \in Procs |-> [k \in L!Keys |-> [at |-> "idle", locks |-> 0]]]
    BY DEF L!Init, L!idle
  <2>2. \A k \in L!Keys : Len(L!LocksOf(k)) \in Nat
    BY DEF L!LocksOf
  <2> QED
    BY <2>1, <2>2 DEF LookInv
<1>3. MemoInv
  BY DEF L!Init, MemoInv
<1>4. CallsInv
  <2>1. PICK burst \in Bursts : calls = [c \in burst |-> [at |-> "idle", passed |-> 0, waits |-> FALSE]]
    BY DEF L!Init
  <2>2. L!Callers = burst
    BY <2>1 DEF L!Callers
  <2>3. \A c \in L!Callers : Len(L!Asks(c)) \in Nat
    BY DEF L!Asks
  <2> QED
    BY <2>1, <2>2, <2>3 DEF CallsInv
<1>5. L!OnlyTheReaderClashes
  BY DEF L!Init, L!OnlyTheReaderClashes, L!Callers
<1> QED
  BY <1>1, <1>2, <1>3, <1>4, <1>5 DEF SetupInv

(* What no file, lookup, memo or call stands on may move.                  *)
LEMMA BootsRest ==
  ASSUME BootInv, UNCHANGED <<boot, runs>>, faults' \in {faults, faults + 1},
         \A i \in 1 .. Files : L!File(i) \in made' <=> L!File(i) \in made
  PROVE  BootInv'
<1>1. faults' \in Nat /\ (faults' = 0 => faults = 0)
  BY DEF BootInv
<1>2. \A i \in Nat \ {0} : i <= Files => i \in 1 .. Files
  BY SetupAssumption
<1>3. FilesInv'
  <2>1. \A i \in 1 .. Files : /\ L!File(i) \in made' => runs[i] = 1
                              /\ L!File(i) \notin made' => runs[i] = 0
                              /\ L!File(i) \in made' => \A j \in 1 .. i : L!File(j) \in made'
    <3>1. \A i \in 1 .. Files : \A j \in 1 .. i : j \in 1 .. Files
      BY SetupAssumption
    <3> QED
      BY <3>1 DEF BootInv, FilesInv
  <2>2. ASSUME NEW p \in Procs
        PROVE  /\ boot[p].at \in {"down", "locking"} => boot[p].file = 1
               /\ boot[p].at \in {"probe", "wrote", "blocked"} =>
                    \A j \in 1 .. Files : j < boot[p].file => L!File(j) \in made'
               /\ boot[p].at \in {"wrote", "blocked"} => boot[p].file <= Files /\ L!File(boot[p].file) \notin made'
    <3>1. boot[p].file \in Nat \ {0}
      BY DEF BootInv
    <3> QED
      BY <1>2, <3>1 DEF BootInv, FilesInv
  <2> QED
    BY <2>1, <2>2 DEF BootInv, FilesInv
<1>4. SessionInv'
  BY <1>1 DEF BootInv, SessionInv
<1> QED
  BY <1>1, <1>3, <1>4 DEF BootInv

LEMMA LooksFewer ==
  ASSUME LookInv,
         look' = [p \in Procs |-> [k \in L!Keys |-> look'[p][k]]],
         \A p \in Procs, k \in L!Keys : look'[p][k] = look[p][k] \/ look'[p][k] = L!idle
  PROVE  LookInv'
<1>1. L!idle.at = "idle" /\ L!idle.locks = 0
      /\ L!idle \in [at : {"idle", "asked", "joined", "tx", "wrote", "blocked"}, locks : Nat]
  BY DEF L!idle
<1> HIDE DEF L!idle
<1>2. \A k \in L!Keys : Len(L!LocksOf(k)) \in Nat
  BY DEF L!LocksOf
<1>3. \A p \in Procs, k \in L!Keys :
        look'[p][k] \in [at : {"idle", "asked", "joined", "tx", "wrote", "blocked"}, locks : Nat]
  <2>1. \A p \in Procs, k \in L!Keys :
          look[p][k] \in [at : {"idle", "asked", "joined", "tx", "wrote", "blocked"}, locks : Nat]
    BY DEF LookInv
  <2> QED
    BY <1>1, <2>1
<1>4. look' \in [Procs -> [L!Keys -> [at : {"idle", "asked", "joined", "tx", "wrote", "blocked"}, locks : Nat]]]
  BY <1>3
<1>5. \A p \in Procs, k \in L!Keys :
       /\ look'[p][k].locks <= Len(L!LocksOf(k))
       /\ look'[p][k].at \in {"wrote", "blocked"} => look'[p][k].locks = Len(L!LocksOf(k))
  BY <1>1, <1>2 DEF LookInv
<1>6. \A p, q \in Procs, k, h \in L!Keys : \A i \in 1 .. look'[p][k].locks, j \in 1 .. look'[q][h].locks :
       L!LocksOf(k)[i] = L!LocksOf(h)[j] => p = q /\ k = h
  <2>1. ASSUME NEW p \in Procs, NEW k \in L!Keys, NEW i \in 1 .. look'[p][k].locks
        PROVE  i \in 1 .. look[p][k].locks
    BY <1>1
  <2>2. \A p, q \in Procs, k, h \in L!Keys : \A i \in 1 .. look[p][k].locks, j \in 1 .. look[q][h].locks :
          L!LocksOf(k)[i] = L!LocksOf(h)[j] => p = q /\ k = h
    BY DEF LookInv
  <2> QED
    BY <2>1, <2>2
<1> QED
  BY <1>4, <1>5, <1>6 DEF LookInv

LEMMA MemoGrows ==
  ASSUME MemoInv, memo' = [p \in Procs |-> [k \in L!Keys |-> memo'[p][k]]], made \subseteq made',
         \A p \in Procs, k \in L!Keys :
           memo'[p][k] \in {"none", "flight", memo[p][k]} \/ (memo'[p][k] = "done" /\ k \in made')
  PROVE  MemoInv'
<1>1. \A p \in Procs, k \in L!Keys : memo'[p][k] \in {"none", "flight", "done"}
  BY DEF MemoInv
<1>2. memo' \in [Procs -> [L!Keys -> {"none", "flight", "done"}]]
  BY <1>1
<1> QED
  BY <1>2 DEF MemoInv

(* Calls rest, or fail.                                                    *)
CallFails(c) == calls'[c] = [calls[c] EXCEPT !.at = "failed", !.waits = FALSE]
LEMMA CallsRest ==
  ASSUME CallsInv, made \subseteq made', calls' = [c \in L!Callers |-> calls'[c]],
         \A c \in L!Callers : calls'[c] = calls[c] \/ CallFails(c)
  PROVE  CallsInv'
<1>1. L!Callers' = L!Callers
  BY DEF L!Callers
<1>2. ASSUME NEW c \in L!Callers
      PROVE  /\ calls'[c] \in [at : {"idle", "asks", "row", "ended", "failed"}, passed : Nat, waits : BOOLEAN]
             /\ calls'[c].passed = calls[c].passed
             /\ calls'[c].at \in {calls[c].at, "failed"}
  <2>1. calls[c] \in [at : {"idle", "asks", "row", "ended", "failed"}, passed : Nat, waits : BOOLEAN]
    BY DEF CallsInv
  <2> QED
    BY <2>1 DEF CallFails
<1>3. calls' \in [L!Callers -> [at : {"idle", "asks", "row", "ended", "failed"}, passed : Nat, waits : BOOLEAN]]
  BY <1>2
<1>4. \A c \in L!Callers : L!Asks(c)' = L!Asks(c)
  BY DEF L!Asks
<1> QED
  BY <1>1, <1>2, <1>3, <1>4 DEF CallsInv, L!Asks

LEMMA ClashesRest ==
  ASSUME L!OnlyTheReaderClashes, L!Callers' = L!Callers, clashes \subseteq clashes',
         faults \in Nat, faults' \in {faults, faults + 1},
         \A pair \in clashes' \ clashes : "reader" \in pair \/ pair = {"file"},
         \A c \in L!Callers : calls'[c].at = "failed" =>
           calls[c].at = "failed" \/ clashes' # {} \/ faults' > 0
  PROVE  L!OnlyTheReaderClashes'
<1>1. \A pair \in clashes' : "reader" \in pair \/ pair = {"file"}
  BY DEF L!OnlyTheReaderClashes
<1>2. ASSUME NEW c \in L!Callers, calls'[c].at = "failed"
      PROVE  clashes' # {} \/ faults' > 0
  <2>1. CASE calls[c].at = "failed"
    <3>1. clashes # {} \/ faults > 0
      BY <2>1 DEF L!OnlyTheReaderClashes
    <3> QED
      BY <3>1
  <2> QED
    BY <1>2, <2>1
<1> QED
  BY <1>1, <1>2 DEF L!OnlyTheReaderClashes

(* One lookup moves, with the locks it has.                                *)
LEMMA LooksMove ==
  ASSUME LookInv,
         look' = [p \in Procs |-> [k \in L!Keys |-> look'[p][k]]],
         \A p \in Procs, k \in L!Keys :
           \/ look'[p][k] = look[p][k]
           \/ /\ look'[p][k] = [look[p][k] EXCEPT !.at = look'[p][k].at]
              /\ \/ look'[p][k].at \in {"asked", "joined", "tx"}
                 \/ /\ look'[p][k].at \in {"wrote", "blocked"}
                    /\ look[p][k].locks = Len(L!LocksOf(k))
  PROVE  LookInv'
<1>1. \A p \in Procs, k \in L!Keys :
        look[p][k] \in [at : {"idle", "asked", "joined", "tx", "wrote", "blocked"}, locks : Nat]
  BY DEF LookInv
<1>2. ASSUME NEW p \in Procs, NEW k \in L!Keys
      PROVE  /\ look'[p][k] \in [at : {"idle", "asked", "joined", "tx", "wrote", "blocked"}, locks : Nat]
             /\ look'[p][k].locks = look[p][k].locks
             /\ look'[p][k].at \in {"wrote", "blocked"} =>
                  look[p][k].at \in {"wrote", "blocked"} \/ look[p][k].locks = Len(L!LocksOf(k))
  <2>1. look[p][k] \in [at : {"idle", "asked", "joined", "tx", "wrote", "blocked"}, locks : Nat]
    BY <1>1
  <2>2. CASE look'[p][k] = look[p][k]
    BY <2>1, <2>2
  <2>3. ASSUME look'[p][k] # look[p][k]
        PROVE  /\ look'[p][k] = [look[p][k] EXCEPT !.at = look'[p][k].at]
               /\ \/ look'[p][k].at \in {"asked", "joined", "tx"}
                  \/ /\ look'[p][k].at \in {"wrote", "blocked"}
                     /\ look[p][k].locks = Len(L!LocksOf(k))
    BY <2>3
  <2> QED
    BY <2>1, <2>2, <2>3
<1>3. look' \in [Procs -> [L!Keys -> [at : {"idle", "asked", "joined", "tx", "wrote", "blocked"}, locks : Nat]]]
  BY <1>2
<1>4. \A p \in Procs, k \in L!Keys :
       /\ look'[p][k].locks <= Len(L!LocksOf(k))
       /\ look'[p][k].at \in {"wrote", "blocked"} => look'[p][k].locks = Len(L!LocksOf(k))
  BY <1>2 DEF LookInv
<1>5. \A p, q \in Procs, k, h \in L!Keys : \A i \in 1 .. look'[p][k].locks, j \in 1 .. look'[q][h].locks :
       L!LocksOf(k)[i] = L!LocksOf(h)[j] => p = q /\ k = h
  <2>1. \A p, q \in Procs, k, h \in L!Keys : \A i \in 1 .. look[p][k].locks, j \in 1 .. look[q][h].locks :
          L!LocksOf(k)[i] = L!LocksOf(h)[j] => p = q /\ k = h
    BY DEF LookInv
  <2>2. \A p \in Procs, k \in L!Keys : look'[p][k].locks = look[p][k].locks
    BY <1>2
  <2> QED
    BY <2>1, <2>2
<1> QED
  BY <1>3, <1>4, <1>5 DEF LookInv

(* What a call asks for are keys, of its own process.                      *)
LEMMA AsksAreKeys ==
  ASSUME CallsInv, NEW c \in L!Callers
  PROVE  /\ c.proc \in Procs /\ Len(L!Asks(c)) = 2
         /\ \A i \in 1 .. 2 : L!Asks(c)[i] \in L!Keys
<1>1. c \in [proc : Procs, schema : Schemas, kind : {"row"}] \cup [proc : Procs, schema : {Reader}, kind : {"feed"}]
  BY SetupAssumption DEF CallsInv
<1>2. CASE c.kind = "row"
  <2>1. c.proc \in Procs /\ c.schema \in Schemas
    BY <1>1, SetupAssumption
  <2>2. L!Asks(c) = <<<<"schema", c.schema>>, <<"table", c.schema>>>>
    BY <1>2 DEF L!Asks
  <2> QED
    BY <2>1, <2>2 DEF L!Keys
<1>3. CASE c.kind # "row"
  <2>1. c.proc \in Procs /\ c.schema = Reader
    BY <1>1, <1>3
  <2>2. L!Asks(c) = <<<<"reader", c.schema>>, <<"schema", c.schema>>>>
    BY <1>3 DEF L!Asks
  <2> QED
    BY <2>1, <2>2, SetupAssumption DEF L!Keys
<1> QED
  BY <1>2, <1>3

(* One boot moves.                                                         *)
LEMMA BootMoves ==
  ASSUME BootInv, NEW p \in Procs, boot' = [boot EXCEPT ![p] = boot'[p]],
         boot'[p] \in [at : {"down", "locking", "probe", "wrote", "blocked", "up", "failed"},
                       file : Nat \ {0}, lock : BOOLEAN],
         UNCHANGED <<made, runs>>, faults' \in {faults, faults + 1},
         boot'[p].at \in {"down", "locking"} => boot'[p].file = 1,
         boot'[p].at \in {"probe", "wrote", "blocked"} =>
           \A j \in 1 .. Files : j < boot'[p].file => L!File(j) \in made,
         boot'[p].at \in {"wrote", "blocked"} =>
           boot'[p].file <= Files /\ L!File(boot'[p].file) \notin made,
         boot'[p].at = "wrote" =>
           \A r \in Procs \ {p} : boot[r].at = "wrote" => boot[r].file # boot'[p].file,
         boot'[p].lock => \A r \in Procs \ {p} : ~ boot[r].lock,
         faults' = 0 => /\ boot'[p].at # "failed"
                        /\ boot'[p].at \in {"probe", "wrote", "blocked"} => boot'[p].lock
  PROVE  BootInv'
<1>1. faults' \in Nat /\ (faults' = 0 => faults = 0)
  BY DEF BootInv
<1>2. boot' \in [Procs -> [at : {"down", "locking", "probe", "wrote", "blocked", "up", "failed"},
                           file : Nat \ {0}, lock : BOOLEAN]]
  BY DEF BootInv
<1>3. \A q \in Procs \ {p} : boot'[q] = boot[q]
  BY DEF BootInv
<1>4. FilesInv'
  <2>1. \A q \in Procs :
          /\ boot'[q].at \in {"down", "locking"} => boot'[q].file = 1
          /\ boot'[q].at \in {"probe", "wrote", "blocked"} =>
               \A j \in 1 .. Files : j < boot'[q].file => L!File(j) \in made'
          /\ boot'[q].at \in {"wrote", "blocked"} =>
               boot'[q].file <= Files /\ L!File(boot'[q].file) \notin made'
    <3>1. ASSUME NEW q \in Procs \ {p}
          PROVE  /\ boot[q].at \in {"down", "locking"} => boot[q].file = 1
                 /\ boot[q].at \in {"probe", "wrote", "blocked"} =>
                      \A j \in 1 .. Files : j < boot[q].file => L!File(j) \in made
                 /\ boot[q].at \in {"wrote", "blocked"} =>
                      boot[q].file <= Files /\ L!File(boot[q].file) \notin made
      BY DEF BootInv, FilesInv
    <3> QED
      BY <1>3, <3>1
  <2>2. \A q, r \in Procs :
          q # r /\ boot'[q].at = "wrote" /\ boot'[r].at = "wrote" => boot'[q].file # boot'[r].file
    <3>1. \A q, r \in Procs :
            q # r /\ boot[q].at = "wrote" /\ boot[r].at = "wrote" => boot[q].file # boot[r].file
      BY DEF BootInv, FilesInv
    <3> QED
      BY <1>3, <3>1
  <2>3. \A i \in 1 .. Files : /\ L!File(i) \in made' => runs'[i] = 1
                              /\ L!File(i) \notin made' => runs'[i] = 0
                              /\ L!File(i) \in made' => \A j \in 1 .. i : L!File(j) \in made'
    BY DEF BootInv, FilesInv
  <2> QED
    BY <2>1, <2>2, <2>3 DEF FilesInv, L!File
<1>5. SessionInv'
  <2>1. \A q, r \in Procs : boot[q].lock /\ boot[r].lock => q = r
    BY DEF BootInv, SessionInv
  <2>2. faults' = 0 => \A q \in Procs : /\ boot[q].at # "failed"
                                        /\ boot[q].at \in {"probe", "wrote", "blocked"} => boot[q].lock
    BY <1>1 DEF BootInv, SessionInv
  <2>3. \A q, r \in Procs : boot'[q].lock /\ boot'[r].lock => q = r
    BY <1>3, <2>1
  <2>4. faults' = 0 => \A q \in Procs : /\ boot'[q].at # "failed"
                                        /\ boot'[q].at \in {"probe", "wrote", "blocked"} => boot'[q].lock
    BY <1>3, <2>2
  <2> QED
    BY <2>3, <2>4 DEF SessionInv
<1>6. runs' \in [1 .. Files -> Nat]
  BY DEF BootInv
<1> QED
  BY <1>1, <1>2, <1>4, <1>5, <1>6 DEF BootInv

(* A file that nobody else writes is written; else it waits.               *)
LEMMA FileReached ==
  ASSUME BootInv, NEW p \in Procs, boot[p].file <= Files, L!File(boot[p].file) \notin made
  PROVE  L!Rivals(<<p, L!File(boot[p].file)>>, "wrote") = {} =>
           \A r \in Procs \ {p} : boot[r].at = "wrote" => boot[r].file # boot[p].file
<1>1. boot[p].file \in 1 .. Files
  BY SetupAssumption DEF BootInv
<1>2. ASSUME NEW r \in Procs \ {p}, boot[r].at = "wrote", boot[r].file = boot[p].file
      PROVE  <<r, L!File(boot[p].file)>> \in L!Rivals(<<p, L!File(boot[p].file)>>, "wrote")
  BY <1>1, <1>2, FileIsRival
<1> QED
  BY <1>2

LEMMA MigrateStep ==
  ASSUME SetupInv, NEW p \in Procs, L!Migrate(p)
  PROVE  BootInv'
<1> DEFINE b == boot[p]
           w == <<p, L!File(b.file)>>
<1>1. /\ b \in [at : {"down", "locking", "probe", "wrote", "blocked", "up", "failed"},
                file : Nat \ {0}, lock : BOOLEAN]
      /\ BootInv /\ faults \in Nat
  BY DEF SetupInv, BootInv
<1>2. UNCHANGED <<made, runs, faults>>
  BY DEF L!Migrate
<1>3. /\ b.at \in {"down", "locking"} => b.file = 1
      /\ b.at \in {"probe", "wrote", "blocked"} => \A j \in 1 .. Files : j < b.file => L!File(j) \in made
      /\ b.at \in {"wrote", "blocked"} => b.file <= Files /\ L!File(b.file) \notin made
      /\ b.lock => \A r \in Procs \ {p} : ~ boot[r].lock
      /\ faults = 0 => (b.at \in {"probe", "wrote", "blocked"} => b.lock)
  BY <1>1 DEF BootInv, FilesInv, SessionInv
<1>4. \/ b.at = "down" /\ boot' = [boot EXCEPT ![p] = [b EXCEPT !.at = "locking"]]
      \/ b.at = "locking" /\ L!LockFree(p) /\ boot' = [boot EXCEPT ![p] = [b EXCEPT !.at = "probe", !.lock = TRUE]]
      \/ b.at = "probe" /\ L!File(b.file) \in made /\ boot' = [boot EXCEPT ![p] = [b EXCEPT !.file = b.file + 1]]
      \/ b.at = "probe" /\ b.file > Files /\ boot' = [boot EXCEPT ![p] = [b EXCEPT !.at = "up", !.lock = FALSE]]
      \/ /\ b.at \in {"probe", "blocked"} /\ b.file <= Files /\ L!File(b.file) \notin made
         /\ \/ L!Rivals(w, "wrote") = {} /\ boot' = [boot EXCEPT ![p] = [b EXCEPT !.at = "wrote"]]
            \/ boot' = [boot EXCEPT ![p] = [b EXCEPT !.at = "blocked"]]
  BY <1>3 DEF L!Migrate, L!Reached
<1>5. boot \in [Procs -> [at : {"down", "locking", "probe", "wrote", "blocked", "up", "failed"},
                          file : Nat \ {0}, lock : BOOLEAN]]
  BY <1>1 DEF BootInv
<1>6. CASE b.at = "down" /\ boot' = [boot EXCEPT ![p] = [b EXCEPT !.at = "locking"]]
  <2>1. boot'[p] = [b EXCEPT !.at = "locking"]
    BY <1>5, <1>6
  <2>2. boot'[p].at = "locking" /\ boot'[p].file = 1 /\ boot'[p].lock = b.lock
    BY <1>1, <1>3, <1>6, <2>1
  <2>3. boot' = [boot EXCEPT ![p] = boot'[p]]
    BY <1>6, <2>1
  <2> HIDE DEF b
  <2>4. boot'[p] \in [at : {"down", "locking", "probe", "wrote", "blocked", "up", "failed"},
                      file : Nat \ {0}, lock : BOOLEAN]
    BY <1>1, <2>1
  <2> QED
    BY <1>1, <1>2, <1>3, <2>2, <2>3, <2>4, BootMoves
<1>7. CASE b.at = "locking" /\ L!LockFree(p) /\ boot' = [boot EXCEPT ![p] = [b EXCEPT !.at = "probe", !.lock = TRUE]]
  <2>1. boot'[p] = [b EXCEPT !.at = "probe", !.lock = TRUE]
    BY <1>5, <1>7
  <2>2. boot'[p].at = "probe" /\ boot'[p].file = 1 /\ boot'[p].lock
    <3>1. boot'[p].at = "probe" /\ boot'[p].file = b.file /\ boot'[p].lock = TRUE
      BY <1>1, <2>1
    <3> QED
      BY <1>3, <1>7, <3>1
  <2>3. boot' = [boot EXCEPT ![p] = boot'[p]]
    BY <1>7, <2>1
  <2>4. \A r \in Procs \ {p} : ~ boot[r].lock
    BY <1>7 DEF L!LockFree
  <2> HIDE DEF b
  <2>5. boot'[p] \in [at : {"down", "locking", "probe", "wrote", "blocked", "up", "failed"},
                      file : Nat \ {0}, lock : BOOLEAN]
    BY <1>1, <2>1
  <2> QED
    BY <1>1, <1>2, <2>2, <2>3, <2>4, <2>5, BootMoves
<1>8. CASE b.at = "probe" /\ L!File(b.file) \in made /\ boot' = [boot EXCEPT ![p] = [b EXCEPT !.file = b.file + 1]]
  <2>1. boot'[p] = [b EXCEPT !.file = b.file + 1]
    BY <1>5, <1>8
  <2>2. boot'[p].at = "probe" /\ boot'[p].file = b.file + 1 /\ boot'[p].lock = b.lock
    BY <1>1, <1>8, <2>1
  <2>3. boot' = [boot EXCEPT ![p] = boot'[p]]
    BY <1>8, <2>1
  <2>4. \A j \in 1 .. Files : j < b.file + 1 => L!File(j) \in made
    <3>1. \A j \in 1 .. Files : j < b.file + 1 => j < b.file \/ j = b.file
      BY <1>1
    <3> QED
      BY <1>3, <1>8, <3>1
  <2> HIDE DEF b
  <2>5. boot'[p] \in [at : {"down", "locking", "probe", "wrote", "blocked", "up", "failed"},
                      file : Nat \ {0}, lock : BOOLEAN]
    BY <1>1, <2>1
  <2> QED
    BY <1>1, <1>2, <1>3, <1>8, <2>2, <2>3, <2>4, <2>5, BootMoves
<1>9. CASE b.at = "probe" /\ b.file > Files /\ boot' = [boot EXCEPT ![p] = [b EXCEPT !.at = "up", !.lock = FALSE]]
  <2>1. boot'[p] = [b EXCEPT !.at = "up", !.lock = FALSE]
    BY <1>5, <1>9
  <2>2. boot'[p].at = "up" /\ ~ boot'[p].lock
    BY <1>1, <2>1
  <2>3. boot' = [boot EXCEPT ![p] = boot'[p]]
    BY <1>9, <2>1
  <2> HIDE DEF b
  <2>4. boot'[p] \in [at : {"down", "locking", "probe", "wrote", "blocked", "up", "failed"},
                      file : Nat \ {0}, lock : BOOLEAN]
    BY <1>1, <2>1
  <2> QED
    BY <1>1, <1>2, <2>2, <2>3, <2>4, BootMoves
<1>10. ASSUME NEW to \in {"wrote", "blocked"}, b.at \in {"probe", "blocked"}, b.file <= Files,
              L!File(b.file) \notin made, boot' = [boot EXCEPT ![p] = [b EXCEPT !.at = to]],
              to = "wrote" => L!Rivals(w, "wrote") = {}
       PROVE  BootInv'
  <2>1. boot'[p] = [b EXCEPT !.at = to]
    BY <1>5, <1>10
  <2>2. boot'[p].at = to /\ boot'[p].file = b.file /\ boot'[p].lock = b.lock
    BY <1>1, <2>1
  <2>3. boot' = [boot EXCEPT ![p] = boot'[p]]
    BY <1>10, <2>1
  <2>4. to = "wrote" => \A r \in Procs \ {p} : boot[r].at = "wrote" => boot[r].file # b.file
    BY <1>1, <1>10, FileReached
  <2> HIDE DEF b
  <2>5. boot'[p] \in [at : {"down", "locking", "probe", "wrote", "blocked", "up", "failed"},
                      file : Nat \ {0}, lock : BOOLEAN]
    BY <1>1, <1>10, <2>1
  <2>6. /\ \A j \in 1 .. Files : j < boot'[p].file => L!File(j) \in made
        /\ boot'[p].file <= Files /\ L!File(boot'[p].file) \notin made
        /\ boot'[p].lock => \A r \in Procs \ {p} : ~ boot[r].lock
        /\ boot'[p].at = "wrote" => \A r \in Procs \ {p} : boot[r].at = "wrote" => boot[r].file # boot'[p].file
    BY <1>3, <1>10, <2>2, <2>4
  <2>7. /\ boot'[p].at \in {"wrote", "blocked"}
        /\ faults' = 0 => boot'[p].lock
        /\ faults' \in {faults, faults + 1}
    BY <1>2, <1>3, <1>10, <2>2
  <2> QED
    BY <1>1, <1>2, <2>3, <2>5, <2>6, <2>7, BootMoves
<1> QED
  BY <1>4, <1>6, <1>7, <1>8, <1>9, <1>10

(* Whom a transaction's end fails.                                         *)
LEMMA LookupsFail ==
  ASSUME NEW W, \A w \in W : \E r \in Procs, h \in L!Keys : w = <<r, h>>
  PROVE  /\ \A w \in L!Failing(W) : \E r \in Procs, h \in L!Keys : w = <<r, h>>
         /\ W = {} => L!Failing(W) = {}
<1>1. ASSUME NEW w \in L!Works, w[2][1] = "reader"
      PROVE  \E r \in Procs, h \in L!Keys : w = <<r, h>>
  <2>1. PICK r \in Procs, h \in L!Keys \cup {L!File(i) : i \in 1 .. Files} : w = <<r, h>>
    BY DEF L!Works
  <2>2. h \in L!Keys
    BY <1>1, <2>1 DEF L!File
  <2> QED
    BY <2>1, <2>2
<1> QED
  BY <1>1 DEF L!Failing

LEMMA FilesFail ==
  ASSUME NEW i \in 1 .. Files, NEW W, \A w \in W : \E r \in Procs : w = <<r, L!File(i)>>
  PROVE  L!Failing(W) = W
<1>1. <<"schema", Reader>> # L!File(i)
  BY DEF L!File
<1> QED
  BY <1>1 DEF L!Failing

(* The commit of a file records it and fails those who wait to write it.   *)
LEMMA CommitFileStep ==
  ASSUME SetupInv, NEW p \in Procs, L!CommitFile(p)
  PROVE  SetupInv'
<1> DEFINE i == boot[p].file
           w == <<p, L!File(i)>>
           R == L!Rivals(w, "blocked")
<1>1. /\ boot[p].at = "wrote" /\ made' = made \cup {L!File(i)}
      /\ runs' = [runs EXCEPT ![i] = @ + 1]
      /\ L!Fail(L!Losers(w), [boot EXCEPT ![p].at = "probe"], memo, look)
      /\ clashes' = L!Clashing(w) /\ faults' = faults
  BY DEF L!CommitFile
<1>2. BootInv /\ LookInv /\ MemoInv /\ CallsInv /\ L!OnlyTheReaderClashes /\ faults \in Nat
  BY DEF SetupInv, BootInv
<1>3. i \in 1 .. Files /\ L!File(i) \notin made
  BY <1>1, <1>2, SetupAssumption DEF BootInv, FilesInv
<1>4. \A v \in R : \E r \in Procs \ {p} : v = <<r, L!File(i)>> /\ boot[r].file = i /\ boot[r].at = "blocked"
  BY <1>3, FileRivals
<1>5. L!Losers(w) = R
  BY <1>3, <1>4, FilesFail DEF L!Losers
<1>6. \A r \in Procs \ {p} : boot[r].at = "blocked" /\ boot[r].file = i => <<r, L!File(i)>> \in R
  BY <1>3, FileIsRival
<1> HIDE DEF w, R
<1>7. ASSUME NEW q \in Procs, NEW k \in L!Keys PROVE <<q, k>> \notin R
  BY <1>3, <1>4, KeysAreNoFiles
<1>8. /\ memo' = [q \in Procs |-> [k \in L!Keys |-> memo[q][k]]]
      /\ look' = [q \in Procs |-> [k \in L!Keys |-> look[q][k]]]
  BY <1>1, <1>5, <1>7 DEF L!Fail
<1>9. /\ memo' = memo /\ look' = look
  BY <1>2, <1>8 DEF MemoInv, LookInv
<1>10. calls' = [c \in L!Callers |->
                   IF calls[c].waits /\ <<c.proc, L!Asks(c)[calls[c].passed + 1]>> \in R
                   THEN [calls[c] EXCEPT !.at = "failed", !.waits = FALSE] ELSE calls[c]]
  BY <1>1, <1>5 DEF L!Fail
<1>11. \A c \in L!Callers : calls'[c] = calls[c] \/ (CallFails(c) /\ R # {})
  BY <1>10 DEF CallFails
<1>12. calls' = [c \in L!Callers |-> calls'[c]] /\ L!Callers' = L!Callers
  BY <1>10 DEF L!Callers
<1>13. clashes' = clashes \cup {{w[2][1], v[2][1]} : v \in R}
  BY <1>1 DEF L!Clashing, R
<1>14. w[2][1] = "file" /\ \A v \in R : v[2][1] = "file"
  BY <1>4 DEF w, L!File
<1>15. \A pair \in clashes' \ clashes : pair = {"file"}
  BY <1>13, <1>14
<1>16. R # {} => clashes' # {}
  BY <1>13
<1>17. L!OnlyTheReaderClashes'
  <2>1. \A c \in L!Callers : calls'[c].at = "failed" => calls[c].at = "failed" \/ clashes' # {}
    BY <1>11, <1>16
  <2>2. clashes \subseteq clashes'
    BY <1>13
  <2> QED
    BY <1>1, <1>2, <1>12, <1>15, <2>1, <2>2, ClashesRest
<1>18. CallsInv'
  BY <1>1, <1>2, <1>11, <1>12, CallsRest
<1>19. MemoInv' /\ LookInv'
  BY <1>1, <1>2, <1>9 DEF MemoInv, LookInv
<1> DEFINE Loses(q) == \E j \in 1 .. Files : <<q, L!File(j)>> \in R
           After(q) == IF Loses(q)
                       THEN [[boot EXCEPT ![p].at = "probe"][q] EXCEPT !.at = "failed", !.lock = FALSE]
                       ELSE [boot EXCEPT ![p].at = "probe"][q]
<1>20. boot' = [q \in Procs |-> After(q)]
  <2>1. L!Fail(R, [boot EXCEPT ![p].at = "probe"], memo, look)
    BY <1>1, <1>5
  <2> QED
    BY <2>1 DEF L!Fail
<1>21. boot \in [Procs -> [at : {"down", "locking", "probe", "wrote", "blocked", "up", "failed"},
                           file : Nat \ {0}, lock : BOOLEAN]]
  BY <1>2 DEF BootInv
<1>22. ASSUME NEW q \in Procs, Loses(q)
       PROVE  q # p /\ boot[q].at = "blocked"
  BY <1>4, <1>22
<1>23. boot'[p] = [boot[p] EXCEPT !.at = "probe"]
  BY <1>20, <1>21, <1>22
<1>24. ASSUME NEW q \in Procs \ {p}
       PROVE  \/ boot'[q] = boot[q] /\ ~ (boot[q].at = "blocked" /\ boot[q].file = i)
              \/ boot'[q] = [boot[q] EXCEPT !.at = "failed", !.lock = FALSE] /\ boot[q].at = "blocked"
  <2>1. [boot EXCEPT ![p].at = "probe"][q] = boot[q]
    BY <1>21
  <2>2. CASE Loses(q)
    BY <1>20, <1>22, <2>1, <2>2
  <2>3. CASE ~ Loses(q)
    <3>1. ~ (boot[q].at = "blocked" /\ boot[q].file = i)
      BY <1>3, <1>6, <2>3
    <3> QED
      BY <1>20, <2>1, <2>3, <3>1
  <2> QED
    BY <2>2, <2>3
<1>25. BootInv'
  <2> DEFINE B == [at : {"down", "locking", "probe", "wrote", "blocked", "up", "failed"},
                   file : Nat \ {0}, lock : BOOLEAN]
  <2>1. \A q \in Procs : boot[q] \in B
    BY <1>21
  <2>2. boot'[p].at = "probe" /\ boot'[p].file = i /\ boot'[p].lock = boot[p].lock /\ boot'[p] \in B
    BY <1>23, <2>1
  <2>3. ASSUME NEW q \in Procs \ {p}
        PROVE  /\ boot'[q] \in B /\ boot'[q].file = boot[q].file
               /\ \/ boot'[q] = boot[q] /\ ~ (boot[q].at = "blocked" /\ boot[q].file = i)
                  \/ boot'[q].at = "failed" /\ boot'[q].lock = FALSE /\ boot[q].at = "blocked"
    <3>1. boot[q] \in B
      BY <2>1
    <3> QED
      BY <1>24, <3>1
  <2>4. boot' \in [Procs -> B]
    <3>1. boot' = [q \in Procs |-> boot'[q]]
      <4> HIDE DEF After
      <4> QED
        BY <1>20
    <3>2. \A q \in Procs : boot'[q] \in B
      BY <2>2, <2>3
    <3> HIDE DEF B
    <3> QED
      BY <3>1, <3>2
  <2>5. runs' \in [1 .. Files -> Nat]
    BY <1>1, <1>2, <1>3 DEF BootInv
  <2>6. \A j \in 1 .. Files : /\ L!File(j) \in made' => runs'[j] = 1
                              /\ L!File(j) \notin made' => runs'[j] = 0
                              /\ L!File(j) \in made' => \A n \in 1 .. j : L!File(n) \in made'
    <3>1. runs \in [1 .. Files -> Nat] /\ runs[i] = 0
      BY <1>2, <1>3 DEF BootInv, FilesInv
    <3>2. runs'[i] = 1 /\ \A j \in 1 .. Files : j # i => runs'[j] = runs[j]
      BY <1>1, <1>3, <3>1
    <3>3. \A j \in 1 .. Files : j # i => (L!File(j) \in made' <=> L!File(j) \in made)
      BY <1>1, <1>3, FilesDiffer
    <3>4. \A j \in 1 .. Files : j < i => L!File(j) \in made
      BY <1>1, <1>2 DEF BootInv, FilesInv
    <3>5. \A n \in 1 .. i : L!File(n) \in made'
      <4>1. \A n \in 1 .. i : n = i \/ (n \in 1 .. Files /\ n < i)
        BY <1>3, SetupAssumption
      <4> QED
        BY <1>1, <3>4, <4>1
    <3>6. \A j \in 1 .. Files : /\ L!File(j) \in made => runs[j] = 1
                                /\ L!File(j) \notin made => runs[j] = 0
                                /\ L!File(j) \in made => \A n \in 1 .. j : L!File(n) \in made
      BY <1>2 DEF BootInv, FilesInv
    <3>7. ASSUME NEW j \in 1 .. Files
          PROVE  /\ L!File(j) \in made' => runs'[j] = 1
                 /\ L!File(j) \notin made' => runs'[j] = 0
                 /\ L!File(j) \in made' => \A n \in 1 .. j : L!File(n) \in made'
      <4>1. CASE j = i
        BY <1>1, <3>2, <3>5, <4>1
      <4>2. CASE j # i
        BY <1>1, <3>2, <3>3, <3>6, <4>2
      <4> QED
        BY <4>1, <4>2
    <3> QED
      BY <3>7
  <2>7. \A q \in Procs :
          /\ boot'[q].at \in {"down", "locking"} => boot'[q].file = 1
          /\ boot'[q].at \in {"probe", "wrote", "blocked"} =>
               \A j \in 1 .. Files : j < boot'[q].file => L!File(j) \in made'
          /\ boot'[q].at \in {"wrote", "blocked"} => boot'[q].file <= Files /\ L!File(boot'[q].file) \notin made'
    <3>1. \A j \in 1 .. Files : j < i => L!File(j) \in made
      BY <1>1, <1>2 DEF BootInv, FilesInv
    <3>2. ASSUME NEW q \in Procs \ {p}, boot'[q] = boot[q], ~ (boot[q].at = "blocked" /\ boot[q].file = i)
          PROVE  /\ boot[q].at \in {"down", "locking"} => boot[q].file = 1
                 /\ boot[q].at \in {"probe", "wrote", "blocked"} =>
                      \A j \in 1 .. Files : j < boot[q].file => L!File(j) \in made
                 /\ boot[q].at \in {"wrote", "blocked"} =>
                      boot[q].file <= Files /\ L!File(boot[q].file) \notin made'
      <4>1. /\ boot[q].at \in {"down", "locking"} => boot[q].file = 1
            /\ boot[q].at \in {"probe", "wrote", "blocked"} =>
                 \A j \in 1 .. Files : j < boot[q].file => L!File(j) \in made
            /\ boot[q].at \in {"wrote", "blocked"} =>
                 boot[q].file <= Files /\ L!File(boot[q].file) \notin made
        BY <1>2 DEF BootInv, FilesInv
      <4>2. boot[q].at = "wrote" => boot[q].file # i
        BY <1>1, <1>2 DEF BootInv, FilesInv
      <4>3. boot[q].at \in {"wrote", "blocked"} => boot[q].file \in 1 .. Files /\ boot[q].file # i
        BY <2>1, <3>2, <4>1, <4>2, SetupAssumption
      <4>4. boot[q].at \in {"wrote", "blocked"} => L!File(boot[q].file) # L!File(i)
        BY <1>3, <4>3, FilesDiffer
      <4> QED
        BY <1>1, <4>1, <4>4
    <3>3. made \subseteq made'
      BY <1>1
    <3> QED
      BY <2>2, <2>3, <3>1, <3>2, <3>3
  <2>8. \A q, r \in Procs :
          q # r /\ boot'[q].at = "wrote" /\ boot'[r].at = "wrote" => boot'[q].file # boot'[r].file
    <3>1. \A q, r \in Procs :
            q # r /\ boot[q].at = "wrote" /\ boot[r].at = "wrote" => boot[q].file # boot[r].file
      BY <1>2 DEF BootInv, FilesInv
    <3>2. \A q \in Procs : boot'[q].at = "wrote" => boot'[q] = boot[q]
      BY <2>2, <2>3
    <3> QED
      BY <3>1, <3>2
  <2>9. FilesInv'
    BY <2>6, <2>7, <2>8 DEF FilesInv, L!File
  <2>10. SessionInv'
    <3>1. \A q, r \in Procs : boot[q].lock /\ boot[r].lock => q = r
      BY <1>2 DEF BootInv, SessionInv
    <3>2. faults = 0 => \A q \in Procs : /\ boot[q].at # "failed"
                                         /\ boot[q].at \in {"probe", "wrote", "blocked"} => boot[q].lock
      BY <1>2 DEF BootInv, SessionInv
    <3>3. \A q \in Procs : boot'[q].lock => boot[q].lock
      BY <2>2, <2>3
    <3>4. ASSUME faults = 0, NEW q \in Procs \ {p} PROVE boot[q].at # "blocked"
      BY <1>1, <3>1, <3>2, <3>4
    <3>5. faults = 0 => \A q \in Procs : /\ boot'[q].at # "failed"
                                         /\ boot'[q].at \in {"probe", "wrote", "blocked"} => boot'[q].lock
      <4>1. ASSUME faults = 0, NEW q \in Procs \ {p} PROVE boot'[q] = boot[q]
        BY <2>3, <3>4, <4>1
      <4>2. faults = 0 => boot'[p].lock
        BY <1>1, <2>2, <3>2
      <4> QED
        BY <2>2, <3>2, <4>1, <4>2
    <3> QED
      BY <1>1, <3>1, <3>3, <3>5 DEF SessionInv
  <2> QED
    BY <1>1, <1>2, <2>4, <2>5, <2>9, <2>10 DEF BootInv
<1> QED
  BY <1>17, <1>18, <1>19, <1>25 DEF SetupInv

(* A crash and a lost session lock free a boot of what it held.            *)
LEMMA CrashStep ==
  ASSUME SetupInv, NEW p \in Procs, L!Crash(p), faults' = faults + 1
  PROVE  SetupInv'
<1>1. BootInv /\ LookInv /\ MemoInv /\ CallsInv /\ L!OnlyTheReaderClashes /\ faults \in Nat
  BY DEF SetupInv, BootInv
<1>2. /\ boot' = [boot EXCEPT ![p] = [at |-> "down", file |-> 1, lock |-> FALSE]]
      /\ memo' = [memo EXCEPT ![p] = [k \in L!Keys |-> "none"]]
      /\ look' = [look EXCEPT ![p] = [k \in L!Keys |-> L!idle]]
      /\ UNCHANGED <<made, runs, clashes>>
  BY DEF L!Crash
<1>3. calls' = [c \in L!Callers |-> IF c.proc = p /\ calls[c].at \notin {"idle", "ended", "failed"}
                                    THEN [calls[c] EXCEPT !.at = "failed", !.waits = FALSE] ELSE calls[c]]
  BY DEF L!Crash
<1>4. BootInv'
  <2>1. boot'[p] = [at |-> "down", file |-> 1, lock |-> FALSE]
    BY <1>1, <1>2 DEF BootInv
  <2>2. boot' = [boot EXCEPT ![p] = boot'[p]]
    BY <1>2, <2>1
  <2>3. boot'[p].at = "down" /\ boot'[p].file = 1 /\ boot'[p].lock = FALSE
    BY <2>1
  <2>4. boot'[p] \in [at : {"down", "locking", "probe", "wrote", "blocked", "up", "failed"},
                      file : Nat \ {0}, lock : BOOLEAN]
    BY <2>1
  <2>5. faults' # 0 /\ UNCHANGED <<made, runs>>
    BY <1>1, <1>2
  <2> QED
    BY <1>1, <2>2, <2>3, <2>4, <2>5, BootMoves
<1>5. look' = [q \in Procs |-> [k \in L!Keys |-> look'[q][k]]]
      /\ \A q \in Procs, k \in L!Keys : look'[q][k] = look[q][k] \/ look'[q][k] = L!idle
  <2>1. look = [q \in Procs |-> look[q]] /\ \A q \in Procs : look[q] = [k \in L!Keys |-> look[q][k]]
    BY <1>1 DEF LookInv
  <2>2. look' = [q \in Procs |-> look'[q]]
    BY <1>2, <2>1
  <2>3. look'[p] = [k \in L!Keys |-> L!idle] /\ \A q \in Procs \ {p} : look'[q] = look[q]
    BY <1>2, <2>1
  <2> QED
    BY <2>1, <2>2, <2>3
<1>6. memo' = [q \in Procs |-> [k \in L!Keys |-> memo'[q][k]]]
      /\ \A q \in Procs, k \in L!Keys : memo'[q][k] \in {"none", memo[q][k]}
  <2>1. memo = [q \in Procs |-> memo[q]] /\ \A q \in Procs : memo[q] = [k \in L!Keys |-> memo[q][k]]
    BY <1>1 DEF MemoInv
  <2>2. memo' = [q \in Procs |-> memo'[q]]
    BY <1>2, <2>1
  <2>3. memo'[p] = [k \in L!Keys |-> "none"] /\ \A q \in Procs \ {p} : memo'[q] = memo[q]
    BY <1>2, <2>1
  <2> QED
    BY <2>1, <2>2, <2>3
<1>7. LookInv'
  BY <1>1, <1>5, LooksFewer
<1>8. MemoInv'
  BY <1>1, <1>2, <1>6, MemoGrows
<1>9. \A c \in L!Callers : calls'[c] = calls[c] \/ CallFails(c)
  BY <1>3 DEF CallFails
<1>10. calls' = [c \in L!Callers |-> calls'[c]] /\ L!Callers' = L!Callers
  BY <1>3 DEF L!Callers
<1>11. CallsInv'
  BY <1>1, <1>2, <1>9, <1>10, CallsRest
<1>12. L!OnlyTheReaderClashes'
  BY <1>1, <1>2, <1>10, ClashesRest
<1> QED
  BY <1>4, <1>7, <1>8, <1>11, <1>12 DEF SetupInv

LEMMA LoseLockStep ==
  ASSUME SetupInv, NEW p \in Procs, L!LoseLock(p), faults' = faults + 1
  PROVE  SetupInv'
<1>1. BootInv /\ LookInv /\ MemoInv /\ CallsInv /\ L!OnlyTheReaderClashes /\ faults \in Nat
  BY DEF SetupInv, BootInv
<1>2. /\ boot' = [boot EXCEPT ![p].lock = FALSE]
      /\ UNCHANGED <<memo, look, made, runs, calls, clashes>>
  BY DEF L!LoseLock
<1>3. BootInv'
  <2>1. boot \in [Procs -> [at : {"down", "locking", "probe", "wrote", "blocked", "up", "failed"},
                            file : Nat \ {0}, lock : BOOLEAN]]
    BY <1>1 DEF BootInv
  <2>2. boot'[p] = [boot[p] EXCEPT !.lock = FALSE]
    BY <1>2, <2>1
  <2>3. boot'[p].at = boot[p].at /\ boot'[p].file = boot[p].file /\ boot'[p].lock = FALSE
    BY <2>1, <2>2
  <2>4. boot' = [boot EXCEPT ![p] = boot'[p]]
    BY <1>2, <2>2
  <2>5. boot'[p] \in [at : {"down", "locking", "probe", "wrote", "blocked", "up", "failed"},
                      file : Nat \ {0}, lock : BOOLEAN]
    BY <2>1, <2>2
  <2>6. /\ boot[p].at \in {"down", "locking"} => boot[p].file = 1
        /\ boot[p].at \in {"probe", "wrote", "blocked"} =>
             \A j \in 1 .. Files : j < boot[p].file => L!File(j) \in made
        /\ boot[p].at \in {"wrote", "blocked"} => boot[p].file <= Files /\ L!File(boot[p].file) \notin made
        /\ boot[p].at = "wrote" => \A r \in Procs \ {p} : boot[r].at = "wrote" => boot[r].file # boot[p].file
    BY <1>1 DEF BootInv, FilesInv
  <2>7. faults' # 0 /\ UNCHANGED <<made, runs>>
    BY <1>1, <1>2
  <2> QED
    BY <1>1, <2>3, <2>4, <2>5, <2>6, <2>7, BootMoves
<1>4. LookInv' /\ MemoInv' /\ L!Callers' = L!Callers
  BY <1>1, <1>2 DEF LookInv, MemoInv, L!Callers
<1>5. CallsInv'
  BY <1>1, <1>2 DEF CallsInv, L!Callers
<1>6. L!OnlyTheReaderClashes'
  BY <1>1, <1>2, <1>4, ClashesRest
<1> QED
  BY <1>3, <1>4, <1>5, <1>6 DEF SetupInv

(* A lookup that ends, and those that fail with it.                        *)
LEMMA LookupsEnd ==
  ASSUME BootInv, NEW F, NEW M, NEW K, L!Fail(F, boot, M, K),
         \A w \in F : \E r \in Procs, h \in L!Keys : w = <<r, h>>
  PROVE  /\ boot' = boot
         /\ memo' = [q \in Procs |-> [h \in L!Keys |-> memo'[q][h]]]
         /\ \A q \in Procs, h \in L!Keys : memo'[q][h] \in {"none", M[q][h]}
         /\ look' = [q \in Procs |-> [h \in L!Keys |-> look'[q][h]]]
         /\ \A q \in Procs, h \in L!Keys : look'[q][h] \in {L!idle, K[q][h]}
         /\ calls' = [c \in L!Callers |-> calls'[c]] /\ L!Callers' = L!Callers
         /\ \A c \in L!Callers : calls'[c] = calls[c] \/ (CallFails(c) /\ F # {})
<1> DEFINE B(q) == IF \E i \in 1 .. Files : <<q, L!File(i)>> \in F
                   THEN [boot[q] EXCEPT !.at = "failed", !.lock = FALSE] ELSE boot[q]
           N(q, h) == IF <<q, h>> \in F THEN "none" ELSE M[q][h]
           T(q, h) == IF <<q, h>> \in F THEN L!idle ELSE K[q][h]
           D(c) == IF calls[c].waits /\ <<c.proc, L!Asks(c)[calls[c].passed + 1]>> \in F
                   THEN [calls[c] EXCEPT !.at = "failed", !.waits = FALSE] ELSE calls[c]
<1>1. /\ boot' = [q \in Procs |-> B(q)]
      /\ memo' = [q \in Procs |-> [h \in L!Keys |-> N(q, h)]]
      /\ look' = [q \in Procs |-> [h \in L!Keys |-> T(q, h)]]
      /\ calls' = [c \in L!Callers |-> D(c)]
  BY DEF L!Fail
<1>2. ASSUME NEW q \in Procs PROVE B(q) = boot[q]
  <2>1. ASSUME NEW i \in 1 .. Files, <<q, L!File(i)>> \in F PROVE FALSE
    <3>1. PICK r \in Procs, h \in L!Keys : <<q, L!File(i)>> = <<r, h>>
      BY <2>1
    <3> QED
      BY <3>1, KeysAreNoFiles
  <2> QED
    BY <2>1
<1>3. \A q \in Procs, h \in L!Keys : N(q, h) \in {"none", M[q][h]} /\ T(q, h) \in {L!idle, K[q][h]}
  OBVIOUS
<1>4. \A c \in L!Callers : D(c) = calls[c] \/ (D(c) = [calls[c] EXCEPT !.at = "failed", !.waits = FALSE] /\ F # {})
  OBVIOUS
<1>5. boot = [q \in Procs |-> boot[q]]
  BY DEF BootInv
<1> HIDE DEF B, N, T, D
<1>6. boot' = boot
  BY <1>1, <1>2, <1>5
<1>7. \A q \in Procs, h \in L!Keys : memo'[q][h] = N(q, h) /\ look'[q][h] = T(q, h)
  BY <1>1
<1>8. \A c \in L!Callers : calls'[c] = D(c)
  BY <1>1
<1>9. /\ memo' = [q \in Procs |-> [h \in L!Keys |-> memo'[q][h]]]
      /\ look' = [q \in Procs |-> [h \in L!Keys |-> look'[q][h]]]
  BY <1>1, <1>7
<1>10. calls' = [c \in L!Callers |-> calls'[c]] /\ L!Callers' = L!Callers
  BY <1>1, <1>8 DEF L!Callers
<1>11. \A c \in L!Callers : calls'[c] = calls[c] \/ (CallFails(c) /\ F # {})
  BY <1>4, <1>8 DEF CallFails
<1> QED
  BY <1>3, <1>6, <1>7, <1>9, <1>10, <1>11

(* The commit of a lookup makes its key; it fails nobody, unless one of    *)
(* the two is the reader's.                                                *)
LEMMA CommitLookupStep ==
  ASSUME SetupInv, NEW p \in Procs, NEW k \in L!Keys, L!Commit(p, k)
  PROVE  SetupInv'
<1> DEFINE w == <<p, k>>
           R == L!Rivals(w, "blocked")
           M == [memo EXCEPT ![p][k] = "done"]
           K == [look EXCEPT ![p][k] = L!idle]
<1>1. BootInv /\ LookInv /\ MemoInv /\ CallsInv /\ L!OnlyTheReaderClashes /\ faults \in Nat
  BY DEF SetupInv, BootInv
<1>2. /\ look[p][k].at = "wrote" /\ made' = made \cup {k}
      /\ L!Fail(L!Losers(w), boot, M, K)
      /\ clashes' = L!Clashing(w) /\ UNCHANGED <<runs, faults>>
  BY DEF L!Commit
<1>3. \A v \in R : \E r \in Procs, h \in L!Keys :
        /\ v = <<r, h>> /\ look[r][h].at = "blocked" /\ <<r, h>> # <<p, k>>
        /\ h = k \/ (h[1] \in {"schema", "reader"} /\ k[1] \in {"schema", "reader"})
  BY KeyRivals
<1>4. clashes' = clashes \cup {{k[1], v[2][1]} : v \in R}
  BY <1>2 DEF L!Clashing
<1>5. M = [q \in Procs |-> [h \in L!Keys |-> IF q = p /\ h = k THEN "done" ELSE memo[q][h]]]
  <2>1. memo = [q \in Procs |-> memo[q]] /\ \A q \in Procs : memo[q] = [h \in L!Keys |-> memo[q][h]]
    BY <1>1 DEF MemoInv
  <2> QED
    BY <2>1
<1>6. K = [q \in Procs |-> [h \in L!Keys |-> IF q = p /\ h = k THEN L!idle ELSE look[q][h]]]
  <2>1. look = [q \in Procs |-> look[q]] /\ \A q \in Procs : look[q] = [h \in L!Keys |-> look[q][h]]
    BY <1>1 DEF LookInv
  <2> QED
    BY <2>1
<1>7. /\ \A q \in Procs, h \in L!Keys : M[q][h] = memo[q][h] \/ (M[q][h] = "done" /\ h = k)
      /\ \A q \in Procs, h \in L!Keys : K[q][h] = look[q][h] \/ K[q][h] = L!idle
  BY <1>5, <1>6
<1> HIDE DEF R, M, K
<1>8. /\ \A v \in L!Losers(w) : \E r \in Procs, h \in L!Keys : v = <<r, h>>
      /\ R = {} => L!Losers(w) = {}
  <2>1. L!Losers(w) = L!Failing(R)
    BY DEF L!Losers, R
  <2>2. \A v \in R : \E r \in Procs, h \in L!Keys : v = <<r, h>>
    BY <1>3
  <2> QED
    BY <2>1, <2>2, LookupsFail
<1>9. /\ boot' = boot
      /\ memo' = [q \in Procs |-> [h \in L!Keys |-> memo'[q][h]]]
      /\ \A q \in Procs, h \in L!Keys : memo'[q][h] \in {"none", M[q][h]}
      /\ look' = [q \in Procs |-> [h \in L!Keys |-> look'[q][h]]]
      /\ \A q \in Procs, h \in L!Keys : look'[q][h] \in {L!idle, K[q][h]}
      /\ calls' = [c \in L!Callers |-> calls'[c]] /\ L!Callers' = L!Callers
      /\ \A c \in L!Callers : calls'[c] = calls[c] \/ (CallFails(c) /\ L!Losers(w) # {})
  BY <1>1, <1>2, <1>8, LookupsEnd
<1>10. LookInv'
  <2>1. \A q \in Procs, h \in L!Keys : look'[q][h] = look[q][h] \/ look'[q][h] = L!idle
    BY <1>7, <1>9
  <2> QED
    BY <1>1, <1>9, <2>1, LooksFewer
<1>11. MemoInv'
  <2>1. \A q \in Procs, h \in L!Keys :
          memo'[q][h] \in {"none", "flight", memo[q][h]} \/ (memo'[q][h] = "done" /\ h \in made')
    BY <1>2, <1>7, <1>9
  <2>2. made \subseteq made'
    BY <1>2
  <2> QED
    BY <1>1, <1>9, <2>1, <2>2, MemoGrows
<1>12. CallsInv'
  BY <1>1, <1>2, <1>9, CallsRest
<1>13. BootInv'
  <2>1. \A i \in 1 .. Files : L!File(i) \in made' <=> L!File(i) \in made
    BY <1>2, KeysAreNoFiles
  <2> QED
    BY <1>1, <1>2, <1>9, <2>1, BootsRest
<1>14. L!OnlyTheReaderClashes'
  <2>1. ASSUME NEW pair \in clashes' \ clashes
        PROVE  "reader" \in pair
    <3>1. PICK v \in R : pair = {k[1], v[2][1]}
      BY <1>4, <2>1
    <3>2. PICK r \in Procs, h \in L!Keys :
            /\ v = <<r, h>> /\ look[r][h].at = "blocked" /\ <<r, h>> # <<p, k>>
            /\ h = k \/ (h[1] \in {"schema", "reader"} /\ k[1] \in {"schema", "reader"})
      BY <1>3, <3>1
    <3>3. k[1] = "reader" \/ h[1] = "reader"
      BY <1>1, <1>2, <3>2, LocksKeepApart
    <3> QED
      BY <3>1, <3>2, <3>3
  <2>2. R # {} => clashes' # {}
    BY <1>4
  <2>3. \A c \in L!Callers : calls'[c].at = "failed" => calls[c].at = "failed" \/ clashes' # {}
    BY <1>8, <1>9, <2>2
  <2>4. clashes \subseteq clashes'
    BY <1>4
  <2> QED
    BY <1>1, <1>2, <1>9, <2>1, <2>3, <2>4, ClashesRest
<1> QED
  BY <1>10, <1>11, <1>12, <1>13, <1>14 DEF SetupInv

LEMMA LoseLookupStep ==
  ASSUME SetupInv, NEW p \in Procs, NEW k \in L!Keys, L!LoseLookup(p, k), faults' = faults + 1
  PROVE  SetupInv'
<1> DEFINE F == L!Failing({<<p, k>>})
<1>1. BootInv /\ LookInv /\ MemoInv /\ CallsInv /\ L!OnlyTheReaderClashes /\ faults \in Nat
  BY DEF SetupInv, BootInv
<1>2. L!Fail(F, boot, memo, look) /\ UNCHANGED <<made, runs, clashes>>
  BY DEF L!LoseLookup
<1>3. \A w \in F : \E r \in Procs, h \in L!Keys : w = <<r, h>>
  <2>1. \A w \in {<<p, k>>} : \E r \in Procs, h \in L!Keys : w = <<r, h>>
    OBVIOUS
  <2> QED
    BY <2>1, LookupsFail
<1> HIDE DEF F
<1>4. /\ boot' = boot
      /\ memo' = [q \in Procs |-> [h \in L!Keys |-> memo'[q][h]]]
      /\ \A q \in Procs, h \in L!Keys : memo'[q][h] \in {"none", memo[q][h]}
      /\ look' = [q \in Procs |-> [h \in L!Keys |-> look'[q][h]]]
      /\ \A q \in Procs, h \in L!Keys : look'[q][h] \in {L!idle, look[q][h]}
      /\ calls' = [c \in L!Callers |-> calls'[c]] /\ L!Callers' = L!Callers
      /\ \A c \in L!Callers : calls'[c] = calls[c] \/ (CallFails(c) /\ F # {})
  BY <1>1, <1>2, <1>3, LookupsEnd
<1>5. LookInv'
  <2>1. \A q \in Procs, h \in L!Keys : look'[q][h] = look[q][h] \/ look'[q][h] = L!idle
    BY <1>4
  <2> QED
    BY <1>1, <1>4, <2>1, LooksFewer
<1>6. MemoInv'
  <2>1. \A q \in Procs, h \in L!Keys : memo'[q][h] \in {"none", "flight", memo[q][h]}
    BY <1>4
  <2> QED
    BY <1>1, <1>2, <1>4, <2>1, MemoGrows
<1>7. CallsInv'
  BY <1>1, <1>2, <1>4, CallsRest
<1>8. BootInv'
  BY <1>1, <1>2, <1>4, BootsRest
<1>9. L!OnlyTheReaderClashes'
  BY <1>1, <1>2, <1>4, ClashesRest
<1> QED
  BY <1>5, <1>6, <1>7, <1>8, <1>9 DEF SetupInv

LEMMA Moved ==
  ASSUME NEW S, NEW x \in [at : S, locks : Nat], NEW a, NEW y, y = [x EXCEPT !.at = a]
  PROVE  y.at = a /\ y = [x EXCEPT !.at = y.at]
OBVIOUS

(* What changes only a lookup, and at most its memo.                       *)
LEMMA OthersRest ==
  ASSUME SetupInv, LookInv', MemoInv', CallsInv', UNCHANGED <<boot, made, runs, clashes, faults>>,
         L!Callers' = L!Callers,
         \A c \in L!Callers : calls'[c].at = "failed" => calls[c].at = "failed"
  PROVE  SetupInv'
<1>1. BootInv /\ L!OnlyTheReaderClashes /\ faults \in Nat
  BY DEF SetupInv, BootInv
<1>2. BootInv'
  BY <1>1, BootsRest
<1>3. L!OnlyTheReaderClashes'
  BY <1>1, ClashesRest
<1> QED
  BY <1>2, <1>3 DEF SetupInv

LEMMA BeginStep ==
  ASSUME SetupInv, NEW p \in Procs, NEW k \in L!Keys, L!Begin(p, k)
  PROVE  SetupInv'
<1> DEFINE s == <<"schema", Reader>>
<1>1. LookInv /\ MemoInv /\ CallsInv
  BY DEF SetupInv
<1>2. UNCHANGED <<boot, made, runs, calls, clashes, faults>>
  BY DEF L!Begin
<1>3. CallsInv' /\ L!Callers' = L!Callers
  BY <1>1, <1>2 DEF CallsInv, L!Callers
<1>4. s \in L!Keys
  BY SetupAssumption DEF L!Keys
<1>5. /\ look = [q \in Procs |-> look[q]]
      /\ \A q \in Procs : look[q] = [h \in L!Keys |-> look[q][h]]
      /\ \A q \in Procs, h \in L!Keys :
           look[q][h] \in [at : {"idle", "asked", "joined", "tx", "wrote", "blocked"}, locks : Nat]
  BY <1>1 DEF LookInv
<1>6. /\ memo = [q \in Procs |-> memo[q]]
      /\ \A q \in Procs : memo[q] = [h \in L!Keys |-> memo[q][h]]
  BY <1>1 DEF MemoInv
<1>7. ASSUME k[1] = "reader",
             memo' = [memo EXCEPT ![p][s] = "flight"],
             look' = [look EXCEPT ![p][k].at = "joined",
                                  ![p][s].at = IF memo[p][s] = "none" THEN "asked" ELSE @]
      PROVE  LookInv' /\ MemoInv'
  <2>1. k # s
    BY <1>7
  <2>2. /\ look'[p][k] = [look[p][k] EXCEPT !.at = "joined"]
        /\ look'[p][s] = [look[p][s] EXCEPT !.at = IF memo[p][s] = "none" THEN "asked" ELSE look[p][s].at]
        /\ \A q \in Procs, h \in L!Keys : q # p \/ h \notin {k, s} => look'[q][h] = look[q][h]
        /\ look' = [q \in Procs |-> [h \in L!Keys |-> look'[q][h]]]
    BY <1>4, <1>5, <1>7, <2>1
  <2>3. look'[p][s] = [look[p][s] EXCEPT !.at = "asked"] \/ look'[p][s] = look[p][s]
    BY <1>4, <1>5, <2>2
  <2>4. ASSUME NEW q \in Procs, NEW h \in L!Keys
        PROVE  \/ look'[q][h] = look[q][h]
               \/ /\ look'[q][h] = [look[q][h] EXCEPT !.at = look'[q][h].at]
                  /\ look'[q][h].at \in {"asked", "joined", "tx"}
    <3>1. CASE q = p /\ h = k
      <4>1. look[p][k] \in [at : {"idle", "asked", "joined", "tx", "wrote", "blocked"}, locks : Nat]
        BY <1>5
      <4>2. look'[p][k].at = "joined" /\ look'[p][k] = [look[p][k] EXCEPT !.at = look'[p][k].at]
        BY <2>2, <4>1, Moved
      <4> QED
        BY <3>1, <4>2
    <3>2. CASE q = p /\ h = s /\ look'[p][s] # look[p][s]
      <4>1. look[p][s] \in [at : {"idle", "asked", "joined", "tx", "wrote", "blocked"}, locks : Nat]
        BY <1>4, <1>5
      <4>2. look'[p][s].at = "asked" /\ look'[p][s] = [look[p][s] EXCEPT !.at = look'[p][s].at]
        BY <2>3, <3>2, <4>1, Moved
      <4> QED
        BY <3>2, <4>2
    <3> QED
      BY <2>2, <3>1, <3>2
  <2>5. LookInv'
    BY <1>1, <2>2, <2>4, LooksMove
  <2>6. /\ memo' = [q \in Procs |-> [h \in L!Keys |-> memo'[q][h]]]
        /\ \A q \in Procs, h \in L!Keys : memo'[q][h] \in {"flight", memo[q][h]}
    BY <1>4, <1>6, <1>7
  <2>7. MemoInv'
    BY <1>1, <1>2, <2>6, MemoGrows
  <2> QED
    BY <2>5, <2>7
<1>8. ASSUME look' = [look EXCEPT ![p][k].at = "tx"], memo' = memo
      PROVE  LookInv' /\ MemoInv'
  <2>1. /\ look'[p][k] = [look[p][k] EXCEPT !.at = "tx"]
        /\ \A q \in Procs, h \in L!Keys : q # p \/ h # k => look'[q][h] = look[q][h]
        /\ look' = [q \in Procs |-> [h \in L!Keys |-> look'[q][h]]]
    BY <1>5, <1>8
  <2>2. ASSUME NEW q \in Procs, NEW h \in L!Keys
        PROVE  \/ look'[q][h] = look[q][h]
               \/ /\ look'[q][h] = [look[q][h] EXCEPT !.at = look'[q][h].at]
                  /\ look'[q][h].at \in {"asked", "joined", "tx"}
    BY <1>5, <2>1
  <2>3. LookInv'
    BY <1>1, <2>1, <2>2, LooksMove
  <2> QED
    BY <1>1, <1>2, <1>8, <2>3 DEF MemoInv
<1>9. LookInv' /\ MemoInv'
  BY <1>7, <1>8 DEF L!Begin
<1> QED
  BY <1>2, <1>3, <1>9, OthersRest

(* A lock that nobody holds is taken.                                      *)
LEMMA TakeLockStep ==
  ASSUME SetupInv, NEW p \in Procs, NEW k \in L!Keys, L!Lock(p, k)
  PROVE  SetupInv'
<1> DEFINE n == look[p][k].locks
           S == [at : {"idle", "asked", "joined", "tx", "wrote", "blocked"}, locks : Nat]
<1>1. LookInv /\ MemoInv /\ CallsInv
  BY DEF SetupInv
<1>2. /\ look[p][k].at = "tx" /\ n < Len(L!LocksOf(k))
      /\ \A r \in Procs, h \in L!Keys : ~ L!Holds(r, h, L!LocksOf(k)[n + 1])
      /\ look' = [look EXCEPT ![p][k].locks = n + 1]
      /\ UNCHANGED <<boot, memo, made, runs, calls, clashes, faults>>
  BY DEF L!Lock
<1>3. CallsInv' /\ MemoInv' /\ L!Callers' = L!Callers
  BY <1>1, <1>2 DEF CallsInv, MemoInv, L!Callers
<1>4. /\ look = [q \in Procs |-> look[q]]
      /\ \A q \in Procs : look[q] = [h \in L!Keys |-> look[q][h]]
      /\ \A q \in Procs, h \in L!Keys : look[q][h] \in S
  BY <1>1 DEF LookInv
<1>5. /\ look'[p][k] = [look[p][k] EXCEPT !.locks = n + 1]
      /\ \A q \in Procs, h \in L!Keys : q # p \/ h # k => look'[q][h] = look[q][h]
      /\ look' = [q \in Procs |-> [h \in L!Keys |-> look'[q][h]]]
  BY <1>2, <1>4
<1>6. n \in Nat /\ look'[p][k].at = "tx" /\ look'[p][k].locks = n + 1 /\ look'[p][k] \in S
  BY <1>2, <1>4, <1>5
<1>7. \A h \in L!Keys : Len(L!LocksOf(h)) \in Nat
  BY DEF L!LocksOf
<1>8. look' \in [Procs -> [L!Keys -> S]]
  <2> HIDE DEF S
  <2>1. \A q \in Procs, h \in L!Keys : look'[q][h] \in S
    BY <1>4, <1>5, <1>6
  <2> QED
    BY <1>5, <2>1
<1>9. \A q \in Procs, h \in L!Keys :
        /\ look'[q][h].locks <= Len(L!LocksOf(h))
        /\ look'[q][h].at \in {"wrote", "blocked"} => look'[q][h].locks = Len(L!LocksOf(h))
  <2>1. \A q \in Procs, h \in L!Keys :
          /\ look[q][h].locks <= Len(L!LocksOf(h))
          /\ look[q][h].at \in {"wrote", "blocked"} => look[q][h].locks = Len(L!LocksOf(h))
    BY <1>1 DEF LookInv
  <2>2. n + 1 <= Len(L!LocksOf(k))
    BY <1>2, <1>6, <1>7
  <2> QED
    BY <1>5, <1>6, <2>1, <2>2
<1>10. \A q, r \in Procs, h, g \in L!Keys : \A i \in 1 .. look[q][h].locks, j \in 1 .. look[r][g].locks :
         L!LocksOf(h)[i] = L!LocksOf(g)[j] => q = r /\ h = g
  BY <1>1 DEF LookInv
<1>11. \A r \in Procs, h \in L!Keys : \A j \in 1 .. look[r][h].locks : L!LocksOf(h)[j] # L!LocksOf(k)[n + 1]
  BY <1>2 DEF L!Holds
<1>12. ASSUME NEW q \in Procs, NEW h \in L!Keys, NEW i \in 1 .. look'[q][h].locks
       PROVE  i \in 1 .. look[q][h].locks \/ (q = p /\ h = k /\ i = n + 1)
  BY <1>5, <1>6
<1>13. \A q, r \in Procs, h, g \in L!Keys : \A i \in 1 .. look'[q][h].locks, j \in 1 .. look'[r][g].locks :
         L!LocksOf(h)[i] = L!LocksOf(g)[j] => q = r /\ h = g
  BY <1>10, <1>11, <1>12
<1>14. LookInv'
  BY <1>8, <1>9, <1>13 DEF LookInv
<1> QED
  BY <1>2, <1>3, <1>14, OthersRest

LEMMA WriteStep ==
  ASSUME SetupInv, NEW p \in Procs, NEW k \in L!Keys, L!Write(p, k)
  PROVE  SetupInv'
<1> DEFINE to == L!Reached(<<p, k>>)
<1>1. LookInv /\ MemoInv /\ CallsInv
  BY DEF SetupInv
<1>2. /\ look[p][k].locks = Len(L!LocksOf(k))
      /\ look' = [look EXCEPT ![p][k].at = to]
      /\ UNCHANGED <<boot, memo, made, runs, calls, clashes, faults>>
  BY <1>1 DEF L!Write, LookInv
<1>3. CallsInv' /\ MemoInv' /\ L!Callers' = L!Callers
  BY <1>1, <1>2 DEF CallsInv, MemoInv, L!Callers
<1>4. /\ look = [q \in Procs |-> look[q]]
      /\ \A q \in Procs : look[q] = [h \in L!Keys |-> look[q][h]]
      /\ \A q \in Procs, h \in L!Keys :
           look[q][h] \in [at : {"idle", "asked", "joined", "tx", "wrote", "blocked"}, locks : Nat]
  BY <1>1 DEF LookInv
<1>5. to \in {"wrote", "blocked"}
  BY DEF L!Reached
<1> HIDE DEF to
<1>6. /\ look'[p][k] = [look[p][k] EXCEPT !.at = to]
      /\ \A q \in Procs, h \in L!Keys : q # p \/ h # k => look'[q][h] = look[q][h]
      /\ look' = [q \in Procs |-> [h \in L!Keys |-> look'[q][h]]]
  BY <1>2, <1>4
<1>7. ASSUME NEW q \in Procs, NEW h \in L!Keys
      PROVE  \/ look'[q][h] = look[q][h]
             \/ /\ look'[q][h] = [look[q][h] EXCEPT !.at = look'[q][h].at]
                /\ look'[q][h].at \in {"wrote", "blocked"}
                /\ look[q][h].locks = Len(L!LocksOf(h))
  <2>1. look[p][k] \in [at : {"idle", "asked", "joined", "tx", "wrote", "blocked"}, locks : Nat]
    BY <1>4
  <2>2. look'[p][k].at = to /\ look'[p][k] = [look[p][k] EXCEPT !.at = look'[p][k].at]
    BY <1>6, <2>1, Moved
  <2> QED
    BY <1>2, <1>5, <1>6, <2>2
<1>8. LookInv'
  BY <1>1, <1>6, <1>7, LooksMove
<1> QED
  BY <1>2, <1>3, <1>8, OthersRest

(* The steps of a call.                                                    *)
LEMMA CallMoves ==
  ASSUME SetupInv, NEW c \in L!Callers, calls' = [calls EXCEPT ![c] = calls'[c]],
         calls'[c] \in [at : {"idle", "asks", "row", "ended", "failed"}, passed : Nat, waits : BOOLEAN],
         calls'[c].at # "failed",
         calls'[c].passed <= Len(L!Asks(c)),
         \A i \in 1 .. calls'[c].passed : L!Asks(c)[i] \in made,
         calls'[c].at \in {"row", "ended"} => calls'[c].passed = Len(L!Asks(c)),
         LookInv', MemoInv', UNCHANGED <<boot, made, runs, clashes, faults>>
  PROVE  SetupInv'
<1>1. CallsInv
  BY DEF SetupInv
<1>2. calls \in [L!Callers -> [at : {"idle", "asks", "row", "ended", "failed"}, passed : Nat, waits : BOOLEAN]]
  BY <1>1 DEF CallsInv
<1>3. L!Callers' = L!Callers
  BY DEF L!Callers
<1>4. \A d \in L!Callers : d # c => calls'[d] = calls[d]
  BY <1>2
<1>5. calls' \in [L!Callers -> [at : {"idle", "asks", "row", "ended", "failed"}, passed : Nat, waits : BOOLEAN]]
  BY <1>2
<1>6. \A d \in L!Callers :
        /\ calls'[d].passed <= Len(L!Asks(d))
        /\ \A i \in 1 .. calls'[d].passed : L!Asks(d)[i] \in made
        /\ calls'[d].at \in {"row", "ended"} => calls'[d].passed = Len(L!Asks(d))
  <2>1. \A d \in L!Callers :
          /\ calls[d].passed <= Len(L!Asks(d))
          /\ \A i \in 1 .. calls[d].passed : L!Asks(d)[i] \in made
          /\ calls[d].at \in {"row", "ended"} => calls[d].passed = Len(L!Asks(d))
    BY <1>1 DEF CallsInv
  <2> QED
    BY <1>4, <2>1
<1>7. CallsInv'
  <2>1. L!Callers \in Bursts /\ \A d \in L!Callers : L!Asks(d)' = L!Asks(d)
    BY <1>1 DEF CallsInv, L!Asks
  <2> QED
    BY <1>3, <1>5, <1>6, <2>1 DEF CallsInv, L!Asks
<1>8. \A d \in L!Callers : calls'[d].at = "failed" => calls[d].at = "failed"
  BY <1>4
<1> QED
  BY <1>3, <1>7, <1>8, OthersRest

LEMMA CallStep ==
  ASSUME SetupInv, NEW c \in L!Callers, L!Call(c) \/ L!Row(c)
  PROVE  SetupInv'
<1>1. LookInv /\ MemoInv /\ CallsInv
  BY DEF SetupInv
<1>2. UNCHANGED <<boot, memo, look, made, runs, clashes, faults>>
  BY DEF L!Call, L!Row
<1>3. LookInv' /\ MemoInv'
  BY <1>1, <1>2 DEF LookInv, MemoInv
<1>4. PICK a \in {"asks", "row", "ended"} :
        /\ calls' = [calls EXCEPT ![c].at = a]
        /\ a \in {"row", "ended"} => calls[c].passed = Len(L!Asks(c))
  <2>1. calls[c].at = "row" => calls[c].passed = Len(L!Asks(c))
    BY <1>1 DEF CallsInv
  <2> QED
    BY <2>1 DEF L!Call, L!Row
<1>5. /\ calls \in [L!Callers -> [at : {"idle", "asks", "row", "ended", "failed"}, passed : Nat, waits : BOOLEAN]]
      /\ calls[c].passed <= Len(L!Asks(c))
      /\ \A i \in 1 .. calls[c].passed : L!Asks(c)[i] \in made
  BY <1>1 DEF CallsInv
<1>6. calls'[c] = [calls[c] EXCEPT !.at = a]
  BY <1>4, <1>5
<1>7. calls' = [calls EXCEPT ![c] = calls'[c]]
  BY <1>4, <1>6
<1>8. calls'[c].at = a /\ calls'[c].passed = calls[c].passed
  BY <1>5, <1>6
<1>9. calls'[c] \in [at : {"idle", "asks", "row", "ended", "failed"}, passed : Nat, waits : BOOLEAN]
  BY <1>5, <1>6
<1> QED
  BY <1>2, <1>3, <1>4, <1>5, <1>7, <1>8, <1>9, CallMoves

(* A call gets a key that is there, or waits for its lookup, which it      *)
(* starts if nobody did.                                                   *)
LEMMA GetStep ==
  ASSUME SetupInv, NEW c \in L!Callers, L!Get(c)
  PROVE  SetupInv'
<1> DEFINE p == c.proc
           n == calls[c].passed
           k == L!Asks(c)[n + 1]
<1>1. LookInv /\ MemoInv /\ CallsInv
  BY DEF SetupInv
<1>2. UNCHANGED <<boot, made, runs, clashes, faults>> /\ calls[c].at = "asks" /\ n < Len(L!Asks(c))
  BY DEF L!Get
<1>3. /\ calls \in [L!Callers -> [at : {"idle", "asks", "row", "ended", "failed"}, passed : Nat, waits : BOOLEAN]]
      /\ n <= Len(L!Asks(c))
      /\ \A i \in 1 .. n : L!Asks(c)[i] \in made
  BY <1>1 DEF CallsInv
<1>4. p \in Procs /\ Len(L!Asks(c)) = 2 /\ \A i \in 1 .. 2 : L!Asks(c)[i] \in L!Keys
  BY <1>1, AsksAreKeys
<1>5. n \in Nat
  BY <1>3
<1>6. n + 1 \in 1 .. 2
  BY <1>2, <1>4, <1>5
<1>7. k \in L!Keys
  BY <1>4, <1>6
<1>8. ASSUME calls' = [calls EXCEPT ![c].waits = TRUE], LookInv', MemoInv'
      PROVE  SetupInv'
  <2>1. calls'[c] = [calls[c] EXCEPT !.waits = TRUE]
    BY <1>3, <1>8
  <2>2. calls' = [calls EXCEPT ![c] = calls'[c]]
    BY <1>8, <2>1
  <2>3. calls'[c].at = "asks" /\ calls'[c].passed = n
    BY <1>2, <1>3, <2>1
  <2>4. calls'[c] \in [at : {"idle", "asks", "row", "ended", "failed"}, passed : Nat, waits : BOOLEAN]
    BY <1>3, <2>1
  <2> QED
    BY <1>2, <1>3, <1>8, <2>2, <2>3, <2>4, CallMoves
<1>9. CASE memo[p][k] = "done" /\ calls' = [calls EXCEPT ![c].passed = n + 1, ![c].waits = FALSE]
           /\ UNCHANGED <<memo, look>>
  <2>1. calls'[c] = [calls[c] EXCEPT !.passed = n + 1, !.waits = FALSE]
    BY <1>3, <1>9
  <2>2. calls' = [calls EXCEPT ![c] = calls'[c]]
    BY <1>9, <2>1
  <2>3. calls'[c].at = "asks" /\ calls'[c].passed = n + 1
    BY <1>2, <1>3, <2>1
  <2>4. calls'[c] \in [at : {"idle", "asks", "row", "ended", "failed"}, passed : Nat, waits : BOOLEAN]
    <3>1. n + 1 \in Nat
      BY <1>5
    <3>2. calls[c] \in [at : {"idle", "asks", "row", "ended", "failed"}, passed : Nat, waits : BOOLEAN]
      BY <1>3
    <3> DEFINE x == n + 1
    <3>3. calls'[c] = [calls[c] EXCEPT !.passed = x, !.waits = FALSE] /\ x \in Nat
      BY <2>1, <3>1
    <3> HIDE DEF x
    <3> QED
      BY <3>2, <3>3
  <2>5. \A i \in 1 .. n + 1 : L!Asks(c)[i] \in made
    <3>1. k \in made
      BY <1>1, <1>4, <1>7, <1>9 DEF MemoInv
    <3>2. \A i \in 1 .. n + 1 : i = n + 1 \/ i \in 1 .. n
      BY <1>5
    <3> QED
      BY <1>3, <3>1, <3>2
  <2>6. n + 1 <= Len(L!Asks(c))
    BY <1>4, <1>6
  <2>7. LookInv' /\ MemoInv'
    BY <1>1, <1>2, <1>9 DEF LookInv, MemoInv
  <2> QED
    BY <1>2, <2>2, <2>3, <2>4, <2>5, <2>6, <2>7, CallMoves
<1>10. CASE memo[p][k] = "flight" /\ calls' = [calls EXCEPT ![c].waits = TRUE] /\ UNCHANGED <<memo, look>>
  <2>1. LookInv' /\ MemoInv'
    BY <1>1, <1>2, <1>10 DEF LookInv, MemoInv
  <2> QED
    BY <1>8, <1>10, <2>1
<1>11. CASE /\ memo' = [memo EXCEPT ![p][k] = L!InFlight]
            /\ look' = [look EXCEPT ![p][k].at = "asked"]
            /\ calls' = [calls EXCEPT ![c].waits = TRUE]
  <2> HIDE DEF p, k
  <2>1. /\ look = [q \in Procs |-> look[q]]
        /\ \A q \in Procs : look[q] = [h \in L!Keys |-> look[q][h]]
        /\ \A q \in Procs, h \in L!Keys :
             look[q][h] \in [at : {"idle", "asked", "joined", "tx", "wrote", "blocked"}, locks : Nat]
    BY <1>1 DEF LookInv
  <2>2. /\ memo = [q \in Procs |-> memo[q]]
        /\ \A q \in Procs : memo[q] = [h \in L!Keys |-> memo[q][h]]
    BY <1>1 DEF MemoInv
  <2>3. /\ look'[p][k] = [look[p][k] EXCEPT !.at = "asked"]
        /\ \A q \in Procs, h \in L!Keys : q # p \/ h # k => look'[q][h] = look[q][h]
        /\ look' = [q \in Procs |-> [h \in L!Keys |-> look'[q][h]]]
    BY <1>4, <1>7, <1>11, <2>1
  <2>4. look'[p][k].at = "asked" /\ look'[p][k] = [look[p][k] EXCEPT !.at = look'[p][k].at]
    <3>1. look[p][k] \in [at : {"idle", "asked", "joined", "tx", "wrote", "blocked"}, locks : Nat]
      BY <1>4, <1>7, <2>1
    <3> QED
      BY <2>3, <3>1, Moved
  <2>5. ASSUME NEW q \in Procs, NEW h \in L!Keys
        PROVE  \/ look'[q][h] = look[q][h]
               \/ /\ look'[q][h] = [look[q][h] EXCEPT !.at = look'[q][h].at]
                  /\ look'[q][h].at \in {"asked", "joined", "tx"}
    BY <2>3, <2>4
  <2>6. LookInv'
    BY <1>1, <2>3, <2>5, LooksMove
  <2>7. /\ memo' = [q \in Procs |-> [h \in L!Keys |-> memo'[q][h]]]
        /\ \A q \in Procs, h \in L!Keys : memo'[q][h] \in {"flight", memo[q][h]}
    BY <1>4, <1>7, <1>11, <2>2 DEF L!InFlight
  <2>8. MemoInv'
    BY <1>1, <1>2, <2>7, MemoGrows
  <2> QED
    BY <1>8, <1>11, <2>6, <2>8
<1> QED
  BY <1>9, <1>10, <1>11 DEF L!Get

LEMMA SetupStep ==
  ASSUME SetupInv, L!Next
  PROVE  SetupInv'
<1>1. ASSUME NEW p \in Procs, L!Boot(p)
      PROVE  SetupInv'
  <2>1. CASE L!Migrate(p)
    <3>1. BootInv'
      BY <2>1, MigrateStep
    <3>2. UNCHANGED <<memo, look, made, calls, clashes, faults>>
      BY <2>1 DEF L!Migrate
    <3>3. LookInv' /\ MemoInv' /\ CallsInv'
      BY <3>2 DEF SetupInv, LookInv, MemoInv, CallsInv, L!Callers
    <3>4. L!OnlyTheReaderClashes'
      BY <3>2 DEF SetupInv, L!OnlyTheReaderClashes, L!Callers
    <3> QED
      BY <3>1, <3>3, <3>4 DEF SetupInv
  <2>2. CASE L!CommitFile(p)
    BY <2>2, CommitFileStep
  <2> QED
    BY <1>1, <2>1, <2>2 DEF L!Boot
<1>2. ASSUME NEW c \in L!Callers, L!Call(c) \/ L!Caller(c)
      PROVE  SetupInv'
  BY <1>2, CallStep, GetStep DEF L!Caller
<1>3. ASSUME NEW p \in Procs, NEW k \in L!Keys, L!Lookup(p, k)
      PROVE  SetupInv'
  BY <1>3, BeginStep, TakeLockStep, WriteStep, CommitLookupStep DEF L!Lookup
<1>4. CASE L!Fault
  <2>1. faults' = faults + 1
    BY <1>4 DEF L!Fault
  <2>2. PICK p \in Procs : L!Crash(p) \/ L!LoseLock(p) \/ \E k \in L!Keys : L!LoseLookup(p, k)
    BY <1>4 DEF L!Fault
  <2> QED
    BY <2>1, <2>2, CrashStep, LoseLockStep, LoseLookupStep
<1> QED
  BY <1>1, <1>2, <1>3, <1>4 DEF L!Next

LEMMA SetupPartHolds == SpecStore => []SetupPart
<1>1. InitStore => SetupPart
  <2> SUFFICES ASSUME InitStore, part = "setup" PROVE SetupInv
    BY DEF SetupPart
  <2>1. L!Init
    BY DEF InitStore
  <2> QED
    BY <2>1, SetupInit
<1>2. SetupPart /\ [OfRows(Next) \/ OfSetup(L!Next)]_all => SetupPart'
  <2> SUFFICES ASSUME SetupPart, [OfRows(Next) \/ OfSetup(L!Next)]_all, part' = "setup"
               PROVE  SetupInv'
    BY DEF SetupPart
  <2>1. part = "setup" /\ SetupInv
    BY DEF SetupPart, OfRows, OfSetup, all
  <2>2. CASE L!Next
    BY <2>1, <2>2, SetupStep
  <2>3. CASE UNCHANGED all
    <3>1. UNCHANGED <<boot, memo, look, made, runs, calls, clashes, faults>>
      BY <2>3 DEF all, setup
    <3>2. BootInv'
      BY <2>1, <3>1, BootsRest DEF SetupInv
    <3>3. LookInv' /\ MemoInv' /\ CallsInv'
      BY <2>1, <3>1 DEF SetupInv, LookInv, MemoInv, CallsInv, L!Callers
    <3>4. L!OnlyTheReaderClashes'
      BY <2>1, <3>1 DEF SetupInv, L!OnlyTheReaderClashes, L!Callers
    <3> QED
      BY <3>2, <3>3, <3>4 DEF SetupInv
  <2> QED
    BY <2>1, <2>2, <2>3 DEF OfRows, OfSetup
<1> QED
  BY <1>1, <1>2, PTL DEF SpecStore

(* For any processes, schemas, bursts of first touches, pool and faults: a *)
(* call that runs its own transaction finds what it asked the setup for,   *)
(* and no call fails over another's DDL but for the activity reader's      *)
(* GRANTs.                                                                 *)
THEOREM FirstTouchesAreSafe == SpecStore => []FirstTouchesStand
<1>1. SetupPart => FirstTouchesStand
  <2> SUFFICES ASSUME SetupPart, part = "setup"
               PROVE  L!RowsFindTheirTable /\ L!OnlyTheReaderClashes
    BY DEF FirstTouchesStand
  <2>1. CallsInv /\ L!OnlyTheReaderClashes
    BY DEF SetupPart, SetupInv
  <2>2. ASSUME NEW c \in L!Callers, calls[c].at \in {"row", "ended"}
        PROVE  \A i \in DOMAIN L!Asks(c) : L!Asks(c)[i] \in made
    <3>1. \A i \in 1 .. Len(L!Asks(c)) : L!Asks(c)[i] \in made
      BY <2>1, <2>2 DEF CallsInv
    <3>2. DOMAIN L!Asks(c) = 1 .. Len(L!Asks(c))
      BY DEF L!Asks
    <3> QED
      BY <3>1, <3>2
  <2> QED
    BY <2>1, <2>2 DEF L!RowsFindTheirTable
<1> QED
  BY <1>1, SetupPartHolds, PTL

(* For any number of processes, files and faults: boots do not fail each   *)
(* other, no migration is committed twice, and the files go in order.      *)
THEOREM MigrationsAreSafe == SpecStore => []MigrationsStand
<1>1. SetupPart => MigrationsStand
  <2> SUFFICES ASSUME SetupPart, part = "setup"
               PROVE  L!BootsDoNotCollide /\ L!FilesRunOnce
    BY DEF MigrationsStand
  <2>1. faults \in Nat /\ SessionInv /\ FilesInv
    BY DEF SetupPart, SetupInv, BootInv
  <2>2. L!BootsDoNotCollide
    BY <2>1 DEF SessionInv, L!BootsDoNotCollide
  <2>3. \A i \in 1 .. Files : /\ runs[i] <= 1
                              /\ L!File(i) \in made => \A j \in 1 .. i : L!File(j) \in made
    BY <2>1 DEF FilesInv
  <2> QED
    BY <2>2, <2>3 DEF L!FilesRunOnce
<1> QED
  BY <1>1, SetupPartHolds, PTL
=============================================================================
