---------------------------- MODULE Assignments ----------------------------
(***************************************************************************)
(* Giving and taking away a standing right: cube admins (cube-admins.ts),  *)
(* group members (groups.ts), capability grants (capabilities.ts) and      *)
(* hidden preferences (visibility.ts), all of core/src/cubes/permissions.  *)
(* The right is one live row per subject in a table without a unique       *)
(* index: giving is a lookup and then an insert, taking away is a lookup   *)
(* and then a soft delete, with nothing held in between.                   *)
(*                                                                         *)
(* The subject and the right are fixed: rows[t] holds the live rows that   *)
(* give it, which should be at most one.  Only a taking updates a row, and *)
(* always to deleted, so a store update is one step here.                  *)
(***************************************************************************)
EXTENDS Integers, FiniteSets

CONSTANTS
  Calls,  \* service calls: each gives or takes the right once
  Tables, \* the tables that hold such rows
  Twins   \* those where taking retires every row: the capability grants

VARIABLES
  rows,   \* the live rows of each table, by the call that inserted them
  stage,  \* where each call is
  op,     \* whether it gives or takes
  table,  \* in which table
  doomed, \* a taking: the rows it found and has still to delete
  before  \* history: the givings that had succeeded when it began

vars == <<rows, stage, op, table, doomed, before>>

-----------------------------------------------------------------------------

Ops == {"give", "take"}
Stages == {"idle", "insert", "find", "delete", "audit", "done", "refused", "dead"}

Done(t) == {c \in Calls : table[c] = t /\ op[c] = "give" /\ stage[c] = "done"}

Init ==
  /\ rows = [t \in Tables |-> {}]
  /\ stage = [c \in Calls |-> "idle"]
  /\ op \in [Calls -> Ops]
  /\ table \in [Calls -> Tables]
  /\ doomed = [c \in Calls |-> {}]
  /\ before = [c \in Calls |-> {}]

Go(c, next) == stage' = [stage EXCEPT ![c] = next] /\ UNCHANGED <<op, table>>

Begin(c, what, next) ==
  /\ stage[c] = "idle"
  /\ op[c] = what
  /\ before' = [before EXCEPT ![c] = Done(table[c])]
  /\ Go(c, next)
  /\ UNCHANGED rows

(* Mutant: the row is inserted without looking for one.                    *)
GiveBlindly(c) == Begin(c, "give", "insert") /\ UNCHANGED doomed

(* assignCubeAdmin, addGroupMember, grantCapability, hide: a row that is   *)
(* already there is kept and answered.                                     *)
Give(c) ==
  /\ Begin(c, "give", IF rows[table[c]] = {} THEN "insert" ELSE "audit")
  /\ UNCHANGED doomed

Insert(c) ==
  /\ stage[c] = "insert"
  /\ rows' = [rows EXCEPT ![table[c]] = @ \cup {c}]
  /\ Go(c, "audit")
  /\ UNCHANGED <<doomed, before>>

(* revokeCubeAdmin, removeGroupMember, unhide: the first row found.        *)
TakeFirst(c) ==
  /\ table[c] \notin Twins
  /\ \/ \E r \in rows[table[c]] :
          Begin(c, "take", "delete") /\ doomed' = [doomed EXCEPT ![c] = {r}]
     \/ rows[table[c]] = {} /\ Begin(c, "take", "refused") /\ UNCHANGED doomed

(* revokeCapabilityGrant: the manager names a row by its id ...            *)
TakeById(c) ==
  /\ table[c] \in Twins
  /\ Begin(c, "take", IF rows[table[c]] = {} THEN "refused" ELSE "find")
  /\ UNCHANGED doomed

(* Mutant: only one of the twins is retired.                               *)
FindOneTwin(c) ==
  /\ stage[c] = "find"
  /\ \E r \in rows[table[c]] : doomed' = [doomed EXCEPT ![c] = {r}]
  /\ Go(c, "delete")
  /\ UNCHANGED <<rows, before>>

(* ... and every live row of its subject and capability is looked up.      *)
FindTwins(c) ==
  /\ stage[c] = "find"
  /\ doomed' = [doomed EXCEPT ![c] = rows[table[c]]]
  /\ Go(c, "delete")
  /\ UNCHANGED <<rows, before>>

(* The rows found are deleted one store call at a time.                    *)
Delete(c, r) ==
  /\ stage[c] = "delete"
  /\ r \in doomed[c]
  /\ rows' = [rows EXCEPT ![table[c]] = @ \ {r}]
  /\ doomed' = [doomed EXCEPT ![c] = @ \ {r}]
  /\ UNCHANGED <<stage, op, table, before>>

(* writeAudit, and the call succeeds.                                      *)
Audit(c) ==
  /\ stage[c] = "audit" \/ (stage[c] = "delete" /\ doomed[c] = {})
  /\ Go(c, "done")
  /\ UNCHANGED <<rows, doomed, before>>

(* The process dies or the store fails under the call.                     *)
Die(c) ==
  /\ stage[c] \in {"insert", "find", "delete", "audit"}
  /\ Go(c, "dead")
  /\ UNCHANGED <<rows, doomed, before>>

Next ==
  \E c \in Calls :
    \/ Give(c) \/ Insert(c)
    \/ TakeFirst(c) \/ TakeById(c) \/ FindTwins(c)
    \/ \E r \in Calls : Delete(c, r)
    \/ Audit(c) \/ Die(c)

Spec == Init /\ [][Next]_vars

-----------------------------------------------------------------------------

(* The state has its type; only a taking dooms rows.                       *)
TypeOK ==
  /\ rows \in [Tables -> SUBSET Calls]
  /\ stage \in [Calls -> Stages]
  /\ op \in [Calls -> Ops]
  /\ table \in [Calls -> Tables]
  /\ doomed \in [Calls -> SUBSET Calls]
  /\ before \in [Calls -> SUBSET Calls]
  /\ \A c \in Calls : doomed[c] # {} => op[c] = "take" /\ stage[c] \in {"delete", "dead"}

(* capabilities.ts:14-15: duplicates come from concurrent givings only;    *)
(* a giving that began after another succeeded adds no second row.         *)
DuplicatesOverlap ==
  \A t \in Tables : \A r, s \in rows[t] : r \notin before[s]

Ended(c) == stage[c] = "done" /\ op[c] = "take" => rows[table[c]] \cap before[c] = {}

(* capabilities.ts:16-17, "a revoke is complete whichever id the manager   *)
(* passes": once it has succeeded, nothing given before it began is left,  *)
(* duplicates included.                                                    *)
RevokeIsComplete == \A c \in Calls : table[c] \in Twins => Ended(c)
=============================================================================
