------------------------------ MODULE Sharing -------------------------------
(***************************************************************************)
(* Ownership and grants of one entity (core/src/cubes/permissions).  A     *)
(* call of the PermissionService is a sequence of store operations, each   *)
(* its own transaction, with nothing held between them; a store update is  *)
(* a SELECT and then a write of the whole merged row (RowStore).           *)
(*                                                                         *)
(*   claim:     ownership? -> count grants -> insert row          -> audit *)
(*   grant:     share?     -> insert grant -> recount             -> audit *)
(*   revoke:    grant? -> share? -> delete grant -> recount       -> audit *)
(*   transfer:  ownership? -> decide -> set owner -> recount      -> audit *)
(*   recount:   count grants -> list ownership rows -> store in each       *)
(*                                                                         *)
(* Every entity has at most one row per claim; two claims that overlap     *)
(* both insert one, and readers trust the oldest.                          *)
(***************************************************************************)
EXTENDS Integers, FiniteSets

CONSTANTS
  Calls,  \* service calls: each runs one operation on the entity
  Users,  \* who calls, and who is granted or transferred to
  Admins, \* the superadmins and the admins of the entity's cube
  NoRow,  \* no ownership row
  None    \* no call

VARIABLES
  owners,  \* the ownership rows, by the claim that inserted them
  grants,  \* the live grants, by the call that inserted them
  clock,   \* the last createdAt drawn
  stage,   \* where each call is
  op,      \* what it does
  actor,   \* who calls
  subject, \* the user it grants or transfers to
  gone,    \* the grant it revokes
  row,     \* the ownership row it is updating
  at,      \* a claim: the createdAt of the row it will insert
  n,       \* the grants it counted
  todo,    \* a recount: the ownership rows still to be stored
  read,    \* the ownership row an update's SELECT returned
  solo,    \* history: the running call, if no other ran beside it so far
  settled  \* history: the last call to run, if it did so alone and succeeded

db == <<owners, grants>>
call == <<op, actor, subject>>
vars == <<db, clock, stage, call, gone, row, at, n, todo, read, solo, settled>>

-----------------------------------------------------------------------------

OwnershipRow == [owner : Users, count : Nat, at : Nat]
Ops == {"claim", "grant", "revoke", "transfer"}

(* asked: it found the row it is about; allowed: it may do it; then what   *)
(* it does next.  done: its audit row is written.  dead: the process died  *)
(* or the store failed under it.                                           *)
Over == {"done", "refused", "dead"}
Stages == Over \cup {"idle", "asked", "allowed", "counted",
                     "moving", "moved", "recount", "recounted", "storing", "writing", "audit"}

Running == {c \in Calls : stage[c] \notin Over \cup {"idle"}}

Rows == {c \in Calls : owners[c] # NoRow}

(* first(ownership): ORDER BY created_at ASC LIMIT 1.  createdAt values    *)
(* are taken to be distinct.                                               *)
Oldest(rows) == CHOOSE r \in rows : \A s \in rows : owners[r].at <= owners[s].at

IsOwner(u) == Rows # {} /\ owners[Oldest(Rows)].owner = u

(* requireShare.                                                           *)
MayShare(u) == u \in Admins \/ IsOwner(u)

(* decide(actor, ref, "transfer"), where a grant is TOTAL, the default of  *)
(* grantUser.                                                              *)
MayTransfer(u) == MayShare(u) \/ \E g \in grants : subject[g] = u

-----------------------------------------------------------------------------

Init ==
  /\ owners = [c \in Calls |-> NoRow]
  /\ grants = {}
  /\ clock = 0
  /\ stage = [c \in Calls |-> "idle"]
  /\ op \in [Calls -> Ops]
  /\ actor \in [Calls -> Users]
  /\ subject \in [Calls -> Users]
  /\ gone = [c \in Calls |-> None]
  /\ row = [c \in Calls |-> None]
  /\ at = [c \in Calls |-> 0]
  /\ n = [c \in Calls |-> 0]
  /\ todo = [c \in Calls |-> {}]
  /\ read = [c \in Calls |-> NoRow]
  /\ solo = None
  /\ settled = None

(* The call's first store operation; `found` says it found what it needs.  *)
Begin(c, what, found, next) ==
  /\ stage[c] = "idle"
  /\ op[c] = what
  /\ stage' = [stage EXCEPT ![c] = IF found THEN next ELSE "refused"]
  /\ solo' = IF Running = {} THEN c ELSE None
  /\ settled' = None
  /\ UNCHANGED <<db, clock, call, at, n, todo, read>>

(* claim: a conflict when the entity already has an owner.                 *)
Claim(c) == Begin(c, "claim", Rows = {}, "allowed") /\ UNCHANGED <<gone, row>>

(* grantUser, grantGroup: requireShare.                                    *)
Grant(c) == Begin(c, "grant", MayShare(actor[c]), "allowed") /\ UNCHANGED <<gone, row>>

(* revokeGrant: the live grant of that id, if there is one.                *)
Revoke(c, g) ==
  /\ Begin(c, "revoke", g \in grants, "asked")
  /\ gone' = [gone EXCEPT ![c] = g]
  /\ UNCHANGED row

(* transferOwnership: the row that counts, if the entity has one.          *)
Transfer(c) ==
  /\ Begin(c, "transfer", Rows # {}, "asked")
  /\ row' = [row EXCEPT ![c] = IF Rows # {} THEN Oldest(Rows) ELSE None]
  /\ UNCHANGED gone

Go(c, next) == stage' = [stage EXCEPT ![c] = next] /\ UNCHANGED <<clock, call, gone, solo, settled>>

Authorize(c) ==
  /\ stage[c] = "asked"
  /\ LET allowed == IF op[c] = "revoke" THEN MayShare(actor[c]) ELSE MayTransfer(actor[c])
         next == IF op[c] = "revoke" THEN "allowed" ELSE "moving"
     IN  Go(c, IF allowed THEN next ELSE "refused")
  /\ UNCHANGED <<db, row, at, n, todo, read>>

(* claim: createdAt is drawn, then the grants are counted: an admin may    *)
(* have shared the entity before anyone claimed it.                        *)
CountBeforeClaim(c) ==
  /\ stage[c] = "allowed"
  /\ op[c] = "claim"
  /\ clock' = clock + 1
  /\ at' = [at EXCEPT ![c] = clock + 1]
  /\ n' = [n EXCEPT ![c] = Cardinality(grants)]
  /\ stage' = [stage EXCEPT ![c] = "counted"]
  /\ UNCHANGED <<db, call, gone, row, todo, read, solo, settled>>

InsertOwner(c) ==
  /\ stage[c] = "counted"
  /\ owners' = [owners EXCEPT ![c] = [owner |-> actor[c], at |-> at[c], count |-> n[c]]]
  /\ Go(c, "audit")
  /\ UNCHANGED <<grants, row, at, n, todo, read>>

InsertGrant(c) ==
  /\ stage[c] = "allowed"
  /\ op[c] = "grant"
  /\ grants' = grants \cup {c}
  /\ Go(c, "recount")
  /\ UNCHANGED <<owners, row, at, n, todo, read>>

(* Soft-deletes the grant, also when another revoke already has: nothing   *)
(* but a revoke updates a grant, so its SELECT and its write are one step. *)
DeleteGrant(c) ==
  /\ stage[c] = "allowed"
  /\ op[c] = "revoke"
  /\ grants' = grants \ {gone[c]}
  /\ Go(c, "recount")
  /\ UNCHANGED <<owners, row, at, n, todo, read>>

(* recountShares: the grants are counted first.                            *)
CountGrants(c) ==
  /\ stage[c] = "recount"
  /\ n' = [n EXCEPT ![c] = Cardinality(grants)]
  /\ Go(c, "recounted")
  /\ UNCHANGED <<db, row, at, todo, read>>

(* Mutant: only the row that readers trust is recounted.                   *)
ListOldest(c) ==
  /\ stage[c] = "recounted"
  /\ todo' = [todo EXCEPT ![c] = IF Rows = {} THEN {} ELSE {Oldest(Rows)}]
  /\ Go(c, "storing")
  /\ UNCHANGED <<db, row, at, n, read>>

(* Then the ownership rows are listed, duplicates included.                *)
ListOwners(c) ==
  /\ stage[c] = "recounted"
  /\ todo' = [todo EXCEPT ![c] = Rows]
  /\ Go(c, "storing")
  /\ UNCHANGED <<db, row, at, n, read>>

(* update, first statement: the row to merge into, of a transfer or the    *)
(* next one of a recount.                                                  *)
SelectOwner(c) ==
  /\ \/ stage[c] = "moving" /\ row' = row
     \/ stage[c] = "storing" /\ todo[c] # {} /\ row' = [row EXCEPT ![c] = Oldest(todo[c])]
  /\ read' = [read EXCEPT ![c] = owners[row'[c]]]
  /\ todo' = [todo EXCEPT ![c] = @ \ {row'[c]}]
  /\ Go(c, IF stage[c] = "moving" THEN "moved" ELSE "writing")
  /\ UNCHANGED <<db, at, n>>

(* update, second statement: the row as read, with the owner replaced.     *)
MoveOwner(c) ==
  /\ stage[c] = "moved"
  /\ owners' = [owners EXCEPT ![row[c]] = [read[c] EXCEPT !.owner = subject[c]]]
  /\ read' = [read EXCEPT ![c] = NoRow]
  /\ Go(c, "recount")
  /\ UNCHANGED <<grants, row, at, n, todo>>

(* ... or with the count replaced.                                         *)
StoreCount(c) ==
  /\ stage[c] = "writing"
  /\ owners' = [owners EXCEPT ![row[c]] = [read[c] EXCEPT !.count = n[c]]]
  /\ read' = [read EXCEPT ![c] = NoRow]
  /\ Go(c, "storing")
  /\ UNCHANGED <<grants, row, at, n, todo>>

(* writeAudit, and the call succeeds.                                      *)
Audit(c) ==
  /\ \/ stage[c] = "audit"
     \/ stage[c] = "storing" /\ todo[c] = {}
  /\ stage' = [stage EXCEPT ![c] = "done"]
  /\ settled' = IF solo = c THEN c ELSE None
  /\ UNCHANGED <<db, clock, call, gone, row, at, n, todo, read, solo>>

(* The process dies, the client hangs up or the store fails: what was      *)
(* stored stays, the rest never happens.                                   *)
Die(c) ==
  /\ c \in Running
  /\ Go(c, "dead")
  /\ UNCHANGED <<db, row, at, n, todo, read>>

Next ==
  \E c \in Calls :
    \/ Claim(c) \/ Grant(c) \/ Transfer(c) \/ \E g \in Calls : Revoke(c, g)
    \/ Authorize(c)
    \/ CountBeforeClaim(c) \/ InsertOwner(c)
    \/ InsertGrant(c) \/ DeleteGrant(c)
    \/ CountGrants(c) \/ ListOwners(c)
    \/ SelectOwner(c) \/ MoveOwner(c) \/ StoreCount(c)
    \/ Audit(c) \/ Die(c)

Spec == Init /\ [][Next]_vars

-----------------------------------------------------------------------------

(* The state has its type.                                                 *)
TypeOK ==
  /\ owners \in [Calls -> OwnershipRow \cup {NoRow}]
  /\ grants \subseteq Calls
  /\ clock \in Nat
  /\ stage \in [Calls -> Stages]
  /\ op \in [Calls -> Ops]
  /\ actor \in [Calls -> Users]
  /\ subject \in [Calls -> Users]
  /\ gone \in [Calls -> Calls \cup {None}]
  /\ row \in [Calls -> Calls \cup {None}]
  /\ at \in [Calls -> Nat]
  /\ n \in [Calls -> Nat]
  /\ todo \in [Calls -> SUBSET Calls]
  /\ read \in [Calls -> OwnershipRow \cup {NoRow}]
  /\ solo \in Calls \cup {None}
  /\ settled \in Calls \cup {None}

(* state.ts:62-63, "a recount heals on the next grant change": whatever    *)
(* overlapping calls, dead calls and duplicate claims left behind, a call  *)
(* that then runs alone leaves every count right, and what it did stands.  *)
SoloCallSettles ==
  settled # None =>
    /\ \A r \in Rows : owners[r].count = Cardinality(grants)
    /\ CASE op[settled] = "claim"    -> Rows = {settled} /\ IsOwner(actor[settled])
         [] op[settled] = "grant"    -> settled \in grants
         [] op[settled] = "revoke"   -> gone[settled] \notin grants
         [] op[settled] = "transfer" -> IsOwner(subject[settled])
=============================================================================
