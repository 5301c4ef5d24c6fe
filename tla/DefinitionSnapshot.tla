------------------------- MODULE DefinitionSnapshot -------------------------
(***************************************************************************)
(* The in-memory snapshot of custom-field definitions that the catalogue   *)
(* reads synchronously (core/src/cubes/customfields/context.ts).           *)
(*                                                                         *)
(* Every handler that commits a change to a cube's definitions then        *)
(* refreshes the snapshot for that cube; boot refreshes it for all cubes   *)
(* while requests already run.  A refresh draws a ticket, SELECTs, and     *)
(* some time later replaces what no later-started refresh has replaced.    *)
(*                                                                         *)
(* The definitions of a cube are the number of changes committed to them:  *)
(* db[c] in the store, snap[c] as the snapshot shows them.                 *)
(***************************************************************************)
EXTENDS Integers

CONSTANTS
  Cubes,    \* the target cubes
  Writers,  \* requests: each defines, updates or removes one definition
  Boot,     \* the refresh a starting process forks
  All,      \* the key "*" of a full read
  MaxLives, \* bound: times the process starts
  MaxForeign \* bound: changes committed by other instances of the API

ASSUME NamesAssumption == Boot \notin Writers /\ All \notin Cubes
ASSUME BoundsAssumption == MaxLives \in Nat /\ MaxForeign \in Nat

VARIABLES
  db,       \* changes committed to each cube's definitions
  snap,     \* how many of them the snapshot shows
  reads,    \* snapshot.reads: tickets handed out
  applied,  \* snapshot.applied: per key, the ticket that last replaced it
  stage,    \* where each request is
  scope,    \* the cube it refreshes, or All
  ticket,   \* the ticket it drew
  got,      \* the definitions its SELECT returned
  base,     \* history: the store when it drew its ticket
  lives,    \* times the process has started
  foreign   \* changes committed by other instances

vars == <<db, snap, reads, applied, stage, scope, ticket, got, base, lives, foreign>>

Refreshes == Writers \cup {Boot}
Keys == Cubes \cup {All}
Counts == [Cubes -> Nat]
None == [c \in Cubes |-> 0]

(* written: the change is committed; reading: the ticket is drawn;         *)
(* fetched: the SELECT has answered; done: the refresh succeeded; failed:  *)
(* it was swallowed by catchAllCause; gone: the process that ran it died.  *)
Stages == {"idle", "written", "reading", "fetched", "done", "failed", "gone"}
Ticketed == {"reading", "fetched", "done"}

Greater(a, b) == IF a < b THEN b ELSE a

(* last(c): the latest ticket whose read replaced the rows of c.           *)
Last(c) == Greater(applied[c], applied[All])

Covers(q, c) == scope[q] \in {c, All}

(* Mutant: only a read of the same key counts as having replaced c.        *)
ReplacedByKey(q, c) == Covers(q, c) /\ applied[scope[q]] < ticket[q]

(* Mutant: the read that answers last wins.                                *)
ReplacedAlways(q, c) == Covers(q, c)

(* replaced(c): q's rows of c go in, the rows of c held so far go out.     *)
Replaced(q, c) == Covers(q, c) /\ Last(c) < ticket[q]

-----------------------------------------------------------------------------

Init ==
  /\ db \in [Cubes -> {0, 1}]
  /\ snap = None
  /\ reads = 0
  /\ applied = [k \in Keys |-> 0]
  /\ stage = [q \in Refreshes |-> IF q = Boot THEN "written" ELSE "idle"]
  /\ scope = [q \in Refreshes |-> All]
  /\ ticket = [q \in Refreshes |-> 0]
  /\ got = [q \in Refreshes |-> None]
  /\ base = [q \in Refreshes |-> None]
  /\ lives = 1
  /\ foreign = 0

(* define, update and remove commit their change to the store first.       *)
Change(q, c) ==
  /\ stage[q] = "idle"
  /\ db' = [db EXCEPT ![c] = @ + 1]
  /\ stage' = [stage EXCEPT ![q] = "written"]
  /\ scope' = [scope EXCEPT ![q] = c]
  /\ UNCHANGED <<snap, reads, applied, ticket, got, base, lives, foreign>>

(* refreshSnapshot starts: the ticket is drawn before the SELECT runs.     *)
Start(q) ==
  /\ stage[q] = "written"
  /\ reads' = reads + 1
  /\ ticket' = [ticket EXCEPT ![q] = reads + 1]
  /\ base' = [base EXCEPT ![q] = db]
  /\ stage' = [stage EXCEPT ![q] = "reading"]
  /\ UNCHANGED <<db, snap, applied, scope, got, lives, foreign>>

(* Mutant: a SELECT for one cube leaves the others without an entry.       *)
FetchOwnRows(q) ==
  /\ stage[q] = "reading"
  /\ got' = [got EXCEPT ![q] = [c \in {d \in Cubes : Covers(q, d)} |-> db[c]]]
  /\ stage' = [stage EXCEPT ![q] = "fetched"]
  /\ UNCHANGED <<db, snap, reads, applied, scope, ticket, base, lives, foreign>>

(* The SELECT sees what is committed when it runs.                         *)
Fetch(q) ==
  /\ stage[q] = "reading"
  /\ got' = [got EXCEPT ![q] = [c \in Cubes |-> IF Covers(q, c) THEN db[c] ELSE 0]]
  /\ stage' = [stage EXCEPT ![q] = "fetched"]
  /\ UNCHANGED <<db, snap, reads, applied, scope, ticket, base, lives, foreign>>

(* The rest of refreshSnapshot runs without yielding.                      *)
Apply(q) ==
  /\ stage[q] = "fetched"
  /\ snap' = [c \in Cubes |-> IF Replaced(q, c) THEN got[q][c] ELSE snap[c]]
  /\ applied' = [applied EXCEPT ![scope[q]] = Greater(ticket[q], @)]
  /\ stage' = [stage EXCEPT ![q] = "done"]
  /\ got' = [got EXCEPT ![q] = None]
  /\ UNCHANGED <<db, reads, scope, ticket, base, lives, foreign>>

(* A failed read leaves the snapshot as it is; the handler goes on.        *)
Fail(q) ==
  /\ stage[q] = "reading"
  /\ stage' = [stage EXCEPT ![q] = "failed"]
  /\ UNCHANGED <<db, snap, reads, applied, scope, ticket, got, base, lives, foreign>>

(* Another instance on the same database refreshes its own snapshot only.  *)
ForeignChange(c) ==
  /\ foreign < MaxForeign
  /\ foreign' = foreign + 1
  /\ db' = [db EXCEPT ![c] = @ + 1]
  /\ UNCHANGED <<snap, reads, applied, stage, scope, ticket, got, base, lives>>

(* The process dies and starts again with an empty snapshot; what was in   *)
(* flight is gone, and the boot refresh is forked anew.                    *)
Restart ==
  /\ lives < MaxLives
  /\ lives' = lives + 1
  /\ snap' = None
  /\ reads' = 0
  /\ applied' = [k \in Keys |-> 0]
  /\ stage' = [q \in Refreshes |-> CASE q = Boot -> "written"
                                     [] q # Boot /\ stage[q] = "idle" -> "idle"
                                     [] OTHER -> "gone"]
  /\ ticket' = [q \in Refreshes |-> 0]
  /\ got' = [q \in Refreshes |-> None]
  /\ base' = [q \in Refreshes |-> None]
  /\ UNCHANGED <<db, scope, foreign>>

Next ==
  \/ \E q \in Writers, c \in Cubes : Change(q, c)
  \/ \E q \in Refreshes : Start(q) \/ Fetch(q) \/ Apply(q) \/ Fail(q)
  \/ \E c \in Cubes : ForeignChange(c)
  \/ Restart

Spec == Init /\ [][Next]_vars

-----------------------------------------------------------------------------

(* The state has its type.                                                 *)
TypeOK ==
  /\ db \in Counts
  /\ snap \in Counts
  /\ reads \in Nat
  /\ applied \in [Keys -> Nat]
  /\ stage \in [Refreshes -> Stages]
  /\ scope \in [Refreshes -> Keys]
  /\ ticket \in [Refreshes -> Nat]
  /\ got \in [Refreshes -> Counts]
  /\ base \in [Refreshes -> Counts]
  /\ lives \in Nat
  /\ foreign \in Nat

(* context.ts:43-46: once a refresh has answered, the snapshot shows, and  *)
(* goes on showing, everything committed to its cube before the refresh    *)
(* began (so a handler that returns has its own change published) however  *)
(* the reads of concurrent refreshes, and the boot's, are reordered.       *)
FinishedRefreshIsServed ==
  \A q \in Refreshes, c \in Cubes :
    stage[q] = "done" /\ Covers(q, c) => snap[c] >= base[q][c]

(* The snapshot may step back (a read that started later may have run its  *)
(* SELECT earlier), but a change drops out of it only for the time being:  *)
(* the request that committed a change to this cube is still on its way to *)
(* refresh, unless its refresh failed, or no request of this process       *)
(* committed it.                                                           *)
StepsBackOnlyOverPending ==
  [][\A c \in Cubes :
       snap'[c] < snap[c] /\ lives' = lives
         => \/ foreign > 0
            \/ \E q \in Writers : scope[q] = c /\ stage'[q] \notin {"idle", "done"}]_vars
=============================================================================
