---------------------------- MODULE BootMigration ----------------------------
(***************************************************************************)
(* The boot of the server as far as it moves data and records provenance   *)
(* (core/src/main.ts, boot-storage.ts, kernel/migrate*.ts, ledger.ts).     *)
(*                                                                         *)
(*   read ledger -> import -> verify -> ownership -> preflight -> renames  *)
(*     -> mount, life rules -> verify -> write ledger -> serve             *)
(*                                                                         *)
(* The database and the ledger file outlive the process; it may die        *)
(* anywhere, and the next boot finds what it left.  One package declares   *)
(* the moves 1..N; move m renames its source schema to its destination.    *)
(* A rename is a transaction whose COMMIT may succeed unacknowledged.      *)
(***************************************************************************)
EXTENDS Integers

CONSTANTS
  Boots,  \* processes: each boots once
  N,      \* how many moves the manifest declares
  Absent  \* there is no ledger file

Moves == 1..N

VARIABLES
  source,  \* the moves whose source schema exists
  dest,    \* what the destination schema holds: "none" if it does not exist
  ledger,  \* the moves whose source cube data/provenance.json records
  env,     \* the sources QWBE_LEGACY_MIGRATIONS authorizes
  stage,   \* where each boot is
  snap,    \* the ledger it read before it imported anything
  next,    \* the migration its preflight is at
  plan,    \* the moves still to be renamed
  moved,   \* those renamed
  stuck,   \* a rename of its rollback failed
  had,     \* history: the moves whose data existed to begin with
  found,   \* history: the source schemas when its preflight began
  served,  \* history: some boot wrote its ledger and served
  beside   \* history: two boots were under way at once

disk == <<source, dest, ledger>>
vars == <<disk, env, stage, snap, next, plan, moved, stuck, had, found, served, beside>>

-----------------------------------------------------------------------------

Over == {"serving", "refused", "rolledback", "dead"}
Stages == Over \cup {"off", "imported", "preflight", "sourced", "renaming", "rollback",
                     "mounted", "verified", "refusing", "refusingback", "restoring"}

Booting == {b \in Boots : stage[b] \notin Over \cup {"off"}}

Lowest(S) == CHOOSE m \in S : \A k \in S : m <= k
Highest(S) == CHOOSE m \in S : \A k \in S : k <= m

(* sources recorded by a ledger read from the file.                        *)
Recorded(l) == IF l = Absent THEN {} ELSE l

Init ==
  /\ source \in SUBSET Moves
  /\ dest \in [Moves -> {"none", "data"}]
  /\ \A m \in source : dest[m] = "none"
  /\ ledger \in {Absent} \cup SUBSET Moves
  /\ env \in SUBSET Moves
  /\ stage = [b \in Boots |-> "off"]
  /\ snap = [b \in Boots |-> Absent]
  /\ next = [b \in Boots |-> 1]
  /\ plan = [b \in Boots |-> {}]
  /\ moved = [b \in Boots |-> {}]
  /\ stuck = [b \in Boots |-> FALSE]
  /\ had = source \cup {m \in Moves : dest[m] = "data"}
  /\ found = [b \in Boots |-> {}]
  /\ served = FALSE
  /\ beside = FALSE

Go(b, to) == stage' = [stage EXCEPT ![b] = to] /\ UNCHANGED <<env, had>>

(* readLedger, then loadDefinitions imports the packages, or one of them   *)
(* stops the boot.                                                         *)
Start(b) ==
  /\ stage[b] = "off"
  /\ snap' = [snap EXCEPT ![b] = ledger]
  /\ beside' = (beside \/ Booting # {})
  /\ Go(b, "imported") \/ Go(b, "refusing")
  /\ UNCHANGED <<disk, next, plan, moved, stuck, found, served>>

(* verifyLedgerUnchanged; then every declared source must be recorded in   *)
(* the snapshot or authorized, whether or not its schema exists.           *)
CheckOwnership(b) ==
  /\ stage[b] = "imported"
  /\ Go(b, IF ledger # snap[b] THEN "restoring"
           ELSE IF Moves \subseteq Recorded(snap[b]) \cup env THEN "preflight"
           ELSE "refusing")
  /\ found' = [found EXCEPT ![b] = source]
  /\ UNCHANGED <<disk, snap, next, plan, moved, stuck, served, beside>>

(* Preflight, first query: a missing source schema has nothing to move.    *)
FindSource(b) ==
  /\ stage[b] = "preflight"
  /\ next[b] \in Moves
  /\ IF next[b] \in source
     THEN Go(b, "sourced") /\ UNCHANGED next
     ELSE Go(b, "preflight") /\ next' = [next EXCEPT ![b] = @ + 1]
  /\ UNCHANGED <<disk, snap, plan, moved, stuck, found, served, beside>>

(* Mutant: after a query the preflight advances twice.                     *)
FindEveryOther(b) ==
  /\ stage[b] = "sourced"
  /\ next' = [next EXCEPT ![b] = @ + 2]
  /\ Go(b, "preflight")
  /\ plan' = [plan EXCEPT ![b] = @ \cup {next[b]}]
  /\ UNCHANGED <<disk, snap, moved, stuck, found, served, beside>>

(* Preflight, second query: source and destination together are a          *)
(* conflict, and nothing is renamed.                                       *)
FindDestination(b) ==
  /\ stage[b] = "sourced"
  /\ next' = [next EXCEPT ![b] = @ + 1]
  /\ IF dest[next[b]] = "none"
     THEN Go(b, "preflight") /\ plan' = [plan EXCEPT ![b] = @ \cup {next[b]}]
     ELSE Go(b, "refusing") /\ UNCHANGED plan
  /\ UNCHANGED <<disk, snap, moved, stuck, found, served, beside>>

(* The whole batch is checked before the first rename.                     *)
EndPreflight(b) ==
  /\ stage[b] = "preflight"
  /\ next[b] \notin Moves
  /\ Go(b, "renaming")
  /\ UNCHANGED <<disk, snap, next, plan, moved, stuck, found, served, beside>>

(* ALTER SCHEMA ... RENAME: Postgres refuses a missing schema and a name   *)
(* that is taken.                                                          *)
CanRename(m) == m \in source /\ dest[m] = "none"

Renamed(m) ==
  /\ source' = source \ {m}
  /\ dest' = [dest EXCEPT ![m] = "data"]
  /\ UNCHANGED ledger

Rename(b) ==
  /\ stage[b] = "renaming"
  /\ plan[b] # {}
  /\ LET m == Lowest(plan[b])
     IN  /\ CanRename(m)
         /\ Renamed(m)
         /\ plan' = [plan EXCEPT ![b] = @ \ {m}]
         /\ moved' = [moved EXCEPT ![b] = @ \cup {m}]
  /\ Go(b, "renaming")
  /\ UNCHANGED <<snap, next, stuck, found, served, beside>>

(* Mutant: the batch goes on past a rename that fails.                     *)
SkipRename(b) ==
  /\ stage[b] = "renaming"
  /\ plan[b] # {}
  /\ plan' = [plan EXCEPT ![b] = @ \ {Lowest(plan[b])}]
  /\ Go(b, "renaming")
  /\ UNCHANGED <<disk, snap, next, moved, stuck, found, served, beside>>

(* A rename that fails; its COMMIT may have gone through before the        *)
(* connection was lost.                                                    *)
FailRename(b) ==
  /\ stage[b] = "renaming"
  /\ plan[b] # {}
  /\ LET m == Lowest(plan[b])
     IN  UNCHANGED disk \/ (CanRename(m) /\ Renamed(m))
  /\ Go(b, "rollback")
  /\ UNCHANGED <<snap, next, plan, moved, stuck, found, served, beside>>

(* The rollback renames back what has moved, last move first, and goes on  *)
(* past a rename that fails.                                               *)
RenameBack(b) ==
  /\ stage[b] = "rollback"
  /\ moved[b] # {}
  /\ LET m == Highest(moved[b])
     IN  /\ moved' = [moved EXCEPT ![b] = @ \ {m}]
         /\ \/ /\ m \notin source
               /\ dest[m] # "none"
               /\ source' = source \cup {m}
               /\ dest' = [dest EXCEPT ![m] = "none"]
               /\ UNCHANGED <<ledger, stuck>>
            \/ /\ stuck' = [stuck EXCEPT ![b] = TRUE]
               /\ UNCHANGED disk
  /\ Go(b, "rollback")
  /\ UNCHANGED <<snap, next, plan, found, served, beside>>

(* Mutant: only the failed move is reported; nothing is renamed back.      *)
EndWithoutRollback(b) ==
  /\ stage[b] = "rollback"
  /\ Go(b, IF stuck[b] THEN "refusing" ELSE "refusingback")
  /\ UNCHANGED <<disk, snap, next, plan, moved, stuck, found, served, beside>>

(* MigrationFailedError: "and the batch was rolled back", or that the      *)
(* rollback failed too.                                                    *)
EndRollback(b) ==
  /\ stage[b] = "rollback"
  /\ moved[b] = {}
  /\ Go(b, IF stuck[b] THEN "refusing" ELSE "refusingback")
  /\ UNCHANGED <<disk, snap, next, plan, moved, stuck, found, served, beside>>

(* mount, checkCubes and checkSchemaDrift: they pass, or the boot stops.   *)
Mount(b) ==
  /\ stage[b] = "renaming"
  /\ plan[b] = {}
  /\ Go(b, "mounted") \/ Go(b, "refusing")
  /\ UNCHANGED <<disk, snap, next, plan, moved, stuck, found, served, beside>>

(* Every refusal verifies the ledger on its way out.                       *)
Refuse(b) ==
  /\ \/ stage[b] = "refusing" /\ Go(b, IF ledger = snap[b] THEN "refused" ELSE "restoring")
     \/ stage[b] = "refusingback" /\ Go(b, IF ledger = snap[b] THEN "rolledback" ELSE "restoring")
  /\ UNCHANGED <<disk, snap, next, plan, moved, stuck, found, served, beside>>

(* verifyLedgerUnchanged finds another ledger: the snapshot is put back    *)
(* and the boot is refused.                                                *)
Restore(b) ==
  /\ stage[b] = "restoring"
  /\ ledger' = Recorded(snap[b])
  /\ Go(b, "refused")
  /\ UNCHANGED <<source, dest, snap, next, plan, moved, stuck, found, served, beside>>

VerifyLedger(b) ==
  /\ stage[b] = "mounted"
  /\ Go(b, IF ledger = snap[b] THEN "verified" ELSE "restoring")
  /\ UNCHANGED <<disk, snap, next, plan, moved, stuck, found, served, beside>>

(* Mutant: only the mounted cubes are recorded.                            *)
WriteMounted(b) ==
  /\ stage[b] = "verified"
  /\ ledger' = Recorded(snap[b])
  /\ served' = TRUE
  /\ Go(b, "serving")
  /\ UNCHANGED <<source, dest, snap, next, plan, moved, stuck, found, beside>>

(* writeLedger: the snapshot, the mounted cubes and the source of every    *)
(* declared migration, in one atomic replacement of the file.              *)
WriteLedger(b) ==
  /\ stage[b] = "verified"
  /\ ledger' = Recorded(snap[b]) \cup Moves
  /\ served' = TRUE
  /\ Go(b, "serving")
  /\ UNCHANGED <<source, dest, snap, next, plan, moved, stuck, found, beside>>

(* Mutant: a store opens before the migrations ran.                        *)
TouchEarly(b, m) ==
  /\ stage[b] = "preflight"
  /\ dest[m] = "none"
  /\ dest' = [dest EXCEPT ![m] = "empty"]
  /\ UNCHANGED <<source, ledger, env, stage, snap, next, plan, moved, stuck, had, found, served, beside>>

(* ensureSchema: the first request to a cube creates its schema.           *)
Touch(b, m) ==
  /\ stage[b] = "serving"
  /\ dest[m] = "none"
  /\ dest' = [dest EXCEPT ![m] = "empty"]
  /\ UNCHANGED <<source, ledger, env, stage, snap, next, plan, moved, stuck, had, found, served, beside>>

Die(b) ==
  /\ b \in Booting \/ stage[b] = "serving"
  /\ Go(b, "dead")
  /\ UNCHANGED <<disk, snap, next, plan, moved, stuck, found, served, beside>>

(* README: the variable is removed after the first successful boot.        *)
RemoveEnv ==
  /\ served
  /\ env' = {}
  /\ UNCHANGED <<disk, stage, snap, next, plan, moved, stuck, had, found, served, beside>>

Next ==
  \/ \E b \in Boots :
       \/ Start(b) \/ CheckOwnership(b)
       \/ FindSource(b) \/ FindDestination(b) \/ EndPreflight(b)
       \/ Rename(b) \/ FailRename(b) \/ RenameBack(b) \/ EndRollback(b)
       \/ Mount(b) \/ Refuse(b) \/ Restore(b) \/ VerifyLedger(b) \/ WriteLedger(b)
       \/ \E m \in Moves : Touch(b, m)
       \/ Die(b)
  \/ RemoveEnv

Spec == Init /\ [][Next]_vars

-----------------------------------------------------------------------------

(* The state has its type.                                                 *)
TypeOK ==
  /\ source \in SUBSET Moves
  /\ dest \in [Moves -> {"none", "empty", "data"}]
  /\ ledger \in {Absent} \cup SUBSET Moves
  /\ env \in SUBSET Moves
  /\ stage \in [Boots -> Stages]
  /\ snap \in [Boots -> {Absent} \cup SUBSET Moves]
  /\ next \in [Boots -> 1..(N + 1)]
  /\ plan \in [Boots -> SUBSET Moves]
  /\ moved \in [Boots -> SUBSET Moves]
  /\ stuck \in [Boots -> BOOLEAN]
  /\ had \in SUBSET Moves
  /\ found \in [Boots -> SUBSET Moves]
  /\ served \in BOOLEAN
  /\ beside \in BOOLEAN

(* A boot that serves finds every cube's data under its new name, whatever *)
(* earlier boots left half done: no request ever meets an empty cube whose *)
(* rows stayed behind.  Boots run one at a time here.                      *)
ServesItsData ==
  ~beside => \A b \in Boots : stage[b] = "serving" => \A m \in had : dest[m] = "data"

(* migrate.ts:27-30: a source and its destination never exist together, so *)
(* no crash or failed boot ends in a conflict an operator must resolve.    *)
NoConflict == ~beside => \A m \in source : dest[m] = "none"

(* main.ts:129-131: once the system has served, its sources stay           *)
(* attributable, and no later boot needs the operator's variable.          *)
SourcesStayAttributable ==
  served /\ ~beside => ledger # Absent /\ Moves \subseteq ledger

(* README.md:279-280, "a failed move rolls the whole batch back": a boot   *)
(* that reports so leaves the source schemas it found, but for the move    *)
(* that failed, whose COMMIT may have gone through.                        *)
RolledBackIsBack ==
  ~beside =>
    \A b \in Boots :
      stage[b] = "refusingback" => found[b] \ {Lowest(plan[b])} \subseteq source /\ source \subseteq found[b]
=============================================================================
