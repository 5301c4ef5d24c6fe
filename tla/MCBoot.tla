------------------------------- MODULE MCBoot -------------------------------
(***************************************************************************)
(* What happens to packages before they serve, for TLC: Mounting, the data *)
(* moves of BootMigration, and the check of PackageCheck, side by side.    *)
(* `part` says which of them a behaviour is of; the variables of the       *)
(* others keep a dummy.  Every process of BootMigration boots once.        *)
(***************************************************************************)
EXTENDS MCMounting

CONSTANTS
  Boots, N, Absent, \* of BootMigration
  System, MaxFaults \* of PackageCheck

ASSUME MovesAssumption == N \in Nat /\ \A S \in SUBSET (1..N) : Absent # S

VARIABLES
  part,
  source, dest, ledger, env, stage, snap, next, plan, moved, stuck, had, found, hasServed, beside,
  pack, step, server, held, left, todo, tokens, unread, runs, findings, code, faults

B == INSTANCE BootMigration WITH served <- hasServed
Samples == INSTANCE SamplePacks
P == INSTANCE PackageCheck WITH Packs <- Samples!Pack, Caps <- Samples!KernelCaps

(* The fields of a cube are the keys of a record.                          *)
ASSUME ChecksAssumption ==
  /\ MaxFaults \in Nat /\ None \notin {"listed", "free"} /\ None \notin Nat
  /\ \A p \in Samples!Pack :
       /\ p.probes \in Seq(Nat \cup {None})
       /\ \A c \in DOMAIN p.cubes :
            /\ p.cubes[c].metadata \in {"none", "good", "bad"}
            /\ \A f, g \in p.cubes[c].fields : f.name = g.name => f = g

moveOnly == <<source, dest, ledger, env, stage, snap, next, plan, moved, stuck, had, found, hasServed, beside>>
checkOnly == <<pack, step, server, held, left, todo, tokens, unread, runs, findings, code, faults>>
all == <<part, vars, moveOnly, checkOnly>>

NoMount == /\ disk = 0 /\ wanted = 0 /\ off = 0 /\ records = 0 /\ phase = 0 /\ ran = 0 /\ system = 0
           /\ bound = 0 /\ handles = 0 /\ meta = 0 /\ refused = 0 /\ served = 0 /\ boots = 0 /\ edits = 0
NoMove == /\ source = 0 /\ dest = 0 /\ ledger = 0 /\ env = 0 /\ stage = 0 /\ snap = 0 /\ next = 0
          /\ plan = 0 /\ moved = 0 /\ stuck = 0 /\ had = 0 /\ found = 0 /\ hasServed = 0 /\ beside = 0
NoCheck == /\ pack = 0 /\ step = 0 /\ server = 0 /\ held = 0 /\ left = 0 /\ todo = 0 /\ tokens = 0
           /\ unread = 0 /\ runs = 0 /\ findings = 0 /\ code = 0 /\ faults = 0

InitBoot ==
  \/ part = "mount" /\ Init /\ NoMove /\ NoCheck
  \/ part = "move" /\ B!Init /\ NoMount /\ NoCheck
  \/ part = "check" /\ P!Init /\ NoMount /\ NoMove

MountOnly == <<disk, wanted, off, records, phase, ran, system, bound, handles, meta,
               refused, served, boots, edits>>

NextBoot ==
  /\ part' = part
  /\ \/ part = "mount" /\ Next /\ UNCHANGED <<moveOnly, checkOnly>>
     \/ part = "move" /\ B!Next /\ UNCHANGED <<MountOnly, checkOnly>>
     \/ part = "check" /\ P!Next /\ UNCHANGED <<MountOnly, moveOnly>>

SpecBoot == InitBoot /\ [][NextBoot]_all

SymBoots == Permutations(Boots)

(* A boot reads before it runs and binds late: no package's module runs in *)
(* a boot that a package's contract stops (Mounting!ContractsComeFirst),   *)
(* and whatever the load order the consumer of a capability reaches the    *)
(* mounted cube that provides it (Mounting!ConsumersReachProviders), with  *)
(* Mounting!TypeOK. discovery.ts:107-109 and 213-216,                      *)
(* package-contract.ts:170-196, late-bound-capabilities.ts:12-28.          *)
MountsAreWired == part = "mount" => TypeOK /\ ContractsComeFirst /\ ConsumersReachProviders

(* Mounting!GatesCanOpen: every gate of a serving system can be passed and *)
(* none was forgotten. manifest-validation.ts:200-216,                     *)
(* runtime-composition.ts:202-215.                                         *)
GatesOpen == part = "mount" => GatesCanOpen

(* Mounting!OffMeansGone: no route, command or link of a cube that is off, *)
(* by its own switch or its parent's, is left. mount.ts:137-177,           *)
(* discovery.ts:218-249.                                                   *)
OffIsGone == part = "mount" => OffMeansGone

(* Mounting!OneSchemaPerVersion: over upgrades and restarts one version of *)
(* a cube shows one schema. schema-drift.ts:1-12.                          *)
SchemaPerVersion == part = "mount" => OneSchemaPerVersion

(* Whatever earlier boots left half done, a boot that serves finds every   *)
(* cube's data under its new name (BootMigration!ServesItsData), no crash  *)
(* ends in a source beside its destination (BootMigration!NoConflict),     *)
(* sources stay attributable once the system has served                    *)
(* (BootMigration!SourcesStayAttributable), and a batch reported as rolled *)
(* back is back (BootMigration!RolledBackIsBack), with                     *)
(* BootMigration!TypeOK. migrate.ts:27-30, main.ts:129-131.                *)
MovesKeepData ==
  part = "move" => /\ B!TypeOK /\ B!ServesItsData /\ B!NoConflict
                   /\ B!SourcesStayAttributable /\ B!RolledBackIsBack

(* The verdict on a package is just: what passes is what the four stages   *)
(* are said to judge, but for a cube whose metadata request failed         *)
(* (PackageCheck!PassIsSound), and where every call succeeds no sound      *)
(* package is refused (PackageCheck!RefusalIsEarned), with                 *)
(* PackageCheck!TypeOK. check-package.ts:414-448,                          *)
(* check-probes.ts:263-294 and 331-421.                                    *)
VerdictsAreJust == part = "check" => P!TypeOK /\ P!PassIsSound /\ P!RefusalIsEarned

(* However a check ends, its kernel never outlives its database or sandbox *)
(* (PackageCheck!KernelKeepsItsGround), and nothing of it is left but a    *)
(* database whose DROP failed (PackageCheck!NothingIsLeft).                *)
(* check-package.ts:216-222, qwbe-cli.ts:99-104, test-db.ts:39-60.         *)
CheckCleansUp == part = "check" => P!KernelKeepsItsGround /\ P!NothingIsLeft
=============================================================================
