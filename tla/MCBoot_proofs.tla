---------------------------- MODULE MCBoot_proofs -----------------------------
(***************************************************************************)
(* Proofs about what happens to packages before they serve: the data moves *)
(* of BootMigration, for any number of moves, boots, crashes and restarts, *)
(* the checks of PackageCheck, for any packages and faults, and the boots  *)
(* of Mounting, for any cubes, switches, upgrades and removals.            *)
(***************************************************************************)
EXTENDS MCBoot, WellFoundedInduction, SequenceTheorems, TLAPS

-----------------------------------------------------------------------------
(* The moves.                                                              *)

Moves == B!Moves
Booting == B!Booting

(* A boot at work is the only one, has read the ledger as it is, and finds *)
(* nothing in the way of what it will move.                                *)
LoneInv ==
  \A b \in Booting : /\ \A c \in Booting : c = b
                     /\ snap[b] = ledger /\ stage[b] # "restoring"

(* A boot that has not begun has done nothing.                             *)
FreshInv ==
  \A b \in Boots : stage[b] = "off" => next[b] = 1 /\ plan[b] = {} /\ moved[b] = {} /\ ~ stuck[b]

(* No data is lost: it is under the old name or under the new one, and     *)
(* never under both.                                                       *)
DataInv ==
  /\ \A m \in source : dest[m] = "none"
  /\ had = source \cup {m \in Moves : dest[m] = "data"}

(* What a boot has planned, moved and moved back.                          *)
Plan(b) ==
  /\ stage[b] = "imported" => next[b] = 1 /\ plan[b] = {} /\ moved[b] = {} /\ ~ stuck[b]
  /\ stage[b] \in {"preflight", "sourced"} =>
       /\ plan[b] = {m \in source : m < next[b]} /\ moved[b] = {} /\ ~ stuck[b] /\ found[b] = source
  /\ stage[b] = "sourced" => next[b] \in source
  /\ stage[b] = "renaming" =>
       /\ plan[b] = source /\ found[b] = source \cup moved[b] /\ ~ stuck[b]
       /\ \A m \in moved[b] : m \notin source /\ dest[m] = "data"
  /\ stage[b] = "rollback" =>
       /\ \A m \in moved[b] : m \notin source /\ dest[m] = "data"
       /\ source \subseteq found[b] /\ moved[b] \subseteq found[b]
       /\ ~ stuck[b] => found[b] \ {B!Lowest(plan[b])} \subseteq source \cup moved[b]
  /\ stage[b] = "refusingback" =>
       source \subseteq found[b] /\ found[b] \ {B!Lowest(plan[b])} \subseteq source
  /\ stage[b] \in {"mounted", "verified"} => source = {}
PlanInv == \A b \in Boots : Plan(b)

(* Once a boot has served, nothing is left under an old name, no boot has  *)
(* anything to move, and the ledger says where the data came from.         *)
ServedInv ==
  /\ \A b \in Boots : stage[b] = "serving" => hasServed
  /\ hasServed => /\ source = {} /\ ledger # Absent /\ Moves \subseteq ledger
                  /\ \A b \in Booting : moved[b] = {}

SourcedInv == \A b \in Boots : stage[b] = "sourced" => next[b] \in Moves

AloneInv == LoneInv /\ FreshInv /\ DataInv /\ PlanInv /\ ServedInv

MoveInv == B!TypeOK /\ SourcedInv /\ (~ beside => AloneInv)

(* The least and the greatest of a batch are of it.                        *)
LEMMA LeastOf ==
  ASSUME NEW T \in SUBSET Nat, T # {}
  PROVE  \E x \in T : \A y \in T : x <= y
<1> DEFINE Below == OpToRel(<, Nat)
<1>1. \A x, y \in Nat : x < y => <<x, y>> \in Below
  BY DEF OpToRel
<1>2. IsWellFoundedOn(Below, Nat)
  BY NatLessThanWellFounded
<1> HIDE DEF Below
<1>3. PICK x \in T : \A y \in T : ~ (<<y, x>> \in Below)
  BY <1>2, WFMin
<1>4. \A y \in T : x <= y
  <2> TAKE y \in T
  <2>1. x \in Nat /\ y \in Nat
    OBVIOUS
  <2>2. ~ (y < x)
    BY <1>1, <1>3, <2>1
  <2> QED
    BY <2>1, <2>2
<1> QED
  BY <1>4

LEMMA Extremes ==
  ASSUME NEW S \in SUBSET Moves, S # {}
  PROVE  B!Lowest(S) \in S /\ B!Highest(S) \in S
<1>1. \A m \in S : m \in Nat /\ m <= N /\ N - m \in Nat
  BY MovesAssumption DEF Moves, B!Moves
<1>2. B!Lowest(S) \in S
  BY <1>1, LeastOf DEF B!Lowest
<1>3. PICK x \in {N - m : m \in S} : \A y \in {N - m : m \in S} : x <= y
  <2>1. {N - m : m \in S} \in SUBSET Nat /\ {N - m : m \in S} # {}
    BY <1>1
  <2> QED
    BY <2>1, LeastOf
<1>4. PICK m \in S : x = N - m
  OBVIOUS
<1>5. ASSUME NEW k \in S PROVE k <= m
  <2>1. N - m <= N - k
    BY <1>3, <1>4
  <2> QED
    BY <1>1, <2>1, MovesAssumption
<1> QED
  BY <1>2, <1>5 DEF B!Highest

LEMMA MovesType ==
  ASSUME B!TypeOK, SourcedInv, B!Next
  PROVE  B!TypeOK' /\ SourcedInv'
<1> USE MovesAssumption DEF B!TypeOK, SourcedInv, B!Go, B!disk, B!Stages, B!Over
<1>1. ASSUME NEW b \in Boots, B!Start(b)
      PROVE  B!TypeOK' /\ SourcedInv'
  BY <1>1 DEF B!Start
<1>2. ASSUME NEW b \in Boots, B!CheckOwnership(b)
      PROVE  B!TypeOK' /\ SourcedInv'
  BY <1>2 DEF B!CheckOwnership
<1>3. ASSUME NEW b \in Boots, B!FindSource(b)
      PROVE  B!TypeOK' /\ SourcedInv'
  <2>1. next[b] \in 1..N /\ next[b] + 1 \in 1..(N + 1)
    BY <1>3 DEF B!FindSource, B!Moves
  <2>2. next' \in [Boots -> 1..(N + 1)]
    BY <1>3, <2>1 DEF B!FindSource
  <2>3. SourcedInv'
    BY <1>3, <2>1 DEF B!FindSource, Moves, B!Moves
  <2> QED
    BY <1>3, <2>2, <2>3 DEF B!FindSource
<1>4. ASSUME NEW b \in Boots, B!FindDestination(b)
      PROVE  B!TypeOK' /\ SourcedInv'
  <2>1. next[b] \in 1..N /\ next[b] + 1 \in 1..(N + 1)
    BY <1>4 DEF B!FindDestination, Moves, B!Moves
  <2>2. next' \in [Boots -> 1..(N + 1)]
    BY <1>4, <2>1 DEF B!FindDestination
  <2>3. plan' \in [Boots -> SUBSET B!Moves]
    <3>1. next[b] \in B!Moves /\ plan[b] \cup {next[b]} \in SUBSET B!Moves
      BY <2>1 DEF B!Moves
    <3>2. plan' = plan \/ plan' = [plan EXCEPT ![b] = plan[b] \cup {next[b]}]
      BY <1>4 DEF B!FindDestination
    <3> QED
      BY <3>1, <3>2
  <2>4. SourcedInv'
    <3>1. /\ stage'[b] \in {"preflight", "refusing"}
          /\ \A c \in Boots : c # b => stage'[c] = stage[c] /\ next'[c] = next[c]
      BY <1>4 DEF B!FindDestination
    <3> QED
      BY <3>1
  <2> QED
    BY <1>4, <2>2, <2>3, <2>4 DEF B!FindDestination
<1>5. ASSUME NEW b \in Boots, B!EndPreflight(b) \/ B!Mount(b) \/ B!Refuse(b) \/ B!VerifyLedger(b) \/ B!Die(b)
      PROVE  B!TypeOK' /\ SourcedInv'
  BY <1>5 DEF B!EndPreflight, B!Mount, B!Refuse, B!VerifyLedger, B!Die
<1>6. ASSUME NEW b \in Boots, B!Rename(b) \/ B!FailRename(b)
      PROVE  B!TypeOK' /\ SourcedInv'
  BY <1>6 DEF B!Rename, B!FailRename, B!CanRename, B!Renamed
<1>7. ASSUME NEW b \in Boots, B!RenameBack(b) \/ B!EndRollback(b)
      PROVE  B!TypeOK' /\ SourcedInv'
  <2>1. CASE B!EndRollback(b)
    BY <2>1 DEF B!EndRollback
  <2>2. CASE B!RenameBack(b)
    <3>1. moved[b] \in SUBSET B!Moves /\ moved[b] # {} /\ B!Highest(moved[b]) \in B!Moves
      <4>1. moved[b] \in SUBSET B!Moves /\ moved[b] # {}
        BY <2>2 DEF B!RenameBack
      <4> QED
        BY <4>1, Extremes DEF Moves
    <3> QED
      BY <2>2, <3>1 DEF B!RenameBack
  <2> QED
    BY <1>7, <2>1, <2>2
<1>8. ASSUME NEW b \in Boots, B!Restore(b) \/ B!WriteLedger(b)
      PROVE  B!TypeOK' /\ SourcedInv'
  BY <1>8 DEF B!Restore, B!WriteLedger, B!Recorded, B!Moves
<1>9. ASSUME NEW b \in Boots, NEW m \in B!Moves, B!Touch(b, m)
      PROVE  B!TypeOK' /\ SourcedInv'
  BY <1>9 DEF B!Touch
<1>10. CASE B!RemoveEnv
  BY <1>10 DEF B!RemoveEnv
<1> QED
  BY <1>1, <1>2, <1>3, <1>4, <1>5, <1>6, <1>7, <1>8, <1>9, <1>10 DEF B!Next

(* While one boot works alone, only what it does itself counts.            *)
LEMMA OneWorks ==
  ASSUME B!TypeOK, AloneInv, NEW b \in Booting, NEW s \in B!Stages \ {"off"},
         stage' = [stage EXCEPT ![b] = s],
         \A c \in Boots : c # b => /\ next'[c] = next[c] /\ plan'[c] = plan[c] /\ moved'[c] = moved[c]
                                   /\ stuck'[c] = stuck[c],
         snap' = snap, s \notin B!Over => ledger' = ledger /\ s # "restoring",
         Plan(b)', DataInv', ServedInv'
  PROVE  AloneInv'
<1>1. b \in Boots /\ stage'[b] = s /\ \A c \in Boots : c # b => stage'[c] = stage[c]
  BY DEF B!TypeOK, Booting, B!Booting
<1>2. \A c \in Boots : c # b => stage[c] \in B!Over \cup {"off"}
  BY DEF AloneInv, LoneInv, Booting, B!Booting
<1>3. Booting' \subseteq {b} /\ (b \in Booting' => s \notin B!Over)
  BY <1>1, <1>2 DEF Booting, B!Booting, B!Over
<1>4. LoneInv'
  BY <1>1, <1>3 DEF AloneInv, LoneInv
<1>5. FreshInv'
  BY <1>1 DEF AloneInv, FreshInv
<1>6. PlanInv'
  <2> SUFFICES ASSUME NEW c \in Boots, c # b PROVE Plan(c)'
    BY DEF PlanInv
  <2>1. stage'[c] \in B!Over \cup {"off"}
    BY <1>1, <1>2
  <2> QED
    BY <2>1 DEF Plan, B!Over
<1> QED
  BY <1>4, <1>5, <1>6 DEF AloneInv

(* What a boot does beside the disk leaves the data as it is.              *)
LEMMA QuietWork ==
  ASSUME B!TypeOK, AloneInv, NEW b \in Booting, NEW s \in B!Stages \ {"off", "serving", "restoring"},
         stage' = [stage EXCEPT ![b] = s],
         UNCHANGED <<source, dest, ledger, had, hasServed, moved, snap>>,
         \A c \in Boots : c # b => next'[c] = next[c] /\ plan'[c] = plan[c] /\ stuck'[c] = stuck[c],
         Plan(b)'
  PROVE  AloneInv'
<1>1. DataInv'
  BY DEF AloneInv, DataInv
<1>2. ServedInv'
  <2>1. \A c \in Boots : stage'[c] = "serving" => stage[c] = "serving"
    BY DEF B!TypeOK
  <2>2. Booting' \subseteq Booting
    BY DEF B!TypeOK, Booting, B!Booting
  <2> QED
    BY <2>1, <2>2 DEF AloneInv, ServedInv
<1> QED
  BY <1>1, <1>2, OneWorks

LEMMA AloneStarts ==
  ASSUME B!TypeOK, AloneInv, ~ beside', NEW b \in Boots, B!Start(b)
  PROVE  AloneInv'
<1>1. /\ stage[b] = "off" /\ Booting = {} /\ snap' = [snap EXCEPT ![b] = ledger]
      /\ UNCHANGED <<source, dest, ledger, had, next, plan, moved, stuck, hasServed>>
  BY DEF B!Start, B!Go, B!disk, Booting
<1>2. PICK s \in {"imported", "refusing"} : stage' = [stage EXCEPT ![b] = s]
  BY DEF B!Start, B!Go
<1>3. stage'[b] = s /\ snap'[b] = ledger /\ \A c \in Boots : c # b => stage'[c] = stage[c]
  BY <1>1, <1>2 DEF B!TypeOK
<1>4. \A c \in Boots : stage[c] \in B!Over \cup {"off"}
  BY <1>1 DEF Booting, B!Booting
<1>5. Booting' = {b}
  BY <1>1, <1>3, <1>4 DEF Booting, B!Booting, B!Over
<1>6. LoneInv'
  BY <1>1, <1>3, <1>5 DEF LoneInv
<1>7. FreshInv' /\ DataInv'
  BY <1>1, <1>3 DEF AloneInv, FreshInv, DataInv
<1>8. PlanInv'
  <2> SUFFICES ASSUME NEW c \in Boots PROVE Plan(c)'
    BY DEF PlanInv
  <2>1. CASE c = b
    BY <1>1, <1>3, <2>1 DEF Plan, AloneInv, FreshInv
  <2>2. CASE c # b
    BY <1>3, <1>4, <2>2 DEF Plan, B!Over
  <2> QED
    BY <2>1, <2>2
<1>9. ServedInv'
  BY <1>1, <1>3, <1>5 DEF AloneInv, FreshInv, ServedInv
<1> QED
  BY <1>6, <1>7, <1>8, <1>9 DEF AloneInv

(* Up to the first rename a boot only looks.                               *)
LEMMA AloneLooks ==
  ASSUME B!TypeOK, SourcedInv, AloneInv, NEW b \in Boots,
         \/ B!CheckOwnership(b) \/ B!FindSource(b) \/ B!FindDestination(b) \/ B!EndPreflight(b)
         \/ B!EndRollback(b) \/ B!Mount(b) \/ B!Refuse(b) \/ B!VerifyLedger(b)
  PROVE  AloneInv'
<1>1. b \in Booting
  BY DEF Booting, B!Booting, B!Over, B!CheckOwnership, B!FindSource, B!FindDestination, B!EndPreflight,
         B!EndRollback, B!Mount, B!Refuse, B!VerifyLedger
<1>2. snap[b] = ledger /\ Plan(b)
  BY <1>1 DEF AloneInv, LoneInv, PlanInv
<1>3. UNCHANGED <<source, dest, ledger, had, hasServed, moved, snap>>
  BY DEF B!Go, B!disk, B!CheckOwnership, B!FindSource, B!FindDestination, B!EndPreflight,
         B!EndRollback, B!Mount, B!Refuse, B!VerifyLedger
<1>4. \A c \in Boots : c # b => next'[c] = next[c] /\ plan'[c] = plan[c] /\ stuck'[c] = stuck[c]
  BY DEF B!TypeOK, B!CheckOwnership, B!FindSource, B!FindDestination, B!EndPreflight,
         B!EndRollback, B!Mount, B!Refuse, B!VerifyLedger
<1> DEFINE To(s) == stage' = [stage EXCEPT ![b] = s] /\ Plan(b)'
           Steps == B!Stages \ {"off", "serving", "restoring"}
<1>5. \E s \in Steps : To(s)
  <2>0. /\ {"preflight", "sourced", "renaming", "refusing", "refusingback", "mounted", "verified",
            "refused", "rolledback"} \subseteq Steps
        /\ \A s : stage' = [stage EXCEPT ![b] = s] => stage'[b] = s
    BY DEF B!Stages, B!Over, B!TypeOK
  <2> HIDE DEF Steps
  <2>1. CASE B!CheckOwnership(b)
    <3>1. PICK s \in {"preflight", "refusing"} : stage' = [stage EXCEPT ![b] = s]
      BY <1>2, <2>1 DEF B!CheckOwnership, B!Go
    <3>2. stage[b] = "imported" /\ found'[b] = source /\ next' = next /\ plan' = plan /\ stuck' = stuck
      BY <2>1 DEF B!CheckOwnership, B!TypeOK
    <3>3. \A m \in source : ~ (m < 1)
      BY MovesAssumption DEF B!TypeOK, B!Moves
    <3>4. Plan(b)'
      BY <1>2, <1>3, <2>0, <3>1, <3>2, <3>3 DEF Plan
    <3> QED
      BY <2>0, <3>1, <3>4
  <2>2. CASE B!FindSource(b)
    <3>1. CASE next[b] \in source
      <4>1. stage[b] = "preflight" /\ stage' = [stage EXCEPT ![b] = "sourced"] /\ UNCHANGED <<next, plan, stuck, found>>
        BY <2>2, <3>1 DEF B!FindSource, B!Go
      <4>2. Plan(b)'
        BY <1>2, <1>3, <2>0, <3>1, <4>1 DEF Plan
      <4> QED
        BY <2>0, <4>1, <4>2
    <3>2. CASE next[b] \notin source
      <4>1. /\ stage[b] = "preflight" /\ stage' = [stage EXCEPT ![b] = "preflight"]
            /\ next'[b] = next[b] + 1 /\ UNCHANGED <<plan, stuck, found>>
        BY <2>2, <3>2 DEF B!FindSource, B!Go, B!TypeOK
      <4>2. \A m \in source : m < next[b] + 1 <=> m < next[b]
        BY <3>2, MovesAssumption DEF B!TypeOK, B!Moves
      <4>3. Plan(b)'
        BY <1>2, <1>3, <2>0, <4>1, <4>2 DEF Plan
      <4> QED
        BY <2>0, <4>1, <4>3
    <3> QED
      BY <3>1, <3>2
  <2>3. CASE B!FindDestination(b)
    <3>1. stage[b] = "sourced" /\ next[b] \in source /\ dest[next[b]] = "none"
      BY <1>2, <2>3 DEF B!FindDestination, Plan, AloneInv, DataInv
    <3>2. /\ stage' = [stage EXCEPT ![b] = "preflight"] /\ next'[b] = next[b] + 1
          /\ plan'[b] = plan[b] \cup {next[b]} /\ UNCHANGED <<stuck, found>>
      BY <2>3, <3>1 DEF B!FindDestination, B!Go, B!TypeOK
    <3>3. \A m \in source : m < next[b] + 1 <=> m < next[b] \/ m = next[b]
      BY MovesAssumption DEF B!TypeOK, B!Moves
    <3>4. plan[b] = {m \in source : m < next[b]} /\ moved[b] = {} /\ ~ stuck[b] /\ found[b] = source
      BY <1>2, <3>1 DEF Plan
    <3>5. plan'[b] = {m \in source : m < next'[b]}
      BY <3>1, <3>2, <3>3, <3>4
    <3>6. Plan(b)'
      BY <1>3, <2>0, <3>2, <3>4, <3>5 DEF Plan
    <3> QED
      BY <2>0, <3>2, <3>6
  <2>4. CASE B!EndPreflight(b)
    <3>1. stage[b] = "preflight" /\ stage' = [stage EXCEPT ![b] = "renaming"] /\ UNCHANGED <<next, plan, stuck, found>>
      BY <2>4 DEF B!EndPreflight, B!Go
    <3>2. next[b] = N + 1
      BY <2>4, MovesAssumption DEF B!EndPreflight, B!TypeOK, B!Moves
    <3>3. {m \in source : m < next[b]} = source
      <4>1. \A m \in source : m \in Nat /\ m <= N
        BY MovesAssumption DEF B!TypeOK, B!Moves
      <4> QED
        BY <3>2, <4>1, MovesAssumption
    <3>4. plan[b] = {m \in source : m < next[b]} /\ moved[b] = {} /\ ~ stuck[b] /\ found[b] = source
      BY <1>2, <3>1 DEF Plan
    <3>5. plan[b] = source
      BY <3>3, <3>4
    <3>6. Plan(b)'
      BY <1>3, <2>0, <3>1, <3>4, <3>5 DEF Plan
    <3> QED
      BY <2>0, <3>1, <3>6
  <2>5. CASE B!EndRollback(b)
    <3>1. PICK s \in {"refusing", "refusingback"} : stage' = [stage EXCEPT ![b] = s] /\ (s = "refusingback" => ~ stuck[b])
      BY <2>5 DEF B!EndRollback, B!Go
    <3>2. stage[b] = "rollback" /\ moved[b] = {} /\ UNCHANGED <<next, plan, stuck, found>>
      BY <2>5 DEF B!EndRollback
    <3>3. Plan(b)'
      BY <1>2, <1>3, <2>0, <3>1, <3>2 DEF Plan
    <3> QED
      BY <2>0, <3>1, <3>3
  <2>6. CASE B!Mount(b)
    <3>1. PICK s \in {"mounted", "refusing"} : stage' = [stage EXCEPT ![b] = s]
      BY <2>6 DEF B!Mount, B!Go
    <3>2. stage[b] = "renaming" /\ plan[b] = {} /\ UNCHANGED <<next, plan, stuck, found>>
      BY <2>6 DEF B!Mount
    <3>3. Plan(b)'
      BY <1>2, <1>3, <2>0, <3>1, <3>2 DEF Plan
    <3> QED
      BY <2>0, <3>1, <3>3
  <2>7. CASE B!Refuse(b)
    <3>1. PICK s \in {"refused", "rolledback"} : stage' = [stage EXCEPT ![b] = s]
      BY <1>2, <2>7 DEF B!Refuse, B!Go
    <3>2. Plan(b)'
      BY <2>0, <3>1 DEF Plan
    <3> QED
      BY <2>0, <3>1, <3>2
  <2>8. CASE B!VerifyLedger(b)
    <3>1. stage[b] = "mounted" /\ stage' = [stage EXCEPT ![b] = "verified"]
      BY <1>2, <2>8 DEF B!VerifyLedger, B!Go
    <3>2. Plan(b)'
      BY <1>2, <1>3, <2>0, <3>1 DEF Plan
    <3> QED
      BY <2>0, <3>1, <3>2
  <2> QED
    BY <2>1, <2>2, <2>3, <2>4, <2>5, <2>6, <2>7, <2>8
<1>6. PICK s \in Steps : To(s)
  BY <1>5
<1> QED
  BY <1>1, <1>3, <1>4, <1>6, QuietWork

(* A rename moves the data of one move from the old name to the new.       *)
LEMMA AloneRenames ==
  ASSUME B!TypeOK, AloneInv, NEW b \in Boots, B!Rename(b)
  PROVE  AloneInv'
<1> DEFINE m == B!Lowest(plan[b])
<1>1. /\ stage[b] = "renaming" /\ stage' = [stage EXCEPT ![b] = "renaming"] /\ plan[b] # {}
      /\ m \in source /\ source' = source \ {m} /\ dest' = [dest EXCEPT ![m] = "data"]
      /\ plan'[b] = plan[b] \ {m} /\ moved'[b] = moved[b] \cup {m}
      /\ UNCHANGED <<ledger, snap, stuck, found, had, hasServed>>
      /\ \A c \in Boots : c # b => next'[c] = next[c] /\ plan'[c] = plan[c] /\ moved'[c] = moved[c] /\ stuck'[c] = stuck[c]
  BY DEF B!Rename, B!Go, B!CanRename, B!Renamed, B!TypeOK
<1>2. m \in B!Moves /\ b \in Booting /\ stage'[b] = "renaming" /\ "renaming" \in B!Stages
  BY <1>1 DEF B!TypeOK, Booting, B!Booting, B!Over, B!Stages
<1> HIDE DEF m
<1>3. Plan(b)
  BY DEF AloneInv, PlanInv
<1>4. dest'[m] = "data" /\ \A k \in B!Moves : k # m => dest'[k] = dest[k]
  BY <1>1, <1>2 DEF B!TypeOK
<1>5. moved[b] \subseteq B!Moves /\ source \subseteq B!Moves
  BY DEF B!TypeOK
<1>6. Plan(b)'
  BY <1>1, <1>2, <1>3, <1>4, <1>5 DEF Plan
<1>7. DataInv'
  BY <1>1, <1>2, <1>4, <1>5 DEF AloneInv, DataInv, Moves
<1>8. ServedInv'
  <2>1. ~ hasServed
    BY <1>1 DEF AloneInv, ServedInv
  <2>2. \A c \in Boots : stage'[c] = "serving" => stage[c] = "serving"
    BY <1>1 DEF B!TypeOK
  <2> QED
    BY <1>1, <2>1, <2>2 DEF AloneInv, ServedInv
<1> QED
  BY <1>1, <1>2, <1>6, <1>7, <1>8, OneWorks

(* One that fails may have gone through: its move is the only one of which *)
(* the rollback does not know.                                             *)
LEMMA AloneFails ==
  ASSUME B!TypeOK, AloneInv, NEW b \in Boots, B!FailRename(b)
  PROVE  AloneInv'
<1> DEFINE m == B!Lowest(plan[b])
<1>1. /\ stage[b] = "renaming" /\ stage' = [stage EXCEPT ![b] = "rollback"] /\ plan[b] # {}
      /\ UNCHANGED <<ledger, snap, next, plan, moved, stuck, found, had, hasServed>>
      /\ \/ UNCHANGED <<source, dest>>
         \/ m \in source /\ source' = source \ {m} /\ dest' = [dest EXCEPT ![m] = "data"]
  BY DEF B!FailRename, B!Go, B!CanRename, B!Renamed, B!disk
<1>2. b \in Booting /\ stage'[b] = "rollback" /\ "rollback" \in B!Stages \ {"off"}
  BY <1>1 DEF B!TypeOK, Booting, B!Booting, B!Over, B!Stages
<1>3. B!Lowest(plan[b])' = m
  BY <1>1
<1> HIDE DEF m
<1>4. plan[b] = source /\ found[b] = source \cup moved[b] /\ \A k \in moved[b] : k \notin source /\ dest[k] = "data"
  BY <1>1 DEF AloneInv, PlanInv, Plan
<1>5. \A k \in B!Moves : dest'[k] = dest[k] \/ (k = m /\ m \in source /\ source' = source \ {m} /\ dest'[k] = "data")
  BY <1>1 DEF B!TypeOK
<1>6. moved[b] \subseteq B!Moves /\ source \subseteq B!Moves
  BY DEF B!TypeOK
<1>7. source' \subseteq source /\ source \ {m} \subseteq source'
  BY <1>1
<1>8. Plan(b)'
  <2>1. \A k \in moved[b] : k \notin source' /\ dest'[k] = "data"
    BY <1>4, <1>5, <1>6, <1>7
  <2>2. source' \subseteq found[b] /\ moved[b] \subseteq found[b] /\ found[b] \ {m} \subseteq source' \cup moved[b]
    BY <1>4, <1>7
  <2> QED
    BY <1>1, <1>2, <1>3, <2>1, <2>2 DEF Plan
<1>9. DataInv'
  <2>1. CASE UNCHANGED <<source, dest>>
    BY <1>1, <2>1 DEF AloneInv, DataInv
  <2>2. CASE m \in source /\ source' = source \ {m} /\ dest' = [dest EXCEPT ![m] = "data"]
    <3>1. dest'[m] = "data" /\ \A k \in B!Moves : k # m => dest'[k] = dest[k]
      BY <1>6, <2>2 DEF B!TypeOK
    <3> QED
      BY <1>1, <1>6, <2>2, <3>1 DEF AloneInv, DataInv, Moves
  <2> QED
    BY <1>1, <2>1, <2>2
<1>10. ServedInv'
  <2>1. ~ hasServed
    BY <1>1, <1>4 DEF AloneInv, ServedInv
  <2>2. \A c \in Boots : stage'[c] = "serving" => stage[c] = "serving"
    BY <1>1 DEF B!TypeOK
  <2> QED
    BY <1>1, <2>1, <2>2 DEF AloneInv, ServedInv
<1> QED
  BY <1>1, <1>2, <1>8, <1>9, <1>10, OneWorks

(* The rollback moves one back, or says that it could not.                 *)
LEMMA AloneMovesBack ==
  ASSUME B!TypeOK, AloneInv, NEW b \in Boots, B!RenameBack(b)
  PROVE  AloneInv'
<1> DEFINE m == B!Highest(moved[b])
<1>1. /\ stage[b] = "rollback" /\ stage' = [stage EXCEPT ![b] = "rollback"] /\ moved[b] # {}
      /\ moved'[b] = moved[b] \ {m} /\ \A c \in Boots : c # b => moved'[c] = moved[c] /\ stuck'[c] = stuck[c]
      /\ UNCHANGED <<ledger, snap, next, plan, found, had, hasServed>>
      /\ \/ source' = source \cup {m} /\ dest' = [dest EXCEPT ![m] = "none"] /\ stuck' = stuck
         \/ UNCHANGED <<source, dest>> /\ stuck'[b]
  BY DEF B!RenameBack, B!Go, B!disk, B!TypeOK
<1>2. b \in Booting /\ stage'[b] = "rollback" /\ "rollback" \in B!Stages \ {"off"}
  BY <1>1 DEF B!TypeOK, Booting, B!Booting, B!Over, B!Stages
<1>3. moved[b] \subseteq B!Moves /\ source \subseteq B!Moves
  BY DEF B!TypeOK
<1>4. m \in moved[b] /\ m \in B!Moves
  BY <1>1, <1>3, Extremes DEF Moves
<1> HIDE DEF m
<1>5. /\ \A k \in moved[b] : k \notin source /\ dest[k] = "data"
      /\ source \subseteq found[b] /\ moved[b] \subseteq found[b]
      /\ ~ stuck[b] => found[b] \ {B!Lowest(plan[b])} \subseteq source \cup moved[b]
  BY <1>1 DEF AloneInv, PlanInv, Plan
<1>6. ASSUME source' = source \cup {m}, dest' = [dest EXCEPT ![m] = "none"], stuck' = stuck
      PROVE  Plan(b)' /\ DataInv'
  <2>1. dest'[m] = "none" /\ \A k \in B!Moves : k # m => dest'[k] = dest[k]
    BY <1>4, <1>6 DEF B!TypeOK
  <2>2. /\ \A k \in moved'[b] : k \notin source' /\ dest'[k] = "data"
        /\ source' \subseteq found[b] /\ moved'[b] \subseteq found[b]
        /\ source' \cup moved'[b] = source \cup moved[b]
    BY <1>1, <1>3, <1>4, <1>5, <1>6, <2>1
  <2>3. Plan(b)'
    BY <1>1, <1>2, <1>5, <1>6, <2>2 DEF Plan
  <2>4. DataInv'
    BY <1>1, <1>3, <1>4, <1>5, <1>6, <2>1 DEF AloneInv, DataInv, Moves
  <2> QED
    BY <2>3, <2>4
<1>7. ASSUME UNCHANGED <<source, dest>>, stuck'[b]
      PROVE  Plan(b)' /\ DataInv'
  <2>1. Plan(b)'
    BY <1>1, <1>2, <1>5, <1>7 DEF Plan
  <2>2. DataInv'
    BY <1>1, <1>7 DEF AloneInv, DataInv
  <2> QED
    BY <2>1, <2>2
<1>8. ServedInv'
  <2>1. ~ hasServed
    BY <1>1, <1>2 DEF AloneInv, ServedInv
  <2>2. \A c \in Boots : stage'[c] = "serving" => stage[c] = "serving"
    BY <1>1 DEF B!TypeOK
  <2> QED
    BY <1>1, <2>1, <2>2 DEF AloneInv, ServedInv
<1> QED
  BY <1>1, <1>2, <1>6, <1>7, <1>8, OneWorks

(* A boot that writes its ledger leaves nothing under an old name.         *)
LEMMA AloneServes ==
  ASSUME B!TypeOK, AloneInv, NEW b \in Boots, B!WriteLedger(b)
  PROVE  AloneInv'
<1>1. /\ stage[b] = "verified" /\ stage' = [stage EXCEPT ![b] = "serving"] /\ hasServed'
      /\ ledger' = B!Recorded(snap[b]) \cup B!Moves
      /\ UNCHANGED <<source, dest, snap, next, plan, moved, stuck, found, had>>
  BY DEF B!WriteLedger, B!Go
<1>2. b \in Booting /\ stage'[b] = "serving" /\ "serving" \in B!Stages \ {"off"} /\ "serving" \in B!Over
  BY <1>1 DEF B!TypeOK, Booting, B!Booting, B!Over, B!Stages
<1>3. source = {}
  BY <1>1 DEF AloneInv, PlanInv, Plan
<1>4. Booting' = {}
  BY <1>1, <1>2 DEF AloneInv, LoneInv, Booting, B!Booting, B!TypeOK
<1>5. ledger' # Absent /\ B!Moves \subseteq ledger'
  <2>1. ledger' \in SUBSET (1..N)
    BY <1>1 DEF B!Recorded, B!TypeOK, B!Moves
  <2> QED
    BY <1>1, <2>1, MovesAssumption
<1>6. Plan(b)'
  BY <1>2 DEF Plan
<1>7. DataInv'
  BY <1>1 DEF AloneInv, DataInv
<1>8. ServedInv'
  BY <1>1, <1>3, <1>4, <1>5 DEF ServedInv, Moves
<1> QED
  BY <1>1, <1>2, <1>6, <1>7, <1>8, OneWorks

(* A serving system touches no cube whose data is still under the old      *)
(* name, for there is none.                                                *)
LEMMA AloneTouches ==
  ASSUME B!TypeOK, AloneInv, NEW b \in Boots, NEW m \in B!Moves, B!Touch(b, m)
  PROVE  AloneInv'
<1>1. /\ stage[b] = "serving" /\ dest[m] = "none" /\ dest' = [dest EXCEPT ![m] = "empty"]
      /\ UNCHANGED <<source, ledger, stage, snap, next, plan, moved, stuck, had, found, hasServed>>
  BY DEF B!Touch
<1>2. source = {}
  BY <1>1 DEF AloneInv, ServedInv
<1>3. dest'[m] = "empty" /\ \A k \in B!Moves : k # m => dest'[k] = dest[k]
  BY <1>1 DEF B!TypeOK
<1>4. Booting' = Booting
  BY <1>1 DEF Booting, B!Booting
<1>5. LoneInv' /\ FreshInv' /\ ServedInv'
  BY <1>1, <1>4 DEF AloneInv, LoneInv, FreshInv, ServedInv
<1>6. DataInv'
  BY <1>1, <1>2, <1>3 DEF AloneInv, DataInv, Moves
<1>7. PlanInv'
  <2> SUFFICES ASSUME NEW c \in Boots PROVE Plan(c)'
    BY DEF PlanInv
  <2>1. Plan(c) /\ moved[c] \subseteq B!Moves
    BY DEF AloneInv, PlanInv, B!TypeOK
  <2>2. (\A k \in moved[c] : k \notin source /\ dest[k] = "data") => \A k \in moved[c] : k \notin source /\ dest'[k] = "data"
    BY <1>1, <1>3, <2>1
  <2> QED
    BY <1>1, <2>1, <2>2 DEF Plan
<1> QED
  BY <1>5, <1>6, <1>7 DEF AloneInv

LEMMA AloneDies ==
  ASSUME B!TypeOK, AloneInv, NEW b \in Boots, B!Die(b)
  PROVE  AloneInv'
<1>1. /\ stage' = [stage EXCEPT ![b] = "dead"]
      /\ UNCHANGED <<source, dest, ledger, snap, next, plan, moved, stuck, had, found, hasServed>>
  BY DEF B!Die, B!Go, B!disk
<1>2. stage'[b] = "dead" /\ (\A c \in Boots : c # b => stage'[c] = stage[c])
      /\ "dead" \in B!Stages \ {"off", "serving", "restoring"}
  BY <1>1 DEF B!TypeOK, B!Stages, B!Over
<1>3. Plan(b)'
  BY <1>2 DEF Plan
<1>4. CASE b \in Booting
  BY <1>1, <1>2, <1>3, <1>4, QuietWork
<1>5. CASE b \notin Booting
  <2>1. stage[b] = "serving"
    BY <1>5 DEF B!Die, Booting
  <2>2. Booting' = Booting
    BY <1>2, <2>1 DEF Booting, B!Booting, B!Over
  <2>3. LoneInv' /\ FreshInv' /\ ServedInv' /\ DataInv'
    BY <1>1, <1>2, <1>5, <2>2 DEF AloneInv, LoneInv, FreshInv, ServedInv, DataInv
  <2>4. ASSUME NEW c \in Boots, c # b PROVE Plan(c)'
    BY <1>1, <1>2, <2>4 DEF Plan, AloneInv, PlanInv
  <2> QED
    BY <1>3, <2>3, <2>4 DEF AloneInv, PlanInv
<1> QED
  BY <1>4, <1>5

LEMMA MoveStep ==
  ASSUME MoveInv, B!Next
  PROVE  MoveInv'
<1>1. B!TypeOK' /\ SourcedInv'
  BY MovesType DEF MoveInv
<1>2. ASSUME ~ beside' PROVE AloneInv'
  <2>1. ~ beside
    BY <1>2 DEF B!Next, B!Start, B!CheckOwnership, B!FindSource, B!FindDestination, B!EndPreflight, B!Rename,
                B!FailRename, B!RenameBack, B!EndRollback, B!Mount, B!Refuse, B!Restore, B!VerifyLedger,
                B!WriteLedger, B!Touch, B!Die, B!RemoveEnv
  <2>2. B!TypeOK /\ SourcedInv /\ AloneInv
    BY <2>1 DEF MoveInv
  <2>3. ASSUME NEW b \in Boots, B!Start(b) PROVE AloneInv'
    BY <1>2, <2>2, <2>3, AloneStarts
  <2>4. ASSUME NEW b \in Boots,
               \/ B!CheckOwnership(b) \/ B!FindSource(b) \/ B!FindDestination(b) \/ B!EndPreflight(b)
               \/ B!EndRollback(b) \/ B!Mount(b) \/ B!Refuse(b) \/ B!VerifyLedger(b)
        PROVE  AloneInv'
    BY <2>2, <2>4, AloneLooks
  <2>5. ASSUME NEW b \in Boots, B!Rename(b) PROVE AloneInv'
    BY <2>2, <2>5, AloneRenames
  <2>6. ASSUME NEW b \in Boots, B!FailRename(b) PROVE AloneInv'
    BY <2>2, <2>6, AloneFails
  <2>7. ASSUME NEW b \in Boots, B!RenameBack(b) PROVE AloneInv'
    BY <2>2, <2>7, AloneMovesBack
  <2>8. ASSUME NEW b \in Boots, B!WriteLedger(b) PROVE AloneInv'
    BY <2>2, <2>8, AloneServes
  <2>9. ASSUME NEW b \in Boots, NEW m \in B!Moves, B!Touch(b, m) PROVE AloneInv'
    BY <2>2, <2>9, AloneTouches
  <2>10. ASSUME NEW b \in Boots, B!Die(b) PROVE AloneInv'
    BY <2>2, <2>10, AloneDies
  <2>11. ASSUME NEW b \in Boots, B!Restore(b) PROVE FALSE
    <3>1. stage[b] = "restoring" /\ b \in Booting
      BY <2>11 DEF B!Restore, Booting, B!Booting, B!Over
    <3> QED
      BY <2>2, <3>1 DEF AloneInv, LoneInv
  <2>12. CASE B!RemoveEnv
    <3>1. UNCHANGED <<source, dest, ledger, stage, snap, next, plan, moved, stuck, had, found, hasServed>>
      BY <2>12 DEF B!RemoveEnv, B!disk
    <3> QED
      BY <2>2, <3>1 DEF AloneInv, LoneInv, FreshInv, DataInv, PlanInv, Plan, ServedInv, Booting, B!Booting, B!Over,
                        Moves, B!Moves
  <2> QED
    BY <2>3, <2>4, <2>5, <2>6, <2>7, <2>8, <2>9, <2>10, <2>11, <2>12 DEF B!Next
<1> QED
  BY <1>1, <1>2 DEF MoveInv

MovePart == part = "move" => MoveInv

LEMMA MovePartHolds == SpecBoot => []MovePart
<1>1. InitBoot => MovePart
  <2> SUFFICES ASSUME B!Init PROVE MoveInv
    BY DEF InitBoot, MovePart
  <2>1. /\ \A b \in Boots : /\ stage[b] = "off" /\ next[b] = 1 /\ plan[b] = {} /\ moved[b] = {} /\ ~ stuck[b]
        /\ ~ hasServed /\ (\A m \in source : dest[m] = "none")
        /\ had = source \cup {m \in Moves : dest[m] = "data"}
    BY DEF B!Init, Moves
  <2>2. B!TypeOK
    <3>1. /\ source \in SUBSET B!Moves /\ dest \in [B!Moves -> {"none", "empty", "data"}]
          /\ ledger \in {Absent} \cup SUBSET B!Moves /\ env \in SUBSET B!Moves /\ had \in SUBSET B!Moves
      BY DEF B!Init
    <3>2. /\ stage \in [Boots -> B!Stages] /\ plan \in [Boots -> SUBSET B!Moves]
          /\ moved \in [Boots -> SUBSET B!Moves] /\ found \in [Boots -> SUBSET B!Moves]
      BY DEF B!Init, B!Stages, B!Over
    <3>3. next \in [Boots -> 1..(N + 1)]
      <4>1. 1 \in 1..(N + 1)
        BY MovesAssumption
      <4> QED
        BY <4>1 DEF B!Init
    <3>4. /\ snap \in [Boots -> {Absent} \cup SUBSET B!Moves] /\ stuck \in [Boots -> BOOLEAN]
          /\ hasServed \in BOOLEAN /\ beside \in BOOLEAN
      BY DEF B!Init
    <3> QED
      BY <3>1, <3>2, <3>3, <3>4 DEF B!TypeOK
  <2> QED
    BY <2>1, <2>2 DEF MoveInv, SourcedInv, AloneInv, LoneInv, FreshInv, DataInv, PlanInv, Plan, ServedInv, Booting, B!Booting
<1>2. MovePart /\ [NextBoot]_all => MovePart'
  <2> SUFFICES ASSUME MovePart, [NextBoot]_all, part' = "move" PROVE MoveInv'
    BY DEF MovePart
  <2>1. CASE B!Next /\ part = "move"
    BY <2>1, MoveStep DEF MovePart
  <2>2. CASE UNCHANGED <<all>>
    <3>1. UNCHANGED <<source, dest, ledger, env, stage, snap, next, plan, moved, stuck, had, found, hasServed, beside>>
          /\ part = "move"
      BY <2>2 DEF all, moveOnly
    <3> QED
      BY <3>1 DEF MovePart, MoveInv, SourcedInv, B!TypeOK, AloneInv, LoneInv, FreshInv, DataInv, PlanInv, Plan,
                  ServedInv, Booting, B!Booting
  <2> QED
    BY <2>1, <2>2 DEF NextBoot
<1> QED
  BY <1>1, <1>2, PTL DEF SpecBoot

(* However many moves a package declares and wherever earlier boots failed *)
(* or died: while boots run one at a time no source is left beside its     *)
(* destination, a boot that serves finds every cube's data under its new   *)
(* name and its sources recorded, and a batch reported as rolled back is   *)
(* back.                                                                   *)
THEOREM MovesLoseNothing == SpecBoot => []MovesKeepData
<1>1. MovePart => MovesKeepData
  <2> SUFFICES ASSUME MoveInv
               PROVE  /\ B!TypeOK /\ B!ServesItsData /\ B!NoConflict
                      /\ B!SourcesStayAttributable /\ B!RolledBackIsBack
    BY DEF MovePart, MovesKeepData
  <2>1. B!ServesItsData
    BY DEF MoveInv, AloneInv, DataInv, ServedInv, B!ServesItsData
  <2>2. B!NoConflict
    BY DEF MoveInv, AloneInv, DataInv, B!NoConflict
  <2>3. B!SourcesStayAttributable
    BY DEF MoveInv, AloneInv, ServedInv, Moves, B!SourcesStayAttributable
  <2>4. B!RolledBackIsBack
    BY DEF MoveInv, AloneInv, PlanInv, Plan, B!RolledBackIsBack
  <2> QED
    BY <2>1, <2>2, <2>3, <2>4 DEF MoveInv
<1> QED
  BY MovePartHolds, <1>1, PTL

-----------------------------------------------------------------------------
(* The scope of a check.                                                   *)

(* What the runtime stage acquires, in its order; what the scope holds is  *)
(* the beginning of it.                                                    *)
Order == <<"sandbox", "client", "database", "kernel", "scratch">>
Goods == {"sandbox", "client", "database", "kernel", "scratch"}
Level == Len(held)
HeldInv ==
  /\ held \in Seq(Goods) /\ Level \in 0 .. 5 /\ (Level = 0 => held = <<>>)
  /\ \A i \in 1 .. Level : held[i] = Order[i]

(* How much it holds at each step.                                         *)
LevelInv ==
  /\ step \in {"source", "caps", "probes", "sandbox", "invocation", "end"} => Level = 0
  /\ step = "client" => Level = 1
  /\ step = "database" => Level = 2
  /\ step = "kernel" => Level = 3
  /\ step \in {"wait", "scratch", "own"} => Level = 4
  /\ step \in {"dump", "login", "cubes"} => Level = 5

(* The kernel runs on ground the scope still holds, and what stays behind  *)
(* is a database whose DROP failed.                                        *)
GroundInv ==
  /\ server \in {"starting", "up"} => Level >= 4
  /\ left \subseteq {"database"} /\ (left # {} => faults > 0)

CountInv == faults \in 0 .. MaxFaults

CleanInv == HeldInv /\ LevelInv /\ GroundInv /\ CountInv

LEMMA Goods5 ==
  /\ Order[1] = "sandbox" /\ Order[2] = "client" /\ Order[3] = "database" /\ Order[4] = "kernel"
  /\ Order[5] = "scratch"
BY DEF Order

(* One more is acquired, in order.                                         *)
LEMMA Acquired ==
  ASSUME HeldInv, Level < 5, NEW what \in Goods, what = Order[Level + 1], held' = Append(held, what)
  PROVE  HeldInv' /\ Level' = Level + 1
<1>1. held' \in Seq(Goods) /\ Level' = Level + 1 /\ Level \in 0 .. 5
      /\ \A i \in 1 .. Level : held'[i] = held[i]
  BY DEF HeldInv, Level
<1>2. held'[Level + 1] = what
  BY DEF HeldInv, Level
<1>3. \A i \in 1 .. Level : held[i] = Order[i]
  BY DEF HeldInv
<1>4. \A i \in 1 .. Level' : i = Level + 1 \/ i \in 1 .. Level
  BY <1>1
<1>5. \A i \in 1 .. Level' : held'[i] = Order[i]
  BY <1>1, <1>2, <1>3, <1>4
<1>6. Level' \in 0 .. 5 /\ Level' # 0
  BY <1>1
<1> QED
  BY <1>1, <1>5, <1>6 DEF HeldInv

(* The last is given back.                                                 *)
LEMMA GivenBack ==
  ASSUME HeldInv, Level # 0, held' = P!Without(held[Len(held)])
  PROVE  HeldInv' /\ Level' = Level - 1
<1>1. Level \in 1 .. 5 /\ (\A i \in 1 .. Level : held[i] = Order[i]) /\ held \in Seq(Goods)
  BY DEF HeldInv
<1>2. \A i, j \in 1 .. Level : held[i] = held[j] => i = j
  BY <1>1, Goods5
<1>3. \A i \in 1 .. Level - 1 : held[Level] \notin {held[j] : j \in 1 .. i}
  BY <1>1, <1>2
<1>4. held' = [i \in 1 .. Level - 1 |-> held[i]]
  BY <1>3 DEF P!Without, Level
<1>5. held' \in Seq(Goods) /\ Level' = Level - 1
  BY <1>1, <1>4 DEF Level
<1>6. \A i \in 1 .. Level - 1 : held'[i] = held[i]
  BY <1>4
<1>7. \A seq \in Seq(Goods) : seq # <<>> => Len(seq) \in Nat \ {0}
  BY EmptySeq
<1>8. Level' = 0 => held' = <<>>
  BY <1>5, <1>7 DEF Level
<1> QED
  BY <1>1, <1>5, <1>6, <1>8 DEF HeldInv

LEMMA CleanInit ==
  ASSUME P!Init
  PROVE  CleanInv
<1>1. step = "source" /\ server = "off" /\ held = <<>> /\ left = {} /\ faults = 0
  BY DEF P!Init
<1>2. held \in Seq(Goods) /\ Level = 0
  BY <1>1, EmptySeq DEF Level
<1> QED
  BY <1>1, <1>2, ChecksAssumption DEF CleanInv, HeldInv, LevelInv, GroundInv, CountInv

(* A step that leaves the scope alone moves on to where as much is held.   *)
LEMMA ScopeRests ==
  ASSUME CleanInv, UNCHANGED <<held, left>>,
         server' = server \/ server' = "gone" \/ server \in {"starting", "up"},
         faults' = faults \/ P!Fault,
         \/ step' = step \/ step' = "unwind"
         \/ <<step, step'>> \in {<<"source", "caps">>, <<"caps", "probes">>, <<"probes", "sandbox">>,
                                 <<"wait", "scratch">>, <<"wait", "own">>, <<"dump", "login">>,
                                 <<"login", "cubes">>, <<"own", "close">>, <<"invocation", "end">>}
  PROVE  CleanInv'
<1>1. HeldInv'
  BY DEF CleanInv, HeldInv, Level
<1>0. Level' = Level
  BY DEF Level
<1>2. LevelInv'
  BY <1>0 DEF CleanInv, LevelInv
<1>3. CountInv' /\ faults' >= faults
  BY ChecksAssumption DEF CleanInv, CountInv, P!Fault
<1>4. GroundInv'
  BY <1>3, <1>0 DEF CleanInv, GroundInv, CountInv
<1> QED
  BY <1>1, <1>2, <1>3, <1>4 DEF CleanInv

LEMMA ScopeGrows ==
  ASSUME CleanInv, NEW what \in Goods, NEW to \in {"client", "database", "kernel", "wait", "dump"},
         Level < 5, what = Order[Level + 1], P!Acquire(what, to),
         to = "client" => Level = 0, to = "database" => Level = 1, to = "kernel" => Level = 2,
         to = "wait" => Level = 3, to = "dump" => Level = 4
  PROVE  CleanInv'
<1>1. Level \in Nat /\ left' = left
  BY DEF CleanInv, HeldInv, P!Acquire
<1>2. CASE held' = held
  <2>1. step' = "unwind" /\ server' = server /\ P!Fault
    <3>1. held # Append(held, what)
      BY DEF CleanInv, HeldInv
    <3> QED
      BY <1>2, <3>1 DEF P!Acquire, P!Die
  <2> QED
    BY <1>1, <1>2, <2>1, ScopeRests
<1>3. CASE held' = Append(held, what)
  <2>1. HeldInv' /\ Level' = Level + 1
    BY <1>3, Acquired DEF CleanInv
  <2>2. CountInv' /\ faults' >= faults
    BY ChecksAssumption DEF CleanInv, CountInv, P!Acquire, P!Fault
  <2>3. step' = to \/ step' = "unwind"
    BY DEF P!Acquire, P!Die
  <2>4. LevelInv'
    BY <1>1, <2>1, <2>3 DEF LevelInv
  <2>5. server' = "starting" => what = "kernel" \/ server = "starting"
    BY DEF P!Acquire
  <2>6. what = "kernel" => Level = 3
    <3>1. Level = 0 \/ Level = 1 \/ Level = 2 \/ Level = 3 \/ Level = 4
      BY DEF CleanInv, HeldInv
    <3>2. 0 + 1 = 1 /\ 1 + 1 = 2 /\ 2 + 1 = 3 /\ 4 + 1 = 5
      OBVIOUS
    <3> QED
      BY <3>1, <3>2, Goods5
  <2>7. server' = "up" => server = "up"
    BY DEF P!Acquire
  <2>8. GroundInv'
    BY <1>1, <2>1, <2>2, <2>5, <2>6, <2>7 DEF CleanInv, GroundInv, CountInv
  <2> QED
    BY <2>1, <2>2, <2>4, <2>8 DEF CleanInv
<1> QED
  BY <1>2, <1>3 DEF P!Acquire

LEMMA CleanStep ==
  ASSUME CleanInv, P!Next
  PROVE  CleanInv'
<1> USE DEF P!Judge, P!Die, P!Fault, P!Scope, P!Probing
<1>1. CASE P!Source \/ P!CapsStage \/ P!OwnProbes
  BY <1>1, ScopeRests DEF P!Source, P!CapsStage, P!OwnProbes
<1>2. CASE P!Sandbox \/ P!Database \/ P!StartKernel \/ P!Scratch
  <2>1. CASE P!Acquire("sandbox", "client")
    <3>1. Level = 0
      BY <2>1 DEF P!Acquire, CleanInv, LevelInv
    <3> QED
      BY <2>1, <3>1, Goods5, ScopeGrows DEF Goods
  <2>2. CASE P!Acquire("client", "database")
    <3>1. Level = 1
      BY <2>2 DEF P!Acquire, CleanInv, LevelInv
    <3> QED
      BY <2>2, <3>1, Goods5, ScopeGrows DEF Goods
  <2>3. CASE P!Acquire("database", "kernel")
    <3>1. Level = 2
      BY <2>3 DEF P!Acquire, CleanInv, LevelInv
    <3> QED
      BY <2>3, <3>1, Goods5, ScopeGrows DEF Goods
  <2>4. CASE P!Acquire("kernel", "wait")
    <3>1. Level = 3
      BY <2>4 DEF P!Acquire, CleanInv, LevelInv
    <3> QED
      BY <2>4, <3>1, Goods5, ScopeGrows DEF Goods
  <2>5. CASE P!Acquire("scratch", "dump")
    <3>1. Level = 4
      BY <2>5 DEF P!Acquire, CleanInv, LevelInv
    <3> QED
      BY <2>5, <3>1, Goods5, ScopeGrows DEF Goods
  <2> QED
    BY <1>2, <2>1, <2>2, <2>3, <2>4, <2>5 DEF P!Sandbox, P!Database, P!StartKernel, P!Scratch
<1>3. CASE P!Kernel
  BY <1>3, ScopeRests DEF P!Kernel
<1>4. CASE P!WaitReady
  BY <1>4, ScopeRests DEF P!WaitReady
<1>5. CASE P!Dump
  BY <1>5, ScopeRests DEF P!Dump
<1>6. CASE P!Login
  BY <1>6, ScopeRests DEF P!Login, P!Ask
<1>7. CASE P!ProbeCube
  BY <1>7, ScopeRests DEF P!ProbeCube, P!Reports, P!Ask
<1>8. CASE P!Probed
  <2>1. Level = 5 /\ held' = P!Without("scratch") /\ UNCHANGED <<server, left, faults>>
        /\ step' \in {"unwind", "own"}
    BY <1>8 DEF P!Probed, CleanInv, LevelInv
  <2>2. held[Len(held)] = "scratch"
    BY <2>1, Goods5 DEF CleanInv, HeldInv, Level
  <2>3. HeldInv' /\ Level' = 4
    BY <2>1, <2>2, GivenBack DEF CleanInv
  <2>4. LevelInv' /\ GroundInv' /\ CountInv'
    BY <2>1, <2>3 DEF CleanInv, LevelInv, GroundInv, CountInv
  <2> QED
    BY <2>3, <2>4 DEF CleanInv
<1>9. CASE P!RunProbe \/ P!RuntimeDone
  BY <1>9, ScopeRests DEF P!RunProbe, P!RuntimeDone
<1>10. CASE P!Release
  <2>1. /\ step \in {"unwind", "close"} /\ step' = step /\ Level # 0
        /\ held' = P!Without(held[Len(held)])
        /\ server' = IF held[Len(held)] = "kernel" THEN "gone" ELSE server
        /\ \/ left' = left /\ faults' = faults
           \/ left' = left \cup {"database"} /\ faults < MaxFaults /\ faults' = faults + 1
    BY <1>10 DEF P!Release, P!Last, CleanInv, HeldInv
  <2>2. HeldInv' /\ Level' = Level - 1
    BY <2>1, GivenBack DEF CleanInv
  <2>3. LevelInv'
    BY <2>1 DEF LevelInv
  <2>4. CountInv'
    BY <2>1, ChecksAssumption DEF CleanInv, CountInv
  <2>5. Level = 4 => held[Len(held)] = "kernel"
    BY Goods5 DEF CleanInv, HeldInv, Level
  <2>6. server' \in {"starting", "up"} => Level' >= 4
    BY <2>1, <2>2, <2>5 DEF CleanInv, GroundInv, HeldInv
  <2>7. left' \subseteq {"database"} /\ (left' # {} => faults' > 0)
    <3>1. left \subseteq {"database"} /\ (left # {} => faults > 0) /\ faults \in Nat
      BY ChecksAssumption DEF CleanInv, GroundInv, CountInv
    <3>2. CASE left' = left /\ faults' = faults
      BY <3>1, <3>2
    <3>3. CASE left' = left \cup {"database"} /\ faults' = faults + 1
      <4>1. faults' > 0
        BY <3>1, <3>3
      <4> QED
        BY <3>1, <3>3, <4>1
    <3> QED
      BY <2>1, <3>2, <3>3
  <2>8. GroundInv'
    BY <2>6, <2>7 DEF GroundInv
  <2> QED
    BY <2>2, <2>3, <2>4, <2>8 DEF CleanInv
<1>11. CASE P!Closed
  <2>1. held = <<>> /\ step' \in {"invocation", "end"} /\ UNCHANGED <<server, held, left, faults>>
    BY <1>11 DEF P!Closed
  <2>2. Level = 0 /\ Level' = Level
    BY <2>1, EmptySeq DEF Level
  <2>3. HeldInv' /\ LevelInv' /\ GroundInv' /\ CountInv'
    BY <2>1, <2>2 DEF CleanInv, HeldInv, LevelInv, GroundInv, CountInv
  <2> QED
    BY <2>3 DEF CleanInv
<1>12. CASE P!Invocation
  BY <1>12, ScopeRests DEF P!Invocation
<1>13. CASE P!Interrupt
  BY <1>13, ScopeRests DEF P!Interrupt
<1> QED
  BY <1>1, <1>2, <1>3, <1>4, <1>5, <1>6, <1>7, <1>8, <1>9, <1>10, <1>11, <1>12, <1>13 DEF P!Next

CheckPart == part = "check" => CleanInv

LEMMA CheckPartHolds == SpecBoot => []CheckPart
<1>1. InitBoot => CheckPart
  BY CleanInit DEF InitBoot, CheckPart
<1>2. CheckPart /\ [NextBoot]_all => CheckPart'
  <2> SUFFICES ASSUME CheckPart, [NextBoot]_all, part' = "check" PROVE CleanInv'
    BY DEF CheckPart
  <2>1. CASE P!Next /\ part = "check"
    BY <2>1, CleanStep DEF CheckPart
  <2>2. CASE UNCHANGED <<all>>
    <3>1. UNCHANGED <<step, server, held, left, faults>> /\ part = "check"
      BY <2>2 DEF all, checkOnly
    <3> QED
      BY <3>1 DEF CheckPart, CleanInv, HeldInv, LevelInv, GroundInv, CountInv, Level
  <2> QED
    BY <2>1, <2>2 DEF NextBoot
<1> QED
  BY <1>1, <1>2, PTL DEF SpecBoot

(* However a check ends, by a verdict, a defect or Ctrl-C at any step, the *)
(* kernel it started is gone before its database and its sandbox are, and  *)
(* nothing is left but a database whose DROP failed: whatever the package, *)
(* and however many calls fail.                                            *)
THEOREM ChecksCleanUp == SpecBoot => []CheckCleansUp
<1>1. CheckPart => CheckCleansUp
  <2> SUFFICES ASSUME CleanInv PROVE P!KernelKeepsItsGround /\ P!NothingIsLeft
    BY DEF CheckPart, CheckCleansUp
  <2>1. P!KernelKeepsItsGround
    <3> SUFFICES ASSUME server \in {"starting", "up"}
                 PROVE  {"sandbox", "database", "kernel"} \subseteq {held[i] : i \in DOMAIN held}
      BY DEF P!KernelKeepsItsGround
    <3>1. Level \in 4 .. 5 /\ DOMAIN held = 1 .. Level /\ \A i \in 1 .. Level : held[i] = Order[i]
      BY DEF CleanInv, HeldInv, GroundInv, Level
    <3>2. 1 \in DOMAIN held /\ 3 \in DOMAIN held /\ 4 \in DOMAIN held
      BY <3>1
    <3>3. held[1] = "sandbox" /\ held[3] = "database" /\ held[4] = "kernel"
      BY <3>1, <3>2, Goods5
    <3> QED
      BY <3>2, <3>3
  <2>2. P!NothingIsLeft
    <3> SUFFICES ASSUME step = "end"
                 PROVE  /\ held = <<>> /\ left \subseteq {"database"} /\ (left # {} => faults > 0)
                        /\ server \notin {"starting", "up"}
      BY DEF P!NothingIsLeft
    <3>1. Level = 0 /\ held = <<>>
      BY DEF CleanInv, HeldInv, LevelInv
    <3> QED
      BY <3>1 DEF CleanInv, GroundInv
  <2> QED
    BY <2>1, <2>2
<1> QED
  BY CheckPartHolds, <1>1, PTL

-----------------------------------------------------------------------------
(* The verdicts.                                                           *)

Declared == P!Declared
AllTokens == {"reader", "catalog"}

(* A stage is entered with nothing found so far: what the stages before it *)
(* are to judge holds of the package.                                      *)
StageInv ==
  /\ pack \in Samples!Pack
  /\ step \notin {"source", "unwind", "end"} => P!SourceFindings = {}
  /\ step \notin {"source", "caps", "unwind", "end"} => P!CapsFindings = {}
  /\ step \notin {"source", "caps", "probes", "unwind", "end"} => pack.probes # <<>>
  /\ server = "up" => pack.boots = "serves"
  /\ step \in {"scratch", "dump", "login", "cubes", "own", "close", "invocation"} => pack.boots = "serves"

(* A cube the generic probes are through with and found nothing in keeps   *)
(* its word, or was taken for one without metadata.                        *)
Kept(c) ==
  /\ c \in unread => P!MountsWell(pack.cubes[c])
  /\ c \notin unread => P!KeepsWord(pack.cubes[c])
CubesInv ==
  /\ todo \subseteq Declared /\ (step = "login" => todo = Declared)
  /\ step = "cubes" /\ findings = {} =>
       tokens = AllTokens /\ \A c \in Declared \ todo : Kept(c)
  /\ step \in {"own", "close", "invocation"} => \A c \in Declared : Kept(c)

(* The exits are those of the package's probes, but of one that found the  *)
(* kernel gone.                                                            *)
Count == Len(runs)
Probes == Len(pack.probes)
RunsInv ==
  /\ runs \in Seq(Nat \cup {None}) /\ Count \in 0 .. Probes
  /\ \A i \in 1 .. Count : runs[i] \in {pack.probes[i], 1}
  /\ step \in {"close", "invocation"} => \A i \in 1 .. Probes : pack.probes[i] = 0

(* A verdict is given once, and a pass is earned.                          *)
VerdictInv ==
  /\ P!TypeOK /\ P!PassIsSound
  /\ step \notin {"unwind", "end"} => code = None
  /\ step = "unwind" => code \notin {None, 0}

(* What no fault disturbs finds nothing in a package without a flaw.       *)
Flawless == P!Sound /\ \A c \in Declared : P!CanBeJudged(pack.cubes[c])
CalmCheck ==
  /\ findings = {} /\ code # 1
  /\ step = "wait" => server \in {"starting", "up"}
  /\ step \in {"scratch", "dump", "login", "cubes", "own"} => server = "up"
  /\ step = "cubes" => tokens = AllTokens
  /\ \A i \in 1 .. Count : runs[i] = 0
EarnedInv == Flawless /\ faults = 0 => CalmCheck

JustInv == StageInv /\ CubesInv /\ RunsInv /\ VerdictInv /\ EarnedInv

(* What is read off the package stays while the package does.              *)
LEMMA PackRests ==
  ASSUME pack' = pack
  PROVE  /\ P!SourceFindings' = P!SourceFindings /\ P!CapsFindings' = P!CapsFindings
         /\ P!InvocationFindings' = P!InvocationFindings /\ Declared' = Declared
         /\ \A c \in Declared : /\ P!KeepsWord(pack.cubes[c])' <=> P!KeepsWord(pack.cubes[c])
                                /\ P!CanBeJudged(pack.cubes[c])' <=> P!CanBeJudged(pack.cubes[c])
                                /\ P!MountsWell(pack.cubes[c])' <=> P!MountsWell(pack.cubes[c])
         /\ P!Sound' <=> P!Sound
         /\ unread' = unread => (P!SoundBut(unread)' <=> P!SoundBut(unread))
         /\ Flawless' <=> Flawless
<1>1. P!SourceFindings' = P!SourceFindings
  BY DEF P!SourceFindings, P!ManifestFindings, P!ImportFindings, P!Declared
<1>2. P!CapsFindings' = P!CapsFindings
  BY DEF P!CapsFindings, P!SizeFindings
<1>3. P!InvocationFindings' = P!InvocationFindings
  BY DEF P!InvocationFindings
<1>4. Declared' = Declared
  BY DEF Declared, P!Declared
<1>5. \A c \in Declared : /\ P!KeepsWord(pack.cubes[c])' <=> P!KeepsWord(pack.cubes[c])
                          /\ P!CanBeJudged(pack.cubes[c])' <=> P!CanBeJudged(pack.cubes[c])
                          /\ P!MountsWell(pack.cubes[c])' <=> P!MountsWell(pack.cubes[c])
  BY DEF P!KeepsWord, P!MountsWell, P!KeepsRoutes, P!KeepsFields, P!CanBeJudged, P!Mounted, P!Declared
<1>6. P!Sound' <=> P!Sound
  BY <1>1, <1>2, <1>3, <1>4, <1>5 DEF P!Sound, P!SoundBut, Declared
<1>7. unread' = unread => (P!SoundBut(unread)' <=> P!SoundBut(unread))
  BY <1>1, <1>2, <1>3, <1>4, <1>5 DEF P!SoundBut, Declared
<1> QED
  BY <1>1, <1>2, <1>3, <1>4, <1>5, <1>6, <1>7 DEF Flawless

(* A cube as the packages have them.                                       *)
Cube(cube) ==
  /\ cube.metadata \in {"none", "good", "bad"}
  /\ \A f, g \in cube.fields : f.name = g.name => f = g

(* Without the value of a required field the body is refused for it alone. *)
LEMMA FieldIsEnforced ==
  ASSUME NEW cube, Cube(cube), NEW f \in cube.fields,
         P!Accepts(cube.fields, P!Payload(cube.fields)),
         ~ P!Accepts(cube.fields, {p \in P!Payload(cube.fields) : p[1] # f.name})
  PROVE  f.enforced
<1> DEFINE body == P!Payload(cube.fields)
           rest == {p \in body : p[1] # f.name}
<1>1. /\ \A g \in cube.fields : g.enforced => \E p \in body : p[1] = g.name
      /\ \A g \in cube.fields : g.enum => <<g.name, "free">> \notin body
  BY DEF P!Accepts
<1>2. PICK g \in cube.fields : \/ g.enforced /\ ~ \E p \in rest : p[1] = g.name
                               \/ g.enum /\ <<g.name, "free">> \in rest
  BY DEF P!Accepts
<1> HIDE DEF body
<1>3. g.enforced /\ ~ \E p \in rest : p[1] = g.name
  BY <1>1, <1>2
<1>4. PICK p \in body : p[1] = g.name
  BY <1>1, <1>3
<1>5. g.name = f.name
  BY <1>3, <1>4
<1> QED
  BY <1>3, <1>5 DEF Cube

(* What the probes find nothing in keeps the package's word.               *)
LEMMA ProbedKeepsWord ==
  ASSUME NEW cube, Cube(cube), cube.loads, tokens = AllTokens, P!Probes(cube) = {}
  PROVE  P!KeepsWord(cube)
<1>1. P!ProbeRelations(cube) = {} /\ cube.metadata # "bad"
      /\ (cube.metadata = "good" =>
            P!ProbeRoutes(cube) = {} /\ P!ProbeRequired(cube) = {} /\ P!ProbeSearchable(cube) = {})
  BY DEF P!Probes, Cube
<1>2. cube.relations \subseteq P!Mounted
  BY <1>1 DEF P!ProbeRelations, P!Catalog, AllTokens
<1>3. ASSUME cube.metadata = "good" PROVE P!KeepsRoutes(cube)
  <2>1. P!ProbeRoutes(cube) = {}
    BY <1>1, <1>3
  <2>2. \A r \in cube.routes : ~ (r.auth /\ 401 \notin r.gate)
    BY <2>1 DEF P!ProbeRoutes
  <2>3. \A r \in cube.routes : ~ (r.permission /\ ("reader" \notin tokens \/ 403 \notin r.gate))
    BY <2>1 DEF P!ProbeRoutes
  <2> QED
    BY <2>2, <2>3 DEF P!KeepsRoutes
<1>4. ASSUME cube.metadata = "good" PROVE P!KeepsFields(cube)
  <2>1. P!ProbeRequired(cube) = {} /\ P!ProbeSearchable(cube) = {}
    BY <1>1, <1>4
  <2>2. ASSUME "create" \in cube.named, NEW f \in cube.fields, f.required /\ f.editable /\ ~ f.custom
        PROVE  f.enforced
    <3> DEFINE required == {g \in cube.fields : g.required /\ g.editable /\ ~ g.custom}
    <3>1. f \in required
      BY <2>2
    <3>2. ~ (\/ ~ P!Accepts(cube.fields, P!Payload(cube.fields))
             \/ \E g \in required : P!Accepts(cube.fields, {p \in P!Payload(cube.fields) : p[1] # g.name}))
      BY <2>1, <2>2, <3>1 DEF P!ProbeRequired
    <3>3. /\ P!Accepts(cube.fields, P!Payload(cube.fields))
          /\ ~ P!Accepts(cube.fields, {p \in P!Payload(cube.fields) : p[1] # f.name})
      BY <3>1, <3>2
    <3> QED
      BY <3>3, FieldIsEnforced
  <2>3. ASSUME {"create", "list"} \subseteq cube.named, NEW n \in cube.searchable
        PROVE  \E f \in cube.fields : f.name = n /\ (f.type = "string" /\ f.editable => f.filtered)
    <3>1. PICK f \in {g \in cube.fields : g.name = n} : TRUE
      BY <2>1, <2>3 DEF P!ProbeSearchable
    <3>2. f \in cube.fields /\ f.name = n
      BY <3>1
    <3>3. f.type = "string" /\ f.editable => f.filtered
      BY <2>1, <2>3, <3>2 DEF P!ProbeSearchable
    <3> QED
      BY <3>2, <3>3
  <2> QED
    BY <2>2, <2>3 DEF P!KeepsFields
<1> QED
  BY <1>1, <1>2, <1>3, <1>4 DEF P!KeepsWord, P!MountsWell

(* The values the probes make up are taken, when the package can be judged *)
(* at all.                                                                 *)
LEMMA PayloadSays ==
  ASSUME NEW cube, Cube(cube), NEW f \in cube.fields
  PROVE  /\ f.enum => <<f.name, "free">> \notin P!Payload(cube.fields)
         /\ f.required /\ f.editable /\ ~ f.custom /\ (f.enum \/ f.type # "object") =>
              \E p \in P!Payload(cube.fields) : p[1] = f.name
<1>1. ASSUME f.enum, <<f.name, "free">> \in P!Payload(cube.fields) PROVE FALSE
  <2>1. PICK g \in cube.fields : <<f.name, "free">> = <<g.name, P!ValueFor(g)>>
    BY <1>1 DEF P!Payload
  <2>2. g = f
    BY <2>1 DEF Cube
  <2> QED
    BY <1>1, <2>1, <2>2 DEF P!ValueFor
<1>2. ASSUME f.required, f.editable, ~ f.custom, f.enum \/ f.type # "object"
      PROVE  \E p \in P!Payload(cube.fields) : p[1] = f.name
  <2>1. P!ValueFor(f) # None
    BY <1>2, ChecksAssumption DEF P!ValueFor
  <2>2. <<f.name, P!ValueFor(f)>> \in P!Payload(cube.fields)
    BY <1>2, <2>1 DEF P!Payload
  <2> QED
    BY <2>2
<1> QED
  BY <1>1, <1>2

(* What keeps the package's word, and can be judged, passes the probes.    *)
LEMMA WordPasses ==
  ASSUME NEW cube, Cube(cube), P!KeepsWord(cube), P!CanBeJudged(cube), tokens = AllTokens
  PROVE  P!Probes(cube) = {}
<1>1. P!ProbeRelations(cube) = {}
  BY DEF P!ProbeRelations, P!Catalog, P!KeepsWord, P!MountsWell, AllTokens
<1>2. ASSUME cube.metadata = "good" PROVE P!ProbeRoutes(cube) = {}
  BY <1>2 DEF P!ProbeRoutes, P!KeepsWord, P!KeepsRoutes, AllTokens
<1>3. ASSUME cube.metadata = "good", "create" \in cube.named, NEW f \in cube.fields
      PROVE  /\ f.enforced => f.required /\ f.editable /\ ~ f.custom
             /\ f.enforced => \E p \in P!Payload(cube.fields) : p[1] = f.name
             /\ f.required /\ f.editable /\ ~ f.custom => f.enforced
             /\ f.enum => <<f.name, "free">> \notin P!Payload(cube.fields)
             /\ f.name \in cube.searchable => ~ f.enum
  BY <1>3, PayloadSays DEF P!CanBeJudged, P!KeepsWord, P!KeepsFields
<1>4. ASSUME cube.metadata = "good" PROVE P!ProbeRequired(cube) = {}
  <2> SUFFICES ASSUME "create" \in cube.named PROVE P!ProbeRequired(cube) = {}
    BY DEF P!ProbeRequired
  <2> DEFINE required == {g \in cube.fields : g.required /\ g.editable /\ ~ g.custom}
  <2>1. P!Accepts(cube.fields, P!Payload(cube.fields))
    <3> DEFINE body == P!Payload(cube.fields)
    <3>1. \A f \in cube.fields : /\ f.enforced => \E p \in body : p[1] = f.name
                                 /\ f.enum => <<f.name, "free">> \notin body
      BY <1>3, <1>4
    <3> HIDE DEF body
    <3>2. P!Accepts(cube.fields, body)
      BY <3>1 DEF P!Accepts
    <3> QED
      BY <3>2 DEF body
  <2>2. ASSUME NEW f \in cube.fields, f.required /\ f.editable /\ ~ f.custom
        PROVE  ~ P!Accepts(cube.fields, {p \in P!Payload(cube.fields) : p[1] # f.name})
    <3>1. f.enforced
      BY <1>3, <1>4, <2>2
    <3> QED
      BY <3>1 DEF P!Accepts
  <2>3. ~ (\/ ~ P!Accepts(cube.fields, P!Payload(cube.fields))
           \/ \E f \in required : P!Accepts(cube.fields, {p \in P!Payload(cube.fields) : p[1] # f.name}))
    BY <2>1, <2>2
  <2> QED
    BY <2>3 DEF P!ProbeRequired
<1>5. ASSUME cube.metadata = "good" PROVE P!ProbeSearchable(cube) = {}
  <2> SUFFICES ASSUME {"create", "list"} \subseteq cube.named, NEW n \in cube.searchable
               PROVE  /\ {f \in cube.fields : f.name = n} # {}
                      /\ \A f \in {g \in cube.fields : g.name = n} : f.type = "string" /\ f.editable =>
                           /\ P!Accepts(cube.fields, P!With(P!Payload(cube.fields), n, "free"))
                           /\ f.filtered
    BY DEF P!ProbeSearchable
  <2>1. PICK g \in cube.fields : g.name = n /\ (g.type = "string" /\ g.editable => g.filtered)
    BY <1>5 DEF P!KeepsWord, P!KeepsFields
  <2>2. \A f \in cube.fields : f.name = n => f = g
    BY <2>1 DEF Cube
  <2>3. P!Accepts(cube.fields, P!With(P!Payload(cube.fields), n, "free"))
    <3> DEFINE body == P!With(P!Payload(cube.fields), n, "free")
    <3>1. "create" \in cube.named
      OBVIOUS
    <3>2. ASSUME NEW f \in cube.fields, f.enforced PROVE \E p \in body : p[1] = f.name
      <4>1. PICK p \in P!Payload(cube.fields) : p[1] = f.name
        BY <1>3, <1>5, <3>1, <3>2
      <4>2. CASE f.name = n
        <5>1. <<n, "free">> \in body /\ <<n, "free">>[1] = n
          BY DEF P!With
        <5> QED
          BY <4>2, <5>1
      <4>3. CASE f.name # n
        BY <4>1, <4>3 DEF P!With
      <4> QED
        BY <4>2, <4>3
    <3>3. ASSUME NEW f \in cube.fields, f.enum PROVE <<f.name, "free">> \notin body
      <4>1. <<f.name, "free">> \notin P!Payload(cube.fields) /\ f.name # n
        BY <1>3, <1>5, <3>1, <3>3
      <4> QED
        BY <4>1 DEF P!With
    <3> HIDE DEF body
    <3>4. P!Accepts(cube.fields, body)
      BY <3>2, <3>3 DEF P!Accepts
    <3> QED
      BY <3>4 DEF body
  <2> QED
    BY <2>1, <2>2, <2>3
<1> QED
  BY <1>1, <1>2, <1>4, <1>5 DEF P!Probes, P!KeepsWord, Cube

LEMMA CubeOfPack ==
  ASSUME StageInv, NEW c \in Declared
  PROVE  Cube(pack.cubes[c])
BY ChecksAssumption DEF StageInv, Cube, Declared, P!Declared

LEMMA JustInit ==
  ASSUME P!Init
  PROVE  JustInv
<1>1. /\ pack \in Samples!Pack /\ step = "source" /\ server = "off" /\ runs = <<>> /\ findings = {}
      /\ code = None /\ faults = 0 /\ todo = {} /\ unread = {}
  BY DEF P!Init
<1>2. pack.probes \in Seq(Nat \cup {None})
  BY <1>1, ChecksAssumption
<1>3. StageInv /\ CubesInv
  BY <1>1 DEF StageInv, CubesInv
<1>4. RunsInv
  BY <1>1, <1>2, EmptySeq DEF RunsInv, Count, Probes
<1>5. VerdictInv
  BY <1>1, ChecksAssumption DEF VerdictInv, P!TypeOK, P!PassIsSound
<1>6. EarnedInv
  BY <1>1, ChecksAssumption, EmptySeq DEF EarnedInv, CalmCheck, Count
<1> QED
  BY <1>3, <1>4, <1>5, <1>6 DEF JustInv

LEMMA StageStep ==
  ASSUME JustInv, P!Next
  PROVE  pack' = pack /\ StageInv'
<1> USE DEF P!Judge, P!Die, P!Scope, P!Probing, P!Ask, P!Acquire
<1>1. pack' = pack
  BY DEF P!Next, P!Source, P!CapsStage, P!OwnProbes, P!Sandbox, P!Database, P!StartKernel, P!Scratch, P!Kernel,
         P!WaitReady, P!Dump, P!Login, P!ProbeCube, P!Probed, P!RunProbe, P!RuntimeDone, P!Release, P!Closed,
         P!Invocation, P!Interrupt
<1>2. P!SourceFindings' = P!SourceFindings /\ P!CapsFindings' = P!CapsFindings
  BY <1>1, PackRests
<1> SUFFICES StageInv'
  BY <1>1
<1> USE DEF JustInv, StageInv
<1>3. CASE P!Source
  BY <1>1, <1>2, <1>3 DEF P!Source
<1>4. CASE P!CapsStage
  BY <1>1, <1>2, <1>4 DEF P!CapsStage
<1>5. CASE P!OwnProbes
  BY <1>1, <1>2, <1>5 DEF P!OwnProbes
<1>6. CASE P!Sandbox \/ P!Database
  BY <1>1, <1>2, <1>6 DEF P!Sandbox, P!Database
<1>7. CASE P!StartKernel \/ P!Scratch
  BY <1>1, <1>2, <1>7 DEF P!StartKernel, P!Scratch
<1>8. CASE P!Kernel
  BY <1>1, <1>2, <1>8 DEF P!Kernel
<1>9. CASE P!WaitReady
  BY <1>1, <1>2, <1>9 DEF P!WaitReady
<1>10. CASE P!Dump
  BY <1>1, <1>2, <1>10 DEF P!Dump
<1>11. CASE P!Login
  BY <1>1, <1>2, <1>11 DEF P!Login
<1>12. CASE P!ProbeCube
  BY <1>1, <1>2, <1>12 DEF P!ProbeCube
<1>13. CASE P!Probed \/ P!RunProbe \/ P!RuntimeDone
  BY <1>1, <1>2, <1>13 DEF P!Probed, P!RunProbe, P!RuntimeDone
<1>14. CASE P!Release
  BY <1>1, <1>2, <1>14 DEF P!Release
<1>15. CASE P!Closed
  BY <1>1, <1>2, <1>15 DEF P!Closed, VerdictInv
<1>16. CASE P!Invocation \/ P!Interrupt
  BY <1>1, <1>2, <1>16 DEF P!Invocation, P!Interrupt
<1> QED
  BY <1>3, <1>4, <1>5, <1>6, <1>7, <1>8, <1>9, <1>10, <1>11, <1>12, <1>13, <1>14, <1>15, <1>16 DEF P!Next

(* A cube that is probed: its findings are the probes', or its metadata    *)
(* was not answered for, or one of the requests failed.                    *)
ProbesIt(c) ==
  /\ todo' = todo \ {c} /\ step' = step /\ tokens' = tokens /\ code' = code /\ server' = server
  /\ unread \subseteq unread' /\ unread' \subseteq unread \cup {c}
  /\ \/ /\ faults' = faults /\ unread' = unread
        /\ findings' = findings \cup IF c \in P!Dumped THEN P!Probes(pack.cubes[c]) ELSE {"declarations"}
     \/ /\ P!Fault /\ c \in P!Dumped /\ c \in unread'
        /\ findings' = findings \cup P!ProbeRelations(pack.cubes[c])
     \/ /\ P!Fault /\ c \in P!Dumped /\ unread' = unread
        /\ P!Probes(pack.cubes[c]) \subseteq findings' /\ findings \subseteq findings'

LEMMA ProbesOne ==
  ASSUME P!ProbeCube
  PROVE  \/ step' = "unwind" /\ code' = 2 /\ UNCHANGED <<todo, tokens, unread, faults, findings, server>>
         \/ server = "up" /\ step = "cubes" /\ \E c \in todo : ProbesIt(c)
<1>1. PICK c \in todo :
        P!Ask(\/ /\ P!Reports(c, IF c \in P!Dumped THEN P!Probes(pack.cubes[c]) ELSE {"declarations"}, {})
                 /\ faults' = faults
              \/ c \in P!Dumped /\ P!Fault /\ P!Reports(c, P!ProbeRelations(pack.cubes[c]), {c})
              \/ /\ c \in P!Dumped /\ P!Fault
                 /\ \E rule \in P!Spoilt(pack.cubes[c]) : P!Reports(c, P!Probes(pack.cubes[c]) \cup {rule}, {}))
  BY DEF P!ProbeCube
<1>2. UNCHANGED server /\ step = "cubes"
  BY DEF P!ProbeCube, P!Scope
<1>3. CASE server # "up"
  BY <1>1, <1>2, <1>3 DEF P!Ask, P!Die
<1>4. CASE server = "up"
  <2>1. ProbesIt(c)
    BY <1>1, <1>2, <1>4 DEF P!Ask, P!Reports, ProbesIt
  <2> QED
    BY <1>2, <1>4, <2>1
<1> QED
  BY <1>3, <1>4

LEMMA CubesStep ==
  ASSUME JustInv, P!Next
  PROVE  CubesInv'
<1> USE DEF P!Judge, P!Die, P!Scope, P!Probing, P!Acquire
<1>1. pack' = pack
  BY StageStep
<1>2. Declared' = Declared /\ \A c \in Declared : /\ P!KeepsWord(pack.cubes[c])' <=> P!KeepsWord(pack.cubes[c])
                                                /\ P!MountsWell(pack.cubes[c])' <=> P!MountsWell(pack.cubes[c])
  BY <1>1, PackRests
<1> DEFINE Old(c) == Kept(c)
           New(c) == Kept(c)'
<1>18. unread' = unread => \A c \in Declared : New(c) <=> Old(c)
  BY <1>1, PackRests DEF Kept
<1>3. /\ todo \subseteq Declared /\ (step = "login" => todo = Declared)
      /\ step = "cubes" /\ findings = {} => tokens = AllTokens /\ \A c \in Declared \ todo : Old(c)
      /\ step \in {"own", "close", "invocation"} => \A c \in Declared : Old(c)
  BY DEF JustInv, CubesInv
<1>17. todo' \subseteq Declared
  <2>1. todo' = todo \/ todo' = P!Declared \/ \E c \in todo : todo' = todo \ {c}
    BY DEF P!Reports, P!Next, P!Source, P!CapsStage, P!OwnProbes, P!Sandbox, P!Database, P!StartKernel, P!Scratch, P!Kernel,
           P!WaitReady, P!Dump, P!Login, P!ProbeCube, P!Probed, P!RunProbe, P!RuntimeDone, P!Release, P!Closed,
           P!Invocation, P!Interrupt, P!Ask
  <2> QED
    BY <1>3, <2>1 DEF Declared
<1> SUFFICES /\ step' = "login" => todo' = Declared
             /\ step' = "cubes" /\ findings' = {} => tokens' = AllTokens /\ \A c \in Declared \ todo' : New(c)
             /\ step' \in {"own", "close", "invocation"} => \A c \in Declared : New(c)
  BY <1>2, <1>17 DEF CubesInv
<1>19. \A c \in Declared : P!KeepsWord(pack.cubes[c]) => P!MountsWell(pack.cubes[c])
  BY DEF P!KeepsWord
<1>21. \A c \in Declared : Old(c) => P!MountsWell(pack.cubes[c])
  BY <1>19 DEF Kept
<1>22. \A c \in Declared : c \in unread' /\ P!MountsWell(pack.cubes[c]) => New(c)
  BY <1>2 DEF Kept
<1>23. \A c \in Declared : P!KeepsWord(pack.cubes[c]) => New(c)
  BY <1>2, <1>19 DEF Kept
<1>24. \A c \in Declared : Old(c) /\ unread \subseteq unread' => New(c)
  BY <1>2, <1>19 DEF Kept
<1> HIDE DEF Old, New
<1>4. CASE P!Source \/ P!CapsStage \/ P!OwnProbes
  BY <1>18, <1>4 DEF P!Source, P!CapsStage, P!OwnProbes
<1>5. CASE P!Sandbox \/ P!Database \/ P!StartKernel \/ P!Scratch
  BY <1>18, <1>5 DEF P!Sandbox, P!Database, P!StartKernel, P!Scratch
<1>6. CASE P!Kernel
  BY <1>18, <1>3, <1>6 DEF P!Kernel
<1>7. CASE P!WaitReady
  BY <1>18, <1>3, <1>7 DEF P!WaitReady, Declared
<1>8. CASE P!Dump
  BY <1>18, <1>8 DEF P!Dump, Declared
<1>9. CASE P!Login
  <2>1. todo = Declared /\ step' # "login"
    BY <1>3, <1>9 DEF P!Login, P!Ask
  <2>2. step' = "cubes" /\ findings' = {} => tokens' = AllTokens /\ todo' = todo
    BY <1>9 DEF P!Login, P!Ask, AllTokens
  <2>3. step' \notin {"own", "close", "invocation"}
    BY <1>9 DEF P!Login, P!Ask
  <2> QED
    BY <2>1, <2>2, <2>3
<1>10. CASE P!ProbeCube
  <2>1. CASE step' = "unwind"
    BY <2>1
  <2>2. CASE step' # "unwind"
    <3>1. PICK c \in todo : ProbesIt(c) /\ step = "cubes"
      BY <1>10, <2>2, ProbesOne
    <3>2. c \in Declared /\ Cube(pack.cubes[c])
      BY <1>3, <3>1, CubeOfPack DEF JustInv
    <3>3. ASSUME findings' = {} PROVE New(c) /\ findings = {}
      <4>1. findings = {} /\ c \in P!Dumped /\ tokens = AllTokens
        BY <1>3, <3>1, <3>3 DEF ProbesIt
      <4>2. pack.cubes[c].loads
        BY <4>1 DEF P!Dumped
      <4>3. CASE P!Probes(pack.cubes[c]) = {}
        BY <1>23, <3>2, <4>1, <4>2, <4>3, ProbedKeepsWord
      <4>4. CASE P!ProbeRelations(pack.cubes[c]) = {} /\ c \in unread'
        <5>1. P!MountsWell(pack.cubes[c])
          BY <4>1, <4>2, <4>4 DEF P!MountsWell, P!ProbeRelations, P!Catalog, AllTokens
        <5> QED
          BY <1>22, <3>2, <4>1, <4>4, <5>1
      <4> QED
        BY <3>1, <3>3, <4>1, <4>3, <4>4 DEF ProbesIt
    <3>4. todo' = todo \ {c} /\ step' = step /\ tokens' = tokens /\ unread \subseteq unread'
      BY <3>1 DEF ProbesIt
    <3>5. ASSUME findings' = {}, NEW d \in Declared \ todo' PROVE New(d)
      <4>1. CASE d = c
        BY <3>3, <3>5, <4>1
      <4>2. CASE d # c
        BY <1>3, <1>24, <3>1, <3>3, <3>4, <3>5, <4>2
      <4> QED
        BY <4>1, <4>2
    <3> QED
      BY <1>3, <3>1, <3>3, <3>4, <3>5
  <2> QED
    BY <2>1, <2>2
<1>11. CASE P!Probed
  BY <1>18, <1>3, <1>11 DEF P!Probed
<1>12. CASE P!RunProbe
  BY <1>18, <1>3, <1>12 DEF P!RunProbe
<1>13. CASE P!RuntimeDone
  BY <1>18, <1>3, <1>13 DEF P!RuntimeDone
<1>14. CASE P!Release
  BY <1>18, <1>3, <1>14 DEF P!Release
<1>15. CASE P!Closed
  BY <1>18, <1>3, <1>15 DEF P!Closed
<1>16. CASE P!Invocation \/ P!Interrupt
  BY <1>18, <1>16 DEF P!Invocation, P!Interrupt
<1> QED
  BY <1>4, <1>5, <1>6, <1>7, <1>8, <1>9, <1>10, <1>11, <1>12, <1>13, <1>14, <1>15, <1>16 DEF P!Next

LEMMA RunsStep ==
  ASSUME JustInv, P!Next
  PROVE  RunsInv'
<1> USE DEF P!Judge, P!Die, P!Scope, P!Probing, P!Acquire, P!Ask
<1>1. pack' = pack /\ pack.probes \in Seq(Nat \cup {None}) /\ Probes' = Probes /\ Probes \in Nat
  BY StageStep, ChecksAssumption DEF JustInv, StageInv, Probes
<1>2. CASE P!RunProbe
  <2>1. Count < Probes /\ step' = step /\ step = "own"
        /\ \E x \in {pack.probes[Count + 1], 1} : runs' = Append(runs, x)
    BY <1>2 DEF P!RunProbe, Count, Probes
  <2>2. PICK x \in {pack.probes[Count + 1], 1} : runs' = Append(runs, x)
    BY <2>1
  <2>3. runs \in Seq(Nat \cup {None}) /\ Count \in 0 .. Probes /\ \A i \in 1 .. Count : runs[i] \in {pack.probes[i], 1}
    BY DEF JustInv, RunsInv
  <2>4. x \in Nat \cup {None}
    BY <1>1, <2>1, <2>3 DEF Probes
  <2>5. runs' \in Seq(Nat \cup {None}) /\ Count' = Count + 1 /\ runs'[Count + 1] = x
        /\ \A i \in 1 .. Count : runs'[i] = runs[i]
    BY <2>2, <2>3, <2>4 DEF Count
  <2>6. \A i \in 1 .. Count' : i = Count + 1 \/ i \in 1 .. Count
    BY <2>3, <2>5
  <2>7. \A i \in 1 .. Count' : runs'[i] \in {pack.probes[i], 1}
    BY <2>3, <2>5, <2>6
  <2>8. Count' \in 0 .. Probes
    BY <1>1, <2>1, <2>3, <2>5
  <2> QED
    BY <1>1, <2>1, <2>5, <2>7, <2>8 DEF RunsInv
<1>3. CASE P!RuntimeDone
  <2>1. runs' = runs /\ Count' = Count
    BY <1>3 DEF P!RuntimeDone, Count
  <2>2. step' \in {"close", "invocation"} => \A i \in 1 .. Probes : pack.probes[i] = 0
    <3> SUFFICES ASSUME step' \in {"close", "invocation"}, NEW i \in 1 .. Probes PROVE pack.probes[i] = 0
      OBVIOUS
    <3>1. P!ProbeFindings = {} /\ Count = Probes
      BY <1>3 DEF P!RuntimeDone, Count, Probes
    <3>2. i \in DOMAIN runs /\ runs[i] \in {pack.probes[i], 1}
      BY <3>1 DEF JustInv, RunsInv, Count
    <3>3. runs[i] = 0
      BY <3>1, <3>2 DEF P!ProbeFindings
    <3> QED
      BY <3>2, <3>3
  <2> QED
    BY <1>1, <2>1, <2>2 DEF JustInv, RunsInv
<1>4. CASE ~ P!RunProbe /\ ~ P!RuntimeDone
  <2>1. runs' = runs /\ Count' = Count /\ (step' \in {"close", "invocation"} => step \in {"close", "invocation"})
    BY <1>4 DEF P!Reports, P!Next, P!Source, P!CapsStage, P!OwnProbes, P!Sandbox, P!Database, P!StartKernel, P!Scratch,
                P!Kernel, P!WaitReady, P!Dump, P!Login, P!ProbeCube, P!Probed, P!Release, P!Closed,
                P!Invocation, P!Interrupt, Count
  <2> QED
    BY <1>1, <2>1 DEF JustInv, RunsInv
<1> QED
  BY <1>2, <1>3, <1>4

LEMMA VerdictStep ==
  ASSUME JustInv, P!Next
  PROVE  VerdictInv'
<1> USE DEF P!Judge, P!Die, P!Scope, P!Probing, P!Ask, P!Acquire, P!Fault
<1>1. /\ pack' = pack /\ P!InvocationFindings' = P!InvocationFindings /\ Declared' = Declared
      /\ P!Sound' <=> P!Sound
      /\ unread' = unread => (P!SoundBut(unread)' <=> P!SoundBut(unread))
  BY StageStep, PackRests
<1>2. faults' \in 0 .. MaxFaults
  <2>1. faults' = faults \/ P!Fault
    BY DEF P!Next, P!Source, P!CapsStage, P!OwnProbes, P!Sandbox, P!Database, P!StartKernel, P!Scratch, P!Kernel,
           P!WaitReady, P!Dump, P!Login, P!ProbeCube, P!Probed, P!RunProbe, P!RuntimeDone, P!Release, P!Closed,
           P!Invocation, P!Interrupt
  <2> QED
    BY <2>1, ChecksAssumption DEF JustInv, VerdictInv, P!TypeOK
<1>6. unread' = unread \/ (P!Fault /\ step' # "end" /\ \E c \in todo : unread' \subseteq unread \cup {c})
  <2>1. CASE P!ProbeCube
    BY <2>1, ProbesOne DEF ProbesIt
  <2>2. CASE ~ P!ProbeCube
    BY <2>2 DEF P!Next, P!Source, P!CapsStage, P!OwnProbes, P!Sandbox, P!Database, P!StartKernel, P!Scratch, P!Kernel,
           P!WaitReady, P!Dump, P!Login, P!Probed, P!RunProbe, P!RuntimeDone, P!Release, P!Closed,
           P!Invocation, P!Interrupt
  <2> QED
    BY <2>1, <2>2
<1>7. unread' \subseteq Declared' /\ (unread' # {} => faults' > 0)
  <2>1. /\ unread \subseteq Declared /\ (unread # {} => faults > 0) /\ todo \subseteq Declared
        /\ faults \in Nat /\ faults' \in Nat /\ faults' >= faults
    <3>1. faults' = faults \/ faults' = faults + 1
      BY DEF P!Next, P!Source, P!CapsStage, P!OwnProbes, P!Sandbox, P!Database, P!StartKernel, P!Scratch, P!Kernel,
             P!WaitReady, P!Dump, P!Login, P!ProbeCube, P!Probed, P!RunProbe, P!RuntimeDone, P!Release, P!Closed,
             P!Invocation, P!Interrupt
    <3> QED
      BY <3>1, ChecksAssumption DEF JustInv, VerdictInv, CubesInv, P!TypeOK, Declared
  <2>2. P!Fault => faults' > 0
    BY <2>1
  <2> QED
    BY <1>1, <1>6, <2>1, <2>2
<1>3. None # 0 /\ None # 1 /\ None # 2 /\ None # 130
  BY ChecksAssumption
<1> DEFINE Given == /\ server \in {"off", "starting", "up", "gone"} /\ code \in {None, 0, 1, 2, 130}
                    /\ step = "end" => code # None
                    /\ code = 0 => findings = {}
                    /\ code = 1 => findings # {}
                    /\ step \notin {"unwind", "end"} => code = None
                    /\ step = "unwind" => code \notin {None, 0}
                    /\ step = "end" /\ code = 0 => P!SoundBut(unread)
<1>4. Given
  BY DEF JustInv, VerdictInv, P!TypeOK, P!PassIsSound
<1>5. Given'
  <2>1. CASE P!Source \/ P!CapsStage \/ P!OwnProbes
    BY <1>1, <1>3, <1>4, <2>1 DEF P!Source, P!CapsStage, P!OwnProbes
  <2>2. CASE P!Sandbox \/ P!Database
    BY <1>1, <1>3, <1>4, <2>2 DEF P!Sandbox, P!Database
  <2>3. CASE P!StartKernel \/ P!Scratch
    BY <1>1, <1>3, <1>4, <2>3 DEF P!StartKernel, P!Scratch
  <2>4. CASE P!Kernel
    BY <1>1, <1>3, <1>4, <2>4 DEF P!Kernel
  <2>5. CASE P!WaitReady
    BY <1>1, <1>3, <1>4, <2>5 DEF P!WaitReady
  <2>6. CASE P!Dump
    BY <1>1, <1>3, <1>4, <2>6 DEF P!Dump
  <2>7. CASE P!Login
    BY <1>1, <1>3, <1>4, <2>7 DEF P!Login
  <2>8. CASE P!ProbeCube
    BY <1>1, <1>3, <1>4, <2>8, ProbesOne DEF ProbesIt
  <2>9. CASE P!Probed \/ P!RunProbe \/ P!RuntimeDone
    BY <1>1, <1>3, <1>4, <2>9 DEF P!Probed, P!RunProbe, P!RuntimeDone
  <2>10. CASE P!Release
    BY <1>1, <1>3, <1>4, <2>10 DEF P!Release
  <2>11. CASE P!Closed
    BY <1>1, <1>3, <1>4, <2>11 DEF P!Closed
  <2>12. CASE P!Invocation
    <3>1. /\ step = "invocation" /\ findings' = P!InvocationFindings /\ step' = "end" /\ server' = server
          /\ unread' = unread /\ code' = IF P!InvocationFindings # {} THEN 1 ELSE 0
      BY <2>12 DEF P!Invocation
    <3>2. P!InvocationFindings = {} => P!SoundBut(unread)
      <4>1. /\ P!SourceFindings = {} /\ P!CapsFindings = {} /\ pack.boots = "serves" /\ pack.probes # <<>>
            /\ \A c \in Declared : Kept(c)
            /\ \A i \in 1 .. Probes : pack.probes[i] = 0
        BY <3>1 DEF JustInv, StageInv, CubesInv, RunsInv
      <4>2. DOMAIN pack.probes = 1 .. Probes
        BY ChecksAssumption DEF JustInv, StageInv, Probes
      <4> QED
        BY <4>1, <4>2 DEF P!SoundBut, Kept, Declared
    <3> QED
      BY <1>1, <1>3, <1>4, <3>1, <3>2
  <2>13. CASE P!Interrupt
    BY <1>1, <1>3, <1>4, <2>13 DEF P!Interrupt
  <2> QED
    BY <2>1, <2>2, <2>3, <2>4, <2>5, <2>6, <2>7, <2>8, <2>9, <2>10, <2>11, <2>12, <2>13 DEF P!Next
<1>8. step' = "end" /\ code' = 0 => P!SoundBut(unread)' /\ (faults' = 0 => P!Sound')
  <2>1. unread' = {} => (P!SoundBut(unread)' => P!Sound')
    BY DEF P!Sound
  <2>2. faults' = 0 => unread' = {}
    BY <1>7
  <2> QED
    BY <1>5, <2>1, <2>2
<1> QED
  BY <1>2, <1>5, <1>7, <1>8 DEF VerdictInv, P!TypeOK, P!PassIsSound, Declared

LEMMA EarnedStep ==
  ASSUME JustInv, P!Next
  PROVE  EarnedInv'
<1> USE DEF P!Judge, P!Die, P!Scope, P!Probing, P!Ask, P!Acquire
<1>1. pack' = pack /\ (Flawless' <=> Flawless)
  BY StageStep, PackRests
<1> SUFFICES ASSUME Flawless, faults' = 0 PROVE CalmCheck'
  BY <1>1 DEF EarnedInv
<1>2. ~ P!Fault /\ faults = 0
  <2>1. faults' = faults \/ P!Fault
    BY DEF P!Next, P!Source, P!CapsStage, P!OwnProbes, P!Sandbox, P!Database, P!StartKernel, P!Scratch, P!Kernel,
           P!WaitReady, P!Dump, P!Login, P!ProbeCube, P!Probed, P!RunProbe, P!RuntimeDone, P!Release, P!Closed,
           P!Invocation, P!Interrupt
  <2>2. faults \in Nat
    BY ChecksAssumption DEF JustInv, VerdictInv, P!TypeOK
  <2>3. ~ P!Fault
    BY <2>2 DEF P!Fault
  <2> QED
    BY <2>1, <2>3
<1>3. CalmCheck
  BY <1>2 DEF JustInv, EarnedInv
<1>4. /\ P!SourceFindings = {} /\ P!CapsFindings = {} /\ P!InvocationFindings = {} /\ pack.boots = "serves"
      /\ pack.probes # <<>> /\ \A c \in Declared : P!KeepsWord(pack.cubes[c]) /\ P!CanBeJudged(pack.cubes[c])
  BY DEF Flawless, P!Sound, P!SoundBut, Declared
<1>5. None # 1
  BY ChecksAssumption
<1> DEFINE Runs0 == \A i \in 1 .. Count : runs[i] = 0
<1>6. Runs0
  BY <1>3 DEF CalmCheck
<1>7. Runs0'
  <2>1. CASE runs' = runs
    BY <1>6, <2>1 DEF Count
  <2>2. CASE runs' # runs
    <3>1. P!RunProbe
      BY <2>2 DEF P!Next, P!Source, P!CapsStage, P!OwnProbes, P!Sandbox, P!Database, P!StartKernel, P!Scratch,
                  P!Kernel, P!WaitReady, P!Dump, P!Login, P!ProbeCube, P!Probed, P!RuntimeDone, P!Release, P!Closed,
                  P!Invocation, P!Interrupt
    <3>2. server = "up"
      BY <1>3, <3>1 DEF P!RunProbe, CalmCheck
    <3>3. runs' = Append(runs, pack.probes[Count + 1]) /\ Count < Probes
      BY <3>1, <3>2 DEF P!RunProbe, Count, Probes
    <3>4. runs \in Seq(Nat \cup {None}) /\ Count \in Nat /\ pack.probes \in Seq(Nat \cup {None})
      BY ChecksAssumption DEF JustInv, RunsInv, StageInv, Probes
    <3>5. Count + 1 \in DOMAIN pack.probes
      BY <3>3, <3>4 DEF Probes
    <3>6. pack.probes[Count + 1] = 0
      BY <3>5 DEF Flawless, P!Sound, P!SoundBut
    <3>7. Count' = Count + 1 /\ runs'[Count + 1] = 0 /\ \A i \in 1 .. Count : runs'[i] = runs[i]
      BY <3>3, <3>4, <3>6 DEF Count
    <3>8. \A i \in 1 .. Count' : i = Count + 1 \/ i \in 1 .. Count
      BY <3>4, <3>7
    <3> QED
      BY <1>6, <3>7, <3>8
  <2> QED
    BY <2>1, <2>2
<1> DEFINE Calm == /\ findings = {} /\ code # 1
                   /\ step = "wait" => server \in {"starting", "up"}
                   /\ step \in {"scratch", "dump", "login", "cubes", "own"} => server = "up"
                   /\ step = "cubes" => tokens = AllTokens
<1>8. Calm
  BY <1>3 DEF CalmCheck
<1> HIDE DEF Runs0
<1>9. Calm'
  <2>1. CASE P!Source \/ P!CapsStage \/ P!OwnProbes
    BY <1>2, <1>4, <1>8, <2>1 DEF P!Source, P!CapsStage, P!OwnProbes
  <2>2. CASE P!Sandbox \/ P!Database
    BY <1>2, <1>8, <2>2 DEF P!Sandbox, P!Database
  <2>3. CASE P!StartKernel \/ P!Scratch
    BY <1>2, <1>8, <2>3 DEF P!StartKernel, P!Scratch
  <2>4. CASE P!Kernel
    BY <1>2, <1>4, <1>8, <2>4 DEF P!Kernel
  <2>5. CASE P!WaitReady
    BY <1>2, <1>4, <1>8, <2>5 DEF P!WaitReady
  <2>6. CASE P!Dump
    BY <1>2, <1>8, <2>6 DEF P!Dump
  <2>7. CASE P!Login
    BY <1>2, <1>8, <2>7 DEF P!Login, AllTokens
  <2>8. CASE P!ProbeCube
    <3>1. server = "up" /\ tokens = AllTokens /\ step = "cubes"
      BY <1>8, <2>8 DEF P!ProbeCube
    <3>2. PICK c \in todo : /\ step' = step /\ tokens' = tokens /\ code' = code /\ server' = server
                            /\ findings' = findings \cup
                                 IF c \in P!Dumped THEN P!Probes(pack.cubes[c]) ELSE {"declarations"}
      <4>1. step' # "unwind" \/ server # "up"
        BY <2>8, <3>1 DEF P!ProbeCube, P!Reports
      <4> QED
        BY <1>2, <2>8, <3>1, <4>1, ProbesOne DEF ProbesIt
    <3>3. c \in Declared
      BY DEF JustInv, CubesInv
    <3>4. c \in P!Dumped
      BY <1>4, <3>3 DEF P!Dumped, P!KeepsWord, P!MountsWell, Declared
    <3>5. P!Probes(pack.cubes[c]) = {}
      BY <1>4, <3>1, <3>3, CubeOfPack, WordPasses DEF JustInv
    <3> QED
      BY <1>8, <3>1, <3>2, <3>4, <3>5
  <2>9. CASE P!Probed \/ P!RunProbe
    BY <1>2, <1>8, <2>9 DEF P!Probed, P!RunProbe
  <2>10. CASE P!RuntimeDone
    <3>1. P!ProbeFindings = {}
      BY <1>6 DEF P!ProbeFindings, Runs0, Count, JustInv, RunsInv
    <3> QED
      BY <1>2, <1>8, <2>10, <3>1 DEF P!RuntimeDone
  <2>11. CASE P!Release \/ P!Closed
    BY <1>2, <1>8, <2>11 DEF P!Release, P!Closed
  <2>12. CASE P!Invocation
    BY <1>2, <1>4, <1>8, <2>12 DEF P!Invocation
  <2>13. CASE P!Interrupt
    BY <1>2, <1>8, <2>13 DEF P!Interrupt
  <2> QED
    BY <2>1, <2>2, <2>3, <2>4, <2>5, <2>6, <2>7, <2>8, <2>9, <2>10, <2>11, <2>12, <2>13 DEF P!Next
<1> QED
  BY <1>7, <1>9 DEF CalmCheck, Runs0

JustPart == part = "check" => JustInv

LEMMA JustPartHolds == SpecBoot => []JustPart
<1>1. InitBoot => JustPart
  BY JustInit DEF InitBoot, JustPart
<1>2. JustPart /\ [NextBoot]_all => JustPart'
  <2> SUFFICES ASSUME JustPart, [NextBoot]_all, part' = "check" PROVE JustInv'
    BY DEF JustPart
  <2>1. CASE P!Next /\ part = "check"
    BY <2>1, StageStep, CubesStep, RunsStep, VerdictStep, EarnedStep DEF JustPart, JustInv
  <2>2. CASE UNCHANGED <<all>>
    <3>1. UNCHANGED <<pack, step, server, todo, tokens, unread, runs, findings, code, faults>> /\ part = "check"
      BY <2>2 DEF all, checkOnly
    <3>2. JustInv
      BY <3>1 DEF JustPart
    <3>3. /\ P!SourceFindings' = P!SourceFindings /\ P!CapsFindings' = P!CapsFindings /\ Declared' = Declared
          /\ \A c \in Declared : Kept(c)' <=> Kept(c)
          /\ (P!Sound' <=> P!Sound) /\ (P!SoundBut(unread)' <=> P!SoundBut(unread)) /\ (Flawless' <=> Flawless)
      BY <3>1, PackRests DEF Kept
    <3>4. StageInv'
      BY <3>1, <3>2, <3>3 DEF JustInv, StageInv
    <3>5. CubesInv'
      BY <3>1, <3>2, <3>3 DEF JustInv, CubesInv
    <3>6. RunsInv' /\ EarnedInv'
      BY <3>1, <3>2, <3>3 DEF JustInv, RunsInv, Count, Probes, EarnedInv, CalmCheck
    <3>7. VerdictInv'
      BY <3>1, <3>2, <3>3 DEF JustInv, VerdictInv, P!TypeOK, P!PassIsSound, Declared
    <3> QED
      BY <3>4, <3>5, <3>6, <3>7 DEF JustInv
  <2> QED
    BY <2>1, <2>2 DEF NextBoot
<1> QED
  BY <1>1, <1>2, PTL DEF SpecBoot

(* A verdict is just: a package that passes keeps what the four stages are *)
(* said to judge, though probes skip what they cannot ask, but for a cube  *)
(* whose metadata request failed and that is only known to mount; and when *)
(* no call of the environment fails, only a package with a flaw, or one    *)
(* that the probes cannot judge, is refused.  For any routes, fields,      *)
(* relations and probes of its cubes, in whatever order they are judged.   *)
THEOREM ChecksJudgeRightly == SpecBoot => []VerdictsAreJust
<1>1. JustPart => VerdictsAreJust
  <2> SUFFICES ASSUME JustInv PROVE P!TypeOK /\ P!PassIsSound /\ P!RefusalIsEarned
    BY DEF JustPart, VerdictsAreJust
  <2>1. P!RefusalIsEarned
    <3> SUFFICES ASSUME code = 1, faults = 0
                 PROVE  ~ P!Sound \/ \E c \in P!Declared : ~ P!CanBeJudged(pack.cubes[c])
      BY DEF P!RefusalIsEarned
    <3>1. ~ Flawless
      BY DEF JustInv, EarnedInv, CalmCheck
    <3> QED
      BY <3>1 DEF Flawless, Declared
  <2> QED
    BY <2>1 DEF JustInv, VerdictInv
<1> QED
  BY JustPartHolds, <1>1, PTL

-----------------------------------------------------------------------------
(* The mount.                                                              *)

(* A consumer's handles: each looks its provider up.                       *)
Wired(c) == [k \in c.m.uses |-> HandleFor(k)]
Awake == phase # "down"

(* What is on disk, and what earlier systems showed of it: no record is of *)
(* a later version than the cube, and a record tells what every system     *)
(* that served the version showed.                                         *)
DiskInv ==
  /\ SoundDisk(OnDisk)
  /\ \A c \in OnDisk :
       c.m.version # None /\ Recorded(c.id) # None => Recorded(c.id).version <= c.m.version

Agrees(record, version, hash) ==
  /\ record # None /\ version <= record.version
  /\ version = record.version => hash = record.hash
RecordInv ==
  /\ records \in [AllIds -> Records \cup {None}]
  /\ \A s \in served : s[1] \in AllIds /\ s[2] \in Nat /\ Agrees(records[s[1]], s[2], s[3])
  /\ \A id \in AllIds :
       Shipped[id] # None /\ records[id] # None => Agrees(records[id], Shipped[id].version, Shipped[id].hash)
  /\ OneSchemaPerVersion

(* What is imported: mounted cubes, each once, with manifests in order.    *)
RanInv ==
  /\ ran \in Seq(OnDisk)
  /\ \A i \in DOMAIN ran : ran[i].id \in Expanded /\ ~ BadManifest(ran[i])
  /\ \A i, j \in DOMAIN ran : i # j => ran[i].id # ran[j].id

(* What is created: the beginning of what was imported, by the rules on    *)
(* what create returns, with its handles, and with the providers bound.    *)
MadeInv ==
  /\ system \in Seq(OnDisk) /\ handles \in Seq({Wired(c) : c \in OnDisk})
  /\ Len(handles) = Len(system) /\ Len(system) <= Len(ran)
  /\ \A i \in DOMAIN system :
       system[i] = ran[i] /\ handles[i] = Wired(system[i]) /\ CreateRefusal(system[i]) = None
BoundInv ==
  \A k \in Capabilities : /\ bound[k] \in Ids(system) \cup {None}
                          /\ \A c \in ToSet(system) : k \in c.m.provides <=> bound[k] = c.id

(* How far a boot has come.                                                *)
PhaseInv ==
  /\ Awake => DiscoveryRefusal = None
  /\ phase = "import" => system = <<>>
  /\ phase \in {"create", "drift", "serving"} =>
       /\ \A c \in Mounting : c.id \in Ids(ran)
       /\ ~ GatesRefusal(ran)
  /\ phase \in {"drift", "serving"} => Len(system) = Len(ran) /\ RulesRefusal = None

MountInv ==
  /\ TypeOK /\ DiskInv /\ RecordInv /\ PhaseInv
  /\ Awake => RanInv /\ MadeInv /\ BoundInv

(* What depends only on the disk and on what is asked for stays with them. *)
LEMMA DiskRests ==
  ASSUME UNCHANGED <<disk, wanted>>
  PROVE  /\ OnDisk' = OnDisk /\ Expanded' = Expanded /\ Mounting' = Mounting
         /\ DiscoveryRefusal' = DiscoveryRefusal
BY DEF OnDisk, Expanded, Requested, Mounting, DiscoveryRefusal, DirtyPackages

LEMMA SoundRests ==
  ASSUME MountInv, UNCHANGED <<disk, records>>
  PROVE  DiskInv'
BY DEF MountInv, DiskInv, OnDisk, Recorded

LEMMA RecordsRest ==
  ASSUME MountInv, UNCHANGED <<records, served>>
  PROVE  RecordInv'
BY DEF MountInv, RecordInv, Agrees, OneSchemaPerVersion

LEMMA RanRests ==
  ASSUME RanInv, UNCHANGED <<disk, wanted, ran>>
  PROVE  RanInv'
BY DiskRests DEF RanInv

LEMMA MadeRests ==
  ASSUME MadeInv, BoundInv, UNCHANGED <<disk, ran, system, handles, bound>>
  PROVE  MadeInv' /\ BoundInv'
BY DEF MadeInv, BoundInv, OnDisk

LEMMA RulesRest ==
  ASSUME UNCHANGED system
  PROVE  RulesRefusal' = RulesRefusal
BY DEF RulesRefusal

(* Nothing but the phase, the switches and the reason of a refusal.        *)
LEMMA MountRests ==
  ASSUME MountInv, TypeOK', UNCHANGED <<disk, wanted, records, ran, system, bound, handles, served>>,
         phase' \in {phase, "down"}
  PROVE  MountInv'
<1>1. DiskInv' /\ RecordInv'
  BY SoundRests, RecordsRest
<1>2. PhaseInv'
  <2>1. PhaseInv
    BY DEF MountInv
  <2> QED
    BY <2>1, DiskRests, RulesRest DEF PhaseInv, Awake
<1>3. ASSUME Awake' PROVE RanInv' /\ MadeInv' /\ BoundInv'
  <2>1. Awake
    BY <1>3 DEF Awake
  <2>2. RanInv /\ MadeInv /\ BoundInv
    BY <2>1 DEF MountInv
  <2> QED
    BY <2>2, RanRests, MadeRests
<1> QED
  BY <1>1, <1>2, <1>3 DEF MountInv

LEMMA DiscoverStep ==
  ASSUME MountInv, Discover
  PROVE  MountInv'
<1>1. /\ UNCHANGED <<disk, wanted, off, records, served, edits>> /\ boots < MaxBoots /\ boots' = boots + 1
      /\ ran' = <<>> /\ system' = <<>> /\ bound' = Unbound /\ handles' = <<>>
      /\ phase' = "down" \/ (phase' = "import" /\ DiscoveryRefusal = None)
  BY DEF Discover, NothingMounted, Refuse
<1>2. TypeOK'
  <2>1. TypeOK
    BY DEF MountInv
  <2>2. Len(ran') = 0 /\ Len(system') = 0 /\ Len(handles') = 0
    BY <1>1
  <2>3. bound' \in [Capabilities -> AllIds \cup {None}]
    BY <1>1 DEF Unbound
  <2>4. boots' \in 0 .. MaxBoots
    BY <1>1, <2>1, MountAssumption DEF TypeOK
  <2> QED
    BY <1>1, <2>1, <2>2, <2>3, <2>4 DEF TypeOK
<1>3. DiskInv' /\ RecordInv'
  BY <1>1, SoundRests, RecordsRest
<1>4. PhaseInv'
  BY <1>1, DiskRests DEF PhaseInv, Awake
<1>5. RanInv' /\ MadeInv'
  <2>1. /\ \A S : <<>> \in Seq(S)
        /\ Len(<<>>) = 0 /\ DOMAIN <<>> = {}
    OBVIOUS
  <2> QED
    BY <1>1, <2>1 DEF RanInv, MadeInv
<1>6. BoundInv'
  <2>1. ToSet(system') = {} /\ \A k \in Capabilities : bound'[k] = None
    BY <1>1 DEF ToSet, Unbound
  <2> QED
    BY <2>1 DEF BoundInv
<1> QED
  BY <1>2, <1>3, <1>4, <1>5, <1>6 DEF MountInv

LEMMA ImportStep ==
  ASSUME MountInv, Import
  PROVE  MountInv'
<1>1. PICK i \in Pending :
        /\ ran' = Append(ran, disk[i])
        /\ \/ phase' = "down"
           \/ phase' = phase /\ ~ BadManifest(disk[i])
  BY DEF Import, Refuse
<1>2. /\ UNCHANGED <<disk, wanted, off, records, system, bound, handles, meta, served, boots, edits>>
      /\ phase = "import"
  BY DEF Import
<1>3. TypeOK /\ RanInv /\ MadeInv /\ BoundInv /\ PhaseInv
  BY <1>2 DEF MountInv, Awake
<1>4. disk[i] \in OnDisk /\ disk[i].id \in Expanded /\ disk[i].id \notin Ids(ran)
  BY DEF Pending, OnDisk, Range
<1> DEFINE c == disk[i]
<1> HIDE DEF c
<1>5. c \in OnDisk /\ c.id \in Expanded /\ c.id \notin Ids(ran) /\ ran' = Append(ran, c)
  BY <1>1, <1>4 DEF c
<1>6. /\ ran \in Seq(OnDisk) /\ ran' \in Seq(OnDisk) /\ Len(ran') = Len(ran) + 1 /\ Len(ran) \in Nat
      /\ DOMAIN ran = 1 .. Len(ran) /\ DOMAIN ran' = 1 .. (Len(ran) + 1)
      /\ ran'[Len(ran) + 1] = c /\ \A j \in 1 .. Len(ran) : ran'[j] = ran[j]
  BY <1>3, <1>5 DEF RanInv
<1>7. TypeOK'
  <2>1. Len(system) \in Nat /\ Len(system) <= Len(ran)
    BY <1>3 DEF MadeInv
  <2> QED
    BY <1>1, <1>2, <1>3, <1>6, <2>1 DEF TypeOK
<1>8. DiskInv' /\ RecordInv'
  BY <1>2, SoundRests, RecordsRest
<1>9. PhaseInv'
  BY <1>1, <1>2, <1>3, DiskRests DEF PhaseInv, Awake
<1>10. ASSUME phase' = phase, ~ BadManifest(c)
       PROVE  RanInv' /\ MadeInv' /\ BoundInv'
  <2>1. \A j \in DOMAIN ran' : ran'[j].id \in Expanded /\ ~ BadManifest(ran'[j])
    BY <1>3, <1>5, <1>6, <1>10 DEF RanInv
  <2>2. \A j \in DOMAIN ran : ran[j].id # c.id
    BY <1>5 DEF Ids
  <2>3. \A j, k \in DOMAIN ran' : j # k => ran'[j].id # ran'[k].id
    BY <1>3, <1>6, <2>2 DEF RanInv
  <2>4. RanInv'
    BY <1>2, <1>6, <2>1, <2>3, DiskRests DEF RanInv
  <2>5. system = <<>>
    BY <1>2, <1>3 DEF PhaseInv
  <2>6. MadeInv'
    BY <1>2, <1>3, <1>6, <2>5, DiskRests DEF MadeInv
  <2>7. BoundInv'
    BY <1>2, <1>3 DEF BoundInv
  <2> QED
    BY <2>4, <2>6, <2>7
<1>11. Awake' => phase' = phase /\ ~ BadManifest(c)
  BY <1>1 DEF Awake, c
<1> QED
  BY <1>7, <1>8, <1>9, <1>10, <1>11 DEF MountInv

LEMMA GatesStep ==
  ASSUME MountInv, Gates
  PROVE  MountInv'
<1>1. /\ UNCHANGED <<disk, wanted, records, ran, system, bound, handles, served, boots, edits>>
      /\ phase = "import" /\ Pending = {} /\ off' = off \cap Ids(ran)
      /\ phase' = "down" \/ (phase' = "create" /\ ~ GatesRefusal(ran))
  BY DEF Gates, Refuse
<1>2. TypeOK /\ RanInv /\ MadeInv /\ BoundInv /\ PhaseInv
  BY <1>1 DEF MountInv, Awake
<1>3. TypeOK'
  BY <1>1, <1>2 DEF TypeOK
<1>4. DiskInv' /\ RecordInv'
  BY <1>1, SoundRests, RecordsRest
<1>5. \A c \in Mounting : c.id \in Ids(ran)
  BY <1>1 DEF Pending, Mounting, OnDisk, Range
<1>6. PhaseInv'
  <2>1. Mounting' = Mounting /\ DiscoveryRefusal' = DiscoveryRefusal
    BY <1>1, DiskRests
  <2> QED
    BY <1>1, <1>2, <1>5, <2>1 DEF PhaseInv, Awake
<1>7. RanInv' /\ MadeInv' /\ BoundInv'
  BY <1>1, <1>2, RanRests, MadeRests
<1> QED
  BY <1>3, <1>4, <1>6, <1>7 DEF MountInv

(* Cubes with one name on the disk are one cube, while a boot is at work.  *)
LEMMA OneOfAName ==
  ASSUME DiscoveryRefusal = None
  PROVE  /\ \A c, d \in OnDisk : c.id = d.id => c = d
         /\ Requested \subseteq Ids(disk)
         /\ \A c \in Mounting : c.plugin # None => c.plugin \notin DirtyPackages
<1>1. None \notin {"duplicate", "nested", "not on disk", "contract"}
  BY MountAssumption DEF Reasons
<1>2. /\ ~ \E i, j \in DOMAIN disk : i # j /\ disk[i].id = disk[j].id
      /\ Requested \subseteq Ids(disk)
      /\ ~ \E c \in Mounting : c.plugin # None /\ c.plugin \in DirtyPackages
  BY <1>1 DEF DiscoveryRefusal
<1>3. \A c, d \in OnDisk : c.id = d.id => c = d
  BY <1>2 DEF OnDisk, Range
<1> QED
  BY <1>2, <1>3

(* What the rules on one created cube, and on all of them, leave.          *)
LEMMA CreatedByRule ==
  ASSUME NEW c, CreateRefusal(c) = None
  PROVE  ~ BadCommands(c) /\ ~ BadRoutes(c)
<1>1. None \notin {"agent surface", "no provider", "commands", "routes"}
  BY MountAssumption DEF Reasons
<1> QED
  BY <1>1 DEF CreateRefusal

LEMMA LivesByRule ==
  ASSUME RulesRefusal = None
  PROVE  ~ RouteOwnership(system)
<1>1. None \notin {"dead cubes", "public endpoint", "route ownership"}
  BY MountAssumption DEF Reasons
<1> QED
  BY <1>1 DEF RulesRefusal

LEMMA CreateStep ==
  ASSUME MountInv, Create
  PROVE  MountInv'
<1> DEFINE c == ran[Len(system) + 1]
           n == Len(system) + 1
<1>1. /\ UNCHANGED <<disk, wanted, off, records, ran, meta, served, boots, edits>>
      /\ phase = "create" /\ Len(system) < Len(ran)
      /\ \/ phase' = "down" /\ UNCHANGED <<system, bound, handles>>
         \/ /\ CreateRefusal(c) = None
            /\ system' = Append(system, c) /\ handles' = Append(handles, Wired(c))
            /\ bound' = [k \in Capabilities |-> IF k \in c.m.provides THEN c.id ELSE bound[k]]
            /\ phase' = phase
  BY DEF Create, Refuse, Wired
<1>2. TypeOK /\ DiskInv /\ RanInv /\ MadeInv /\ BoundInv /\ PhaseInv
  BY <1>1 DEF MountInv, Awake
<1>3. CASE phase' = "down"
  <2>1. UNCHANGED <<system, bound, handles>> \/ (phase' = phase)
    BY <1>1
  <2>2. UNCHANGED <<system, bound, handles>>
    BY <1>1, <1>3, <2>1
  <2>3. TypeOK'
    BY <1>1, <1>2, <1>3, <2>2 DEF TypeOK
  <2> QED
    BY <1>1, <1>3, <2>2, <2>3, MountRests
<1>4. CASE phase' # "down"
  <2>1. /\ CreateRefusal(c) = None
        /\ system' = Append(system, c) /\ handles' = Append(handles, Wired(c))
        /\ bound' = [k \in Capabilities |-> IF k \in c.m.provides THEN c.id ELSE bound[k]]
        /\ phase' = "create"
    BY <1>1, <1>4
  <2>2. /\ Len(system) \in Nat /\ Len(ran) \in Nat /\ n \in 1 .. Len(ran)
        /\ DOMAIN ran = 1 .. Len(ran) /\ DOMAIN system = 1 .. Len(system)
    BY <1>1, <1>2 DEF RanInv, MadeInv
  <2>3. c \in OnDisk /\ c = ran[n]
    BY <1>2, <2>2 DEF RanInv
  <2>4. \A j \in DOMAIN ran : j # n => ran[j].id # c.id
    BY <1>2, <2>2 DEF RanInv
  <2> HIDE DEF c
  <2>5. Wired(c) \in {Wired(d) : d \in OnDisk}
    BY <2>3
  <2>6. /\ system' \in Seq(OnDisk) /\ Len(system') = n /\ DOMAIN system' = 1 .. n /\ system'[n] = c
        /\ \A j \in 1 .. Len(system) : system'[j] = system[j]
    BY <1>2, <2>1, <2>2, <2>3 DEF MadeInv
  <2>7. /\ handles' \in Seq({Wired(d) : d \in OnDisk}) /\ Len(handles') = n /\ handles'[n] = Wired(c)
        /\ \A j \in 1 .. Len(system) : handles'[j] = handles[j]
    <3> DEFINE S == {Wired(d) : d \in OnDisk}
    <3> HIDE DEF S
    <3>1. handles \in Seq(S) /\ Wired(c) \in S /\ Len(handles) = Len(system)
      BY <1>2, <2>5 DEF MadeInv, S
    <3>2. handles' \in Seq(S) /\ Len(handles') = n /\ handles'[n] = Wired(c)
          /\ \A j \in 1 .. Len(system) : handles'[j] = handles[j]
      BY <2>1, <2>2, <3>1
    <3> QED
      BY <3>2 DEF S
  <2>8. MadeInv'
    <3>1. ASSUME NEW j \in DOMAIN system'
          PROVE  system'[j] = ran[j] /\ handles'[j] = Wired(system'[j]) /\ CreateRefusal(system'[j]) = None
      <4>1. CASE j = n
        BY <2>1, <2>3, <2>6, <2>7, <4>1
      <4>2. CASE j # n
        <5>1. j \in 1 .. Len(system)
          BY <2>2, <2>6, <4>2
        <5> QED
          BY <1>2, <2>2, <2>6, <2>7, <5>1 DEF MadeInv
      <4> QED
        BY <4>1, <4>2
    <3>2. OnDisk' = OnDisk
      BY <1>1, DiskRests
    <3> QED
      BY <1>1, <2>2, <2>6, <2>7, <3>1, <3>2 DEF MadeInv
  <2>9. c.id \in AllIds
    BY <1>2, <2>3 DEF DiskInv, SoundDisk
  <2>10. Ids(system') = Ids(system) \cup {c.id}
    <3>1. \A j \in DOMAIN system' : j = n \/ j \in 1 .. Len(system)
      BY <2>2, <2>6
    <3>2. 1 .. Len(system) \subseteq DOMAIN system' /\ n \in DOMAIN system'
      BY <2>2, <2>6
    <3> QED
      BY <2>2, <2>6, <3>1, <3>2 DEF Ids
  <2>11. ToSet(system') = ToSet(system) \cup {c}
    <3>1. \A j \in DOMAIN system' : j = n \/ j \in 1 .. Len(system)
      BY <2>2, <2>6
    <3>2. 1 .. Len(system) \subseteq DOMAIN system' /\ n \in DOMAIN system'
      BY <2>2, <2>6
    <3> QED
      BY <2>2, <2>6, <3>1, <3>2 DEF ToSet
  <2>12. \A d \in ToSet(system) : \E j \in DOMAIN ran : j # n /\ d = ran[j]
    <3> TAKE d \in ToSet(system)
    <3>1. PICK j \in DOMAIN system : d = system[j]
      BY DEF ToSet
    <3>2. j # n /\ j \in DOMAIN ran /\ d = ran[j]
      BY <1>2, <2>2, <3>1 DEF MadeInv
    <3> QED
      BY <3>2
  <2>13. \A d \in ToSet(system) : d.id # c.id /\ d.m.provides \cap c.m.provides = {}
    <3> TAKE d \in ToSet(system)
    <3>1. PICK j \in DOMAIN ran : j # n /\ d = ran[j]
      BY <2>12
    <3>2. ~ GatesRefusal(ran)
      BY <1>1, <1>2 DEF PhaseInv
    <3>3. d.m.provides \cap c.m.provides = {}
      BY <2>2, <2>3, <3>1, <3>2 DEF GatesRefusal
    <3> QED
      BY <2>4, <3>1, <3>3
  <2>14. \A k \in Capabilities : bound[k] # c.id
    <3> TAKE k \in Capabilities
    <3>1. bound[k] \in Ids(system) \cup {None}
      BY <1>2 DEF BoundInv
    <3>2. \A j \in DOMAIN system : system[j] \in ToSet(system)
      BY DEF ToSet
    <3>3. c.id \notin Ids(system)
      BY <2>13, <3>2 DEF Ids
    <3>4. c.id # None
      BY <2>9, MountAssumption
    <3> QED
      BY <3>1, <3>3, <3>4
  <2>15. BoundInv'
    <3>1. ASSUME NEW k \in Capabilities
          PROVE  /\ bound'[k] \in Ids(system)' \cup {None}
                 /\ \A d \in ToSet(system)' : k \in d.m.provides <=> bound'[k] = d.id
      <4>1. bound'[k] = IF k \in c.m.provides THEN c.id ELSE bound[k]
        BY <2>1
      <4>2. bound[k] \in Ids(system) \cup {None} /\ \A d \in ToSet(system) : k \in d.m.provides <=> bound[k] = d.id
        BY <1>2 DEF BoundInv
      <4>3. bound'[k] \in Ids(system') \cup {None}
        BY <2>10, <4>1, <4>2
      <4>4. k \in c.m.provides <=> bound'[k] = c.id
        BY <2>14, <4>1
      <4>5. ASSUME NEW d \in ToSet(system) PROVE k \in d.m.provides <=> bound'[k] = d.id
        BY <2>13, <4>1, <4>2
      <4> QED
        BY <2>11, <4>3, <4>4, <4>5
    <3> QED
      BY <3>1 DEF BoundInv
  <2>16. TypeOK'
    <3>1. bound' \in [Capabilities -> AllIds \cup {None}]
      BY <1>2, <2>1, <2>9 DEF TypeOK
    <3> QED
      BY <1>1, <1>2, <2>1, <2>2, <2>6, <2>7, <3>1 DEF TypeOK
  <2>17. RanInv' /\ DiskInv' /\ RecordInv'
    BY <1>1, <1>2, RanRests, SoundRests, RecordsRest
  <2>18. PhaseInv'
    <3>1. Mounting' = Mounting /\ DiscoveryRefusal' = DiscoveryRefusal
      BY <1>1, DiskRests
    <3> QED
      BY <1>1, <1>2, <2>1, <3>1 DEF PhaseInv, Awake
  <2> QED
    BY <2>8, <2>15, <2>16, <2>17, <2>18 DEF MountInv
<1> QED
  BY <1>3, <1>4

LEMMA LifeRulesStep ==
  ASSUME MountInv, LifeRules
  PROVE  MountInv'
<1>1. /\ UNCHANGED <<disk, wanted, off, records, ran, system, bound, handles, served, boots, edits>>
      /\ phase = "create" /\ Len(system) = Len(ran)
      /\ phase' = "down" \/ (phase' = "drift" /\ RulesRefusal = None)
  BY DEF LifeRules, Refuse
<1>2. TypeOK /\ RanInv /\ MadeInv /\ BoundInv /\ PhaseInv
  BY <1>1 DEF MountInv, Awake
<1>3. TypeOK'
  BY <1>1, <1>2 DEF TypeOK
<1>4. DiskInv' /\ RecordInv'
  BY <1>1, SoundRests, RecordsRest
<1>5. PhaseInv'
  <2>1. Mounting' = Mounting /\ DiscoveryRefusal' = DiscoveryRefusal /\ RulesRefusal' = RulesRefusal
    BY <1>1, DiskRests, RulesRest
  <2> QED
    BY <1>1, <1>2, <2>1 DEF PhaseInv, Awake
<1>6. RanInv' /\ MadeInv' /\ BoundInv'
  BY <1>1, <1>2, RanRests, MadeRests
<1> QED
  BY <1>3, <1>4, <1>5, <1>6 DEF MountInv

(* The record of a cube whose version is tracked.                          *)
Fresh(c) == [version |-> c.m.version, hash |-> SchemaHash(c)]

LEMMA LeastPlace ==
  ASSUME NEW S \in SUBSET Nat, S # {}
  PROVE  Min(S) \in S
BY LeastOf DEF Min

LEMMA TrackedCubes ==
  ASSUME MountInv, Awake, NEW c \in Tracked
  PROVE  /\ c \in OnDisk /\ c.id \in AllIds /\ c.m.version \in Nat /\ c.m.version # None
         /\ Fresh(c) \in Records /\ Fresh(c) # None
<1>1. system \in Seq(OnDisk) /\ SoundDisk(OnDisk)
  BY DEF MountInv, MadeInv, DiskInv
<1>2. \A i \in DOMAIN system : system[i] \in OnDisk /\ i \in Nat
  BY <1>1
<1>3. c \in OnDisk /\ c.m.version # None
  BY <1>2 DEF Tracked, ToSet
<1>4. c.id \in AllIds /\ c.m.version \in Nat /\ c.m.shape \in Nat
  BY <1>1, <1>3 DEF SoundDisk
<1>5. \A i \in DOMAIN system : system[i].id \in AllIds
  BY <1>1, <1>2 DEF SoundDisk
<1>6. Relation(c) \in AllIds \cup {None}
  <2> DEFINE live == {i \in DOMAIN system : /\ IsEnabled(system[i].id)
                                            /\ \E l \in LinksOf(c) : system[i].m.entity = l.to}
  <2>1. live # {} => Min(live) \in live
    BY <1>2, LeastPlace
  <2>2. live # {} => system[Min(live)].id \in AllIds
    BY <1>5, <2>1
  <2>3. c.m.relation \in Ids(system) => c.m.relation \in AllIds
    BY <1>5 DEF Ids
  <2>4. Relation(c) = IF c.m.relation # None
                      THEN IF c.m.relation \in Ids(system) THEN c.m.relation ELSE None
                      ELSE IF live = {} THEN None ELSE system[Min(live)].id
    BY DEF Relation
  <2> HIDE DEF live
  <2> QED
    BY <2>2, <2>3, <2>4
<1>7. SchemaHash(c) \in SchemaHashes
  <2>1. (LinksOf(c) # {}) \in BOOLEAN
    OBVIOUS
  <2> QED
    BY <1>4, <1>6, <2>1 DEF SchemaHash, SchemaHashes
<1>8. Fresh(c) \in Records
  BY <1>4, <1>7 DEF Fresh, Records
<1>9. None \notin Records
  BY MountAssumption
<1> QED
  BY <1>3, <1>4, <1>8, <1>9

LEMMA DriftStep ==
  ASSUME MountInv, Drift
  PROVE  MountInv'
<1>1. /\ UNCHANGED <<disk, wanted, off, ran, system, bound, handles, boots, edits>> /\ phase = "drift"
      /\ \/ phase' = "down" /\ UNCHANGED <<records, served>>
         \/ /\ phase' = "serving" /\ \A c \in Tracked : ~ Drifted(c)
            /\ records' = [id \in AllIds |->
                 IF id \in {c.id : c \in Tracked} THEN Fresh(CHOOSE c \in Tracked : c.id = id) ELSE Recorded(id)]
            /\ served' = served \cup {<<c.id, c.m.version, SchemaHash(c)>> : c \in Tracked}
  BY DEF Drift, Refuse, Fresh
<1>2. TypeOK /\ DiskInv /\ RecordInv /\ RanInv /\ MadeInv /\ BoundInv /\ PhaseInv /\ Awake
  BY <1>1 DEF MountInv, Awake
<1>3. CASE phase' = "down"
  <2>1. UNCHANGED <<records, served>>
    BY <1>1, <1>3
  <2>2. TypeOK'
    BY <1>1, <1>2, <1>3, <2>1 DEF TypeOK
  <2> QED
    BY <1>1, <1>3, <2>1, <2>2, MountRests
<1>4. CASE phase' # "down"
  <2>1. /\ phase' = "serving" /\ \A c \in Tracked : ~ Drifted(c)
        /\ records' = [id \in AllIds |->
             IF id \in {c.id : c \in Tracked} THEN Fresh(CHOOSE c \in Tracked : c.id = id) ELSE Recorded(id)]
        /\ served' = served \cup {<<c.id, c.m.version, SchemaHash(c)>> : c \in Tracked}
    BY <1>1, <1>4
  <2>2. \A c \in Tracked : /\ c \in OnDisk /\ c.id \in AllIds /\ c.m.version \in Nat /\ c.m.version # None
                           /\ Fresh(c) \in Records /\ Fresh(c) # None
    BY <1>2, TrackedCubes
  <2>3. \A c, d \in OnDisk : c.id = d.id => c = d
    BY <1>2, OneOfAName DEF PhaseInv
  <2>4. ASSUME NEW c \in Tracked PROVE records'[c.id] = Fresh(c)
    <3>1. \A d \in Tracked : d.id = c.id => d = c
      BY <2>2, <2>3
    <3>2. (CHOOSE d \in Tracked : d.id = c.id) = c
      BY <3>1
    <3> QED
      BY <2>1, <2>2, <3>2
  <2>5. ASSUME NEW id \in AllIds, \A c \in Tracked : c.id # id PROVE records'[id] = Recorded(id)
    BY <2>1, <2>5
  <2>6. \A id \in AllIds : records[id] \in Records \cup {None} /\ Shipped[id] \in Records \cup {None}
    BY <1>2, MountAssumption DEF RecordInv
  <2>7. \A id \in AllIds : Recorded(id) \in Records \cup {None}
    BY <2>6 DEF Recorded
  <2>8. records' \in [AllIds -> Records \cup {None}]
    <3>1. \A id \in AllIds : records'[id] \in Records \cup {None}
      BY <2>2, <2>4, <2>5, <2>7
    <3> QED
      BY <2>1, <3>1
  <2>9. \A r \in Records : r.version \in Nat
    BY DEF Records
  <2>10. ASSUME NEW id \in AllIds, Recorded(id) # None
         PROVE  /\ records'[id] # None /\ Recorded(id).version <= records'[id].version
                /\ Recorded(id).version = records'[id].version => Recorded(id).hash = records'[id].hash
    <3>1. CASE \A c \in Tracked : c.id # id
      BY <2>5, <2>7, <2>9, <2>10, <3>1
    <3>2. ASSUME NEW c \in Tracked, c.id = id
          PROVE  /\ records'[id] # None /\ Recorded(id).version <= records'[id].version
                 /\ Recorded(id).version = records'[id].version => Recorded(id).hash = records'[id].hash
      <4>1. records'[id] = Fresh(c) /\ Fresh(c) # None
        BY <2>2, <2>4, <3>2
      <4>2. Fresh(c).version = c.m.version /\ Fresh(c).hash = SchemaHash(c)
        BY DEF Fresh
      <4>3. Recorded(id).version <= c.m.version
        BY <1>2, <2>2, <2>10, <3>2 DEF DiskInv
      <4>4. Recorded(id).version = c.m.version => Recorded(id).hash = SchemaHash(c)
        BY <2>1, <2>10, <3>2 DEF Drifted
      <4> QED
        BY <4>1, <4>2, <4>3, <4>4
    <3> QED
      BY <3>1, <3>2
  <2>11. ASSUME NEW id \in AllIds, NEW v \in Nat, NEW h, Recorded(id) # None, v <= Recorded(id).version,
                v = Recorded(id).version => h = Recorded(id).hash
         PROVE  Agrees(records'[id], v, h)
    <3>1. records'[id] \in Records /\ Recorded(id) \in Records
      BY <2>7, <2>8, <2>10, <2>11
    <3>2. records'[id].version \in Nat /\ Recorded(id).version \in Nat
      BY <2>9, <3>1
    <3>3. records'[id] # None /\ v <= records'[id].version /\ (v = records'[id].version => h = records'[id].hash)
      BY <2>10, <2>11, <3>2
    <3> QED
      BY <3>3 DEF Agrees
  <2>12. ASSUME NEW s \in served PROVE s[1] \in AllIds /\ s[2] \in Nat /\ Agrees(records'[s[1]], s[2], s[3])
    <3>1. s[1] \in AllIds /\ s[2] \in Nat /\ Agrees(records[s[1]], s[2], s[3])
      BY <1>2 DEF RecordInv
    <3>2. Recorded(s[1]) = records[s[1]] /\ records[s[1]] # None
      BY <3>1 DEF Agrees, Recorded
    <3>3. Recorded(s[1]) # None /\ s[2] <= Recorded(s[1]).version
          /\ (s[2] = Recorded(s[1]).version => s[3] = Recorded(s[1]).hash)
      BY <3>1, <3>2 DEF Agrees
    <3> QED
      BY <2>11, <3>1, <3>3
  <2>13. ASSUME NEW c \in Tracked PROVE Agrees(records'[c.id], c.m.version, SchemaHash(c))
    <3>1. records'[c.id] = Fresh(c) /\ Fresh(c) # None /\ c.m.version \in Nat
      BY <2>2, <2>4
    <3>2. Fresh(c).version = c.m.version /\ Fresh(c).hash = SchemaHash(c)
      BY DEF Fresh
    <3>3. records'[c.id] # None /\ c.m.version <= records'[c.id].version
          /\ (c.m.version = records'[c.id].version => SchemaHash(c) = records'[c.id].hash)
      BY <3>1, <3>2
    <3> QED
      BY <3>3 DEF Agrees
  <2>14. ASSUME NEW id \in AllIds, Shipped[id] # None PROVE Agrees(records'[id], Shipped[id].version, Shipped[id].hash)
    <3>1. Shipped[id].version \in Nat
      BY <2>6, <2>9, <2>14
    <3>2. Recorded(id) # None
      BY <2>14 DEF Recorded
    <3>3. CASE records[id] = None
      <4>1. Recorded(id) = Shipped[id]
        BY <3>3 DEF Recorded
      <4> QED
        BY <2>11, <3>1, <3>2, <4>1
    <3>4. CASE records[id] # None
      <4>1. Recorded(id) = records[id]
        BY <3>4 DEF Recorded
      <4>2. Agrees(records[id], Shipped[id].version, Shipped[id].hash)
        BY <1>2, <2>14, <3>4 DEF RecordInv
      <4>3. Shipped[id].version <= Recorded(id).version
            /\ (Shipped[id].version = Recorded(id).version => Shipped[id].hash = Recorded(id).hash)
        BY <4>1, <4>2 DEF Agrees
      <4> QED
        BY <2>11, <3>1, <3>2, <4>3
    <3> QED
      BY <3>3, <3>4
  <2> DEFINE committed == {<<id, Shipped[id].version, Shipped[id].hash>> : id \in {i \in AllIds : Shipped[i] # None}}
             new == {<<c.id, c.m.version, SchemaHash(c)>> : c \in Tracked}
  <2>15. \A s \in new : \E c \in Tracked : s[1] = c.id /\ s[2] = c.m.version /\ s[3] = SchemaHash(c)
    OBVIOUS
  <2>16. \A s \in committed : \E id \in AllIds : /\ Shipped[id] # None
                                                 /\ s[1] = id /\ s[2] = Shipped[id].version /\ s[3] = Shipped[id].hash
    OBVIOUS
  <2>17. served' = served \cup new
    BY <2>1
  <2> HIDE DEF committed, new
  <2>18. \A s \in served' \cup committed : Agrees(records'[s[1]], s[2], s[3])
    <3>1. \A s \in new : Agrees(records'[s[1]], s[2], s[3])
      BY <2>13, <2>15
    <3>2. \A s \in committed : Agrees(records'[s[1]], s[2], s[3])
      BY <2>14, <2>16
    <3> QED
      BY <2>12, <2>17, <3>1, <3>2
  <2>19. ASSUME NEW s \in new, NEW t \in served' \cup committed, s[1] = t[1], s[2] = t[2] PROVE s[3] = t[3]
    <3>1. PICK c \in Tracked : s[1] = c.id /\ s[2] = c.m.version /\ s[3] = SchemaHash(c)
      BY <2>15
    <3>2. records'[c.id] = Fresh(c)
      BY <2>4
    <3>3. Fresh(c).version = c.m.version /\ Fresh(c).hash = SchemaHash(c)
      BY DEF Fresh
    <3>4. t[2] = records'[t[1]].version => t[3] = records'[t[1]].hash
      BY <2>18 DEF Agrees
    <3> QED
      BY <2>19, <3>1, <3>2, <3>3, <3>4
  <2>20. \A s, t \in served \cup committed : s[1] = t[1] /\ s[2] = t[2] => s[3] = t[3]
    BY <1>2 DEF RecordInv, OneSchemaPerVersion, committed
  <2>21. OneSchemaPerVersion'
    <3>1. \A s, t \in served' \cup committed : s[1] = t[1] /\ s[2] = t[2] => s[3] = t[3]
      BY <2>17, <2>19, <2>20
    <3> QED
      BY <3>1 DEF OneSchemaPerVersion, committed
  <2>22. RecordInv'
    <3>1. \A s \in served' : s[1] \in AllIds /\ s[2] \in Nat /\ Agrees(records'[s[1]], s[2], s[3])
      BY <2>2, <2>12, <2>15, <2>17, <2>18
    <3>2. \A id \in AllIds : Shipped[id] # None /\ records'[id] # None
                             => Agrees(records'[id], Shipped[id].version, Shipped[id].hash)
      BY <2>14
    <3> QED
      BY <2>8, <2>21, <3>1, <3>2 DEF RecordInv
  <2>23. ASSUME NEW c \in OnDisk, c.m.version # None, Recorded(c.id)' # None
         PROVE  Recorded(c.id)'.version <= c.m.version
    <3>1. c.id \in AllIds /\ c.m.version \in Nat
      BY <1>2, <2>23 DEF DiskInv, SoundDisk
    <3>2. CASE \A d \in Tracked : d.id # c.id
      <4>1. records'[c.id] = Recorded(c.id)
        BY <2>5, <3>1, <3>2
      <4>2. Recorded(c.id)' = Recorded(c.id)
        BY <4>1 DEF Recorded
      <4> QED
        BY <1>2, <2>23, <4>2 DEF DiskInv
    <3>3. ASSUME NEW d \in Tracked, d.id = c.id
          PROVE  Recorded(c.id)'.version <= c.m.version
      <4>1. d = c
        BY <2>2, <2>3, <3>3
      <4>2. records'[c.id] = Fresh(c) /\ Fresh(c) # None
        BY <2>2, <2>4, <3>3, <4>1
      <4>3. Recorded(c.id)' = Fresh(c)
        BY <4>2 DEF Recorded
      <4>4. Fresh(c).version = c.m.version
        BY DEF Fresh
      <4> QED
        BY <3>1, <4>3, <4>4
    <3> QED
      BY <3>2, <3>3
  <2>24. OnDisk' = OnDisk /\ Mounting' = Mounting /\ DiscoveryRefusal' = DiscoveryRefusal
         /\ RulesRefusal' = RulesRefusal
    BY <1>1, DiskRests, RulesRest
  <2>25. DiskInv'
    BY <1>2, <2>23, <2>24 DEF DiskInv
  <2>26. TypeOK'
    BY <1>1, <1>2, <2>1, <2>8 DEF TypeOK
  <2>27. PhaseInv'
    BY <1>1, <1>2, <2>1, <2>24 DEF PhaseInv, Awake
  <2>28. RanInv' /\ MadeInv' /\ BoundInv'
    BY <1>1, <1>2, RanRests, MadeRests
  <2> QED
    BY <2>22, <2>25, <2>26, <2>27, <2>28 DEF MountInv
<1> QED
  BY <1>3, <1>4

(* An upgrade changes the shape and the version of a cube and nothing else.*)
LEMMA UpgradedCube ==
  ASSUME NEW c, Whole(c), NEW bump
  PROVE  LET d == Upgraded(c, bump)
         IN /\ Whole(d) /\ d.id = c.id /\ d.commands = c.commands /\ d.m.uses = c.m.uses
            /\ d.m.shape = c.m.shape + 1 /\ d.m.version = c.m.version + bump
<1> DEFINE m == c.m
           e == [m EXCEPT !.shape = m.shape + 1]
           f == [e EXCEPT !.version = e.version + bump]
           d == Upgraded(c, bump)
<1>1. /\ c = [id |-> c.id, plugin |-> c.plugin, deep |-> c.deep, clean |-> c.clean, loads |-> c.loads,
              group |-> c.group, m |-> m, ends |-> c.ends, commands |-> c.commands, returns |-> c.returns]
      /\ m = [name |-> m.name, parent |-> m.parent, wellFormed |-> m.wellFormed, tables |-> m.tables,
              entity |-> m.entity, version |-> m.version, shape |-> m.shape, relation |-> m.relation,
              required |-> m.required, requiresAuth |-> m.requiresAuth, agent |-> m.agent,
              holds |-> m.holds, provides |-> m.provides, uses |-> m.uses,
              permissions |-> m.permissions, routes |-> m.routes]
  BY DEF Whole
<1>2. d = [[c EXCEPT !.m = e] EXCEPT !.m = f]
  BY <1>1 DEF Upgraded
<1> HIDE DEF d, m
<1>3. e = [name |-> m.name, parent |-> m.parent, wellFormed |-> m.wellFormed, tables |-> m.tables,
           entity |-> m.entity, version |-> m.version, shape |-> m.shape + 1, relation |-> m.relation,
           required |-> m.required, requiresAuth |-> m.requiresAuth, agent |-> m.agent,
           holds |-> m.holds, provides |-> m.provides, uses |-> m.uses,
           permissions |-> m.permissions, routes |-> m.routes]
  BY <1>1
<1> HIDE DEF e
<1>4. f = [name |-> m.name, parent |-> m.parent, wellFormed |-> m.wellFormed, tables |-> m.tables,
           entity |-> m.entity, version |-> m.version + bump, shape |-> m.shape + 1, relation |-> m.relation,
           required |-> m.required, requiresAuth |-> m.requiresAuth, agent |-> m.agent,
           holds |-> m.holds, provides |-> m.provides, uses |-> m.uses,
           permissions |-> m.permissions, routes |-> m.routes]
  BY <1>3
<1> HIDE DEF f
<1>5. d = [id |-> c.id, plugin |-> c.plugin, deep |-> c.deep, clean |-> c.clean, loads |-> c.loads,
           group |-> c.group, m |-> f, ends |-> c.ends, commands |-> c.commands, returns |-> c.returns]
  BY <1>1, <1>2
<1>6. /\ d.id = c.id /\ d.plugin = c.plugin /\ d.deep = c.deep /\ d.clean = c.clean /\ d.loads = c.loads
      /\ d.group = c.group /\ d.m = f /\ d.ends = c.ends /\ d.commands = c.commands /\ d.returns = c.returns
  BY <1>5
<1>7. /\ f.name = m.name /\ f.parent = m.parent /\ f.wellFormed = m.wellFormed /\ f.tables = m.tables
      /\ f.entity = m.entity /\ f.version = m.version + bump /\ f.shape = m.shape + 1 /\ f.relation = m.relation
      /\ f.required = m.required /\ f.requiresAuth = m.requiresAuth /\ f.agent = m.agent
      /\ f.holds = m.holds /\ f.provides = m.provides /\ f.uses = m.uses
      /\ f.permissions = m.permissions /\ f.routes = m.routes
  BY <1>4
<1>8. Whole(d)
  BY <1>4, <1>5, <1>6, <1>7 DEF Whole
<1>9. d.m.uses = c.m.uses /\ d.m.shape = c.m.shape + 1 /\ d.m.version = c.m.version + bump
  BY <1>6, <1>7 DEF m
<1> QED
  BY <1>6, <1>8, <1>9 DEF d

(* Between boots: what is on disk stays sound.                             *)
LEMMA EditStep ==
  ASSUME MountInv, phase = "down", DiskInv', TypeOK',
         UNCHANGED <<records, phase, served>>
  PROVE  MountInv'
BY RecordsRest DEF MountInv, PhaseInv, Awake

LEMMA DeleteStep ==
  ASSUME MountInv, NEW id \in AllIds, DeleteCube(id)
  PROVE  MountInv'
<1>1. /\ UNCHANGED <<wanted, off, records, phase, ran, system, bound, handles, meta, refused, served, boots>>
      /\ phase = "down" /\ edits < MaxEdits /\ edits' = edits + 1
      /\ disk' = Restrict(disk, {i \in DOMAIN disk : disk[i].id # id /\ Above(disk[i].id) # id})
  BY DEF DeleteCube, Edit
<1>2. OnDisk' = {c \in OnDisk : c.id # id /\ Above(c.id) # id}
  BY <1>1 DEF OnDisk, Range, Restrict
<1>3. TypeOK /\ DiskInv
  BY DEF MountInv
<1>4. ASSUME NEW c \in OnDisk', c.id.parent # <<>> PROVE \E p \in OnDisk' : p.id = Above(c.id)
  <2>1. c \in OnDisk /\ Above(c.id) # id
    BY <1>2
  <2>2. PICK p \in OnDisk : p.id = Above(c.id)
    BY <1>3, <1>4, <2>1 DEF DiskInv, SoundDisk
  <2>3. Above(p.id).name = <<>>
    BY <2>2 DEF Above
  <2>4. id.name # <<>>
    BY MountAssumption
  <2>5. p \in OnDisk'
    BY <1>2, <2>1, <2>2, <2>3, <2>4
  <2> QED
    BY <2>2, <2>5
<1>5. SoundDisk(OnDisk')
  BY <1>2, <1>3, <1>4 DEF DiskInv, SoundDisk
<1>6. DiskInv'
  BY <1>1, <1>2, <1>3, <1>5 DEF DiskInv, Recorded
<1>7. TypeOK'
  BY <1>1, <1>3, MountAssumption DEF TypeOK
<1> QED
  BY <1>1, <1>6, <1>7, EditStep

LEMMA UpgradeStep ==
  ASSUME MountInv, NEW i \in DOMAIN disk, NEW bump \in {0, 1}, Upgrade(i, bump)
  PROVE  MountInv'
<1> DEFINE old == disk[i]
           new == Upgraded(old, bump)
<1>1. /\ UNCHANGED <<wanted, off, records, phase, ran, system, bound, handles, meta, refused, served, boots>>
      /\ phase = "down" /\ edits < MaxEdits /\ edits' = edits + 1 /\ old.m.version # None
      /\ disk' = [disk EXCEPT ![i] = new]
  BY DEF Upgrade, Edit
<1>2. TypeOK /\ DiskInv /\ SoundDisk(OnDisk)
  BY DEF MountInv, DiskInv
<1>3. \A j \in DOMAIN disk : disk[j] \in OnDisk
  BY DEF OnDisk, Range
<1>4. Whole(old) /\ old \in OnDisk /\ old.m.version \in Nat /\ old.m.shape \in Nat
  BY <1>1, <1>2, <1>3 DEF SoundDisk
<1>5. /\ Whole(new) /\ new.id = old.id /\ new.commands = old.commands /\ new.m.uses = old.m.uses
      /\ new.m.shape = old.m.shape + 1 /\ new.m.version = old.m.version + bump
  BY <1>4, UpgradedCube
<1> HIDE DEF new, old
<1>6. OnDisk' = {disk'[j] : j \in DOMAIN disk}
  BY <1>1 DEF OnDisk, Range
<1>7. \A j \in DOMAIN disk : disk'[j] = IF j = i THEN new ELSE disk[j]
  BY <1>1
<1>8. new.m.version \in Nat /\ new.m.shape \in Nat /\ old.m.version <= new.m.version
  BY <1>4, <1>5
(* Each cube is one that was there, or the new one in the place of the old.*)
<1>9. \A c \in OnDisk' : \E d \in OnDisk : /\ d.id = c.id /\ d.commands = c.commands /\ d.m.uses = c.m.uses
                                           /\ c = d \/ (c = new /\ d = old)
  <2> TAKE c \in OnDisk'
  <2>1. PICK j \in DOMAIN disk : c = disk'[j]
    BY <1>6
  <2>2. CASE j = i
    BY <1>4, <1>5, <1>7, <2>1, <2>2
  <2>3. CASE j # i
    BY <1>3, <1>7, <2>1, <2>3
  <2> QED
    BY <2>2, <2>3
<1>10. \A d \in OnDisk : \E c \in OnDisk' : c.id = d.id
  <2> TAKE d \in OnDisk
  <2>1. PICK j \in DOMAIN disk : d = disk[j]
    BY DEF OnDisk, Range
  <2>2. disk'[j].id = d.id /\ disk'[j] \in OnDisk'
    BY <1>5, <1>6, <1>7, <2>1 DEF old
  <2> QED
    BY <2>2
<1>11. SoundDisk(OnDisk')
  <2>1. ASSUME NEW c \in OnDisk'
        PROVE  /\ Whole(c) /\ c.id \in AllIds /\ c.m.uses \subseteq Capabilities
               /\ c.m.version \in Nat \cup {None} /\ c.m.shape \in Nat
               /\ c.id.parent # <<>> => \E p \in OnDisk' : p.id = Above(c.id)
    <3>1. PICK d \in OnDisk : /\ d.id = c.id /\ d.m.uses = c.m.uses
                              /\ c = d \/ (c = new /\ d = old)
      BY <1>9
    <3>2. /\ Whole(d) /\ d.id \in AllIds /\ d.m.uses \subseteq Capabilities
          /\ d.m.version \in Nat \cup {None} /\ d.m.shape \in Nat
          /\ d.id.parent # <<>> => \E p \in OnDisk : p.id = Above(d.id)
      BY <1>2 DEF SoundDisk
    <3>3. Whole(c) /\ c.m.version \in Nat \cup {None} /\ c.m.shape \in Nat
      BY <1>5, <1>8, <3>1, <3>2
    <3>4. c.id.parent # <<>> => \E p \in OnDisk' : p.id = Above(c.id)
      BY <1>10, <3>1, <3>2
    <3> QED
      BY <3>1, <3>2, <3>3, <3>4
  <2>2. ASSUME NEW c \in OnDisk', NEW d \in OnDisk', NEW j \in ToSet(c.commands), NEW k \in ToSet(d.commands),
               j.name = k.name
        PROVE  j.cube = k.cube
    <3>1. PICK e \in OnDisk : e.commands = c.commands
      BY <1>9
    <3>2. PICK f \in OnDisk : f.commands = d.commands
      BY <1>9
    <3> QED
      BY <1>2, <2>2, <3>1, <3>2 DEF SoundDisk
  <2> QED
    BY <2>1, <2>2 DEF SoundDisk
<1>12. ASSUME NEW c \in OnDisk', c.m.version # None, Recorded(c.id) # None
       PROVE  Recorded(c.id).version <= c.m.version
  <2>1. PICK d \in OnDisk : d.id = c.id /\ (c = d \/ (c = new /\ d = old))
    BY <1>9
  <2>2. CASE c = d
    BY <1>2, <1>12, <2>2 DEF DiskInv
  <2>3. CASE c = new /\ d = old
    <3>1. Recorded(c.id).version <= old.m.version
      BY <1>1, <1>2, <1>12, <2>1, <2>3 DEF DiskInv, old
    <3>2. Recorded(c.id) \in Records
      <4>1. c.id \in AllIds
        BY <1>2, <2>1 DEF SoundDisk
      <4> QED
        BY <1>12, <4>1, MountAssumption DEF MountInv, RecordInv, Recorded
    <3>3. Recorded(c.id).version \in Nat
      BY <3>2 DEF Records
    <3> QED
      BY <1>4, <1>8, <2>3, <3>1, <3>3
  <2> QED
    BY <2>1, <2>2, <2>3
<1>13. DiskInv'
  BY <1>1, <1>11, <1>12 DEF DiskInv, Recorded
<1>14. TypeOK'
  BY <1>1, <1>2, MountAssumption DEF TypeOK
<1> QED
  BY <1>1, <1>13, <1>14, EditStep

LEMMA MountInit == Init => MountInv
<1> SUFFICES ASSUME Init PROVE MountInv
  OBVIOUS
<1>1. /\ disk \in Layouts /\ off = {} /\ records = NoRecords /\ served = {} /\ phase = "down"
      /\ ran = <<>> /\ system = <<>> /\ bound = Unbound /\ handles = <<>> /\ boots = 0 /\ edits = 0
  BY DEF Init
<1>2. TypeOK
  <2>1. Len(system) = 0 /\ Len(ran) = 0 /\ Len(handles) = 0
    BY <1>1
  <2>2. bound \in [Capabilities -> AllIds \cup {None}]
    BY <1>1 DEF Unbound
  <2>3. 0 \in 0 .. MaxBoots /\ 0 \in 0 .. MaxEdits
    BY MountAssumption
  <2> QED
    BY <1>1, <2>1, <2>2, <2>3 DEF TypeOK, NoRecords
<1>3. records = [id \in AllIds |-> None]
  BY <1>1 DEF NoRecords
<1>4. DiskInv
  <2>1. \A c \in OnDisk : c.id \in AllIds
    BY <1>1, MountAssumption DEF OnDisk, SoundDisk
  <2>2. \A c \in OnDisk : Recorded(c.id) = Shipped[c.id]
    BY <1>3, <2>1 DEF Recorded
  <2>3. /\ SoundDisk(OnDisk)
        /\ \A c \in OnDisk : c.m.version # None /\ Shipped[c.id] # None => Shipped[c.id].version <= c.m.version
    BY <1>1, MountAssumption DEF OnDisk
  <2> QED
    BY <2>2, <2>3 DEF DiskInv
<1>5. RecordInv
  <2>1. OneSchemaPerVersion
    <3> DEFINE committed == {<<id, Shipped[id].version, Shipped[id].hash>> : id \in {i \in AllIds : Shipped[i] # None}}
    <3>1. \A s \in committed : \E id \in AllIds : s[1] = id /\ s[3] = Shipped[id].hash
      OBVIOUS
    <3> HIDE DEF committed
    <3>2. \A s, t \in served \cup committed : s[1] = t[1] /\ s[2] = t[2] => s[3] = t[3]
      BY <1>1, <3>1
    <3> QED
      BY <3>2 DEF OneSchemaPerVersion, committed
  <2> QED
    BY <1>1, <1>3, <2>1 DEF RecordInv
<1>6. PhaseInv
  BY <1>1 DEF PhaseInv, Awake
<1> QED
  BY <1>1, <1>2, <1>4, <1>5, <1>6 DEF MountInv, Awake

LEMMA MountStep ==
  ASSUME MountInv, [Next]_vars
  PROVE  MountInv'
<1>1. CASE UNCHANGED vars
  <2>1. UNCHANGED <<disk, wanted, off, records, phase, ran, system, bound, handles, served, boots, edits>>
    BY <1>1 DEF vars
  <2>2. TypeOK'
    BY <2>1 DEF MountInv, TypeOK
  <2> QED
    BY <2>1, <2>2, MountRests
<1>2. ASSUME NEW id \in AllIds, SetSwitch(id) PROVE MountInv'
  <2>1. /\ UNCHANGED <<disk, wanted, records, phase, ran, system, bound, handles, served, boots, edits>>
        /\ off' \subseteq off \cup {id}
    BY <1>2 DEF SetSwitch
  <2>2. TypeOK'
    BY <2>1 DEF MountInv, TypeOK
  <2> QED
    BY <2>1, <2>2, MountRests
<1>3. CASE Stop
  <2>1. /\ UNCHANGED <<disk, wanted, off, records, ran, system, bound, handles, served, boots, edits>>
        /\ phase' = "down"
    BY <1>3 DEF Stop
  <2>2. TypeOK'
    BY <2>1 DEF MountInv, TypeOK
  <2> QED
    BY <2>1, <2>2, MountRests
<1>4. ASSUME NEW w \in Wanted, Want(w) PROVE MountInv'
  <2>1. /\ UNCHANGED <<disk, off, records, phase, ran, system, bound, handles, served, boots>>
        /\ phase = "down" /\ edits < MaxEdits /\ edits' = edits + 1
    BY <1>4 DEF Want, Edit
  <2>2. TypeOK'
    BY <2>1, MountAssumption DEF MountInv, TypeOK
  <2>3. DiskInv'
    BY <2>1, SoundRests
  <2> QED
    BY <2>1, <2>2, <2>3, EditStep
<1> QED
  BY <1>1, <1>2, <1>3, <1>4, DiscoverStep, ImportStep, GatesStep, CreateStep, LifeRulesStep, DriftStep,
     DeleteStep, UpgradeStep DEF Next

MountPart == part = "mount" => MountInv

LEMMA MountPartHolds == SpecBoot => []MountPart
<1>1. InitBoot => MountPart
  BY MountInit DEF InitBoot, MountPart
<1>2. MountPart /\ [NextBoot]_all => MountPart'
  <2> SUFFICES ASSUME MountPart, [NextBoot]_all, part' = "mount" PROVE MountInv'
    BY DEF MountPart
  <2>1. CASE Next /\ part = "mount"
    BY <2>1, MountStep DEF MountPart
  <2>2. CASE UNCHANGED <<all>>
    <3>1. UNCHANGED vars /\ part = "mount"
      BY <2>2 DEF all, vars
    <3> QED
      BY <3>1, MountStep DEF MountPart
  <2> QED
    BY <2>1, <2>2 DEF NextBoot
<1> QED
  BY <1>1, <1>2, PTL DEF SpecBoot

(* Whatever cubes are on disk, in whatever order, and however they are     *)
(* changed between boots: no module runs in a boot that a mounted          *)
(* package's contract stops, and the consumer of a capability reaches      *)
(* exactly the created cube that provides it.                              *)
THEOREM MountsReadFirstAndBindLate == SpecBoot => []MountsAreWired
<1>1. MountPart => MountsAreWired
  <2> SUFFICES ASSUME MountInv PROVE TypeOK /\ ContractsComeFirst /\ ConsumersReachProviders
    BY DEF MountPart, MountsAreWired
  <2>1. ContractsComeFirst
    <3> SUFFICES ASSUME Awake, NEW c \in Mounting, NEW d \in OnDisk, c.plugin # None, d.plugin = c.plugin
                 PROVE  d.clean
      BY DEF ContractsComeFirst, Awake
    <3>1. c.plugin \notin DirtyPackages
      BY OneOfAName DEF MountInv, PhaseInv
    <3> QED
      BY <3>1 DEF DirtyPackages
  <2>2. ConsumersReachProviders
    <3> SUFFICES ASSUME Serving, NEW i \in DOMAIN system, NEW k \in system[i].m.uses
                 PROVE  LET reached == IF handles[i][k] = [looksUp |-> k] THEN bound[k] ELSE handles[i][k]
                        IN \A c \in ToSet(system) : k \in c.m.provides <=> reached = c.id
      BY DEF ConsumersReachProviders
    <3>1. MadeInv /\ BoundInv /\ SoundDisk(OnDisk)
      BY DEF Serving, MountInv, Awake, DiskInv
    <3>2. handles[i] = Wired(system[i]) /\ system[i] \in OnDisk
      BY <3>1 DEF MadeInv
    <3>3. k \in Capabilities
      BY <3>1, <3>2 DEF SoundDisk
    <3>4. handles[i][k] = [looksUp |-> k]
      BY <3>2 DEF Wired, HandleFor
    <3> QED
      BY <3>1, <3>3, <3>4 DEF BoundInv
  <2> QED
    BY <2>1, <2>2 DEF MountInv
<1> QED
  BY MountPartHolds, <1>1, PTL

(* What a serving system is made of.                                       *)
LEMMA ServingSystem ==
  ASSUME MountInv, Serving
  PROVE  /\ \A c \in ToSet(system) : /\ c \in OnDisk /\ c \in ToSet(ran) /\ c.id \in Expanded
                                     /\ ~ BadManifest(c) /\ CreateRefusal(c) = None
         /\ ToSet(ran) = ToSet(system) /\ Ids(ran) = Ids(system)
         /\ \A c \in Mounting : c.id \in Ids(ran)
         /\ system \in Seq(OnDisk) /\ SoundDisk(OnDisk) /\ DiscoveryRefusal = None
         /\ ~ RouteOwnership(system)
         /\ \A i, j \in DOMAIN system : i # j => system[i].id # system[j].id
<1>1. RanInv /\ MadeInv /\ PhaseInv /\ DiskInv
  BY DEF MountInv, Serving, Awake
<1>2. /\ Len(system) = Len(ran) /\ RulesRefusal = None /\ DiscoveryRefusal = None
      /\ \A c \in Mounting : c.id \in Ids(ran)
  BY <1>1 DEF PhaseInv, Serving, Awake
<1>3. DOMAIN system = DOMAIN ran /\ \A i \in DOMAIN system : system[i] = ran[i] /\ system[i] \in OnDisk
  <2>1. DOMAIN system = 1 .. Len(system) /\ DOMAIN ran = 1 .. Len(ran)
    BY <1>1 DEF RanInv, MadeInv
  <2> QED
    BY <1>1, <1>2, <2>1 DEF MadeInv
<1>4. ToSet(ran) = ToSet(system) /\ Ids(ran) = Ids(system)
  BY <1>3 DEF ToSet, Ids
<1>5. ASSUME NEW c \in ToSet(system)
      PROVE  /\ c \in OnDisk /\ c \in ToSet(ran) /\ c.id \in Expanded
             /\ ~ BadManifest(c) /\ CreateRefusal(c) = None
  <2>1. PICK i \in DOMAIN system : c = system[i]
    BY DEF ToSet
  <2> QED
    BY <1>1, <1>3, <1>4, <2>1 DEF RanInv, MadeInv
<1>6. \A i, j \in DOMAIN system : i # j => system[i].id # system[j].id
  BY <1>1, <1>3 DEF RanInv
<1> QED
  BY <1>1, <1>2, <1>4, <1>5, <1>6, LivesByRule DEF MadeInv, DiskInv

LEMMA CubeNamesItself ==
  ASSUME NEW c, ~ BadManifest(c), c.id \in AllIds
  PROVE  Full(c.m) = c.id
BY MountAssumption DEF BadManifest, Full

(* Every gate of a serving system can be passed and none was forgotten,    *)
(* whatever the cubes declare.                                             *)
THEOREM NoGateIsForgotten == SpecBoot => []GatesOpen
<1>1. MountPart => GatesOpen
  <2> SUFFICES ASSUME MountInv, Serving, NEW c \in ToSet(system), NEW e \in Ends(c)
               PROVE  LET p == DeclaredPermission(c, e.name)
                      IN IF p # None
                         THEN p \in UNION {d.m.permissions : d \in ToSet(system)} /\ e.auth /\ e.has403
                         ELSE e.auth => e.name \in DOMAIN c.m.routes
    BY DEF MountPart, GatesOpen, GatesCanOpen
  <2> DEFINE p == DeclaredPermission(c, e.name)
  <2>1. ~ BadRoutes(c) /\ ~ BadManifest(c) /\ c.id \in AllIds
    BY ServingSystem, CreatedByRule DEF SoundDisk
  <2>2. CASE e.name \in DOMAIN c.m.routes
    <3>1. p = c.m.routes[e.name]
      BY <2>2 DEF DeclaredPermission
    <3>2. p # None => BehindGate(c, e, p)
      BY <2>1, <2>2, <3>1 DEF BadRoutes
    <3> HIDE DEF p
    <3>3. p # None => p \in c.m.permissions /\ e.auth /\ e.has403
      BY <3>2 DEF BehindGate
    <3>4. p # None => p \in UNION {d.m.permissions : d \in ToSet(system)} /\ e.auth /\ e.has403
      BY <3>3
    <3> QED
      BY <2>2, <3>4 DEF p
  <2>3. CASE e.name \notin DOMAIN c.m.routes /\ e.name = "list"
    <3>1. p = [cube |-> Full(c.m), act |-> "read"]
      BY <2>3 DEF DeclaredPermission
    <3>2. p \in [cube : AllIds, act : {"read"}]
      BY <2>1, <3>1, CubeNamesItself
    <3>3. p # None
      BY <3>2, MountAssumption
    <3>4. BehindGate(c, e, p)
      BY <2>1, <2>3, <3>1 DEF BadRoutes
    <3> HIDE DEF p
    <3>5. p \in c.m.permissions /\ e.auth /\ e.has403
      BY <3>4 DEF BehindGate
    <3>6. p \in UNION {d.m.permissions : d \in ToSet(system)} /\ e.auth /\ e.has403
      BY <3>5
    <3> QED
      BY <3>3, <3>6 DEF p
  <2>4. CASE e.name \notin DOMAIN c.m.routes /\ e.name # "list"
    <3>1. p = None /\ ~ e.auth
      BY <2>1, <2>4 DEF DeclaredPermission, BadRoutes
    <3> QED
      BY <3>1
  <2> QED
    BY <2>2, <2>3, <2>4
<1> QED
  BY MountPartHolds, <1>1, PTL

(* However often cubes are upgraded, deleted and switched, and the process *)
(* restarted: one version of a cube shows one schema.                      *)
THEOREM OneVersionOneSchema == SpecBoot => []SchemaPerVersion
<1>1. MountPart => SchemaPerVersion
  BY DEF MountPart, SchemaPerVersion, MountInv, RecordInv
<1> QED
  BY MountPartHolds, <1>1, PTL

LEMMA GreatestPlace ==
  ASSUME NEW n \in Nat, NEW S \in SUBSET (1 .. n), S # {}
  PROVE  Max(S) \in S
<1>1. PICK x \in {n - i : i \in S} : \A y \in {n - i : i \in S} : x <= y
  <2>1. {n - i : i \in S} \in SUBSET Nat /\ {n - i : i \in S} # {}
    <3>1. \A i \in S : n - i \in Nat
      OBVIOUS
    <3> QED
      BY <3>1
  <2> QED
    BY <2>1, LeastOf
<1>2. PICK i \in S : x = n - i
  OBVIOUS
<1>3. ASSUME NEW k \in S PROVE i >= k
  <2>1. n - i <= n - k
    BY <1>1, <1>2
  <2> QED
    BY <2>1
<1> QED
  BY <1>3 DEF Max

(* In a serving system a cube answers unless its switch, or its parent's,  *)
(* is off.                                                                 *)
LEMMA SwitchDecides ==
  ASSUME MountInv, Serving, NEW c \in ToSet(system)
  PROVE  IsEnabled(c.id) <=> ~ (c.id \in off \/ Above(c.id) \in off)
<1>1. c \in OnDisk /\ c.id \in Expanded /\ SoundDisk(OnDisk) /\ c.id \in Ids(ran)
      /\ \A d \in Mounting : d.id \in Ids(ran)
  <2>1. c.id \in Ids(system)
    BY DEF ToSet, Ids
  <2> QED
    BY <2>1, ServingSystem
<1>2. off \subseteq AllIds
  BY DEF MountInv, TypeOK
<1>3. CASE c.id.parent = <<>>
  <2>1. Above(c.id).name = <<>>
    BY <1>3 DEF Above
  <2>2. Above(c.id) \notin off
    BY <1>2, <2>1, MountAssumption
  <2> QED
    BY <1>1, <1>3, <2>2 DEF IsEnabled
<1>4. CASE c.id.parent # <<>>
  <2>1. PICK p \in OnDisk : p.id = Above(c.id)
    BY <1>1, <1>4 DEF SoundDisk
  <2>2. Above(c.id).parent = <<>>
    BY DEF Above
  <2>3. c.id \in Requested
    <3>1. CASE c.id \in {Above(id) : id \in {i \in Requested : i.parent # <<>>}}
      BY <1>4, <3>1 DEF Above
    <3> QED
      BY <1>1, <3>1 DEF Expanded
  <2>4. Above(c.id) \in Expanded
    BY <1>4, <2>3 DEF Expanded
  <2>5. Above(c.id) \in Ids(ran)
    BY <1>1, <2>1, <2>4 DEF Mounting
  <2> QED
    BY <1>1, <1>4, <2>5 DEF IsEnabled
<1> QED
  BY <1>3, <1>4

(* A cube off by its own switch or its parent's is gone from a serving     *)
(* system, whatever cubes there are, and switches no other cube off.       *)
THEOREM WhatIsOffIsGone == SpecBoot => []OffIsGone
<1>1. MountPart => OffIsGone
  <2> SUFFICES ASSUME MountInv, Serving, NEW c \in ToSet(system)
               PROVE  LET isOff == c.id \in off \/ Above(c.id) \in off
                      IN /\ isOff => /\ \A e \in Ends(c) : OnePrefix(c) => ~Dispatched(e)
                                     /\ \A k \in ToSet(c.commands) : Invoke(k.name, c.m.permissions, 0) = "unknown"
                                     /\ \A l \in LiveLinks : l.from # c.id /\ LeadsElsewhere(l, c)
                                     /\ ~CatalogAnswers(c, c.m.permissions)
                         /\ ~isOff => \A e \in Ends(c) : OnePrefix(c) => Dispatched(e)
    BY DEF MountPart, OffIsGone, OffMeansGone
  <2> DEFINE isOff == c.id \in off \/ Above(c.id) \in off
  <2>1. IsEnabled(c.id) <=> ~ isOff
    BY SwitchDecides
  <2> HIDE DEF isOff
  <2>2. c \in OnDisk /\ SoundDisk(OnDisk) /\ c.id \in AllIds /\ ~ BadManifest(c) /\ ~ BadCommands(c)
    BY ServingSystem, CreatedByRule DEF SoundDisk
  <2>3. c.id # None
    BY <2>2, MountAssumption
  <2>4. system \in Seq(OnDisk) /\ ~ RouteOwnership(system)
    BY ServingSystem
  <2>5. Len(system) \in Nat /\ DOMAIN system = 1 .. Len(system)
    BY <2>4
  <2>6. ASSUME NEW e \in Ends(c), OnePrefix(c) PROVE Owner(e.prefix) = c.id
    <3> DEFINE owners == {i \in DOMAIN system : system[i].ends # <<>> /\ RoutePrefix(system[i]) = e.prefix}
    <3>1. PICK i \in DOMAIN system : c = system[i]
      BY DEF ToSet
    <3>2. c.ends # <<>> /\ RoutePrefix(c) = e.prefix
      BY <2>6 DEF OnePrefix, Ends, ToSet
    <3>3. owners = {i}
      BY <2>4, <3>1, <3>2 DEF RouteOwnership
    <3>4. Max(owners) = i
      <4>1. owners \in SUBSET (1 .. Len(system)) /\ owners # {}
        BY <2>5, <3>3
      <4>2. Max(owners) \in owners
        BY <2>5, <4>1, GreatestPlace
      <4> QED
        BY <3>3, <4>2
    <3>5. Owner(e.prefix) = IF owners = {} THEN None ELSE system[Max(owners)].id
      BY DEF Owner
    <3> HIDE DEF owners
    <3> QED
      BY <3>1, <3>3, <3>4, <3>5
  <2>7. ASSUME NEW e \in Ends(c), OnePrefix(c) PROVE Dispatched(e) <=> ~ isOff
    BY <2>1, <2>3, <2>6, <2>7 DEF Dispatched
  <2>8. ASSUME isOff, NEW k \in ToSet(c.commands) PROVE Invoke(k.name, c.m.permissions, 0) = "unknown"
    <3>1. k.cube = c.id
      BY <2>2, CubeNamesItself DEF BadCommands
    <3>2. ASSUME NEW j \in LiveCommands, j.name = k.name PROVE FALSE
      <4>1. PICK d \in ToSet(system) : j \in ToSet(d.commands)
        BY <3>2 DEF LiveCommands
      <4>2. d \in OnDisk
        BY <4>1, ServingSystem
      <4>3. j.cube = k.cube
        BY <2>2, <3>2, <4>1, <4>2 DEF SoundDisk
      <4> QED
        BY <2>1, <2>8, <3>1, <3>2, <4>3 DEF LiveCommands
    <3> QED
      BY <3>2 DEF Invoke
  <2>9. ASSUME isOff, NEW l \in LiveLinks PROVE l.from # c.id /\ LeadsElsewhere(l, c)
    <3>1. Holders(l.to) # {} /\ IsEnabled(l.from) /\ IsEnabled(Holder(l.to))
      BY <2>9 DEF LiveLinks
    <3>2. l.from # c.id
      BY <2>1, <2>9, <3>1
    <3>3. ran \in Seq(OnDisk)
      BY DEF MountInv, Serving, Awake, RanInv
    <3>4. Len(ran) \in Nat /\ Holders(l.to) \in SUBSET (1 .. Len(ran))
      BY <3>3 DEF Holders
    <3>5. Max(Holders(l.to)) \in Holders(l.to)
      BY <3>1, <3>4, GreatestPlace
    <3>6. PICK i \in DOMAIN ran : i = Max(Holders(l.to)) /\ ran[i].m.entity = l.to
      BY <3>5 DEF Holders
    <3>7. ran[i] \in ToSet(ran) /\ IsEnabled(ran[i].id)
      BY <3>1, <3>6 DEF ToSet, Holder
    <3>8. ran[i].id # c.id
      BY <2>1, <2>9, <3>7
    <3> QED
      BY <3>2, <3>6, <3>7, <3>8 DEF LeadsElsewhere
  <2>10. isOff => ~ CatalogAnswers(c, c.m.permissions)
    BY <2>1 DEF CatalogAnswers
  <2> QED
    BY <2>7, <2>8, <2>9, <2>10 DEF isOff
<1> QED
  BY MountPartHolds, <1>1, PTL
=============================================================================
