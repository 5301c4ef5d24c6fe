------------------------------- MODULE Switches -------------------------------
(***************************************************************************)
(* The on/off switches of the cubes (core/src/kernel/state.ts).  The set   *)
(* of disabled cubes is in memory, where every request looks, and in the   *)
(* file switches.json, which a boot reads.  A call of `set` computes the   *)
(* next set from memory, writes the file, then replaces the set in memory, *)
(* with nothing held in between:                                           *)
(*                                                                         *)
(*   set:   compute -> truncate file -> write file -> memory -> announce   *)
(*   boot:  read file -> [drop cubes no longer mounted: truncate -> write] *)
(*                                                                         *)
(* Switching a cube on is announced on the bus before the call answers.    *)
(* What subscribers do about it is left to the modules that extend this.   *)
(***************************************************************************)
EXTENDS Integers, FiniteSets

CONSTANTS
  Cubes,
  Required,   \* the cubes that cannot be switched off
  Parent,     \* of a child cube; a top-level cube is its own
  Size,       \* the length of the file, by the set that is in it
  Mounts,     \* the sets of cubes that may be found on disk at a boot
  Calls,      \* the calls of the switches and of what is built on them
  None,       \* no call, no cube
  Unreadable, \* the content of a file that does not decode
  MaxRunning, \* bound: calls that overlap
  MaxBoots    \* bound: boots after the first

ASSUME RequiredAssumption == Required \subseteq Cubes
ASSUME ParentAssumption == Parent \in [Cubes -> Cubes]
ASSUME SizeAssumption == Size \in [SUBSET Cubes -> Nat]
ASSUME MountsAssumption == \A m \in Mounts : m \subseteq Cubes /\ Required \subseteq m
ASSUME NoneAssumption == None \notin Cubes
ASSUME UnreadableAssumption == \A set \in SUBSET Cubes : set # Unreadable
ASSUME BootsAssumption == MaxBoots \in Nat

VARIABLES
  phase,     \* of the process: down, cleaning or cleared while it boots, up
  mounted,   \* the cubes of this boot
  disabled,  \* the set in memory; while down, what it last was
  file,      \* switches.json; one that is missing reads like an empty set
  boots,
  stage,     \* where each call is
  cube, on,  \* the switch it sets
  next,      \* the set it will write
  solo,      \* history: the running call, if no other ran beside it
  settled    \* history: the last call of this boot, if it ran so and succeeded

process == <<phase, mounted, boots>>
request == <<cube, on, next>>
history == <<solo, settled>>
switchVars == <<process, disabled, file, stage, request, history>>

Over == {"done", "refused", "dead"}
Running == {c \in Calls : stage[c] \notin Over \cup {"idle"}}

Text(set) == [content |-> set, size |-> Size[set]]
Truncated == [content |-> Unreadable, size |-> 0]

(* A write at offset 0 of a file that another call may have written since  *)
(* it was truncated: what is longer shows behind it.                       *)
Overwritten(old, set) ==
  IF Size[set] >= old.size THEN Text(set) ELSE [old EXCEPT !.content = Unreadable]

(* A cube is on if its own switch is and its parent's.                     *)
Enabled(x) == x \in mounted \ disabled /\ Parent[x] \in mounted \ disabled

-----------------------------------------------------------------------------

SwitchInit ==
  /\ phase = "up"
  /\ mounted = Cubes
  /\ disabled = {}
  /\ file = Text({})
  /\ boots = 0
  /\ stage = [c \in Calls |-> "idle"]
  /\ cube = [c \in Calls |-> None]
  /\ on = [c \in Calls |-> FALSE]
  /\ next = [c \in Calls |-> {}]
  /\ solo = None
  /\ settled = None

(* A call starts; it is alone if nothing else runs.                        *)
Start(c, then) ==
  /\ phase = "up"
  /\ stage[c] = "idle"
  /\ Cardinality(Running) < MaxRunning
  /\ stage' = [stage EXCEPT ![c] = then]
  /\ solo' = IF Running = {} THEN c ELSE None
  /\ settled' = None

Go(c, then) ==
  /\ stage' = [stage EXCEPT ![c] = then]
  /\ settled' = IF then = "done" /\ solo = c THEN c ELSE None
  /\ UNCHANGED <<process, request, solo>>

(* Mutant: every cube that is mounted can be switched off.                 *)
SetAny(c, x, v) ==
  /\ Start(c, IF x \in mounted THEN "opening" ELSE "refused")
  /\ cube' = [cube EXCEPT ![c] = x]
  /\ on' = [on EXCEPT ![c] = v]
  /\ next' = [next EXCEPT ![c] = IF v THEN disabled \ {x} ELSE disabled \cup {x}]
  /\ UNCHANGED <<process, disabled, file>>

(* set: refused for a cube that is not mounted, and for switching off one  *)
(* that is required; otherwise the next set, from memory.                  *)
Set(c, x, v) ==
  /\ cube' = [cube EXCEPT ![c] = x]
  /\ on' = [on EXCEPT ![c] = v]
  /\ IF x \in mounted /\ (x \in Required => v)
       THEN /\ Start(c, "opening")
            /\ next' = [next EXCEPT ![c] = IF v THEN disabled \ {x} ELSE disabled \cup {x}]
       ELSE Start(c, "refused") /\ UNCHANGED next
  /\ UNCHANGED <<process, disabled, file>>

(* Mutant: the file is opened without truncating it.                       *)
OpenInPlace(c) ==
  /\ stage[c] = "opening"
  /\ Go(c, "writing")
  /\ UNCHANGED <<disabled, file>>

(* writeDisabled: the file is truncated when it is opened.                 *)
Open(c) ==
  /\ stage[c] = "opening"
  /\ file' = Truncated
  /\ Go(c, "writing")
  /\ UNCHANGED disabled

Write(c) ==
  /\ stage[c] = "writing"
  /\ file' = Overwritten(file, next[c])
  /\ Go(c, "written")
  /\ UNCHANGED disabled

(* The disk refuses: a StateFileError, and memory stays as it was.         *)
Fail(c) ==
  /\ stage[c] \in {"opening", "writing"}
  /\ Go(c, "refused")
  /\ UNCHANGED <<disabled, file>>

(* Only after the write has succeeded does memory change.                  *)
Apply(c) ==
  /\ stage[c] = "written"
  /\ disabled' = next[c]
  /\ Go(c, IF on[c] THEN "announcing" ELSE "done")
  /\ UNCHANGED file

(* onEnable, which the call awaits: `then` is what comes of it.            *)
Announce(c, then) ==
  /\ stage[c] = "announcing"
  /\ Go(c, then)
  /\ UNCHANGED <<disabled, file>>

-----------------------------------------------------------------------------

Crash ==
  /\ phase # "down"
  /\ boots < MaxBoots
  /\ phase' = "down"
  /\ stage' = [c \in Calls |-> IF c \in Running THEN "dead" ELSE stage[c]]
  /\ solo' = None
  /\ UNCHANGED <<mounted, disabled, file, boots, request, settled>>

(* Mutant: the file is left out of account when a cube is gone.            *)
BootAnew(m) ==
  /\ phase = "down"
  /\ file.content # Unreadable
  /\ mounted' = m
  /\ disabled' = IF file.content \subseteq m THEN file.content ELSE {}
  /\ boots' = boots + 1
  /\ phase' = IF file.content \subseteq m THEN "up" ELSE "cleaning"
  /\ settled' = None
  /\ UNCHANGED <<file, stage, request, solo>>

(* switchesFrom: a file that does not decode stops the boot.  Cubes that   *)
(* are gone from disk leave the file.                                      *)
Boot(m) ==
  /\ phase = "down"
  /\ file.content # Unreadable
  /\ mounted' = m
  /\ disabled' = file.content \cap m
  /\ boots' = boots + 1
  /\ phase' = IF file.content \subseteq m THEN "up" ELSE "cleaning"
  /\ settled' = None
  /\ UNCHANGED <<file, stage, request, solo>>

CleanOpen ==
  /\ phase = "cleaning"
  /\ phase' = "cleared"
  /\ file' = Truncated
  /\ UNCHANGED <<mounted, disabled, boots, stage, request, history>>

CleanWrite ==
  /\ phase = "cleared"
  /\ phase' = "up"
  /\ file' = Text(disabled)
  /\ UNCHANGED <<mounted, disabled, boots, stage, request, history>>

SwitchStep ==
  \/ \E c \in Calls : Open(c) \/ Write(c) \/ Fail(c) \/ Apply(c)
  \/ \E c \in Calls, x \in Cubes, v \in BOOLEAN : Set(c, x, v)
  \/ \E m \in Mounts : Boot(m)
  \/ CleanOpen \/ CleanWrite \/ Crash

-----------------------------------------------------------------------------
(* Part of the type invariant: no set ever holds a required cube.          *)
SwitchTypeOK ==
  /\ phase \in {"down", "cleaning", "cleared", "up"}
  /\ mounted \in Mounts \cup {Cubes}
  /\ disabled \subseteq Cubes \ Required
  /\ file.content = Unreadable \/ file.content \in SUBSET (Cubes \ Required)
  /\ boots \in 0 .. MaxBoots
  /\ next \in [Calls -> SUBSET (Cubes \ Required)]
  /\ {solo, settled} \subseteq Calls \cup {None}

(* SoloSetSettles: calls that overlap can lose each other's switch, leave  *)
(* memory and file apart, or garble the file.  A set that then runs alone  *)
(* and succeeds repairs all of it: memory and file agree, the file can be  *)
(* read, and the switch is as it was set.                                  *)
SoloSetSettles ==
  settled # None /\ cube[settled] # None =>
    /\ file.content = disabled
    /\ cube[settled] \in disabled <=> ~on[settled]

(* SettledSwitchesSurvive: a restart after such a set turns nothing on or  *)
(* off, except that a cube which is gone from disk is forgotten: a boot    *)
(* must never silently undo what a user has done (state.ts).               *)
SettledSwitchesSurvive ==
  [][phase = "down" /\ phase' # "down" /\ settled # None /\ cube[settled] # None
       => disabled' = disabled \cap mounted']_switchVars
=============================================================================
