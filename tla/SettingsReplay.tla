---------------------------- MODULE SettingsReplay ----------------------------
(***************************************************************************)
(* How a setting of one cube reaches another over the bus (core/plugins/   *)
(* example-plugin/cubes/booktags, core/src/kernel/bus.ts).  The settings   *)
(* cube stores a value and publishes the change; the bookmarks cube keeps  *)
(* a copy.  An event reaches the subscribers whose cube is on at that      *)
(* moment, and nobody keeps it for the others: the kernel announces a cube *)
(* that is switched on again, and the settings cube, if it is on, answers  *)
(* the announcement of bookmarks by publishing its values anew.            *)
(*                                                                         *)
(*   change:    store -> publish -> [copy]                                 *)
(*   announce:  [read -> publish -> [copy]]                                *)
(*                                                                         *)
(* The setting and its copy have been stored once, so that each is a row   *)
(* to update; a store operation that fails is not modelled.                *)
(***************************************************************************)
EXTENDS Switches

CONSTANTS
  Settings, Bookmarks, \* the two cubes
  Values               \* of the setting

ASSUME ProtocolAssumption == {Settings, Bookmarks} \subseteq Cubes /\ Settings # Bookmarks

VARIABLES
  setting,  \* the row of the settings cube
  copy,     \* the row of the bookmarks cube
  value     \* what each call stores or publishes

vars == <<switchVars, setting, copy, value>>

Init ==
  /\ SwitchInit
  /\ setting \in Values
  /\ copy = setting
  /\ value = [c \in Calls |-> setting]

(* A request that sets the value; while the cube is off it does not exist. *)
Change(c, v) ==
  /\ Start(c, IF Enabled(Settings) THEN "changing" ELSE "refused")
  /\ value' = [value EXCEPT ![c] = v]
  /\ UNCHANGED <<process, disabled, file, request, setting, copy>>

Step(c, at, then) == stage[c] = at /\ Go(c, then) /\ UNCHANGED <<disabled, file>>

Store(c) ==
  /\ Step(c, "changing", "publishing")
  /\ setting' = value[c]
  /\ UNCHANGED <<copy, value>>

(* publish: the subscribers that are on now.                               *)
Publish(c) ==
  /\ Step(c, "publishing", IF Enabled(Bookmarks) THEN "copying" ELSE "done")
  /\ UNCHANGED <<setting, copy, value>>

Copy(c) ==
  /\ Step(c, "copying", "done")
  /\ copy' = value[c]
  /\ UNCHANGED <<setting, value>>

(* Mutant: the announcement is forked and the call answers at once.        *)
ReplayForked(c) ==
  /\ Announce(c, "done")
  /\ UNCHANGED <<setting, copy, value>>

(* The announcement reaches the settings cube if that is on, and matters   *)
(* if it is about bookmarks.                                               *)
Replay(c) ==
  /\ Announce(c, IF cube[c] = Bookmarks /\ Enabled(Settings) THEN "replaying" ELSE "done")
  /\ UNCHANGED <<setting, copy, value>>

ReadSetting(c) ==
  /\ Step(c, "replaying", "publishing")
  /\ value' = [value EXCEPT ![c] = setting]
  /\ UNCHANGED <<setting, copy>>

Next ==
  \/ SwitchStep /\ UNCHANGED <<setting, copy, value>>
  \/ \E c \in Calls, v \in Values : Change(c, v)
  \/ \E c \in Calls : Store(c) \/ Publish(c) \/ Copy(c) \/ Replay(c) \/ ReadSetting(c)

Spec == Init /\ [][Next]_vars

-----------------------------------------------------------------------------
(* TypeOK: of the switches, the rows and the calls.                        *)
TypeOK ==
  /\ SwitchTypeOK
  /\ setting \in Values /\ copy \in Values
  /\ value \in [Calls -> Values]
  /\ stage \in [Calls -> Over \cup {"idle", "opening", "writing", "written", "announcing",
                                    "changing", "replaying", "publishing", "copying"}]

(* SoloReplayLands: a call that runs alone and makes the copy catch up     *)
(* does so before it answers: one that changes the value while bookmarks   *)
(* is on, and one that switches bookmarks on while settings is on.  What   *)
(* overlapping calls left behind is repaired by it.                        *)
SoloReplayLands ==
  settled # None /\ Enabled(Bookmarks)
    /\ (cube[settled] = None \/ (cube[settled] = Bookmarks /\ on[settled] /\ Enabled(Settings)))
  => copy = setting

(* booktags/settings/index.ts:76, "When the bookmarks sibling comes back   *)
(* on, this cube RE-PUBLISHES its current settings": when nothing is under *)
(* way and both cubes are on, the copy is the setting.                     *)
CopyCatchesUp ==
  phase = "up" /\ Running = {} /\ Enabled(Bookmarks) /\ Enabled(Settings) => copy = setting
=============================================================================
