---------------------------- MODULE MCOperations ----------------------------
(***************************************************************************)
(* Operations made of several store calls, for TLC, side by side: those of *)
(* SettingsReplay with its Switches, Sharing, Assignments, StagingImport,  *)
(* SortKeys.                                                               *)
(* `part` says which module a behaviour is of; the variables of the others *)
(* keep a dummy.  Variables that several have by one name are shared.      *)
(* Every call runs once, so their number bounds rows, grants and clocks.   *)
(***************************************************************************)
EXTENDS MCSettingsReplay

CONSTANTS
  Users, Admins, NoRow,                  \* of Sharing
  Assigning, Tables, Twins,              \* of Assignments
  Requests, FirstChunk, MaxLines, BatchSize, NoSet, \* of StagingImport
  Nodes, Old, Writers, NoVal,            \* of SortKeys
  Ids, Ranks, Rests, Asks, Chunk, MaxLimit, DefaultLimit

ASSUME AssignmentsAssumption == Twins \subseteq Tables

VARIABLES
  part,
  owners, grants, clock, op, actor, subject, gone, row, at, n, todo, read,
  rows, table, doomed, before,
  format, lines, seen, own, erased, prior, lock, set, crossed,
  things, scan, writes, list, behind

S == INSTANCE Sharing
A == INSTANCE Assignments WITH Calls <- Assigning
G == INSTANCE StagingImport WITH Calls <- Requests, Head <- FirstChunk

ASSUME SharingAssumption == Admins \subseteq Users /\ NoRow \notin S!OwnershipRow
ASSUME StagingAssumption ==
  /\ FirstChunk \in Requests /\ None \notin Requests /\ {MaxLines, BatchSize} \subseteq Nat \ {0}
  /\ NoSet \notin G!SetRow

MCAsks ==
  {[size |-> 0, by |-> "offset", ids |-> {}, descending |-> TRUE],
   [size |-> 9, by |-> "page", ids |-> {}, descending |-> TRUE],
   [size |-> None, by |-> "page", ids |-> {1, 2}, descending |-> FALSE]}

L == INSTANCE SortKeys WITH table <- things, Procs <- Nodes, Calls <- Writers

ASSUME ListsAssumption ==
  /\ Old \subseteq Nodes
  /\ Ids \subseteq Nat \ {0} /\ IsFiniteSet(Ids)
  /\ Ranks \subseteq Int /\ NoVal \notin Ranks
  /\ {Chunk, MaxLimit, DefaultLimit} \subseteq Nat \ {0}
  /\ Asks \subseteq [size : Int \cup {None}, by : {"page", "offset"}, ids : SUBSET Ids, descending : BOOLEAN]
  /\ None \notin Int /\ None \notin L!Row

switchesOnly == <<phase, mounted, disabled, file, boots, cube, on, next, setting, copy, value>>
sharingOnly == <<owners, grants, clock, actor, subject, gone, row, at, n, todo>>
assignmentsOnly == <<table, doomed, before>>
stagingOnly == <<format, lines, seen, own, erased, prior, lock, set, crossed>>
listsOnly == <<things, scan, writes, list, behind>>
all == <<part, stage, solo, settled, op, read, rows,
         switchesOnly, sharingOnly, assignmentsOnly, stagingOnly, listsOnly>>

NoSwitches == /\ phase = "none" /\ mounted = 0 /\ disabled = 0 /\ file = 0 /\ boots = 0 /\ cube = 0
              /\ on = 0 /\ next = 0 /\ setting = 0 /\ copy = 0 /\ value = 0
NoSharing == /\ owners = 0 /\ grants = 0 /\ clock = 0 /\ actor = 0 /\ subject = 0
             /\ gone = 0 /\ row = 0 /\ at = 0 /\ n = 0 /\ todo = 0
NoAssignments == table = 0 /\ doomed = 0 /\ before = 0
NoStaging == /\ format = 0 /\ lines = 0 /\ seen = 0 /\ own = 0 /\ erased = 0 /\ prior = 0
             /\ lock = 0 /\ set = 0 /\ crossed = 0
NoLists == things = 0 /\ scan = 0 /\ writes = 0 /\ list = 0 /\ behind = 0

InitOperations ==
  \/ /\ part = "switches" /\ Init /\ NoSharing /\ NoAssignments /\ NoStaging /\ NoLists
     /\ op = 0 /\ read = 0 /\ rows = 0
  \/ /\ part = "sharing" /\ S!Init /\ NoSwitches /\ NoAssignments /\ NoStaging /\ NoLists
     /\ rows = 0
  \/ /\ part = "assignments" /\ A!Init /\ NoSwitches /\ NoSharing /\ NoStaging /\ NoLists
     /\ solo = 0 /\ settled = 0 /\ read = 0
  \/ /\ part = "staging" /\ G!Init /\ NoSwitches /\ NoSharing /\ NoAssignments /\ NoLists
     /\ solo = 0 /\ settled = 0
  \/ /\ part = "lists" /\ L!Init /\ NoSwitches /\ NoSharing /\ NoAssignments /\ NoStaging
     /\ stage = 0 /\ solo = 0 /\ settled = 0 /\ op = 0 /\ read = 0 /\ rows = 0

(* Where a reader goes through a list, one of the writers stays away.      *)
WritersBound == list'.stage = "idle" \/ \E c \in Writers : writes'[c].stage = "idle"

NextOperations ==
  /\ part' = part
  /\ \/ /\ part = "switches" /\ Next
        /\ UNCHANGED <<op, read, rows, sharingOnly, assignmentsOnly, stagingOnly, listsOnly>>
     \/ part = "sharing" /\ S!Next /\ UNCHANGED <<rows, switchesOnly, assignmentsOnly, stagingOnly, listsOnly>>
     \/ /\ part = "assignments" /\ A!Next
        /\ UNCHANGED <<solo, settled, read, switchesOnly, sharingOnly, stagingOnly, listsOnly>>
     \/ /\ part = "staging" /\ G!Next
        /\ UNCHANGED <<solo, settled, switchesOnly, sharingOnly, assignmentsOnly, listsOnly>>
     \/ /\ part = "lists" /\ L!Next /\ WritersBound
        /\ UNCHANGED <<stage, solo, settled, op, read, rows,
                       switchesOnly, sharingOnly, assignmentsOnly, stagingOnly>>

SpecOperations == InitOperations /\ [][NextOperations]_all

(* A call that runs alone repairs what overlapping ones left: a set of a   *)
(* switch makes memory and file agree (Switches!SoloSetSettles), and a     *)
(* change of a setting, or a switch back on, makes the copy another cube   *)
(* keeps catch up before it answers (SettingsReplay!SoloReplayLands), with *)
(* SettingsReplay!TypeOK. kernel/state.ts:88-143,                          *)
(* booktags/settings/index.ts. What restarts do is                         *)
(* SettledSwitchesSurvive's, checked as it stands.                         *)
SwitchesSettle == part = "switches" => TypeOK /\ SoloSetSettles /\ SoloReplayLands

(* Sharing!SoloCallSettles, with Sharing!TypeOK: a call that runs alone    *)
(* leaves every count right, and what it did stands.                       *)
(* permissions/state.ts:62-63.                                             *)
SharesSettle == part = "sharing" => S!TypeOK /\ S!SoloCallSettles

(* A right taken back is gone: two rows of one right come only from        *)
(* givings that overlap (Assignments!DuplicatesOverlap), and once a revoke *)
(* has succeeded nothing given before it is left, duplicates included      *)
(* (Assignments!RevokeIsComplete), with Assignments!TypeOK.                *)
(* capabilities.ts:14-17.                                                  *)
RightsAreRevoked == part = "assignments" => A!TypeOK /\ A!DuplicatesOverlap /\ A!RevokeIsComplete

(* However many chunks race, fail or die, the rows of a set are numbered   *)
(* 0, 1, ... without gap or repeat while each chunk is one INSERT, and in  *)
(* the order of its lines in any case (StagingImport!RowsAreNumbered), and *)
(* the rows that survive a deleted set are those a request under way       *)
(* committed later (StagingImport!DeleteTakesTheRows), with                *)
(* StagingImport!TypeOK. And unless updates of the set overlapped, its     *)
(* count is the number of its rows (StagingImport!TallyCountsRows), and    *)
(* once a caller saw a batch throw it does not read as importing           *)
(* (StagingImport!ThrownChunkShows). import-chunks.ts:9-13,                *)
(* handlers.ts:92-95 and 142-143.                                          *)
StagingStands ==
  part = "staging" => /\ G!TypeOK /\ G!RowsAreNumbered /\ G!DeleteTakesTheRows
                      /\ G!TallyCountsRows /\ G!ThrownChunkShows

(* Lists, with SortKeys!TypeOK: a key stands beside the body it was        *)
(* computed from (SortKeys!KeysAreCurrent), a quiet walk shows each        *)
(* matching row once (SortKeys!WalkIsExact), in the order of the release   *)
(* that serves it (SortKeys!WalkIsInOrder). setup.ts:231-270,              *)
(* batch.ts:54-84, rows.ts:115-136, list.ts:56-76.                         *)
ListsKeepOrder == part = "lists" => L!TypeOK /\ L!KeysAreCurrent /\ L!WalkIsExact /\ L!WalkIsInOrder
=============================================================================
