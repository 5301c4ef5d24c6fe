------------------------------- MODULE Installer -------------------------------
(***************************************************************************)
(* Installing and removing packages while the system runs (core/src/       *)
(* kernel/install*.ts), and what the next boot makes of the directories    *)
(* it finds (scan.ts, discovery.ts, package-contract.ts).  A package has a *)
(* copy on the shelf of the store, with its manifest, and, if installed, a *)
(* destination directory with its files:                                   *)
(*                                                                         *)
(*   from a directory:  source -> shelf -> gate -> publish --+             *)
(*   by name:                                        read ---+             *)
(*     -> exists -> clash -> make -> copy .. -> done                       *)
(*          a failure: undo .. (the destination) -> unshelve ..            *)
(*   uninstall, remove: find -> delete .. -> done                          *)
(*   forgetShelf:       check -> unshelve ..                               *)
(*                                                                         *)
(* Any deletion may fail before its end: a rollback's is ignored, and of   *)
(* the others the caller gets the error (thrown).  What is half deleted    *)
(* then stays.                                                             *)
(*                                                                         *)
(* Nothing is locked: calls overlap at every file operation.  Files are    *)
(* copied and deleted one at a time; only the publication of a staged copy *)
(* on the shelf is atomic, a rename.                                       *)
(*                                                                         *)
(* A cube's directory and its index.ts are one file here, named after the  *)
(* cube; all the other files of a package are Rest, which the entries      *)
(* import.  The manifest lists the cubes a version of a package has.       *)
(***************************************************************************)
EXTENDS Integers, FiniteSets

CONSTANTS
  Packages,
  Cubes,
  Versions,   \* the contents a package's source may have
  CubesOf,    \* of each package, in each version
  Sound,      \* the pairs of package and version that keep the contract
  Calls,      \* calls of the installer: each runs once
  Rest,       \* the files besides the entries
  None,       \* no such directory; no call
  MaxRunning, \* bound: calls that overlap
  MaxRough,   \* bound: calls of a run that is not calm
  MaxBoots,   \* bound: boots after the first
  Mixed       \* bound: whether a run with a failed deletion may have
              \* restarts too, and calls that overlap after it

ASSUME CubesOfAssumption ==
  /\ Versions # {}
  /\ CubesOf \in [Packages -> [Versions -> (SUBSET Cubes) \ {{}}]]
ASSUME RestAssumption == Rest \notin Cubes
ASSUME NoneAssumption ==
  /\ None \notin Calls \cup Packages \cup Versions
  /\ \A s \in [version : Versions, whole : BOOLEAN] : s # None
  /\ \A d \in SUBSET ((Cubes \cup {Rest}) \X Versions) : d # None
ASSUME BoundsAssumption == MaxBoots \in Nat

VARIABLES
  shelf,   \* of each package: its version and whether all of it is there
  dest,    \* of each package: the files at the destination and their versions
  up,      \* whether the system runs
  mounted, \* the packages of this boot
  boots,
  stage,   \* where each call is
  op, pkg, \* what it does, and to which package
  version, \* the version of the source, then of the shelf it read
  todo,    \* the files it has still to copy
  staged,  \* whether it put the package on the shelf
  calm,    \* history: no two calls that could disturb each other overlapped,
           \* and none died
  last,    \* history: the last call on each package
  before,  \* history: shelf and destination when a call began
  botched  \* history: the calls a deletion of which failed, with what it was
           \* of, until a later deletion of that succeeded

disk == <<shelf, dest>>
process == <<up, mounted, boots>>
history == <<calm, last, before>>
vars == <<disk, process, stage, op, pkg, version, todo, staged, history, botched>>

Over == {"done", "refused", "thrown", "dead"}
Running == {c \in Calls : stage[c] \notin Over \cup {"idle"}}

AllCubes(p) == UNION {CubesOf[p][v] : v \in Versions}
Files(p, v) == CubesOf[p][v] \cup {Rest}
Names(p) == IF dest[p] = None THEN {} ELSE {f[1] : f \in dest[p]}

(* cubesOnDisk, discover: what is found of each package.                   *)
Found(p) == Names(p) \ {Rest}
OnDisk == UNION {Found(p) : p \in Packages}

(* What a failed deletion left of the package is there still.              *)
Spoiled(p, what) == \E b \in botched : pkg[b[1]] = p /\ b[2] = what
Intact(p) == ~ Spoiled(p, "shelf") /\ ~ Spoiled(p, "dest")

(* Two packages whose calls can disturb each other.                        *)
Rivals(p, q) == AllCubes(p) \cap AllCubes(q) # {}

-----------------------------------------------------------------------------
(* Boots.                                                                  *)

(* discover: no two packages may bring one cube.                           *)
NoDuplicate == \A p, q \in Packages : p # q => Found(p) \cap Found(q) = {}

(* assertPackageContracts: the manifest is read from the shelf, since it   *)
(* is not part of what is installed, and judged against the cubes found;   *)
(* the sources are judged as they were installed.                          *)
KeepsContract(p) ==
  /\ shelf[p] # None
  /\ shelf[p].whole
  /\ Found(p) = CubesOf[p][shelf[p].version]
  /\ \A f \in dest[p] : <<p, f[2]>> \in Sound

(* loadDefinitions: an entry whose imports are missing does not load.      *)
Loads(p) == Rest \in Names(p)

Bootable ==
  /\ NoDuplicate
  /\ \A p \in Packages : Found(p) # {} => KeepsContract(p) /\ Loads(p)

OnShelf(v) == [version |-> v, whole |-> TRUE]

Init ==
  /\ shelf \in {s \in [Packages -> {None} \cup {OnShelf(v) : v \in Versions}] :
                  \A p \in Packages : s[p] # None => <<p, s[p].version>> \in Sound}
  /\ dest = [p \in Packages |-> None]
  /\ up = TRUE
  /\ mounted = {}
  /\ boots = 0
  /\ stage = [c \in Calls |-> "idle"]
  /\ op = [c \in Calls |-> None]
  /\ pkg = [c \in Calls |-> None]
  /\ version = [c \in Calls |-> None]
  /\ todo = [c \in Calls |-> {}]
  /\ staged = [c \in Calls |-> FALSE]
  /\ calm = TRUE
  /\ last = [p \in Packages |-> None]
  /\ before = [c \in Calls |-> None]
  /\ botched = {}

(* The process ends: the restart an administrator asks for, which does not *)
(* wait for calls under way, or a crash.  Those calls roll nothing back.   *)
Stop ==
  /\ up
  /\ boots < MaxBoots
  /\ Mixed \/ botched = {}
  /\ up' = FALSE
  /\ stage' = [c \in Calls |-> IF c \in Running THEN "dead" ELSE stage[c]]
  /\ calm' = (calm /\ Running = {})
  /\ UNCHANGED <<disk, mounted, boots, op, pkg, version, todo, staged, last, before, botched>>

Boot ==
  /\ ~up
  /\ Bootable
  /\ up' = TRUE
  /\ mounted' = {p \in Packages : Found(p) # {}}
  /\ boots' = boots + 1
  /\ UNCHANGED <<disk, stage, op, pkg, version, todo, staged, history, botched>>

-----------------------------------------------------------------------------
(* Calls.                                                                  *)

Start(c, o, p, v, first) ==
  /\ up
  /\ stage[c] = "idle"
  /\ Cardinality(Running) < IF Mixed \/ botched = {} THEN MaxRunning ELSE 1
  /\ stage' = [stage EXCEPT ![c] = first]
  /\ op' = [op EXCEPT ![c] = o]
  /\ pkg' = [pkg EXCEPT ![c] = p]
  /\ version' = [version EXCEPT ![c] = v]
  /\ calm' = (calm /\ \A d \in Running : ~Rivals(p, pkg[d]))
  /\ calm' \/ Cardinality({d \in Calls : stage[d] # "idle"}) < MaxRough
  /\ last' = [last EXCEPT ![p] = c]
  /\ before' = [before EXCEPT ![c] = <<shelf[p], dest[p]>>]
  /\ UNCHANGED <<disk, process, todo, staged, botched>>

(* What a client may ask for; the plugin of a cube can be removed only if  *)
(* the cube is mounted.                                                    *)
Ask(c, p) ==
  \/ Start(c, "install", p, None, "read")
  \/ \E v \in Versions : Start(c, "installFrom", p, v, "source")
  \/ Start(c, "uninstall", p, None, "find")
  \/ p \in mounted /\ Start(c, "remove", p, None, "find")
  \/ Start(c, "forget", p, None, "check")

Go(c, next) ==
  /\ stage' = [stage EXCEPT ![c] = next]
  /\ UNCHANGED <<process, op, pkg, history>>

(* A step that deletes nothing.                                            *)
Keep(c, next) == Go(c, next) /\ UNCHANGED botched

(* After a failure: a call that staged the package takes it off the shelf. *)
Failed(c) == IF staged[c] THEN "unshelve" ELSE "refused"

(* A step that only looks.                                                 *)
Look(c, here, next) ==
  /\ stage[c] = here
  /\ Keep(c, next)
  /\ UNCHANGED <<disk, version, todo, staged>>

(* readPackage needs the manifest, which of a shelf that is being deleted  *)
(* may be gone or not.                                                     *)
Torn(p) == shelf[p] # None /\ ~shelf[p].whole
Readable(p) == shelf[p] # None
Unreadable(p) == shelf[p] = None \/ Torn(p)

-----------------------------------------------------------------------------
(* stageAndInstall: what is done before the install by name.               *)

(* The source's own manifest; refused if the package is installed.  The    *)
(* cubes already on disk are noted here.                                   *)
CheckSource(c) == LET p == pkg[c] IN
  Look(c, "source",
       IF dest[p] # None THEN "refused"
       ELSE IF CubesOf[p][version[c]] \cap OnDisk = {} THEN "shelf" ELSE "taken")

(* A shelf with the same content is installed from; another is refused;    *)
(* with none, the gate is next, unless cubes of the package were taken.    *)
CheckShelf(c) == LET p == pkg[c] IN
  \E here \in {"shelf", "taken"} :
    Look(c, here,
         IF shelf[p] = OnShelf(version[c]) THEN "read"
         ELSE IF shelf[p] # None THEN "refused"
         ELSE IF here = "shelf" THEN "gate" ELSE "publish")

Gate(c) ==
  Look(c, "gate", IF <<pkg[c], version[c]>> \in Sound THEN "publish" ELSE "refused")

(* Mutant: the package is copied to its place on the shelf, file by file.  *)
PublishInPlace(c) == LET p == pkg[c] IN
  /\ stage[c] = "publish"
  /\ IF shelf[p] = None \/ (staged[c] /\ Torn(p))
     THEN /\ shelf' = [shelf EXCEPT ![p] =
               [version |-> version[c], whole |-> staged[c]]]
          /\ staged' = [staged EXCEPT ![c] = TRUE]
          /\ Keep(c, IF staged[c] THEN "read" ELSE "publish")
     ELSE /\ Keep(c, "refused")
          /\ UNCHANGED <<shelf, staged>>
  /\ UNCHANGED <<dest, version, todo>>

(* The copy beside the shelf, which may fail, and its rename, which fails  *)
(* on a directory that is there.                                           *)
Publish(c) == LET p == pkg[c] IN
  /\ stage[c] = "publish"
  /\ \/ /\ shelf[p] = None
        /\ shelf' = [shelf EXCEPT ![p] = OnShelf(version[c])]
        /\ staged' = [staged EXCEPT ![c] = TRUE]
        /\ Keep(c, "read")
     \/ /\ Keep(c, "refused")
        /\ UNCHANGED <<shelf, staged>>
  /\ UNCHANGED <<dest, version, todo>>

-----------------------------------------------------------------------------
(* installExisting.                                                        *)

Read(c) == LET p == pkg[c] IN
  /\ stage[c] = "read"
  /\ \/ /\ Readable(p)
        /\ version' = [version EXCEPT ![c] = shelf[p].version]
        /\ Keep(c, "exists")
     \/ /\ Unreadable(p)
        /\ Keep(c, Failed(c))
        /\ UNCHANGED version
  /\ UNCHANGED <<disk, todo, staged>>

CheckExists(c) ==
  Look(c, "exists", IF dest[pkg[c]] = None THEN "clash" ELSE Failed(c))

(* Mutant: only the destination is checked.                                *)
NoClash(c) == Look(c, "clash", "make")

CheckClash(c) ==
  Look(c, "clash",
       IF CubesOf[pkg[c]][version[c]] \cap OnDisk = {} THEN "make" ELSE Failed(c))

(* Mutant: the whole store is walked, not the package's directory.         *)
MakeOfAll(c) == LET p == pkg[c] IN
  /\ stage[c] = "make"
  /\ dest' = [dest EXCEPT ![p] = IF @ = None THEN {} ELSE @]
  /\ todo' = [todo EXCEPT ![c] = Cubes \cup {Rest}]
  /\ Keep(c, "copy")
  /\ UNCHANGED <<shelf, version, staged>>

(* The files a walk of the shelf finds: of a torn one, some of them.       *)
Holds(p) == LET all == Files(p, shelf[p].version) IN
  IF Torn(p) THEN SUBSET all ELSE {all}

(* copyTree makes the destination, if it still has to, and walks the shelf.*)
Make(c) == LET p == pkg[c] IN
  /\ stage[c] = "make"
  /\ dest' = [dest EXCEPT ![p] = IF @ = None THEN {} ELSE @]
  /\ \/ /\ Readable(p)
        /\ \E found \in Holds(p) :
             /\ todo' = [todo EXCEPT ![c] = found]
             /\ Keep(c, IF found = {} THEN "done" ELSE "copy")
     \/ /\ Unreadable(p)
        /\ Keep(c, "undo")
        /\ UNCHANGED todo
  /\ UNCHANGED <<shelf, version, staged>>

(* One file is copied from what the shelf holds now.  Where the            *)
(* destination was deleted meanwhile its directories are made again.       *)
CopyFile(c, f) == LET p == pkg[c] IN
  /\ stage[c] = "copy"
  /\ f \in todo[c]
  /\ Readable(p)
  /\ f \in Files(p, shelf[p].version)
  /\ dest' = [dest EXCEPT ![p] =
       {g \in (IF @ = None THEN {} ELSE @) : g[1] # f} \cup {<<f, shelf[p].version>>}]
  /\ todo' = [todo EXCEPT ![c] = @ \ {f}]
  /\ Keep(c, IF todo[c] = {f} THEN "done" ELSE "copy")
  /\ UNCHANGED <<shelf, version, staged>>

(* Mutant: a copy that fails leaves what it copied.                        *)
CopyStays(c) ==
  /\ stage[c] = "copy"
  /\ todo' = [todo EXCEPT ![c] = {}]
  /\ Keep(c, Failed(c))
  /\ UNCHANGED <<disk, version, staged>>

(* A copy fails: no space, no such file, no such directory.                *)
CopyFails(c) ==
  /\ stage[c] = "copy"
  /\ todo' = [todo EXCEPT ![c] = {}]
  /\ Keep(c, "undo")
  /\ UNCHANGED <<disk, version, staged>>

(* A deletion fails: the package keeps what was not deleted yet.           *)
Botch(c, what, next) ==
  /\ Mixed \/ boots = 0
  /\ Go(c, next)
  /\ botched' = botched \cup {<<c, what>>}

(* A deletion is complete: also of what earlier ones left.                 *)
Cleared(p, what) ==
  botched' = {b \in botched : pkg[b[1]] # p \/ b[2] # what}

(* Deleting a destination: file by file and then the directory, by the     *)
(* rollback of a copy, an uninstall or a remove.                           *)
DeleteDest(c, here, next, failed) == LET p == pkg[c] IN
  /\ stage[c] = here
  /\ \/ /\ dest[p] \notin {None, {}}
        /\ \E f \in dest[p] : dest' = [dest EXCEPT ![p] = @ \ {f}]
        /\ Keep(c, here)
     \/ /\ dest[p] \in {None, {}}
        /\ dest' = [dest EXCEPT ![p] = None]
        /\ Go(c, next) /\ Cleared(p, "dest")
     \/ Botch(c, "dest", failed) /\ UNCHANGED dest
  /\ UNCHANGED <<shelf, version, todo, staged>>

(* Mutant: a rollback that fails stops the call, with the shelf published. *)
UndoOrThrow(c) == DeleteDest(c, "undo", Failed(c), "refused")

Undo(c) == DeleteDest(c, "undo", Failed(c), Failed(c))

Delete(c) == DeleteDest(c, "delete", "done", "thrown")

(* Deleting a shelf: parts of it, then the rest.                           *)
Unshelve(c) == LET p == pkg[c] forget == op[c] = "forget" IN
  /\ stage[c] = "unshelve"
  /\ \/ /\ shelf[p] # None
        /\ shelf[p].whole
        /\ shelf' = [shelf EXCEPT ![p].whole = FALSE]
        /\ Keep(c, "unshelve")
     \/ /\ Unreadable(p)
        /\ shelf' = [shelf EXCEPT ![p] = None]
        /\ Go(c, IF forget THEN "done" ELSE "refused") /\ Cleared(p, "shelf")
     \/ /\ Botch(c, "shelf", IF forget THEN "thrown" ELSE "refused")
        /\ UNCHANGED shelf
  /\ UNCHANGED <<dest, version, todo, staged>>

-----------------------------------------------------------------------------
(* uninstallPackage, which reads the manifest on the shelf; remove, which  *)
(* does not; forgetShelf, only of a package that is not installed.         *)

Find(c) == LET p == pkg[c] IN
  \/ /\ Look(c, "find", "delete")
     /\ dest[p] # None
     /\ op[c] = "uninstall" => Readable(p)
  \/ /\ Look(c, "find", "refused")
     /\ dest[p] = None \/ (op[c] = "uninstall" /\ Unreadable(p))

CheckForget(c) == LET p == pkg[c] IN
  \/ Look(c, "check", "unshelve") /\ Readable(p) /\ dest[p] = None
  \/ Look(c, "check", "refused") /\ (Unreadable(p) \/ dest[p] # None)

Step(c) ==
  \/ CheckSource(c) \/ CheckShelf(c) \/ Gate(c) \/ Publish(c)
  \/ Read(c) \/ CheckExists(c) \/ CheckClash(c) \/ Make(c)
  \/ \E f \in Cubes \cup {Rest} : CopyFile(c, f)
  \/ CopyFails(c) \/ Undo(c) \/ Unshelve(c)
  \/ Find(c) \/ Delete(c) \/ CheckForget(c)

Next ==
  \/ Stop
  \/ Boot
  \/ \E c \in Calls : Step(c) \/ \E p \in Packages : Ask(c, p)

Spec == Init /\ [][Next]_vars

-----------------------------------------------------------------------------
(* Properties.                                                             *)

Shelf == {None} \cup [version : Versions, whole : BOOLEAN]
Dest(p) == {None} \cup SUBSET ((AllCubes(p) \cup {Rest}) \X Versions)
Stages ==
  Over \cup {"idle", "source", "shelf", "taken", "gate", "publish", "read",
             "exists", "clash", "make", "copy", "undo", "unshelve", "find",
             "delete", "check"}
Ops == {"install", "installFrom", "uninstall", "remove", "forget"}

(* Every shelf and destination holds files of its own package in known     *)
(* versions, and a call copies files of its own package only.              *)
TypeOK ==
  /\ shelf \in [Packages -> Shelf]
  /\ dest \in [Packages -> {None} \cup SUBSET ((Cubes \cup {Rest}) \X Versions)]
  /\ \A p \in Packages : dest[p] \in Dest(p)
  /\ up \in BOOLEAN /\ calm \in BOOLEAN
  /\ mounted \subseteq Packages
  /\ boots \in 0..MaxBoots
  /\ stage \in [Calls -> Stages]
  /\ op \in [Calls -> Ops \cup {None}]
  /\ pkg \in [Calls -> Packages \cup {None}]
  /\ version \in [Calls -> Versions \cup {None}]
  /\ todo \in [Calls -> SUBSET (Cubes \cup {Rest})]
  /\ staged \in [Calls -> BOOLEAN]
  /\ last \in [Packages -> Calls \cup {None}]
  /\ DOMAIN before = Calls
  /\ botched \subseteq Calls \X {"shelf", "dest"}
  /\ \A c \in Calls : stage[c] # "idle" =>
       /\ op[c] \in Ops /\ pkg[c] \in Packages
       /\ staged[c] => op[c] = "installFrom"
       /\ todo[c] \subseteq AllCubes(pkg[c]) \cup {Rest}
       /\ before[c] \in Shelf \X Dest(pkg[c])

(* Between calls the next boot comes up, however the calls went and in     *)
(* whatever order they ran, as long as none died and calls on packages     *)
(* that share a cube did not overlap, but for packages a deletion of which *)
(* failed until it is done again: the reason install refuses a cube that   *)
(* is on disk (install.ts:71-81), rolls a failed copy back                 *)
(* (install.ts:131-135), runs the boot's gate before it publishes          *)
(* (install-from.ts:142-163) and keeps the shelf of what is installed      *)
(* (install-scan.ts:87-92). A failed deletion stops a boot by its own      *)
(* package alone, and never by a second directory that brings one cube.    *)
CalmBoots ==
  calm /\ Running = {} =>
    /\ NoDuplicate
    /\ \A p \in Packages : Found(p) # {} /\ Intact(p) => KeepsContract(p) /\ Loads(p)

(* What a call on a package that ended as done leaves.                     *)
Effect(c, s, d) ==
  CASE op[c] = "install" ->
         /\ s = before[c][1]
         /\ d = Files(pkg[c], s.version) \X {s.version}
    [] op[c] = "installFrom" ->
         /\ s = OnShelf(version[c])
         /\ d = Files(pkg[c], version[c]) \X {version[c]}
    [] op[c] \in {"uninstall", "remove"} -> s = before[c][1] /\ d = None
    [] op[c] = "forget" -> s = None /\ d = None

(* What a deletion leaves that ended with an error: it can be asked for    *)
(* again.                                                                  *)
Halfway(c, s, d) ==
  IF op[c] = "forget"
  THEN d = None /\ s # None /\ s.version = before[c][1].version
  ELSE s = before[c][1] /\ d # None /\ d \subseteq before[c][2]

(* All or nothing: a call that was refused left its package's shelf and    *)
(* directory as it found them, each unless its rollback failed; one that   *)
(* was done did all of its work, if it did not install from a shelf that a *)
(* failed deletion left torn; one that ended with an error deleted a part  *)
(* of what it was to delete and nothing else. No later call on another     *)
(* package, nor its failure, took any of it back.                          *)
CallsStand ==
  calm => \A p \in Packages : last[p] # None =>
    LET c == last[p] IN
      /\ stage[c] = "refused" =>
           /\ <<c, "shelf">> \notin botched => shelf[p] = before[c][1]
           /\ <<c, "dest">> \notin botched => dest[p] = before[c][2]
      /\ stage[c] = "done" /\ (op[c] = "install" => before[c][1].whole)
           => Effect(c, shelf[p], dest[p])
      /\ stage[c] = "thrown" => Halfway(c, shelf[p], dest[p])

(* The state has its type; and between calls of which none died and no two *)
(* of rival packages overlapped, the next boot comes up (CalmBoots), and   *)
(* every call was all or nothing (CallsStand), each but for what a failed  *)
(* deletion left half done, which stays with its package.                  *)
(* install.ts:71-81 and 131-135, install-from.ts:142-163,                  *)
(* install-scan.ts:87-92.                                                  *)
CalmCallsStand == TypeOK /\ CalmBoots /\ CallsStand

(* The shelf never holds half a package unless someone was deleting it and *)
(* has yet to end, died or failed, even if calls overlap: a copy is        *)
(* published whole (install-from.ts:165-179).                              *)
ShelfIsPublishedWhole ==
  \A p \in Packages : Torn(p) =>
    \E c \in Calls : /\ pkg[c] = p
                     /\ op[c] = "forget" \/ staged[c]
                     /\ stage[c] \in {"unshelve", "dead"} \/ <<c, "shelf">> \in botched
=============================================================================
