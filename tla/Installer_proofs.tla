--------------------------- MODULE Installer_proofs ---------------------------
(***************************************************************************)
(* Proofs about Installer, for any packages, versions and number of calls. *)
(***************************************************************************)
EXTENDS Installer, TLAPS

Active == Stages \ (Over \cup {"idle"})

(* Each stage is one of the calls that have it; the stages before          *)
(* publication know the version they are about to publish.  A system that  *)
(* stopped has a boot left, and only a call that began has a deletion that *)
(* failed.                                                                 *)
StageInv ==
  /\ ~ up => boots < MaxBoots
  /\ \A b \in botched : stage[b[1]] # "idle"
  /\ \A c \in Calls :
      /\ stage[c] = "idle" => ~ staged[c] /\ todo[c] = {}
      /\ stage[c] \in {"source", "shelf", "taken", "gate", "publish"}
           => op[c] = "installFrom" /\ version[c] \in Versions
      /\ stage[c] \in {"read", "exists", "clash", "make", "copy", "undo"}
           => op[c] \in {"install", "installFrom"}
      /\ stage[c] \in {"find", "delete"} => op[c] \in {"uninstall", "remove"}
      /\ stage[c] = "check" => op[c] = "forget"
      /\ stage[c] = "unshelve" => op[c] = "forget" \/ staged[c]

IInv == TypeOK /\ StageInv /\ ShelfIsPublishedWhole

LEMMA FilesType ==
  ASSUME NEW p \in Packages, NEW v \in Versions
  PROVE  /\ CubesOf[p][v] \subseteq Cubes
         /\ CubesOf[p][v] # {}
         /\ Files(p, v) \subseteq AllCubes(p) \cup {Rest}
         /\ AllCubes(p) \subseteq Cubes
         /\ Files(p, v) \subseteq Cubes \cup {Rest}
<1>1. \A w \in Versions : CubesOf[p][w] \subseteq Cubes /\ CubesOf[p][w] # {}
  BY CubesOfAssumption
<1>2. AllCubes(p) \subseteq Cubes /\ CubesOf[p][v] \subseteq AllCubes(p)
  BY <1>1 DEF AllCubes
<1> QED
  BY <1>1, <1>2 DEF Files

LEMMA ShelfType ==
  ASSUME NEW s \in Shelf, s # None
  PROVE  s.version \in Versions /\ s.whole \in BOOLEAN
  BY DEF Shelf

(* A step of a call is of a call under way, and leaves everything of other *)
(* calls and of other packages alone.                                      *)
Within(c) ==
  /\ stage[c] \in Active
  /\ stage'[c] \in Active \cup {"done", "refused", "thrown"}
  /\ \A d \in Calls \ {c} : /\ stage'[d] = stage[d] /\ version'[d] = version[d]
                            /\ todo'[d] = todo[d] /\ staged'[d] = staged[d]
  /\ \A q \in Packages \ {pkg[c]} : shelf'[q] = shelf[q] /\ dest'[q] = dest[q]
  /\ UNCHANGED <<process, op, pkg, history>>
  /\ botched' \subseteq botched \cup {<<c, "shelf">>, <<c, "dest">>}
  /\ \A b \in botched : pkg[b[1]] # pkg[c] => b \in botched'

LEMMA StepWithin ==
  ASSUME TypeOK, NEW c \in Calls, Step(c)
  PROVE  Within(c)
<1> USE DEF TypeOK, Keep, Go, Active, Stages, Over, Within
<1>1. ASSUME NEW here \in Active, NEW then \in Active \cup {"done", "refused"}, Look(c, here, then)
      PROVE  Within(c)
  BY <1>1 DEF Look, disk
<1>2. CASE CheckSource(c) \/ CheckShelf(c) \/ Gate(c) \/ CheckExists(c) \/ CheckClash(c)
             \/ Find(c) \/ CheckForget(c)
  <2>1. \E here \in Active, then \in Active \cup {"done", "refused"} : Look(c, here, then)
    BY <1>2 DEF CheckSource, CheckShelf, Gate, CheckExists, CheckClash, Find, CheckForget, Failed
  <2> HIDE DEF TypeOK, Keep, Go, Active, Stages, Over, Within
  <2> QED
    BY <1>1, <2>1
<1>3. CASE Publish(c)
  BY <1>3 DEF Publish
<1>4. CASE Read(c)
  BY <1>4 DEF Read, Failed, disk
<1>5. CASE Make(c)
  BY <1>5 DEF Make
<1>6. ASSUME NEW f \in Cubes \cup {Rest}, CopyFile(c, f)
      PROVE  Within(c)
  BY <1>6 DEF CopyFile
<1>7. CASE CopyFails(c)
  BY <1>7 DEF CopyFails, disk
<1>8. ASSUME NEW here \in Active, NEW then \in Active \cup {"done", "refused"},
             NEW failed \in Active \cup {"refused", "thrown"}, DeleteDest(c, here, then, failed)
      PROVE  Within(c)
  BY <1>8 DEF DeleteDest, Botch, Cleared
<1>9. CASE Undo(c) \/ Delete(c)
  <2>1. \E here \in Active, then \in Active \cup {"done", "refused"},
           failed \in Active \cup {"refused", "thrown"} : DeleteDest(c, here, then, failed)
    BY <1>9 DEF Undo, Delete, Failed
  <2> HIDE DEF TypeOK, Keep, Go, Active, Stages, Over, Within
  <2> QED
    BY <1>8, <2>1
<1>10. CASE Unshelve(c)
  BY <1>10 DEF Unshelve, Botch, Cleared
<1> HIDE DEF TypeOK, Keep, Go, Active, Stages, Over, Within
<1> QED
  BY <1>2, <1>3, <1>4, <1>5, <1>6, <1>7, <1>9, <1>10 DEF Step

LEMMA StepFrame ==
  ASSUME TypeOK, NEW c \in Calls, Step(c)
  PROVE  /\ Within(c)
         /\ pkg[c] \in Packages /\ op[c] \in Ops /\ before[c] \in Shelf \X Dest(pkg[c])
<1>1. Within(c) /\ stage[c] # "idle"
  BY StepWithin DEF Within, Active
<1> QED
  BY <1>1 DEF TypeOK

(* What failed deletions left of the other packages is what it was.        *)
LEMMA SpoiledFrame ==
  ASSUME TypeOK, NEW c \in Calls, Step(c), NEW q, q # pkg[c], NEW what
  PROVE  /\ Spoiled(q, what)' <=> Spoiled(q, what)
         /\ \A e \in Calls : pkg[e] = q => (<<e, what>> \in botched' <=> <<e, what>> \in botched)
<1>1. /\ botched' \subseteq botched \cup {<<c, "shelf">>, <<c, "dest">>}
      /\ \A b \in botched : pkg[b[1]] # pkg[c] => b \in botched'
      /\ pkg' = pkg
  BY StepFrame DEF Within
<1>2. \A b \in botched' : b \in botched \/ b[1] = c
  BY <1>1
<1>3. \A b : pkg[b[1]] = q => (b \in botched' <=> b \in botched)
  BY <1>1, <1>2
<1>4. Spoiled(q, what)' <=> Spoiled(q, what)
  BY <1>1, <1>3 DEF Spoiled
<1>5. \A e \in Calls : pkg[e] = q => (<<e, what>> \in botched' <=> <<e, what>> \in botched)
  <2> SUFFICES ASSUME NEW e \in Calls, pkg[e] = q
               PROVE  <<e, what>> \in botched' <=> <<e, what>> \in botched
    OBVIOUS
  <2>1. <<e, what>>[1] = e
    OBVIOUS
  <2> QED
    BY <1>3, <2>1
<1> QED
  BY <1>4, <1>5

(* What the steps of a call do to the files, for the type.                 *)
LEMMA StepType == ASSUME TypeOK, StageInv, NEW c \in Calls, Step(c) PROVE TypeOK'
<1> DEFINE p == pkg[c]
<1>1. /\ stage[c] \in Active /\ p \in Packages /\ op[c] \in Ops
      /\ stage'[c] \in Stages
      /\ UNCHANGED <<process, op, pkg, history>>
      /\ \A d \in Calls \ {c} : /\ stage'[d] = stage[d] /\ version'[d] = version[d]
                                /\ todo'[d] = todo[d] /\ staged'[d] = staged[d]
      /\ \A q \in Packages \ {p} : shelf'[q] = shelf[q] /\ dest'[q] = dest[q]
      /\ \A q \in Packages : Dest(q)' = Dest(q)
  BY StepFrame DEF Within, Active, Stages, Over, Dest
<1>2. stage' \in [Calls -> Stages]
  <2>1. \E then : Go(c, then)
    BY DEF Step, CheckSource, CheckShelf, Gate, CheckExists, CheckClash, Find, CheckForget, Publish,
       Read, Make, CopyFile, CopyFails, Undo, Delete, DeleteDest, Unshelve, Botch, Look, Keep
  <2>2. \E then : stage' = [stage EXCEPT ![c] = then]
    BY <2>1 DEF Go
  <2> QED
    BY <1>1, <2>2 DEF TypeOK
<1>3. /\ shelf' \in [Packages -> Shelf]
      /\ staged' \in [Calls -> BOOLEAN] /\ (staged'[c] => op[c] = "installFrom")
  <2>1. CASE Publish(c)
    <3>1. op[c] = "installFrom" /\ OnShelf(version[c]) \in Shelf
      BY <2>1 DEF Publish, StageInv, OnShelf, Shelf
    <3>2. shelf' \in [Packages -> Shelf]
      BY <1>1, <2>1, <3>1 DEF Publish, TypeOK
    <3>3. staged' \in [Calls -> BOOLEAN]
      BY <1>1, <2>1 DEF Publish, TypeOK
    <3> QED
      BY <3>1, <3>2, <3>3
  <2>2. CASE Unshelve(c)
    <3>1. shelf[p] # None => [shelf[p] EXCEPT !.whole = FALSE] \in Shelf
      <4> SUFFICES ASSUME NEW s \in [version : Versions, whole : BOOLEAN]
                   PROVE  [s EXCEPT !.whole = FALSE] \in [version : Versions, whole : BOOLEAN]
        BY <1>1 DEF Shelf, TypeOK
      <4> QED
        OBVIOUS
    <3>2. shelf' \in [Packages -> Shelf]
      BY <1>1, <2>2, <3>1 DEF Unshelve, TypeOK, Shelf
    <3> QED
      BY <1>1, <2>2, <3>2 DEF Unshelve, TypeOK, Active, Stages, Over
  <2>3. CASE ~ Publish(c) /\ ~ Unshelve(c)
    <3>1. UNCHANGED <<shelf, staged>>
      BY <2>3 DEF Step, CheckSource, CheckShelf, Gate, CheckExists, CheckClash, Find, CheckForget,
         Read, Make, CopyFile, CopyFails, Undo, Delete, DeleteDest, Look, disk
    <3> QED
      BY <1>1, <3>1 DEF TypeOK, Active, Stages, Over
  <2> QED
    BY <2>1, <2>2, <2>3
<1>4. /\ dest' \in [Packages -> {None} \cup SUBSET ((Cubes \cup {Rest}) \X Versions)]
      /\ dest'[p] \in Dest(p)
  <2> DEFINE Of(q) == SUBSET ((AllCubes(q) \cup {Rest}) \X Versions)
  <2>1. dest[p] = None \/ dest[p] \in Of(p)
    BY <1>1 DEF TypeOK, Dest
  <2> DEFINE Goal ==
               /\ dest' \in [Packages -> {None} \cup SUBSET ((Cubes \cup {Rest}) \X Versions)]
               /\ dest'[p] \in Dest(p)
  <2>2. ASSUME dest' = [dest EXCEPT ![p] = dest'[p]], dest'[p] = None \/ dest'[p] \in Of(p)
        PROVE  Goal
    <3>1. Of(p) \subseteq SUBSET ((Cubes \cup {Rest}) \X Versions)
      BY <1>1, FilesType, CubesOfAssumption
    <3> QED
      BY <1>1, <2>2, <3>1 DEF TypeOK, Dest
  <2>3. CASE Make(c)
    BY <2>1, <2>2, <2>3, <1>1 DEF Make, TypeOK
  <2>4. ASSUME NEW f \in Cubes \cup {Rest}, CopyFile(c, f)
        PROVE  Goal
    <3>1. shelf[p] # None /\ f \in AllCubes(p) \cup {Rest} /\ shelf[p].version \in Versions
      <4>1. shelf[p] # None /\ shelf[p].version \in Versions
        BY <1>1, <2>4, ShelfType DEF CopyFile, Readable, TypeOK
      <4> QED
        BY <1>1, <2>4, <4>1, FilesType DEF CopyFile
    <3>2. dest'[p] = {g \in (IF dest[p] = None THEN {} ELSE dest[p]) : g[1] # f} \cup {<<f, shelf[p].version>>}
      BY <1>1, <2>4 DEF CopyFile, TypeOK
    <3>3. dest'[p] \in Of(p)
      BY <2>1, <3>1, <3>2
    <3>4. dest' = [dest EXCEPT ![p] = dest'[p]]
      BY <1>1, <2>4 DEF CopyFile, TypeOK
    <3> QED
      BY <2>2, <3>3, <3>4
  <2>5. CASE Undo(c) \/ Delete(c)
    <3>1. dest' = [dest EXCEPT ![p] = dest'[p]]
      BY <1>1, <2>5 DEF Undo, Delete, DeleteDest, TypeOK
    <3>2. dest'[p] = None \/ (dest[p] # None /\ dest'[p] \subseteq dest[p])
      BY <1>1, <2>5 DEF Undo, Delete, DeleteDest, TypeOK
    <3> QED
      BY <2>1, <2>2, <3>1, <3>2
  <2>6. CASE UNCHANGED dest
    BY <1>1, <2>6 DEF TypeOK
  <2> QED
    BY <2>3, <2>4, <2>5, <2>6 DEF Step, CheckSource, CheckShelf, Gate, CheckExists, CheckClash, Find,
       CheckForget, Publish, Read, CopyFails, Unshelve, Look, disk
<1>5. version' \in [Calls -> Versions \cup {None}]
  <2>1. CASE Read(c)
    <3>1. shelf[p] # None => shelf[p].version \in Versions
      BY <1>1, ShelfType DEF TypeOK
    <3> QED
      BY <2>1, <3>1 DEF Read, Readable, TypeOK
  <2>2. CASE UNCHANGED version
    BY <2>2 DEF TypeOK
  <2> QED
    BY <2>1, <2>2 DEF Step, CheckSource, CheckShelf, Gate, CheckExists, CheckClash, Find, CheckForget,
       Publish, Make, CopyFile, CopyFails, Undo, Delete, DeleteDest, Unshelve, Look
<1>6. /\ todo' \in [Calls -> SUBSET (Cubes \cup {Rest})]
      /\ todo'[c] \subseteq AllCubes(p) \cup {Rest}
  <2>1. todo[c] \subseteq AllCubes(p) \cup {Rest}
    BY <1>1 DEF TypeOK, Active
  <2>2. CASE Make(c)
    <3>1. shelf[p] # None => /\ Files(p, shelf[p].version) \subseteq AllCubes(p) \cup {Rest}
                             /\ Files(p, shelf[p].version) \subseteq Cubes \cup {Rest}
      BY <1>1, ShelfType, FilesType DEF TypeOK
    <3>2. \/ shelf[p] # None /\ \E found \in SUBSET Files(p, shelf[p].version) : todo' = [todo EXCEPT ![c] = found]
          \/ UNCHANGED todo
      BY <2>2 DEF Make, Readable, Holds
    <3> QED
      BY <2>1, <3>1, <3>2 DEF TypeOK
  <2>3. CASE CopyFails(c) \/ \E f \in Cubes \cup {Rest} : CopyFile(c, f)
    BY <2>1, <2>3 DEF CopyFails, CopyFile, TypeOK
  <2>4. CASE UNCHANGED todo
    BY <2>1, <2>4 DEF TypeOK
  <2> QED
    BY <2>2, <2>3, <2>4 DEF Step, CheckSource, CheckShelf, Gate, CheckExists, CheckClash, Find, CheckForget,
       Publish, Read, Undo, Delete, DeleteDest, Unshelve, Look
<1>7. botched' \subseteq Calls \X {"shelf", "dest"}
  BY StepFrame DEF Within, TypeOK
<1> QED
  BY <1>1, <1>2, <1>3, <1>4, <1>5, <1>6, <1>7 DEF TypeOK, process, history, Active

LEMMA StartType ==
  ASSUME TypeOK, StageInv, NEW c \in Calls, NEW p \in Packages, Ask(c, p)
  PROVE  /\ TypeOK'
         /\ stage[c] = "idle" /\ pkg'[c] = p /\ op'[c] \in Ops
         /\ stage'[c] \in {"read", "source", "find", "check"}
         /\ stage'[c] = "read" => op'[c] = "install"
         /\ stage'[c] = "source" => op'[c] = "installFrom" /\ version'[c] \in Versions
         /\ stage'[c] = "find" => op'[c] \in {"uninstall", "remove"}
         /\ stage'[c] = "check" => op'[c] = "forget"
         /\ \A d \in Calls \ {c} : /\ stage'[d] = stage[d] /\ version'[d] = version[d]
                                   /\ op'[d] = op[d] /\ pkg'[d] = pkg[d] /\ before'[d] = before[d]
         /\ \A q \in Packages \ {p} : last'[q] = last[q]
         /\ last'[p] = c
         /\ before'[c] = <<shelf[p], dest[p]>>
         /\ calm' = (calm /\ \A d \in Running : ~Rivals(p, pkg[d]))
         /\ UNCHANGED <<disk, process, todo, staged, botched>>
<1>1. PICK o \in Ops, v \in Versions \cup {None}, first \in {"read", "source", "find", "check"} :
        /\ Start(c, o, p, v, first)
        /\ first = "read" => o = "install"
        /\ first = "source" => o = "installFrom" /\ v \in Versions
        /\ first = "find" => o \in {"uninstall", "remove"}
        /\ first = "check" => o = "forget"
  BY DEF Ask, Ops
<1>2. /\ stage[c] = "idle"
      /\ stage' = [stage EXCEPT ![c] = first]
      /\ op' = [op EXCEPT ![c] = o]
      /\ pkg' = [pkg EXCEPT ![c] = p]
      /\ version' = [version EXCEPT ![c] = v]
      /\ calm' = (calm /\ \A d \in Running : ~Rivals(p, pkg[d]))
      /\ last' = [last EXCEPT ![p] = c]
      /\ before' = [before EXCEPT ![c] = <<shelf[p], dest[p]>>]
      /\ UNCHANGED <<disk, process, todo, staged, botched>>
  BY <1>1 DEF Start
<1>3. TypeOK'
  <2>1. ASSUME NEW d \in Calls, stage'[d] # "idle"
        PROVE  /\ op'[d] \in Ops /\ pkg'[d] \in Packages
               /\ staged'[d] => op'[d] = "installFrom"
               /\ todo'[d] \subseteq AllCubes(pkg'[d]) \cup {Rest}
               /\ before'[d] \in Shelf \X Dest(pkg'[d])
    <3>1. CASE d = c
      <4>1. ~ staged[c] /\ todo[c] = {}
        BY <1>2 DEF StageInv
      <4> QED
        BY <1>1, <1>2, <3>1, <4>1 DEF TypeOK
    <3>2. CASE d # c
      BY <1>2, <2>1, <3>2 DEF TypeOK
    <3> QED
      BY <3>1, <3>2
  <2>2. /\ stage' \in [Calls -> Stages] /\ op' \in [Calls -> Ops \cup {None}]
        /\ pkg' \in [Calls -> Packages \cup {None}]
        /\ version' \in [Calls -> Versions \cup {None}]
        /\ last' \in [Packages -> Calls \cup {None}]
        /\ DOMAIN before' = Calls
        /\ calm' \in BOOLEAN
    BY <1>2 DEF TypeOK, Stages
  <2> QED
    BY <1>2, <2>1, <2>2 DEF TypeOK, disk, process, Dest
<1> QED
  BY <1>1, <1>2, <1>3 DEF TypeOK

LEMMA TypeStep == TypeOK /\ StageInv /\ [Next]_vars => TypeOK'
<1> SUFFICES ASSUME TypeOK, StageInv, [Next]_vars PROVE TypeOK'
  OBVIOUS
<1>1. CASE Stop
  <2>1. stage' \in [Calls -> Stages] /\ calm' \in BOOLEAN /\ up' \in BOOLEAN
    BY <1>1 DEF Stop, TypeOK, Stages, Over
  <2>2. \A c \in Calls : stage'[c] # "idle" => stage[c] # "idle"
    BY <1>1 DEF Stop, TypeOK, Running
  <2>3. \A c \in Calls : stage'[c] # "idle" =>
          /\ op'[c] \in Ops /\ pkg'[c] \in Packages
          /\ staged'[c] => op'[c] = "installFrom"
          /\ todo'[c] \subseteq AllCubes(pkg'[c]) \cup {Rest}
          /\ before'[c] \in Shelf \X Dest(pkg'[c])
    BY <1>1, <2>2 DEF Stop, TypeOK
  <2>4. UNCHANGED <<disk, mounted, boots, op, pkg, version, todo, staged, last, before, botched>>
    BY <1>1 DEF Stop
  <2> QED
    BY <2>1, <2>3, <2>4 DEF TypeOK, disk
<1>2. CASE Boot
  BY <1>2, BoundsAssumption DEF Boot, StageInv, TypeOK, disk, history, Dest
<1>3. CASE UNCHANGED vars
  BY <1>3 DEF vars, TypeOK, disk, process, history, Dest
<1> QED
  BY <1>1, <1>2, <1>3, StepType, StartType DEF Next

LEMMA StageStep == TypeOK /\ StageInv /\ [Next]_vars => StageInv'
<1> SUFFICES ASSUME TypeOK, StageInv, [Next]_vars PROVE StageInv'
  OBVIOUS
<1>1. ASSUME NEW c \in Calls, Step(c)
      PROVE  StageInv'
  <2>1. ASSUME NEW d \in Calls, d # c
        PROVE  /\ stage'[d] = stage[d] /\ version'[d] = version[d] /\ staged'[d] = staged[d]
               /\ op'[d] = op[d] /\ todo'[d] = todo[d]
    BY <1>1, <2>1, StepFrame DEF Within
  <2>2. /\ stage'[c] \in {"source", "shelf", "taken", "gate", "publish"}
             => op[c] = "installFrom" /\ version'[c] \in Versions
        /\ stage'[c] \in {"read", "exists", "clash", "make", "copy", "undo"}
             => op[c] \in {"install", "installFrom"}
        /\ stage'[c] \in {"find", "delete"} => op[c] \in {"uninstall", "remove"}
        /\ stage'[c] = "check" => op[c] = "forget"
        /\ stage'[c] = "unshelve" => op[c] = "forget" \/ staged'[c]
    <3> USE DEF StageInv, TypeOK, Keep, Go
    <3>1. CASE CheckSource(c) \/ CheckShelf(c) \/ Gate(c)
      BY <3>1 DEF CheckSource, CheckShelf, Gate, Look, Go
    <3>2. CASE Publish(c)
      BY <3>2 DEF Publish, Go
    <3>3. CASE Read(c)
      BY <3>3 DEF Read, Failed, Go
    <3>4. CASE CheckExists(c) \/ CheckClash(c)
      BY <3>4 DEF CheckExists, CheckClash, Failed, Look, Go
    <3>5. CASE Make(c) \/ CopyFails(c) \/ \E f \in Cubes \cup {Rest} : CopyFile(c, f)
      BY <3>5 DEF Make, CopyFails, CopyFile, Go
    <3>6. CASE Undo(c) \/ Delete(c)
      BY <3>6 DEF Undo, Delete, DeleteDest, Botch, Failed
    <3>7. CASE Unshelve(c) \/ Find(c) \/ CheckForget(c)
      BY <3>7 DEF Unshelve, Find, CheckForget, Botch, Look
    <3> HIDE DEF StageInv, TypeOK, Keep, Go
    <3> QED
      BY <1>1, <3>1, <3>2, <3>3, <3>4, <3>5, <3>6, <3>7 DEF Step
  <2>3. op'[c] = op[c] /\ stage'[c] # "idle" /\ up' = up /\ boots' = boots
    BY <1>1, StepFrame DEF Within, Active, Over, process
  <2>4. \A b \in botched' : stage'[b[1]] # "idle"
    <3>1. \A b \in botched' : b \in botched \/ b[1] = c
      BY <1>1, StepFrame DEF Within
    <3> QED
      BY <2>1, <2>3, <3>1 DEF StageInv, TypeOK
  <2> QED
    BY <2>1, <2>2, <2>3, <2>4 DEF StageInv
<1>2. ASSUME NEW c \in Calls, NEW p \in Packages, Ask(c, p)
      PROVE  StageInv'
  <2>1. \A b \in botched' : stage'[b[1]] # "idle"
    BY <1>2, StartType DEF StageInv, TypeOK
  <2> QED
    BY <1>2, <2>1, StartType DEF StageInv, process
<1>3. CASE Stop
  BY <1>3 DEF Stop, StageInv, TypeOK
<1>4. CASE Boot \/ UNCHANGED vars
  BY <1>4 DEF Boot, vars, StageInv, process, history
<1> QED
  BY <1>1, <1>2, <1>3, <1>4 DEF Next

(* A torn shelf stays the business of a call that is taking it down.       *)
LEMMA ShelfStep == IInv /\ [Next]_vars => ShelfIsPublishedWhole'
<1> SUFFICES ASSUME IInv, [Next]_vars PROVE ShelfIsPublishedWhole'
  OBVIOUS
<1> USE DEF IInv
<1>1. ASSUME NEW c \in Calls, Step(c)
      PROVE  ShelfIsPublishedWhole'
  <2>1. /\ \A d \in Calls \ {c} : stage'[d] = stage[d] /\ staged'[d] = staged[d]
        /\ \A q \in Packages \ {pkg[c]} : shelf'[q] = shelf[q]
        /\ pkg' = pkg /\ op' = op /\ pkg[c] \in Packages
        /\ \A b \in botched : pkg[b[1]] # pkg[c] => b \in botched'
    BY <1>1, StepFrame DEF Within
  <2>2. CASE Unshelve(c)
    <3>1. stage[c] = "unshelve" /\ staged'[c] = staged[c] /\ (op[c] = "forget" \/ staged[c])
      BY <2>2 DEF Unshelve, StageInv
    <3>2. Torn(pkg[c])' => stage'[c] = "unshelve" \/ <<c, "shelf">> \in botched'
      BY <2>1, <2>2 DEF Unshelve, Botch, Torn, TypeOK, Keep, Go
    <3>3. ASSUME NEW q \in Packages, q # pkg[c], Torn(q)'
          PROVE  \E d \in Calls :
                   /\ pkg'[d] = q
                   /\ op'[d] = "forget" \/ staged'[d]
                   /\ stage'[d] \in {"unshelve", "dead"} \/ <<d, "shelf">> \in botched'
      <4>1. Torn(q)
        BY <2>1, <3>3 DEF Torn
      <4>2. PICK d \in Calls :
               /\ pkg[d] = q
               /\ op[d] = "forget" \/ staged[d]
               /\ stage[d] \in {"unshelve", "dead"} \/ <<d, "shelf">> \in botched
        BY <4>1 DEF ShelfIsPublishedWhole
      <4>3. <<d, "shelf">> \in botched => <<d, "shelf">> \in botched'
        <5>1. <<d, "shelf">>[1] = d
          OBVIOUS
        <5> QED
          BY <2>1, <3>3, <4>2, <5>1
      <4> QED
        BY <2>1, <3>3, <4>2, <4>3
    <3> QED
      BY <2>1, <3>1, <3>2, <3>3 DEF ShelfIsPublishedWhole
  <2>3. CASE Publish(c)
    <3>1. \A q \in Packages : Torn(q)' => Torn(q)
      BY <2>1, <2>3 DEF Publish, Torn, OnShelf, TypeOK
    <3>2. stage[c] = "publish" /\ botched' = botched /\ (staged[c] => staged'[c])
      BY <2>3 DEF Publish, Keep, TypeOK
    <3> QED
      BY <2>1, <3>1, <3>2 DEF ShelfIsPublishedWhole
  <2>4. CASE ~ Unshelve(c) /\ ~ Publish(c)
    <3>1. UNCHANGED <<shelf, staged>> /\ stage[c] \notin {"unshelve", "dead"}
      BY <1>1, <2>4 DEF Step, CheckSource, CheckShelf, Gate, CheckExists, CheckClash, Find, CheckForget,
         Read, Make, CopyFile, CopyFails, Undo, Delete, DeleteDest, Look, disk
    <3>2. \A d \in Calls : <<d, "shelf">> \in botched => <<d, "shelf">> \in botched'
      <4>1. \/ botched' = botched
            \/ Cleared(pkg[c], "dest")
            \/ \E b \in Calls \X {"dest"} : botched' = botched \cup {b}
        BY <1>1, <2>4 DEF Step, CheckSource, CheckShelf, Gate, CheckExists, CheckClash, Find, CheckForget,
           Read, Make, CopyFile, CopyFails, Undo, Delete, DeleteDest, Botch, Look, Keep
      <4> QED
        BY <4>1 DEF Cleared
    <3> QED
      BY <2>1, <3>1, <3>2 DEF ShelfIsPublishedWhole, Torn
  <2> QED
    BY <2>2, <2>3, <2>4
<1>2. ASSUME NEW c \in Calls, NEW p \in Packages, Ask(c, p)
      PROVE  ShelfIsPublishedWhole'
  <2>1. /\ stage[c] = "idle" /\ shelf' = shelf /\ staged' = staged /\ botched' = botched
        /\ \A d \in Calls \ {c} : stage'[d] = stage[d] /\ op'[d] = op[d] /\ pkg'[d] = pkg[d]
    BY <1>2, StartType DEF disk
  <2>2. <<c, "shelf">> \notin botched
    BY <2>1 DEF StageInv
  <2> QED
    BY <2>1, <2>2 DEF ShelfIsPublishedWhole, Torn
<1>3. CASE Stop
  <2>1. /\ UNCHANGED <<shelf, pkg, op, staged, botched>>
        /\ \A c \in Calls : stage[c] \in {"unshelve", "dead"} => stage'[c] \in {"unshelve", "dead"}
    BY <1>3 DEF Stop, disk
  <2> QED
    BY <2>1 DEF ShelfIsPublishedWhole, Torn
<1>4. CASE Boot \/ UNCHANGED vars
  BY <1>4 DEF Boot, vars, ShelfIsPublishedWhole, Torn, disk, process, history
<1> QED
  BY <1>1, <1>2, <1>3, <1>4 DEF Next

LEMMA InitInv == Init => IInv
<1> SUFFICES ASSUME Init PROVE IInv
  OBVIOUS
<1>1. TypeOK
  <2>1. shelf \in [Packages -> Shelf]
    <3>1. \A v \in Versions : OnShelf(v) \in Shelf
      BY DEF OnShelf, Shelf
    <3>2. None \in Shelf
      BY DEF Shelf
    <3> QED
      BY <3>1, <3>2 DEF Init
  <2>2. stage \in [Calls -> Stages] /\ (\A c \in Calls : stage[c] = "idle")
    BY DEF Init, Stages
  <2>3. boots \in 0..MaxBoots
    BY BoundsAssumption DEF Init
  <2>4. /\ dest \in [Packages -> {None} \cup SUBSET ((Cubes \cup {Rest}) \X Versions)]
        /\ \A p \in Packages : dest[p] \in Dest(p)
    BY DEF Init, Dest
  <2>5. /\ up \in BOOLEAN /\ calm \in BOOLEAN
        /\ mounted \subseteq Packages
        /\ op \in [Calls -> Ops \cup {None}]
        /\ pkg \in [Calls -> Packages \cup {None}]
        /\ version \in [Calls -> Versions \cup {None}]
        /\ todo \in [Calls -> SUBSET (Cubes \cup {Rest})]
        /\ staged \in [Calls -> BOOLEAN]
        /\ last \in [Packages -> Calls \cup {None}]
        /\ DOMAIN before = Calls
        /\ botched = {}
    BY DEF Init
  <2> QED
    BY <2>1, <2>2, <2>3, <2>4, <2>5 DEF TypeOK
<1>2. StageInv
  BY DEF Init, StageInv
<1>3. ShelfIsPublishedWhole
  BY DEF Init, ShelfIsPublishedWhole, Torn, OnShelf
<1> QED
  BY <1>1, <1>2, <1>3 DEF IInv

LEMMA Inductive == Spec => []IInv
<1>1. IInv /\ [Next]_vars => IInv'
  BY TypeStep, StageStep, ShelfStep DEF IInv
<1> QED
  BY InitInv, <1>1, PTL DEF Spec

(* Nobody sees half a package on the shelf but whoever was deleting it:    *)
(* however many calls overlap, and whichever of them die.                  *)
THEOREM ShelfStaysWhole == Spec => []ShelfIsPublishedWhole
<1>1. IInv => ShelfIsPublishedWhole
  BY DEF IInv
<1> QED
  BY Inductive, <1>1, PTL

-----------------------------------------------------------------------------
(* What calm calls leave behind.                                           *)

SoundShelf(p, s) == s = None \/ \E v \in Versions : s = OnShelf(v) /\ <<p, v>> \in Sound

(* What a package with no call under way is like: a sound package on the   *)
(* shelf, whole, or none; installed from it, completely, or not installed. *)
Settled(p, s, d) ==
  /\ SoundShelf(p, s)
  /\ d = None \/ (s # None /\ d = Files(p, s.version) \X {s.version})

(* It is so but for what failed deletions left of it.                      *)
Kept(p, s, d) ==
  /\ ~ Spoiled(p, "shelf") => SoundShelf(p, s)
  /\ Intact(p) => Settled(p, s, d)

(* In destinations d, no package but p has a cube of p's version v.        *)
Free(d, p, v) ==
  \A q \in Packages \ {p} :
    (IF d[q] = None THEN {} ELSE {f[1] : f \in d[q]}) \cap CubesOf[p][v] = {}

Untouched(c) == shelf[pkg[c]] = before[c][1] /\ dest[pkg[c]] = before[c][2]

(* What a call under way has found and done so far, stage by stage: before *)
(* the package is published,                                               *)
Staging(c) == LET p == pkg[c] v == version[c] IN
  stage[c] \in {"source", "shelf", "taken", "gate", "publish"} =>
    /\ Untouched(c) /\ ~ staged[c]
    /\ stage[c] # "source" => dest[p] = None
    /\ stage[c] \in {"gate", "publish"} => shelf[p] = None
    /\ stage[c] = "taken" => ~ Free(dest, p, v)
    /\ stage[c] = "publish" => <<p, v>> \in Sound \/ ~ Free(dest, p, v)

(* while it is installed, if the shelf is torn only a part of it,          *)
Copying(c) == LET p == pkg[c] v == version[c] IN
  stage[c] = "copy" =>
    /\ todo[c] # {} /\ todo[c] \subseteq Files(p, v)
    /\ dest[p] # None /\ dest[p] \subseteq Files(p, v) \X {v}
    /\ shelf[p].whole => dest[p] = (Files(p, v) \ todo[c]) \X {v}

Installing(c) == LET p == pkg[c] v == version[c] IN
  stage[c] \in {"read", "exists", "clash", "make", "copy", "undo"} =>
    /\ shelf[p] = IF staged[c] THEN OnShelf(v) ELSE before[c][1]
    /\ staged[c] => /\ before[c] = <<None, None>> /\ v \in Versions
                    /\ <<p, v>> \in Sound \/ ~ Free(dest, p, v)
    /\ stage[c] \in {"read", "exists", "clash", "make"} => dest[p] = before[c][2]
    /\ stage[c] # "read" \/ op[c] = "installFrom"
         => v \in Versions /\ shelf[p] # None /\ shelf[p].version = v
    /\ op[c] = "installFrom" => shelf[p] = OnShelf(v)
    /\ stage[c] \notin {"read", "exists"} => before[c][2] = None
    /\ stage[c] \in {"make", "copy"} => Free(dest, p, v)
    /\ Copying(c)

(* and while it is taken away.                                             *)
Removing(c) == LET p == pkg[c] IN
  /\ stage[c] \in {"find", "check"} => Untouched(c)
  /\ stage[c] = "delete" =>
       /\ shelf[p] = before[c][1]
       /\ dest[p] # None /\ before[c][2] # None /\ dest[p] \subseteq before[c][2]
  /\ stage[c] = "unshelve" /\ op[c] # "forget" =>
       /\ before[c] = <<None, None>>
       /\ dest[p] = None \/ <<c, "dest">> \in botched
  /\ stage[c] = "unshelve" /\ op[c] = "forget" =>
       /\ dest[p] = None
       /\ shelf[p] # None /\ shelf[p].version = before[c][1].version

CallInv(c) ==
  /\ last[pkg[c]] = c
  /\ Kept(pkg[c], before[c][1], before[c][2])
  /\ Staging(c) /\ Installing(c) /\ Removing(c)

Busy(p) == \E c \in Running : pkg[c] = p

(* While the calls are calm: calls under way are not of rival packages and *)
(* are each where they should be; every other package is settled, but for  *)
(* what failed deletions left of it.                                       *)
CalmInv ==
  calm =>
    /\ \A c \in Calls : stage[c] # "dead"
    /\ \A c, d \in Running : c # d => ~ Rivals(pkg[c], pkg[d])
    /\ \A c \in Running : CallInv(c)
    /\ \A p \in Packages : ~ Busy(p) => Kept(p, shelf[p], dest[p])
    /\ \A p \in Packages : last[p] # None => stage[last[p]] # "idle" /\ pkg[last[p]] = p
    /\ NoDuplicate
    /\ CallsStand

FullInv == IInv /\ CalmInv

(* What a step of a call on package p makes of the destination: less, or   *)
(* files of a version of which no other package has a cube.                *)
Moves(p) ==
  \/ dest'[p] = None
  \/ dest[p] # None /\ dest'[p] \subseteq dest[p]
  \/ \E v \in Versions : Free(dest, p, v) /\ dest'[p] \subseteq Files(p, v) \X Versions

(* What is shown of every step of a call on package p: where it leaves the *)
(* call and the package.                                                   *)
After(c, p) ==
  /\ stage'[c] \in Active => CallInv(c)'
  /\ stage'[c] \notin Active => Kept(p, shelf[p], dest[p])'
  /\ stage'[c] = "refused" =>
       /\ <<c, "shelf">> \notin botched' => shelf'[p] = before[c][1]
       /\ <<c, "dest">> \notin botched' => dest'[p] = before[c][2]
  /\ stage'[c] = "done" =>
       /\ version'[c] = version[c]
       /\ (op[c] = "install" => before[c][1].whole) => Effect(c, shelf'[p], dest'[p])
  /\ stage'[c] = "thrown" => Halfway(c, shelf'[p], dest'[p])
  /\ Moves(p)

LEMMA Pair ==
  ASSUME NEW A, NEW B, NEW x \in A \X B
  PROVE  x = <<x[1], x[2]>> /\ x[1] \in A /\ x[2] \in B
  OBVIOUS

LEMMA OnShelfType ==
  ASSUME NEW v \in Versions
  PROVE  OnShelf(v) # None /\ OnShelf(v).version = v /\ OnShelf(v).whole = TRUE
<1>1. OnShelf(v) \in [version : Versions, whole : BOOLEAN]
  BY DEF OnShelf
<1> QED
  BY <1>1, NoneAssumption DEF OnShelf

LEMMA SoundShelfIs ==
  ASSUME NEW p, NEW s, SoundShelf(p, s), s # None
  PROVE  s.version \in Versions /\ s = OnShelf(s.version) /\ <<p, s.version>> \in Sound
<1>1. PICK v \in Versions : s = OnShelf(v) /\ <<p, v>> \in Sound
  BY DEF SoundShelf
<1>2. s.version = v
  BY <1>1 DEF OnShelf
<1> QED
  BY <1>1, <1>2

LEMMA SoundIsWhole ==
  ASSUME NEW p, NEW s, SoundShelf(p, s), s # None
  PROVE  s.whole = TRUE
<1>1. PICK v \in Versions : s = OnShelf(v)
  BY DEF SoundShelf
<1> QED
  BY <1>1 DEF OnShelf

LEMMA SpoiledSame ==
  ASSUME botched' = botched, pkg' = pkg, NEW q, NEW what
  PROVE  Spoiled(q, what)' <=> Spoiled(q, what)
  BY DEF Spoiled

(* Other packages stand still, so what is free stays free.                 *)
LEMMA OwnFrame ==
  ASSUME FullInv, calm, NEW c \in Calls, Step(c), NEW p \in Packages, p = pkg[c]
  PROVE  /\ CallInv(c) /\ stage[c] \in Active
         /\ op[c] \in Ops /\ before[c] \in Shelf \X Dest(p) /\ shelf[p] \in Shelf
         /\ stage'[c] \in Active \cup {"done", "refused", "thrown"}
         /\ op'[c] = op[c] /\ pkg' = pkg /\ before'[c] = before[c] /\ last' = last
         /\ \A v : Free(dest', p, v) <=> Free(dest, p, v)
         /\ last[p] = c /\ Kept(p, before[c][1], before[c][2])
<1>1. Within(c) /\ op[c] \in Ops /\ before[c] \in Shelf \X Dest(p)
  BY StepFrame DEF FullInv, IInv
<1>2. CallInv(c)
  BY <1>1 DEF FullInv, CalmInv, Within, Running, Active, Stages, Over
<1>3. last[p] = c /\ Kept(p, before[c][1], before[c][2])
  BY <1>2 DEF CallInv
<1>4. \A q \in Packages \ {p} : dest'[q] = dest[q]
  BY <1>1 DEF Within
<1>5. \A v : Free(dest', p, v) <=> Free(dest, p, v)
  BY <1>4 DEF Free
<1>6. shelf[p] \in Shelf
  BY DEF FullInv, IInv, TypeOK
<1> QED
  BY <1>1, <1>2, <1>3, <1>5, <1>6 DEF Within, history

(* A call goes on, having deleted nothing.                                 *)
LEMMA GoesOn ==
  ASSUME FullInv, calm, NEW c \in Calls, NEW p \in Packages, p = pkg[c], Step(c),
         botched' = botched, stage'[c] \in Active,
         Staging(c)', Installing(c)', Removing(c)', Moves(p)
  PROVE  After(c, p)
<1>1. /\ before'[c] = before[c] /\ pkg' = pkg /\ last' = last
      /\ last[p] = c /\ Kept(p, before[c][1], before[c][2])
  BY OwnFrame
<1>2. \A what : Spoiled(p, what)' <=> Spoiled(p, what)
  BY <1>1, SpoiledSame
<1>3. Kept(pkg[c], before[c][1], before[c][2])'
  BY <1>1, <1>2 DEF Kept, Intact
<1>4. CallInv(c)'
  BY <1>1, <1>3 DEF CallInv
<1> QED
  BY <1>4 DEF After, Active, Over

(* A call is refused that has changed nothing.                             *)
LEMMA Refuses ==
  ASSUME FullInv, calm, NEW c \in Calls, NEW p \in Packages, p = pkg[c], Step(c),
         botched' = botched, stage'[c] = "refused",
         shelf'[p] = before[c][1], dest'[p] = before[c][2], dest'[p] = dest[p]
  PROVE  After(c, p)
<1>1. pkg' = pkg /\ Kept(p, before[c][1], before[c][2])
  BY OwnFrame
<1>2. \A what : Spoiled(p, what)' <=> Spoiled(p, what)
  BY <1>1, SpoiledSame
<1>3. Kept(p, shelf[p], dest[p])'
  BY <1>1, <1>2 DEF Kept, Intact
<1>4. Moves(p)
  BY DEF Moves
<1> QED
  BY <1>3, <1>4 DEF After, Active, Over

(* The check of the code for cubes on disk is the one for other packages,  *)
(* as long as the package itself is not installed.                         *)
LEMMA FreeMeans ==
  ASSUME NEW p \in Packages, NEW v \in Versions, dest[p] = None
  PROVE  Free(dest, p, v) <=> CubesOf[p][v] \cap OnDisk = {}
<1>1. CubesOf[p][v] \subseteq Cubes /\ Rest \notin Cubes
  BY FilesType, RestAssumption
<1>2. ASSUME NEW x \in CubesOf[p][v], x \in OnDisk
      PROVE  ~ Free(dest, p, v)
  <2>1. PICK q \in Packages : x \in Found(q)
    BY <1>2 DEF OnDisk
  <2>2. q # p
    BY <2>1 DEF Found, Names
  <2> QED
    BY <2>1, <2>2 DEF Free, Found, Names
<1>3. ASSUME NEW q \in Packages \ {p}, NEW x \in CubesOf[p][v], x \in Names(q)
      PROVE  x \in OnDisk
  <2>1. x \in Found(q)
    BY <1>1, <1>3 DEF Found
  <2> QED
    BY <2>1 DEF OnDisk
<1> QED
  BY <1>2, <1>3 DEF Free, Names

LEMMA OwnStaging ==
  ASSUME FullInv, calm, NEW c \in Calls, NEW p \in Packages, p = pkg[c], Step(c),
         CheckSource(c) \/ CheckShelf(c) \/ Gate(c)
  PROVE  After(c, p)
<1> USE DEF FullInv, IInv
<1>1. /\ UNCHANGED <<shelf, dest, version, todo, staged, botched>>
      /\ stage[c] \in {"source", "shelf", "taken", "gate"}
      /\ stage'[c] \in {"refused", "shelf", "taken", "gate", "publish", "read"}
      /\ stage'[c] \in {"shelf", "taken"} => stage[c] = "source" /\ dest[p] = None
      /\ stage'[c] = "taken" => CubesOf[p][version[c]] \cap OnDisk # {}
      /\ stage'[c] \in {"gate", "publish"} => shelf[p] = None \/ stage[c] = "gate"
      /\ stage'[c] = "read" => stage[c] # "source" /\ shelf[p] = OnShelf(version[c])
      /\ stage'[c] \in {"gate", "publish"} => stage[c] # "source"
      /\ stage'[c] = "publish" => stage[c] = "taken" \/ <<p, version[c]>> \in Sound
  <2>1. CASE CheckSource(c)
    BY <2>1 DEF CheckSource, Look, Keep, Go, TypeOK, disk
  <2>2. CASE CheckShelf(c)
    BY <2>2 DEF CheckShelf, Look, Keep, Go, TypeOK, disk
  <2>3. CASE Gate(c)
    BY <2>3 DEF Gate, Look, Keep, Go, TypeOK, disk
  <2> QED
    BY <2>1, <2>2, <2>3
<1>2. /\ CallInv(c) /\ op[c] = "installFrom" /\ version[c] \in Versions
      /\ before[c] \in Shelf \X Dest(p)
      /\ op'[c] = op[c] /\ pkg' = pkg /\ before'[c] = before[c] /\ last' = last
      /\ \A v : Free(dest', p, v) <=> Free(dest, p, v)
  BY <1>1, OwnFrame DEF StageInv
<1>3. /\ shelf[p] = before[c][1] /\ dest[p] = before[c][2] /\ ~ staged[c]
      /\ stage[c] # "source" => dest[p] = None
      /\ stage[c] = "taken" => ~ Free(dest, p, version[c])
      /\ stage[c] = "gate" => shelf[p] = None
  BY <1>1, <1>2 DEF CallInv, Staging, Untouched
<1>4. dest[p] = None /\ CubesOf[p][version[c]] \cap OnDisk # {} => ~ Free(dest, p, version[c])
  BY <1>2, FreeMeans
<1>5. Staging(c)'
  BY <1>1, <1>2, <1>3, <1>4 DEF Staging, Untouched
<1>6. Copying(c)' /\ Removing(c)'
  BY <1>1, <1>2, <1>3 DEF Copying, Removing
<1>7. Installing(c)'
  BY <1>1, <1>2, <1>3, <1>6, OnShelfType DEF Installing
<1>8. Moves(p)
  BY <1>1 DEF Moves
<1>9. CASE stage'[c] = "refused"
  BY <1>1, <1>3, <1>9, Refuses
<1>10. CASE stage'[c] # "refused"
  <2>1. stage'[c] \in Active
    BY <1>1, <1>10 DEF Active, Stages, Over
  <2> QED
    BY <1>1, <1>5, <1>6, <1>7, <1>8, <2>1, GoesOn
<1> QED
  BY <1>9, <1>10

LEMMA OwnPublish ==
  ASSUME FullInv, calm, NEW c \in Calls, NEW p \in Packages, p = pkg[c], Step(c), Publish(c)
  PROVE  After(c, p)
<1> USE DEF FullInv, IInv
<1>1. /\ stage[c] = "publish" /\ UNCHANGED <<dest, version, todo, botched>>
      /\ \/ /\ shelf[p] = None /\ shelf'[p] = OnShelf(version[c])
            /\ staged'[c] /\ stage'[c] = "read"
         \/ shelf' = shelf /\ stage'[c] = "refused"
  BY DEF Publish, Keep, Go, TypeOK
<1>2. /\ CallInv(c) /\ op[c] = "installFrom" /\ version[c] \in Versions
      /\ before[c] \in Shelf \X Dest(p)
      /\ op'[c] = op[c] /\ pkg' = pkg /\ before'[c] = before[c] /\ last' = last
      /\ \A v : Free(dest', p, v) <=> Free(dest, p, v)
  BY <1>1, OwnFrame DEF StageInv
<1>3. /\ shelf[p] = before[c][1] /\ dest[p] = before[c][2]
      /\ dest[p] = None /\ shelf[p] = None
      /\ <<p, version[c]>> \in Sound \/ ~ Free(dest, p, version[c])
  <2>1. Staging(c)
    BY <1>2 DEF CallInv
  <2>2. /\ shelf[p] = before[c][1] /\ dest[p] = before[c][2]
        /\ dest[p] = None /\ shelf[p] = None
    BY <1>1, <2>1 DEF Staging, Untouched
  <2>3. <<p, version[c]>> \in Sound \/ ~ Free(dest, p, version[c])
    BY <1>1, <2>1 DEF Staging
  <2> QED
    BY <2>2, <2>3
<1>4. CASE stage'[c] = "refused"
  BY <1>1, <1>3, <1>4, Refuses
<1>5. CASE stage'[c] = "read"
  <2>1. before[c] = <<None, None>>
    <3>1. before[c] \in Shelf \X Dest(p) /\ before[c][1] = None /\ before[c][2] = None
      BY <1>2, <1>3
    <3>2. before[c] = <<before[c][1], before[c][2]>>
      BY <3>1, Pair
    <3> QED
      BY <3>1, <3>2
  <2>2. Copying(c)' /\ Staging(c)' /\ Removing(c)'
    BY <1>5 DEF Copying, Staging, Removing
  <2>3. shelf'[p] = OnShelf(version[c]) /\ staged'[c]
    BY <1>1, <1>5
  <2>4. Installing(c)'
    BY <1>1, <1>2, <1>3, <1>5, <2>1, <2>2, <2>3, OnShelfType DEF Installing
  <2>5. Moves(p) /\ stage'[c] \in Active
    BY <1>1, <1>3, <1>5 DEF Moves, Active, Stages, Over
  <2> QED
    BY <1>1, <2>2, <2>4, <2>5, GoesOn
<1> QED
  BY <1>1, <1>4, <1>5

LEMMA OwnRead ==
  ASSUME FullInv, calm, NEW c \in Calls, NEW p \in Packages, p = pkg[c], Step(c), Read(c)
  PROVE  After(c, p)
<1> USE DEF FullInv, IInv
<1>1. /\ stage[c] = "read" /\ stage'[c] \in {"exists", "unshelve", "refused"}
      /\ UNCHANGED <<shelf, dest, todo, staged, botched>>
      /\ stage'[c] = "exists" => shelf[p] # None /\ version'[c] = shelf[p].version
      /\ stage'[c] # "exists" => version' = version /\ (shelf[p] = None \/ ~ shelf[p].whole)
      /\ stage'[c] = "unshelve" => staged[c]
  BY DEF Read, Keep, Go, Failed, Readable, Unreadable, Torn, disk, TypeOK
<1>2. /\ CallInv(c) /\ op[c] \in {"install", "installFrom"} /\ before[c] \in Shelf \X Dest(p)
      /\ op'[c] = op[c] /\ pkg' = pkg /\ before'[c] = before[c] /\ last' = last
      /\ shelf[p] \in Shelf
      /\ \A v : Free(dest', p, v) <=> Free(dest, p, v)
  BY <1>1, OwnFrame DEF StageInv
<1>3. /\ shelf[p] = IF staged[c] THEN OnShelf(version[c]) ELSE before[c][1]
      /\ staged[c] => /\ before[c] = <<None, None>> /\ version[c] \in Versions
                      /\ <<p, version[c]>> \in Sound \/ ~ Free(dest, p, version[c])
      /\ dest[p] = before[c][2]
      /\ op[c] = "installFrom" => version[c] \in Versions /\ shelf[p] = OnShelf(version[c])
  BY <1>1, <1>2 DEF CallInv, Installing
<1>4. CASE stage'[c] = "exists"
  <2>1. staged[c] \/ op[c] = "installFrom" => version'[c] = version[c]
    BY <1>1, <1>3, <1>4, OnShelfType
  <2>2. shelf[p] # None /\ version'[c] \in Versions /\ shelf[p].version = version'[c]
    BY <1>1, <1>2, <1>4, ShelfType
  <2>3. Copying(c)' /\ Staging(c)' /\ Removing(c)'
    BY <1>4 DEF Copying, Staging, Removing
  <2>4. Installing(c)'
    BY <1>1, <1>2, <1>3, <1>4, <2>1, <2>2, <2>3 DEF Installing
  <2>5. Moves(p) /\ stage'[c] \in Active
    BY <1>1, <1>4 DEF Moves, Active, Stages, Over
  <2> QED
    BY <1>1, <2>3, <2>4, <2>5, GoesOn
<1>5. CASE stage'[c] # "exists"
  <2>1. ~ staged[c]
    BY <1>1, <1>3, <1>5, OnShelfType
  <2> QED
    BY <1>1, <1>3, <1>5, <2>1, Refuses
<1> QED
  BY <1>4, <1>5

LEMMA OwnChecks ==
  ASSUME FullInv, calm, NEW c \in Calls, NEW p \in Packages, p = pkg[c], Step(c),
         CheckExists(c) \/ CheckClash(c)
  PROVE  After(c, p)
<1> USE DEF FullInv, IInv
<1>1. /\ UNCHANGED <<shelf, dest, version, todo, staged, botched>>
      /\ stage[c] \in {"exists", "clash"}
      /\ stage'[c] \in {"clash", "make", "unshelve", "refused"}
      /\ stage'[c] = "clash" => dest[p] = None
      /\ stage'[c] = "make" => stage[c] = "clash" /\ CubesOf[p][version[c]] \cap OnDisk = {}
      /\ stage'[c] = "unshelve" => staged[c]
      /\ stage'[c] = "refused" => ~ staged[c]
  <2>1. CASE CheckExists(c)
    BY <2>1 DEF CheckExists, Look, Keep, Go, Failed, TypeOK, disk
  <2>2. CASE CheckClash(c)
    BY <2>2 DEF CheckClash, Look, Keep, Go, Failed, TypeOK, disk
  <2> QED
    BY <2>1, <2>2
<1>2. /\ CallInv(c) /\ before[c] \in Shelf \X Dest(p) /\ op[c] \in {"install", "installFrom"}
      /\ op'[c] = op[c] /\ pkg' = pkg /\ before'[c] = before[c] /\ last' = last
      /\ staged[c] => op[c] = "installFrom"
      /\ \A v : Free(dest', p, v) <=> Free(dest, p, v)
  BY <1>1, OwnFrame DEF StageInv, TypeOK
<1>3. /\ shelf[p] = IF staged[c] THEN OnShelf(version[c]) ELSE before[c][1]
      /\ staged[c] => /\ before[c] = <<None, None>>
                      /\ <<p, version[c]>> \in Sound \/ ~ Free(dest, p, version[c])
      /\ dest[p] = before[c][2] /\ version[c] \in Versions
      /\ shelf[p] # None /\ shelf[p].version = version[c]
      /\ op[c] = "installFrom" => shelf[p] = OnShelf(version[c])
      /\ stage[c] = "clash" => before[c][2] = None
  BY <1>1, <1>2 DEF CallInv, Installing
<1>4. CASE stage'[c] = "refused"
  BY <1>1, <1>3, <1>4, Refuses
<1>5. CASE stage'[c] # "refused"
  <2>1. stage'[c] = "make" => Free(dest, p, version[c])
    <3> SUFFICES ASSUME stage'[c] = "make" PROVE Free(dest, p, version[c])
      OBVIOUS
    <3>1. dest[p] = None /\ version[c] \in Versions
      BY <1>1, <1>3
    <3> QED
      BY <1>1, <3>1, FreeMeans
  <2>2. Copying(c)' /\ Staging(c)'
    BY <1>1 DEF Copying, Staging
  <2>3. Installing(c)'
    BY <1>1, <1>2, <1>3, <2>1, <2>2 DEF Installing
  <2>4. Removing(c)'
    BY <1>1, <1>2, <1>3 DEF Removing
  <2>5. Moves(p) /\ stage'[c] \in Active
    BY <1>1, <1>5 DEF Moves, Active, Stages, Over
  <2> QED
    BY <1>1, <2>2, <2>3, <2>4, <2>5, GoesOn
<1> QED
  BY <1>4, <1>5

LEMMA OwnMake ==
  ASSUME FullInv, calm, NEW c \in Calls, NEW p \in Packages, p = pkg[c], Step(c), Make(c)
  PROVE  After(c, p)
<1> USE DEF FullInv, IInv
<1>1. /\ UNCHANGED <<shelf, version, staged, botched>>
      /\ stage[c] = "make" /\ stage'[c] \in {"copy", "undo", "done"}
      /\ dest[p] = None => dest'[p] = {}
  BY DEF Make, Keep, Go, TypeOK
<1>2. /\ CallInv(c) /\ before[c] \in Shelf \X Dest(p) /\ op[c] \in {"install", "installFrom"}
      /\ op'[c] = op[c] /\ pkg' = pkg /\ before'[c] = before[c] /\ last' = last
      /\ staged[c] => op[c] = "installFrom"
      /\ shelf[p] \in Shelf /\ Kept(p, before[c][1], before[c][2])
      /\ \A v : Free(dest', p, v) <=> Free(dest, p, v)
  BY <1>1, OwnFrame DEF StageInv, TypeOK
<1>3. /\ shelf[p] = IF staged[c] THEN OnShelf(version[c]) ELSE before[c][1]
      /\ staged[c] => /\ before[c] = <<None, None>>
                      /\ <<p, version[c]>> \in Sound \/ ~ Free(dest, p, version[c])
      /\ dest[p] = before[c][2] /\ version[c] \in Versions
      /\ shelf[p] # None /\ shelf[p].version = version[c]
      /\ op[c] = "installFrom" => shelf[p] = OnShelf(version[c])
      /\ before[c][2] = None
      /\ Free(dest, p, version[c])
  BY <1>1, <1>2 DEF CallInv, Installing
<1>4. dest'[p] = {} /\ {} # None
  BY <1>1, <1>3, NoneAssumption
<1>5. Moves(p)
  BY <1>3, <1>4 DEF Moves
<1>6. CASE stage'[c] = "copy"
  <2>1. /\ todo'[c] # {} /\ todo'[c] \subseteq Files(p, version[c])
        /\ shelf[p].whole => todo'[c] = Files(p, version[c])
    <3>1. \E found \in Holds(p) : todo'[c] = found /\ found # {}
      BY <1>6 DEF Make, Keep, Go, TypeOK
    <3>2. PICK found \in Holds(p) : todo'[c] = found /\ found # {}
      BY <3>1
    <3>3. found \subseteq Files(p, version[c]) /\ (shelf[p].whole => found = Files(p, version[c]))
      BY <1>3, <3>2 DEF Holds, Torn
    <3> QED
      BY <3>2, <3>3
  <2>2. Copying(c)'
    BY <1>1, <1>2, <1>3, <1>4, <2>1 DEF Copying
  <2>3. Staging(c)' /\ Removing(c)'
    BY <1>6 DEF Staging, Removing
  <2>4. Installing(c)'
    BY <1>1, <1>2, <1>3, <1>6, <2>2 DEF Installing
  <2>5. stage'[c] \in Active
    BY <1>6 DEF Active, Stages, Over
  <2> QED
    BY <1>1, <1>5, <2>2, <2>3, <2>4, <2>5, GoesOn
<1>7. CASE stage'[c] = "undo"
  <2>1. Copying(c)' /\ Staging(c)' /\ Removing(c)'
    BY <1>7 DEF Copying, Staging, Removing
  <2>2. Installing(c)'
    BY <1>1, <1>2, <1>3, <1>7, <2>1 DEF Installing
  <2>3. stage'[c] \in Active
    BY <1>7 DEF Active, Stages, Over
  <2> QED
    BY <1>1, <1>5, <2>1, <2>2, <2>3, GoesOn
<1>8. CASE stage'[c] = "done"
  <2>1. ~ shelf[p].whole
    <3>1. {} \in Holds(p)
      BY <1>8 DEF Make, Keep, Go, TypeOK
    <3>2. Files(p, shelf[p].version) # {}
      BY DEF Files
    <3> QED
      BY <1>3, <3>1, <3>2 DEF Holds, Torn
  <2>2. op[c] = "install" /\ shelf[p] = before[c][1]
    BY <1>2, <1>3, <2>1, OnShelfType
  <2>3. ~ SoundShelf(p, before[c][1])
    BY <1>3, <2>1, <2>2, SoundIsWhole
  <2>4. Spoiled(p, "shelf") /\ Spoiled(p, "shelf")'
    BY <1>1, <1>2, <2>3, SpoiledSame DEF Kept
  <2>5. Kept(p, shelf[p], dest[p])'
    BY <2>4 DEF Kept, Intact
  <2> QED
    BY <1>1, <1>5, <1>8, <2>1, <2>2, <2>5 DEF After, Active, Over
<1> QED
  BY <1>1, <1>6, <1>7, <1>8

LEMMA OwnCopy ==
  ASSUME FullInv, calm, NEW c \in Calls, NEW p \in Packages, p = pkg[c], Step(c),
         NEW f \in Cubes \cup {Rest}, CopyFile(c, f)
  PROVE  After(c, p)
<1> USE DEF FullInv, IInv
<1> DEFINE v == version[c]
<1>1. /\ UNCHANGED <<shelf, version, staged, botched>>
      /\ stage[c] = "copy" /\ f \in todo[c]
      /\ todo'[c] = todo[c] \ {f}
      /\ stage'[c] = IF todo[c] = {f} THEN "done" ELSE "copy"
      /\ dest'[p] = {g \in (IF dest[p] = None THEN {} ELSE dest[p]) : g[1] # f}
                      \cup {<<f, shelf[p].version>>}
  BY DEF CopyFile, Keep, Go, TypeOK
<1>2. /\ CallInv(c) /\ before[c] \in Shelf \X Dest(p) /\ op[c] \in {"install", "installFrom"}
      /\ op'[c] = op[c] /\ pkg' = pkg /\ before'[c] = before[c] /\ last' = last
      /\ \A w : Free(dest', p, w) <=> Free(dest, p, w)
      /\ staged[c] => op[c] = "installFrom"
      /\ shelf[p] \in Shelf /\ Kept(p, before[c][1], before[c][2])
  BY <1>1, OwnFrame DEF StageInv, TypeOK
<1>3. Installing(c) /\ Copying(c)
  BY <1>1, <1>2 DEF CallInv, Installing
<1>4. /\ shelf[p] = IF staged[c] THEN OnShelf(v) ELSE before[c][1]
      /\ staged[c] => /\ before[c] = <<None, None>>
                      /\ <<p, v>> \in Sound \/ ~ Free(dest, p, v)
      /\ v \in Versions /\ shelf[p] # None /\ shelf[p].version = v
      /\ op[c] = "installFrom" => shelf[p] = OnShelf(v)
      /\ before[c][2] = None /\ Free(dest, p, v)
  BY <1>1, <1>3 DEF Installing
<1>5. /\ todo[c] \subseteq Files(p, v)
      /\ dest[p] # None /\ dest[p] \subseteq Files(p, v) \X {v}
      /\ shelf[p].whole => dest[p] = (Files(p, v) \ todo[c]) \X {v}
  BY <1>1, <1>3 DEF Copying
<1>6. dest'[p] = {g \in dest[p] : g[1] # f} \cup {<<f, v>>}
  BY <1>1, <1>4, <1>5
<1>7. dest'[p] \subseteq Files(p, v) \X {v} /\ dest'[p] # None
  <2>1. f \in Files(p, v)
    BY <1>1, <1>5
  <2>2. dest'[p] \subseteq Files(p, v) \X {v}
    BY <1>5, <1>6, <2>1
  <2>3. dest'[p] \in SUBSET ((Cubes \cup {Rest}) \X Versions)
    BY <1>4, <2>2, FilesType
  <2> QED
    BY <2>2, <2>3, NoneAssumption
<1>8. shelf[p].whole => dest'[p] = (Files(p, v) \ todo'[c]) \X {v}
  BY <1>1, <1>5, <1>6
<1>9. Moves(p)
  <2>1. dest'[p] \subseteq Files(p, v) \X Versions
    BY <1>4, <1>7
  <2> QED
    BY <1>4, <2>1 DEF Moves
<1>10. CASE stage'[c] = "copy"
  <2>1. todo'[c] # {} /\ todo'[c] \subseteq Files(p, v)
    BY <1>1, <1>5, <1>10
  <2>2. Copying(c)'
    BY <1>1, <1>2, <1>7, <1>8, <2>1 DEF Copying
  <2>3. Installing(c)'
    BY <1>1, <1>2, <1>4, <1>10, <2>2 DEF Installing
  <2>4. Staging(c)' /\ Removing(c)'
    BY <1>10 DEF Staging, Removing
  <2>5. stage'[c] \in Active
    BY <1>10 DEF Active, Stages, Over
  <2> QED
    BY <1>1, <1>9, <2>2, <2>3, <2>4, <2>5, GoesOn
<1>11. CASE stage'[c] = "done"
  <2>1. shelf[p].whole => dest'[p] = Files(p, v) \X {v}
    BY <1>1, <1>8, <1>11
  <2>2. ~ Spoiled(p, "shelf") => SoundShelf(p, shelf[p]) /\ shelf[p].whole
    <3>1. CASE staged[c]
      BY <1>4, <3>1, OnShelfType DEF SoundShelf
    <3>2. CASE ~ staged[c]
      BY <1>2, <1>4, <3>2, SoundIsWhole DEF Kept
    <3> QED
      BY <3>1, <3>2
  <2>3. ~ Spoiled(p, "shelf") => Settled(p, shelf'[p], dest'[p])
    BY <1>1, <1>4, <2>1, <2>2 DEF Settled
  <2>4. Spoiled(p, "shelf")' <=> Spoiled(p, "shelf")
    BY <1>1, <1>2, SpoiledSame
  <2>5. Kept(p, shelf[p], dest[p])'
    BY <1>1, <2>2, <2>3, <2>4 DEF Kept, Intact
  <2>6. ASSUME op[c] = "install" => before[c][1].whole
        PROVE  Effect(c, shelf'[p], dest'[p])
    <3>1. CASE op[c] = "install"
      BY <1>1, <1>2, <1>4, <2>1, <2>6, <3>1 DEF Effect
    <3>2. CASE op[c] = "installFrom"
      BY <1>1, <1>4, <2>1, <3>2, OnShelfType DEF Effect
    <3> QED
      BY <1>2, <3>1, <3>2
  <2> QED
    BY <1>1, <1>9, <1>11, <2>5, <2>6 DEF After, Active, Over
<1> QED
  BY <1>1, <1>10, <1>11

LEMMA OwnCopyFails ==
  ASSUME FullInv, calm, NEW c \in Calls, NEW p \in Packages, p = pkg[c], Step(c), CopyFails(c)
  PROVE  After(c, p)
<1> USE DEF FullInv, IInv
<1>1. /\ UNCHANGED <<shelf, dest, version, staged, botched>>
      /\ stage[c] = "copy" /\ stage'[c] = "undo"
  BY DEF CopyFails, Keep, Go, TypeOK, disk
<1>2. /\ CallInv(c) /\ op'[c] = op[c] /\ pkg' = pkg /\ before'[c] = before[c]
      /\ \A w : Free(dest', p, w) <=> Free(dest, p, w)
  BY OwnFrame
<1>3. Installing(c)
  BY <1>2 DEF CallInv
<1>4. Copying(c)' /\ Staging(c)' /\ Removing(c)'
  BY <1>1 DEF Copying, Staging, Removing
<1>5. Installing(c)'
  BY <1>1, <1>2, <1>3, <1>4 DEF Installing
<1>6. Moves(p) /\ stage'[c] \in Active
  BY <1>1 DEF Moves, Active, Stages, Over
<1> QED
  BY <1>1, <1>4, <1>5, <1>6, GoesOn

(* Deleting a destination leaves less of it, and in the end nothing; or    *)
(* fails.                                                                  *)
LEMMA DeleteEffect ==
  ASSUME TypeOK, NEW c \in Calls, NEW p \in Packages, p = pkg[c], NEW here, NEW next, NEW failed,
         DeleteDest(c, here, next, failed)
  PROVE  /\ UNCHANGED <<shelf, version, staged, pkg>>
         /\ stage[c] = here
         /\ \/ /\ stage'[c] = here /\ dest[p] # None /\ dest'[p] \subseteq dest[p] /\ dest'[p] # None
               /\ botched' = botched
            \/ stage'[c] = next /\ dest'[p] = None /\ Cleared(p, "dest")
            \/ /\ stage'[c] = failed /\ dest' = dest
               /\ botched' = botched \cup {<<c, "dest">>}
<1>1. UNCHANGED <<shelf, version, staged, pkg>> /\ stage[c] = here
  BY DEF DeleteDest, Botch, Keep, Go
<1>2. CASE dest[p] \notin {None, {}} /\ (\E f \in dest[p] : dest' = [dest EXCEPT ![p] = @ \ {f}])
           /\ Keep(c, here)
  <2>1. stage'[c] = here /\ dest[p] # None /\ dest'[p] \subseteq dest[p] /\ botched' = botched
    BY <1>2 DEF Keep, Go, TypeOK
  <2>2. dest'[p] \in SUBSET ((Cubes \cup {Rest}) \X Versions)
    <3>1. dest[p] \in SUBSET ((Cubes \cup {Rest}) \X Versions)
      BY <2>1 DEF TypeOK
    <3> QED
      BY <2>1, <3>1
  <2> QED
    BY <1>1, <2>1, <2>2, NoneAssumption
<1>3. CASE dest' = [dest EXCEPT ![p] = None] /\ Go(c, next) /\ Cleared(p, "dest")
  BY <1>1, <1>3 DEF Go, TypeOK
<1>4. CASE Botch(c, "dest", failed) /\ UNCHANGED dest
  BY <1>1, <1>4 DEF Botch, Go, TypeOK
<1> QED
  BY <1>2, <1>3, <1>4 DEF DeleteDest

(* What a complete deletion, or one that failed, leaves half deleted.      *)
LEMMA SpoiledCleared ==
  ASSUME NEW p, NEW what, NEW other, other # what, pkg' = pkg, Cleared(p, what)
  PROVE  /\ Spoiled(p, other)' <=> Spoiled(p, other)
         /\ \A e \in Calls : <<e, other>> \in botched' <=> <<e, other>> \in botched
<1>1. \A b : b[2] = other => (b \in botched' <=> b \in botched)
  BY DEF Cleared
<1>2. \A e \in Calls : <<e, other>>[2] = other
  OBVIOUS
<1> QED
  BY <1>1, <1>2 DEF Spoiled

LEMMA SpoiledBotched ==
  ASSUME NEW c \in Calls, NEW p, p = pkg[c], NEW what, NEW other, other # what, pkg' = pkg,
         botched' = botched \cup {<<c, what>>}
  PROVE  /\ Spoiled(p, what)' /\ <<c, what>> \in botched'
         /\ Spoiled(p, other)' <=> Spoiled(p, other)
         /\ \A e \in Calls : <<e, other>> \in botched' <=> <<e, other>> \in botched
<1>1. <<c, what>>[1] = c /\ <<c, what>>[2] = what /\ <<c, what>> \in botched'
  OBVIOUS
<1>2. Spoiled(p, what)'
  BY <1>1 DEF Spoiled
<1>3. \A b : b[2] = other => (b \in botched' <=> b \in botched)
  BY <1>1
<1>4. \A e \in Calls : <<e, other>>[2] = other
  OBVIOUS
<1> QED
  BY <1>1, <1>2, <1>3, <1>4 DEF Spoiled

LEMMA OwnUndo ==
  ASSUME FullInv, calm, NEW c \in Calls, NEW p \in Packages, p = pkg[c], Step(c), Undo(c)
  PROVE  After(c, p)
<1> USE DEF FullInv, IInv
<1>1. /\ UNCHANGED <<shelf, version, staged, pkg>>
      /\ stage[c] = "undo"
      /\ \/ stage'[c] = "undo" /\ dest[p] # None /\ dest'[p] \subseteq dest[p] /\ botched' = botched
         \/ stage'[c] = Failed(c) /\ dest'[p] = None /\ Cleared(p, "dest")
         \/ /\ stage'[c] = Failed(c) /\ dest' = dest
            /\ botched' = botched \cup {<<c, "dest">>}
  BY DeleteEffect DEF Undo
<1>2. /\ CallInv(c) /\ op'[c] = op[c] /\ before'[c] = before[c] /\ last' = last
      /\ op[c] \in {"install", "installFrom"}
      /\ last[p] = c /\ Kept(p, before[c][1], before[c][2])
      /\ \A w : Free(dest', p, w) <=> Free(dest, p, w)
  BY <1>1, OwnFrame DEF StageInv
<1>3. Installing(c)
  BY <1>2 DEF CallInv
<1>4. /\ before[c][2] = None
      /\ shelf[p] = IF staged[c] THEN OnShelf(version[c]) ELSE before[c][1]
      /\ staged[c] => before[c] = <<None, None>>
  BY <1>1, <1>3 DEF Installing
<1>5. Moves(p)
  BY <1>1 DEF Moves
<1>6. CASE stage'[c] = "undo"
  <2>1. Copying(c)' /\ Staging(c)' /\ Removing(c)'
    BY <1>6 DEF Copying, Staging, Removing
  <2>2. Installing(c)'
    BY <1>1, <1>2, <1>3, <1>6, <2>1 DEF Installing
  <2>3. stage'[c] \in Active /\ botched' = botched
    BY <1>1, <1>6 DEF Active, Stages, Over, Failed
  <2> QED
    BY <1>5, <2>1, <2>2, <2>3, GoesOn
<1>7. stage'[c] # "undo" =>
        \/ dest'[p] = None
        \/ <<c, "dest">> \in botched' /\ Spoiled(p, "dest")'
  <2>1. botched' = botched \cup {<<c, "dest">>} => <<c, "dest">> \in botched' /\ Spoiled(p, "dest")'
    BY <1>1, SpoiledBotched
  <2> QED
    BY <1>1, <2>1
<1>8. stage'[c] # "undo" => (Spoiled(p, "shelf")' <=> Spoiled(p, "shelf"))
  BY <1>1, SpoiledBotched, SpoiledCleared
<1>9. CASE stage'[c] # "undo" /\ staged[c]
  <2>1. stage'[c] = "unshelve" /\ op'[c] # "forget"
    BY <1>1, <1>2, <1>9 DEF Failed
  <2>3. Removing(c)'
    BY <1>1, <1>2, <1>4, <1>7, <1>9, <2>1 DEF Removing
  <2>4. Copying(c)' /\ Staging(c)' /\ Installing(c)'
    BY <2>1 DEF Copying, Staging, Installing
  <2>5. Kept(pkg[c], before[c][1], before[c][2])'
    BY <1>2, <1>4, <1>9 DEF Kept, Settled, SoundShelf
  <2>6. CallInv(c)'
    BY <1>1, <1>2, <2>3, <2>4, <2>5 DEF CallInv
  <2> QED
    BY <1>5, <2>1, <2>6 DEF After, Active, Stages, Over
<1>10. CASE stage'[c] # "undo" /\ ~ staged[c]
  <2>1. stage'[c] = "refused" /\ shelf'[p] = before[c][1]
    BY <1>1, <1>4, <1>10 DEF Failed
  <2>2. Kept(p, shelf[p], dest[p])'
    BY <1>2, <1>4, <1>7, <1>8, <1>10, <2>1 DEF Kept, Intact, Settled
  <2> QED
    BY <1>4, <1>5, <1>7, <2>1, <2>2 DEF After, Active, Over
<1> QED
  BY <1>6, <1>9, <1>10

LEMMA OwnDelete ==
  ASSUME FullInv, calm, NEW c \in Calls, NEW p \in Packages, p = pkg[c], Step(c), Delete(c)
  PROVE  After(c, p)
<1> USE DEF FullInv, IInv
<1>1. /\ UNCHANGED <<shelf, version, staged, pkg>>
      /\ stage[c] = "delete"
      /\ \/ /\ stage'[c] = "delete" /\ dest[p] # None /\ dest'[p] \subseteq dest[p] /\ dest'[p] # None
            /\ botched' = botched
         \/ stage'[c] = "done" /\ dest'[p] = None /\ Cleared(p, "dest")
         \/ /\ stage'[c] = "thrown" /\ dest' = dest
            /\ botched' = botched \cup {<<c, "dest">>}
  BY DeleteEffect DEF Delete
<1>2. /\ CallInv(c) /\ op[c] \in {"uninstall", "remove"}
      /\ op'[c] = op[c] /\ before'[c] = before[c] /\ last' = last
      /\ Kept(p, before[c][1], before[c][2])
  BY <1>1, OwnFrame DEF StageInv
<1>3. /\ shelf[p] = before[c][1]
      /\ dest[p] # None /\ before[c][2] # None /\ dest[p] \subseteq before[c][2]
  BY <1>1, <1>2 DEF CallInv, Removing
<1>4. Moves(p)
  BY <1>1 DEF Moves
<1>5. CASE stage'[c] = "delete"
  <2>1. dest'[p] # None /\ dest'[p] \subseteq dest[p] /\ botched' = botched
    BY <1>1, <1>5
  <2>2. Removing(c)'
    BY <1>1, <1>2, <1>3, <1>5, <2>1 DEF Removing
  <2>3. Copying(c)' /\ Staging(c)' /\ Installing(c)'
    BY <1>5 DEF Copying, Staging, Installing
  <2>4. stage'[c] \in Active
    BY <1>5 DEF Active, Stages, Over
  <2> QED
    BY <1>4, <2>1, <2>2, <2>3, <2>4, GoesOn
<1>6. CASE stage'[c] = "done"
  <2>1. dest'[p] = None /\ Cleared(p, "dest")
    BY <1>1, <1>6
  <2>2. Spoiled(p, "shelf")' <=> Spoiled(p, "shelf")
    BY <1>1, <2>1, SpoiledCleared
  <2>3. Effect(c, shelf'[p], dest'[p])
    BY <1>1, <1>2, <1>3, <2>1 DEF Effect
  <2>4. Kept(p, shelf[p], dest[p])'
    BY <1>1, <1>2, <1>3, <2>1, <2>2 DEF Kept, Intact, Settled
  <2> QED
    BY <1>1, <1>4, <1>6, <2>3, <2>4 DEF After, Active, Over
<1>7. CASE stage'[c] = "thrown"
  <2>1. dest' = dest /\ botched' = botched \cup {<<c, "dest">>}
    BY <1>1, <1>7
  <2>2. Spoiled(p, "dest")' /\ (Spoiled(p, "shelf")' <=> Spoiled(p, "shelf"))
    BY <1>1, <2>1, SpoiledBotched
  <2>3. Halfway(c, shelf'[p], dest'[p])
    BY <1>1, <1>2, <1>3, <2>1 DEF Halfway
  <2>4. Kept(p, shelf[p], dest[p])'
    BY <1>1, <1>2, <1>3, <2>2 DEF Kept, Intact
  <2> QED
    BY <1>4, <1>7, <2>3, <2>4 DEF After, Active, Over
<1> QED
  BY <1>1, <1>5, <1>6, <1>7

LEMMA OwnUnshelve ==
  ASSUME FullInv, calm, NEW c \in Calls, NEW p \in Packages, p = pkg[c], Step(c), Unshelve(c)
  PROVE  After(c, p)
<1> USE DEF FullInv, IInv
<1>1. /\ UNCHANGED <<dest, version, staged, pkg>>
      /\ stage[c] = "unshelve"
      /\ \/ /\ stage'[c] = "unshelve" /\ botched' = botched /\ shelf[p] # None
            /\ shelf'[p] = [shelf[p] EXCEPT !.whole = FALSE]
         \/ /\ stage'[c] = IF op[c] = "forget" THEN "done" ELSE "refused"
            /\ shelf'[p] = None /\ Cleared(p, "shelf")
         \/ /\ stage'[c] = IF op[c] = "forget" THEN "thrown" ELSE "refused"
            /\ shelf' = shelf /\ botched' = botched \cup {<<c, "shelf">>}
  BY DEF Unshelve, Botch, Keep, Go, TypeOK
<1>2. /\ CallInv(c) /\ op'[c] = op[c] /\ before'[c] = before[c] /\ last' = last
      /\ shelf[p] \in Shelf /\ Kept(p, before[c][1], before[c][2])
  BY OwnFrame
<1>3. /\ op[c] # "forget" => /\ before[c] = <<None, None>>
                             /\ dest[p] = None \/ <<c, "dest">> \in botched
      /\ op[c] = "forget" => /\ dest[p] = None
                             /\ shelf[p] # None /\ shelf[p].version = before[c][1].version
  BY <1>1, <1>2 DEF CallInv, Removing
<1>4. Moves(p)
  BY <1>1 DEF Moves
<1>5. CASE stage'[c] = "unshelve"
  <2>1. /\ shelf[p] # None /\ botched' = botched
        /\ shelf'[p] = [shelf[p] EXCEPT !.whole = FALSE]
    BY <1>1, <1>5
  <2>2. shelf'[p] # None /\ shelf'[p].version = shelf[p].version
    <3>1. shelf[p] \in [version : Versions, whole : BOOLEAN]
      BY <1>2, <2>1 DEF Shelf
    <3>2. shelf'[p] \in [version : Versions, whole : BOOLEAN]
      BY <2>1, <3>1
    <3>3. shelf'[p].version = shelf[p].version
      BY <2>1, <3>1
    <3> QED
      BY <3>2, <3>3, NoneAssumption
  <2>3. Removing(c)'
    BY <1>1, <1>2, <1>3, <1>5, <2>1, <2>2 DEF Removing
  <2>4. Copying(c)' /\ Staging(c)' /\ Installing(c)'
    BY <1>5 DEF Copying, Staging, Installing
  <2>5. stage'[c] \in Active
    BY <1>5 DEF Active, Stages, Over
  <2> QED
    BY <1>4, <2>1, <2>3, <2>4, <2>5, GoesOn
<1>6. \A d \in Calls : <<d, "dest">> \in botched => Spoiled(pkg[d], "dest")
  <2> SUFFICES ASSUME NEW d \in Calls, <<d, "dest">> \in botched PROVE Spoiled(pkg[d], "dest")
    OBVIOUS
  <2>1. <<d, "dest">>[1] = d /\ <<d, "dest">>[2] = "dest"
    OBVIOUS
  <2> QED
    BY <2>1 DEF Spoiled
<1>7. CASE shelf'[p] = None /\ Cleared(p, "shelf")
           /\ stage'[c] = IF op[c] = "forget" THEN "done" ELSE "refused"
  <2>1. /\ Spoiled(p, "dest")' <=> Spoiled(p, "dest")
        /\ <<c, "dest">> \in botched' <=> <<c, "dest">> \in botched
    BY <1>1, <1>7, SpoiledCleared
  <2>2. ~ Spoiled(p, "dest") => dest'[p] = None
    BY <1>1, <1>3, <1>6
  <2>3. Kept(p, shelf[p], dest[p])'
    BY <1>7, <2>1, <2>2 DEF Kept, Intact, Settled, SoundShelf
  <2>4. op[c] = "forget" => Effect(c, shelf'[p], dest'[p])
    BY <1>1, <1>3, <1>7 DEF Effect
  <2>5. op[c] # "forget" => /\ shelf'[p] = before[c][1]
                            /\ <<c, "dest">> \notin botched' => dest'[p] = before[c][2]
    BY <1>1, <1>3, <1>7, <2>1
  <2> QED
    BY <1>1, <1>4, <1>7, <2>3, <2>4, <2>5 DEF After, Active, Over
<1>8. CASE shelf' = shelf /\ botched' = botched \cup {<<c, "shelf">>}
           /\ stage'[c] = IF op[c] = "forget" THEN "thrown" ELSE "refused"
  <2>1. /\ Spoiled(p, "shelf")' /\ <<c, "shelf">> \in botched'
        /\ <<c, "dest">> \in botched' <=> <<c, "dest">> \in botched
    BY <1>1, <1>8, SpoiledBotched
  <2>2. Kept(p, shelf[p], dest[p])'
    BY <2>1 DEF Kept, Intact
  <2>3. op[c] = "forget" => Halfway(c, shelf'[p], dest'[p])
    BY <1>1, <1>3, <1>8 DEF Halfway
  <2>4. op[c] # "forget" => (<<c, "dest">> \notin botched' => dest'[p] = before[c][2])
    BY <1>1, <1>3, <2>1
  <2> QED
    BY <1>4, <1>8, <2>1, <2>2, <2>3, <2>4 DEF After, Active, Over
<1> QED
  BY <1>1, <1>5, <1>7, <1>8

LEMMA OwnFind ==
  ASSUME FullInv, calm, NEW c \in Calls, NEW p \in Packages, p = pkg[c], Step(c),
         Find(c) \/ CheckForget(c)
  PROVE  After(c, p)
<1> USE DEF FullInv, IInv
<1>1. /\ UNCHANGED <<shelf, dest, version, todo, staged, botched>>
      /\ stage[c] \in {"find", "check"}
      /\ \/ stage[c] = "find" /\ stage'[c] = "delete" /\ dest[p] # None
         \/ stage[c] = "check" /\ stage'[c] = "unshelve" /\ dest[p] = None /\ shelf[p] # None
         \/ stage'[c] = "refused"
  BY DEF Find, CheckForget, Look, Keep, Go, Readable, TypeOK, disk
<1>2. /\ CallInv(c) /\ op'[c] = op[c] /\ pkg' = pkg /\ before'[c] = before[c]
      /\ stage[c] = "check" => op[c] = "forget"
  BY OwnFrame DEF StageInv
<1>3. shelf[p] = before[c][1] /\ dest[p] = before[c][2]
  BY <1>1, <1>2 DEF CallInv, Removing, Untouched
<1>4. CASE stage'[c] \in {"delete", "unshelve"}
  <2>1. Removing(c)'
    BY <1>1, <1>2, <1>3, <1>4 DEF Removing
  <2>2. Copying(c)' /\ Staging(c)' /\ Installing(c)'
    BY <1>4 DEF Copying, Staging, Installing
  <2>3. stage'[c] \in Active /\ Moves(p)
    BY <1>1, <1>4 DEF Active, Stages, Over, Moves
  <2> QED
    BY <1>1, <2>1, <2>2, <2>3, GoesOn
<1>5. CASE stage'[c] = "refused"
  BY <1>1, <1>3, <1>5, Refuses
<1> QED
  BY <1>1, <1>4, <1>5

(* Every step of a call leaves it, and its package, where it should.       *)
LEMMA OwnStep ==
  ASSUME FullInv, calm, NEW c \in Calls, NEW p \in Packages, p = pkg[c], Step(c)
  PROVE  After(c, p)
  BY OwnStaging, OwnPublish, OwnRead, OwnChecks, OwnMake, OwnCopy, OwnCopyFails, OwnUndo,
     OwnDelete, OwnUnshelve, OwnFind DEF Step

-----------------------------------------------------------------------------
(* What a step of a call leaves of the other calls and packages.           *)

LEMMA SelfRival == ASSUME NEW p \in Packages PROVE Rivals(p, p)
<1>1. PICK v \in Versions : TRUE
  BY CubesOfAssumption
<1>2. CubesOf[p][v] # {} /\ CubesOf[p][v] \subseteq AllCubes(p)
  BY FilesType DEF AllCubes
<1> QED
  BY <1>2 DEF Rivals

LEMMA RivalsMutual == ASSUME NEW p, NEW q PROVE Rivals(p, q) <=> Rivals(q, p)
  BY DEF Rivals

(* What is free of a package stays free while a package that is no rival   *)
(* is worked on.                                                           *)
LEMMA StillFree ==
  ASSUME NEW p \in Packages, NEW q \in Packages, NEW v \in Versions, ~ Rivals(p, q),
         NEW d, NEW e, d[p] \in Dest(p), e[p] \in Dest(p),
         \A r \in Packages \ {p} : e[r] = d[r],
         Free(d, q, v)
  PROVE  Free(e, q, v)
<1>1. CubesOf[q][v] \subseteq AllCubes(q) \ {Rest}
  BY FilesType, RestAssumption DEF AllCubes
<1>2. e[p] # None => {f[1] : f \in e[p]} \subseteq AllCubes(p) \cup {Rest}
  <2>1. e[p] # None => e[p] \subseteq (AllCubes(p) \cup {Rest}) \X Versions
    BY DEF Dest
  <2> QED
    BY <2>1
<1>3. (IF e[p] = None THEN {} ELSE {f[1] : f \in e[p]}) \cap CubesOf[q][v] = {}
  BY <1>1, <1>2 DEF Rivals
<1> QED
  BY <1>3 DEF Free

(* A call is where it was, if nothing of it or of its package changed.     *)
LEMMA CallSame ==
  ASSUME NEW d \in Calls, CallInv(d),
         stage'[d] = stage[d], version'[d] = version[d], todo'[d] = todo[d],
         staged'[d] = staged[d], op'[d] = op[d], pkg'[d] = pkg[d], before'[d] = before[d],
         last'[pkg[d]] = last[pkg[d]], shelf'[pkg[d]] = shelf[pkg[d]], dest'[pkg[d]] = dest[pkg[d]],
         stage[d] \in {"source", "shelf", "taken", "gate", "publish"} => version[d] \in Versions,
         version[d] \in Versions
           => (Free(dest, pkg[d], version[d]) <=> Free(dest', pkg[d], version[d])),
         Spoiled(pkg[d], "shelf")' <=> Spoiled(pkg[d], "shelf"),
         Spoiled(pkg[d], "dest")' <=> Spoiled(pkg[d], "dest"),
         <<d, "dest">> \in botched' <=> <<d, "dest">> \in botched
  PROVE  CallInv(d)'
<1>1. Staging(d)'
  <2>1. Staging(d)
    BY DEF CallInv
  <2> QED
    BY <2>1 DEF Staging, Untouched
<1>2. Copying(d)'
  <2>1. stage[d] = "copy" => Copying(d)
    BY DEF CallInv, Installing
  <2> QED
    BY <2>1 DEF Copying
<1>3. Installing(d)'
  <2>1. Installing(d)
    BY DEF CallInv
  <2> QED
    BY <1>2, <2>1 DEF Installing
<1>4. Removing(d)'
  <2>1. Removing(d)
    BY DEF CallInv
  <2> QED
    BY <2>1 DEF Removing, Untouched
<1>5. Kept(pkg[d], before[d][1], before[d][2])'
  <2>1. Kept(pkg[d], before[d][1], before[d][2])
    BY DEF CallInv
  <2> QED
    BY <2>1 DEF Kept, Intact
<1> QED
  BY <1>1, <1>3, <1>4, <1>5 DEF CallInv

LEMMA OtherFrame ==
  ASSUME FullInv, calm, NEW c \in Calls, Step(c), TypeOK', NEW d \in Running, d # c
  PROVE  CallInv(d)'
<1> DEFINE p == pkg[c]
           q == pkg[d]
<1> USE DEF FullInv, IInv
<1>1. /\ d \in Calls /\ d \in Running /\ c \in Running
      /\ p \in Packages /\ q \in Packages /\ CallInv(d)
      /\ ~ Rivals(p, q) /\ p # q
  <2>1. d \in Calls /\ c \in Running /\ p \in Packages
    BY StepFrame DEF Within, Running, Active
  <2>2. q \in Packages
    BY <2>1 DEF Running, TypeOK
  <2> QED
    BY <2>1, <2>2, SelfRival DEF CalmInv
<1>2. /\ stage'[d] = stage[d] /\ version'[d] = version[d] /\ todo'[d] = todo[d]
      /\ staged'[d] = staged[d] /\ op'[d] = op[d] /\ pkg'[d] = q /\ before'[d] = before[d]
      /\ last' = last /\ shelf'[q] = shelf[q] /\ dest'[q] = dest[q]
      /\ \A r \in Packages \ {p} : dest'[r] = dest[r]
  <2>1. /\ \A e \in Calls \ {c} : /\ stage'[e] = stage[e] /\ version'[e] = version[e]
                                   /\ todo'[e] = todo[e] /\ staged'[e] = staged[e]
        /\ \A r \in Packages \ {p} : shelf'[r] = shelf[r] /\ dest'[r] = dest[r]
        /\ UNCHANGED <<process, op, pkg, history>>
    BY StepFrame DEF Within
  <2> QED
    BY <1>1, <2>1 DEF history
<1>3. version[d] \in Versions => (Free(dest, q, version[d]) <=> Free(dest', q, version[d]))
  <2>1. dest[p] \in Dest(p) /\ dest'[p] \in Dest(p)
    <3>1. dest'[p] \in Dest(p)
      BY <1>1 DEF TypeOK, Dest
    <3> QED
      BY <1>1, <3>1 DEF TypeOK
  <2>2. \A r \in Packages \ {p} : dest'[r] = dest[r] /\ dest[r] = dest'[r]
    BY <1>2
  <2>3. version[d] \in Versions /\ Free(dest, q, version[d]) => Free(dest', q, version[d])
    BY <1>1, <2>1, <2>2, StillFree
  <2>4. version[d] \in Versions /\ Free(dest', q, version[d]) => Free(dest, q, version[d])
    BY <1>1, <2>1, <2>2, StillFree
  <2> QED
    BY <2>3, <2>4
<1>4. stage[d] \in {"source", "shelf", "taken", "gate", "publish"} => version[d] \in Versions
  BY <1>1 DEF StageInv
<1>5. /\ Spoiled(pkg[d], "shelf")' <=> Spoiled(pkg[d], "shelf")
      /\ Spoiled(pkg[d], "dest")' <=> Spoiled(pkg[d], "dest")
      /\ <<d, "dest">> \in botched' <=> <<d, "dest">> \in botched
  <2>1. PICK r : r = q
    OBVIOUS
  <2>2. /\ Spoiled(r, "shelf")' <=> Spoiled(r, "shelf")
        /\ Spoiled(r, "dest")' <=> Spoiled(r, "dest")
        /\ <<d, "dest">> \in botched' <=> <<d, "dest">> \in botched
    BY <1>1, <2>1, SpoiledFrame
  <2> QED
    BY <1>2, <2>1, <2>2
<1> QED
  BY <1>1, <1>2, <1>3, <1>4, <1>5, CallSame

(* No two packages come to have one cube, by a step of a calm call.        *)
LEMMA MovesApart ==
  ASSUME NoDuplicate, NEW p \in Packages, Moves(p),
         \A q \in Packages \ {p} : dest'[q] = dest[q]
  PROVE  NoDuplicate'
<1>1. \A q \in Packages : q # p => Found(q)' = Found(q)
  BY DEF Found, Names
<1>2. ASSUME NEW q \in Packages, q # p
      PROVE  Found(p)' \cap Found(q)' = {}
  <2>1. Found(q)' = Found(q) /\ Found(p) \cap Found(q) = {}
    BY <1>1, <1>2 DEF NoDuplicate
  <2>2. CASE dest'[p] = None
    BY <2>2 DEF Found, Names
  <2>3. CASE dest'[p] # None /\ dest[p] # None /\ dest'[p] \subseteq dest[p]
    <3>1. Found(p)' \subseteq Found(p)
      BY <2>3 DEF Found, Names
    <3> QED
      BY <2>1, <3>1
  <2>4. ASSUME NEW v \in Versions, Free(dest, p, v), dest'[p] \subseteq Files(p, v) \X Versions,
               dest'[p] # None
        PROVE  Found(p)' \cap Found(q)' = {}
    <3>1. Found(p)' \subseteq CubesOf[p][v]
      BY <2>4 DEF Found, Names, Files
    <3>2. Found(q) \cap CubesOf[p][v] = {}
      BY <1>2, <2>4 DEF Free, Found, Names
    <3> QED
      BY <2>1, <3>1, <3>2
  <2> QED
    BY <2>2, <2>3, <2>4 DEF Moves
<1>3. ASSUME NEW q \in Packages, NEW r \in Packages, q # p, r # p, q # r
      PROVE  Found(q)' \cap Found(r)' = {}
  BY <1>1, <1>3 DEF NoDuplicate
<1> QED
  BY <1>2, <1>3 DEF NoDuplicate

(* The part of CallsStand about one package and its last call.             *)
Stands(e, q) ==
  /\ stage[e] = "refused" =>
       /\ <<e, "shelf">> \notin botched => shelf[q] = before[e][1]
       /\ <<e, "dest">> \notin botched => dest[q] = before[e][2]
  /\ stage[e] = "done" /\ (op[e] = "install" => before[e][1].whole)
       => Effect(e, shelf[q], dest[q])
  /\ stage[e] = "thrown" => Halfway(e, shelf[q], dest[q])

LEMMA StandsIs ==
  CallsStand <=> (calm => \A q \in Packages : last[q] # None => Stands(last[q], q))
  BY DEF CallsStand, Stands

LEMMA StandsSame ==
  ASSUME NEW e \in Calls, NEW q \in Packages, Stands(e, q),
         stage'[e] = stage[e], op'[e] = op[e], pkg'[e] = pkg[e], version'[e] = version[e],
         before'[e] = before[e], shelf'[q] = shelf[q], dest'[q] = dest[q],
         <<e, "shelf">> \in botched' <=> <<e, "shelf">> \in botched,
         <<e, "dest">> \in botched' <=> <<e, "dest">> \in botched
  PROVE  Stands(e, q)'
<1>1. /\ Effect(e, shelf[q], dest[q])' <=> Effect(e, shelf[q], dest[q])
      /\ Halfway(e, shelf[q], dest[q])' <=> Halfway(e, shelf[q], dest[q])
  BY DEF Effect, Halfway
<1> QED
  BY <1>1 DEF Stands

LEMMA StandsAfter ==
  ASSUME NEW c \in Calls, NEW p \in Packages, After(c, p), op' = op, pkg' = pkg, before' = before
  PROVE  Stands(c, p)'
<1>1. stage'[c] = "refused" =>
        /\ <<c, "shelf">> \notin botched' => shelf'[p] = before'[c][1]
        /\ <<c, "dest">> \notin botched' => dest'[p] = before'[c][2]
  BY DEF After
<1>2. stage'[c] = "done" /\ (op'[c] = "install" => before'[c][1].whole)
        => Effect(c, shelf[p], dest[p])'
  BY DEF After, Effect
<1>3. stage'[c] = "thrown" => Halfway(c, shelf[p], dest[p])'
  BY DEF After, Halfway
<1> QED
  BY <1>1, <1>2, <1>3 DEF Stands

(* The calls under way, after a step of one.                               *)
LEMMA CalmStep ==
  ASSUME FullInv, calm, NEW c \in Calls, NEW p \in Packages, p = pkg[c], Step(c), TypeOK'
  PROVE  CalmInv'
<1> USE DEF FullInv, IInv
<1>1. /\ p \in Packages /\ c \in Running /\ CallInv(c)
      /\ stage'[c] \in Active \cup {"done", "refused", "thrown"}
      /\ \A d \in Calls \ {c} : stage'[d] = stage[d] /\ version'[d] = version[d]
      /\ \A q \in Packages \ {p} : shelf'[q] = shelf[q] /\ dest'[q] = dest[q]
      /\ op' = op /\ pkg' = pkg /\ before' = before /\ last' = last
  <2>1. c \in Running
    BY StepFrame DEF Within, Running, Active
  <2> QED
    BY <2>1, StepFrame DEF Within, CalmInv, history
<1>2. After(c, p)
  BY <1>1, OwnStep
<1>3. last[p] = c
  BY <1>1 DEF CallInv
<1>4. Running' \subseteq Running /\ \A d \in Running' : d \in Calls
  BY <1>1 DEF Running, Active
<1>5. \A d \in Calls : stage'[d] # "dead"
  BY <1>1 DEF CalmInv, Active, Over
<1>6. \A d, e \in Running' : d # e => ~ Rivals(pkg'[d], pkg'[e])
  BY <1>1, <1>4 DEF CalmInv
<1>7. \A d \in Running' : CallInv(d)'
  <2> SUFFICES ASSUME NEW d \in Calls, d \in Running' PROVE CallInv(d)'
    BY <1>4
  <2>1. CASE d = c
    <3>1. stage'[c] \in Active
      BY <1>1, <2>1 DEF Running, Over
    <3> QED
      BY <1>2, <2>1, <3>1 DEF After
  <2>2. CASE d # c
    BY <1>4, <2>2, OtherFrame
  <2> QED
    BY <2>1, <2>2
<1>8. ASSUME NEW q \in Packages, ~ Busy(q)'
      PROVE  Kept(q, shelf[q], dest[q])'
  <2>1. \A d \in Running' : pkg[d] # q
    BY <1>1, <1>8 DEF Busy
  <2>2. CASE q = p
    <3>1. stage'[c] \notin Active
      BY <1>1, <2>1, <2>2 DEF Running, Active
    <3>2. Kept(p, shelf[p], dest[p])'
      BY <1>2, <3>1 DEF After
    <3> QED
      BY <2>2, <3>2 DEF Kept, Intact
  <2>3. CASE q # p
    <3>1. ~ Busy(q)
      BY <1>1, <2>1, <2>3 DEF Busy, Running
    <3>2. Kept(q, shelf[q], dest[q]) /\ shelf'[q] = shelf[q] /\ dest'[q] = dest[q]
      BY <1>1, <2>3, <3>1 DEF CalmInv
    <3>3. \A what : Spoiled(q, what)' <=> Spoiled(q, what)
      BY <2>3, SpoiledFrame
    <3> QED
      BY <3>2, <3>3 DEF Kept, Intact
  <2> QED
    BY <2>2, <2>3
<1>9. \A q \in Packages : last'[q] # None => stage'[last'[q]] # "idle" /\ pkg'[last'[q]] = q
  <2> SUFFICES ASSUME NEW q \in Packages, last[q] # None
               PROVE  stage'[last[q]] # "idle" /\ pkg[last[q]] = q
    BY <1>1
  <2>1. stage[last[q]] # "idle" /\ pkg[last[q]] = q /\ last[q] \in Calls
    BY DEF CalmInv, TypeOK
  <2> QED
    BY <1>1, <2>1 DEF Active, Over
<1>10. NoDuplicate'
  BY <1>1, <1>2, MovesApart DEF After, CalmInv
<1>11. CallsStand'
  <2>1. ASSUME NEW q \in Packages, NEW e \in Calls, e = last[q]
        PROVE  Stands(e, q)'
    <3>1. pkg[e] = q
      BY <2>1, NoneAssumption DEF CalmInv
    <3>2. CASE q = p
      <4>1. e = c
        BY <1>3, <2>1, <3>2
      <4>2. Stands(c, p)'
        BY <1>1, <1>2, StandsAfter
      <4> QED
        BY <3>2, <4>1, <4>2
    <3>3. CASE q # p
      <4>1. e # c /\ stage'[e] = stage[e] /\ version'[e] = version[e]
            /\ shelf'[q] = shelf[q] /\ dest'[q] = dest[q]
        BY <1>1, <2>1, <3>1, <3>3
      <4>2. Stands(e, q)
        BY <2>1, NoneAssumption, StandsIs DEF CalmInv
      <4>3. /\ <<e, "shelf">> \in botched' <=> <<e, "shelf">> \in botched
            /\ <<e, "dest">> \in botched' <=> <<e, "dest">> \in botched
        BY <3>1, <3>3, SpoiledFrame
      <4> QED
        BY <1>1, <4>1, <4>2, <4>3, StandsSame
    <3> QED
      BY <3>2, <3>3
  <2>2. \A q \in Packages : last[q] # None => last[q] \in Calls
    BY DEF TypeOK
  <2>3. \A q \in Packages : last'[q] # None => Stands(last[q], q)'
    <3> SUFFICES ASSUME NEW q \in Packages, last'[q] # None PROVE Stands(last[q], q)'
      OBVIOUS
    <3>1. PICK e \in Calls : e = last[q]
      BY <1>1, <2>2
    <3>2. Stands(e, q)' /\ last'[q] = e
      BY <1>1, <2>1, <3>1
    <3> QED
      BY <3>2 DEF Stands, Effect, Halfway
  <2> QED
    BY <2>3 DEF CallsStand, Stands
<1> QED
  BY <1>5, <1>6, <1>7, <1>8, <1>9, <1>10, <1>11 DEF CalmInv

(* A call that begins while no rival is under way finds its package as     *)
(* calls leave it.                                                         *)
LEMMA CalmAsk ==
  ASSUME FullInv, NEW c \in Calls, NEW p \in Packages, Ask(c, p), calm', TypeOK'
  PROVE  CalmInv'
<1> USE DEF FullInv, IInv
<1>1. /\ stage[c] = "idle" /\ pkg'[c] = p
      /\ stage'[c] \in {"read", "source", "find", "check"}
      /\ stage'[c] = "read" => op'[c] = "install"
      /\ \A d \in Calls \ {c} : /\ stage'[d] = stage[d] /\ version'[d] = version[d]
                                /\ op'[d] = op[d] /\ pkg'[d] = pkg[d] /\ before'[d] = before[d]
      /\ \A q \in Packages \ {p} : last'[q] = last[q]
      /\ last'[p] = c
      /\ before'[c] = <<shelf[p], dest[p]>>
      /\ calm /\ \A d \in Running : ~ Rivals(p, pkg[d])
      /\ shelf' = shelf /\ dest' = dest /\ todo' = todo /\ staged' = staged /\ botched' = botched
  BY StartType DEF disk
<1>2. ~ staged[c]
  BY <1>1 DEF StageInv
<1>3. \A d \in Running : d \in Calls /\ d # c /\ pkg[d] # p /\ pkg[d] \in Packages
  <2>1. \A d \in Running : d \in Calls /\ d # c /\ pkg[d] \in Packages
    BY <1>1 DEF Running, TypeOK
  <2> QED
    BY <1>1, <2>1, SelfRival
<1>4. Kept(p, shelf[p], dest[p])
  BY <1>1, <1>3 DEF CalmInv, Busy
<1>5. Running' = Running \cup {c}
  BY <1>1 DEF Running, Over
<1>6. ASSUME NEW q, NEW what
      PROVE  Spoiled(q, what)' <=> Spoiled(q, what)
  <2>1. \A b \in botched : b[1] # c /\ pkg'[b[1]] = pkg[b[1]]
    BY <1>1 DEF StageInv, TypeOK
  <2> QED
    BY <1>1, <2>1 DEF Spoiled
<1>7. CallInv(c)'
  <2>1. Staging(c)' /\ Removing(c)'
    BY <1>1, <1>2 DEF Staging, Removing, Untouched
  <2>2. Copying(c)'
    BY <1>1 DEF Copying
  <2>3. Installing(c)'
    BY <1>1, <1>2, <2>2 DEF Installing
  <2>4. /\ Spoiled(p, "shelf")' <=> Spoiled(p, "shelf")
        /\ Spoiled(p, "dest")' <=> Spoiled(p, "dest")
    BY <1>6
  <2>5. Kept(pkg[c], before[c][1], before[c][2])'
    BY <1>1, <1>4, <2>4 DEF Kept, Intact
  <2> QED
    BY <1>1, <2>1, <2>3, <2>5 DEF CallInv
<1>8. ASSUME NEW d \in Running
      PROVE  CallInv(d)'
  <2>1. /\ CallInv(d) /\ d \in Calls /\ d # c /\ pkg[d] # p /\ pkg[d] \in Packages
        /\ stage'[d] = stage[d] /\ version'[d] = version[d] /\ op'[d] = op[d] /\ pkg'[d] = pkg[d]
        /\ before'[d] = before[d] /\ last'[pkg[d]] = last[pkg[d]]
    BY <1>1, <1>3 DEF CalmInv
  <2>2. stage[d] \in {"source", "shelf", "taken", "gate", "publish"} => version[d] \in Versions
    BY <2>1 DEF StageInv
  <2>3. /\ Spoiled(pkg[d], "shelf")' <=> Spoiled(pkg[d], "shelf")
        /\ Spoiled(pkg[d], "dest")' <=> Spoiled(pkg[d], "dest")
    <3>1. PICK q : q = pkg[d]
      OBVIOUS
    <3>2. /\ Spoiled(q, "shelf")' <=> Spoiled(q, "shelf")
          /\ Spoiled(q, "dest")' <=> Spoiled(q, "dest")
      BY <1>6
    <3> QED
      BY <2>1, <3>1, <3>2
  <2>4. \A v : Free(dest, pkg[d], v) <=> Free(dest', pkg[d], v)
    BY <1>1
  <2> QED
    BY <1>1, <2>1, <2>2, <2>3, <2>4, CallSame
<1>9. \A d, e \in Running' : d # e => ~ Rivals(pkg'[d], pkg'[e])
  <2>1. \A d \in Running : ~ Rivals(pkg[d], p)
    BY <1>1, RivalsMutual
  <2>2. \A d, e \in Running : d # e => ~ Rivals(pkg[d], pkg[e])
    BY <1>1 DEF CalmInv
  <2>3. \A d \in Running : pkg'[d] = pkg[d]
    BY <1>1, <1>3
  <2> QED
    BY <1>1, <1>5, <2>1, <2>2, <2>3
<1>10. ASSUME NEW q \in Packages, ~ Busy(q)'
       PROVE  Kept(q, shelf[q], dest[q])'
  <2>1. ~ Busy(q)
    BY <1>1, <1>3, <1>5, <1>10 DEF Busy
  <2>2. Kept(q, shelf[q], dest[q])
    BY <1>1, <2>1 DEF CalmInv
  <2> QED
    BY <1>1, <1>6, <2>2 DEF Kept, Intact
<1>11. ASSUME NEW q \in Packages, last'[q] # None
       PROVE  /\ stage'[last'[q]] # "idle" /\ pkg'[last'[q]] = q
              /\ q # p => last[q] # c /\ last[q] # None /\ last[q] \in Calls
  <2>1. CASE q = p
    BY <1>1, <2>1
  <2>2. CASE q # p
    <3>1. last[q] # c /\ last[q] \in Calls /\ stage[last[q]] # "idle" /\ pkg[last[q]] = q
      BY <1>1, <1>11, <2>2 DEF CalmInv, TypeOK
    <3> QED
      BY <1>1, <1>11, <2>2, <3>1
  <2> QED
    BY <2>1, <2>2
<1>12. NoDuplicate'
  BY <1>1 DEF CalmInv, NoDuplicate, Found, Names
<1>13. CallsStand'
  <2>1. ASSUME NEW q \in Packages, NEW e \in Calls, e = last'[q]
        PROVE  Stands(e, q)'
    <3>1. CASE q = p
      BY <1>1, <2>1, <3>1 DEF Stands
    <3>2. CASE q # p
      <4>1. e = last[q] /\ e # c /\ e # None
        BY <1>1, <1>11, <2>1, <3>2, NoneAssumption
      <4>2. Stands(e, q)
        BY <1>1, <4>1, StandsIs DEF CalmInv
      <4> QED
        BY <1>1, <4>1, <4>2, StandsSame
    <3> QED
      BY <3>1, <3>2
  <2>2. \A q \in Packages : last'[q] # None => last'[q] \in Calls
    BY DEF TypeOK
  <2>3. \A q \in Packages : last'[q] # None => Stands(last[q], q)'
    <3> SUFFICES ASSUME NEW q \in Packages, last'[q] # None PROVE Stands(last[q], q)'
      OBVIOUS
    <3>1. PICK e \in Calls : e = last'[q]
      BY <2>2
    <3>2. Stands(e, q)'
      BY <2>1, <3>1
    <3> QED
      BY <3>1, <3>2 DEF Stands, Effect, Halfway
  <2> QED
    BY <2>3 DEF CallsStand, Stands
<1>14. \A d \in Calls : stage'[d] # "dead"
  BY <1>1 DEF CalmInv
<1>15. \A d \in Running' : CallInv(d)'
  BY <1>5, <1>7, <1>8
<1>16. /\ \A q \in Packages : last'[q] # None => stage'[last'[q]] # "idle" /\ pkg'[last'[q]] = q
  BY <1>11
<1> QED
  BY <1>9, <1>10, <1>12, <1>13, <1>14, <1>15, <1>16 DEF CalmInv

(* Boots, and stops while no call is under way, leave all of it alone.     *)
LEMMA CalmSame ==
  ASSUME CalmInv, UNCHANGED <<disk, stage, op, pkg, version, todo, staged, history, botched>>
  PROVE  CalmInv'
<1>1. /\ shelf' = shelf /\ dest' = dest /\ stage' = stage /\ op' = op /\ pkg' = pkg
      /\ version' = version /\ todo' = todo /\ staged' = staged /\ calm' = calm
      /\ last' = last /\ before' = before /\ botched' = botched
  BY DEF disk, history
<1>2. Running' = Running
  BY <1>1 DEF Running
<1>3. \A p, s, d : Kept(p, s, d)' <=> Kept(p, s, d)
  <2>1. \A p, what : Spoiled(p, what)' <=> Spoiled(p, what)
    BY <1>1 DEF Spoiled
  <2> QED
    BY <2>1 DEF Kept, Intact
<1>4. \A c : CallInv(c)' <=> CallInv(c)
  <2> SUFFICES ASSUME NEW c PROVE CallInv(c)' <=> CallInv(c)
    OBVIOUS
  <2>1. Staging(c)' <=> Staging(c)
    BY <1>1 DEF Staging, Untouched
  <2>2. Copying(c)' <=> Copying(c)
    BY <1>1 DEF Copying
  <2>3. Installing(c)' <=> Installing(c)
    BY <1>1, <2>2 DEF Installing
  <2>4. Removing(c)' <=> Removing(c)
    BY <1>1 DEF Removing, Untouched
  <2>5. Kept(pkg[c], before[c][1], before[c][2])' <=> Kept(pkg[c], before[c][1], before[c][2])
    BY <1>1 DEF Kept, Intact, Spoiled
  <2> QED
    BY <1>1, <2>1, <2>3, <2>4, <2>5 DEF CallInv
<1>5. NoDuplicate' <=> NoDuplicate
  BY <1>1 DEF NoDuplicate, Found, Names
<1>6. CallsStand' <=> CallsStand
  BY <1>1 DEF CallsStand, Effect, Halfway
<1>7. \A p : Busy(p)' <=> Busy(p)
  BY <1>1, <1>2 DEF Busy
<1>8. \A p \in Packages : Kept(p, shelf[p], dest[p])' <=> Kept(p, shelf[p], dest[p])
  BY <1>1 DEF Kept, Intact, Spoiled
<1> QED
  BY <1>1, <1>2, <1>4, <1>5, <1>6, <1>7, <1>8 DEF CalmInv

LEMMA CalmStop == ASSUME FullInv, Stop, calm' PROVE CalmInv'
<1>1. stage' = stage
  <2>1. stage' = [c \in Calls |-> stage[c]]
    BY DEF Stop
  <2> QED
    BY <2>1 DEF FullInv, IInv, TypeOK
<1>2. calm' = calm
  BY DEF Stop, FullInv, IInv, TypeOK
<1> QED
  BY <1>1, <1>2, CalmSame DEF FullInv, Stop, history

LEMMA CalmNext == FullInv /\ [Next]_vars => CalmInv'
<1> SUFFICES ASSUME FullInv, [Next]_vars, calm' PROVE CalmInv'
  BY DEF CalmInv
<1>1. TypeOK'
  BY TypeStep DEF FullInv, IInv
<1>2. ASSUME NEW c \in Calls, Step(c)
      PROVE  CalmInv'
  <2>1. pkg[c] \in Packages /\ calm
    BY <1>2, StepFrame DEF Within, FullInv, IInv, history
  <2> QED
    BY <1>1, <1>2, <2>1, CalmStep
<1>3. ASSUME NEW c \in Calls, NEW p \in Packages, Ask(c, p)
      PROVE  CalmInv'
  BY <1>1, <1>3, CalmAsk
<1>4. CASE Boot
  BY <1>4, CalmSame DEF Boot, FullInv
<1>5. CASE UNCHANGED vars
  BY <1>5, CalmSame DEF vars, FullInv
<1> QED
  BY <1>2, <1>3, <1>4, <1>5, CalmStop DEF Next

LEMMA CalmInit == Init => CalmInv
<1> SUFFICES ASSUME Init PROVE CalmInv
  OBVIOUS
<1>1. Running = {} /\ \A p \in Packages : dest[p] = None /\ last[p] = None
  BY DEF Init, Running
<1>2. \A p \in Packages : Kept(p, shelf[p], dest[p])
  <2> SUFFICES ASSUME NEW p \in Packages, shelf[p] # None
               PROVE  \E v \in Versions : shelf[p] = OnShelf(v) /\ <<p, v>> \in Sound
    BY <1>1 DEF Kept, Settled, SoundShelf
  <2>1. PICK v \in Versions : shelf[p] = OnShelf(v)
    BY DEF Init
  <2>2. <<p, shelf[p].version>> \in Sound
    BY DEF Init
  <2> QED
    BY <2>1, <2>2, OnShelfType
<1>3. NoDuplicate /\ CallsStand
  BY <1>1 DEF NoDuplicate, Found, Names, CallsStand
<1> QED
  BY <1>1, <1>2, <1>3 DEF CalmInv, Init

(* A settled package passes the gate of a boot.                            *)
LEMMA SettledBoots ==
  ASSUME NEW p \in Packages, Settled(p, shelf[p], dest[p]), Found(p) # {}
  PROVE  KeepsContract(p) /\ Loads(p)
<1>1. dest[p] # None
  BY DEF Found, Names
<1> DEFINE v == shelf[p].version
<1>2. shelf[p] # None /\ dest[p] = Files(p, v) \X {v}
  BY <1>1 DEF Settled
<1>3. v \in Versions /\ shelf[p] = OnShelf(v) /\ <<p, v>> \in Sound
  BY <1>2, SoundShelfIs DEF Settled
<1>4. Names(p) = Files(p, v)
  <2>1. Names(p) = {f[1] : f \in dest[p]}
    BY <1>1 DEF Names
  <2>2. ASSUME NEW x \in Files(p, v)
        PROVE  x \in Names(p)
    <3>1. <<x, v>> \in dest[p] /\ <<x, v>>[1] = x
      BY <1>2
    <3> QED
      BY <2>1, <3>1
  <2>3. \A f \in dest[p] : f[1] \in Files(p, v)
    BY <1>2
  <2> QED
    BY <2>1, <2>2, <2>3
<1>5. Found(p) = CubesOf[p][v]
  BY <1>3, <1>4, FilesType, RestAssumption DEF Found, Files
<1>6. \A f \in dest[p] : f[2] = v
  BY <1>2
<1> QED
  BY <1>2, <1>3, <1>4, <1>5, <1>6, OnShelfType DEF KeepsContract, Loads, Files

(* However calm calls end, and whichever of their deletions fail, each was *)
(* all or nothing but for what a failed deletion left of its own package,  *)
(* and between them the next boot comes up but for such packages.          *)
THEOREM CalmCallsAreSafe == Spec => []CalmCallsStand
<1>1. Init => FullInv
  BY InitInv, CalmInit DEF FullInv
<1>2. FullInv /\ [Next]_vars => FullInv'
  BY TypeStep, StageStep, ShelfStep, CalmNext DEF FullInv, IInv
<1>3. FullInv => CalmCallsStand
  <2> SUFFICES ASSUME FullInv PROVE CalmCallsStand
    OBVIOUS
  <2>1. ASSUME calm, Running = {}
        PROVE  NoDuplicate /\ \A p \in Packages : Found(p) # {} /\ Intact(p) => KeepsContract(p) /\ Loads(p)
    <3>1. \A p \in Packages : Intact(p) => Settled(p, shelf[p], dest[p])
      BY <2>1 DEF FullInv, CalmInv, Busy, Kept
    <3>2. NoDuplicate
      BY <2>1 DEF FullInv, CalmInv
    <3> QED
      BY <3>1, <3>2, SettledBoots
  <2>2. CalmBoots
    BY <2>1 DEF CalmBoots
  <2>3. CallsStand
    BY DEF FullInv, CalmInv, CallsStand
  <2> QED
    BY <2>2, <2>3 DEF CalmCallsStand, FullInv, IInv
<1> QED
  BY <1>1, <1>2, <1>3, PTL DEF Spec
=============================================================================
