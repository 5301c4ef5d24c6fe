--------------------------- MODULE MCReading_proofs ----------------------------
(***************************************************************************)
(* Proofs about the pages of Screens and InstallPage, the feed and its     *)
(* comments, and the related rows of Relations, for any number of loads,   *)
(* clicks, rows, users and activity rows, each by an invariant that holds  *)
(* while its part runs.                                                    *)
(***************************************************************************)
EXTENDS MCReading, FiniteSetTheorems, WellFoundedInduction, TLAPS

-----------------------------------------------------------------------------
(* Screens.                                                                *)

(* Loads and mutations are told apart by their numbers.                    *)
IdsInv ==
  /\ \A l \in loads : l.id <= asked
  /\ \A l, m \in loads : l.id = m.id => l = m
  /\ shown # None => shown.id <= asked
  /\ \A j \in jobs : j.id <= clicks
  /\ \A j, k \in jobs : j.id = k.id => j = k

(* What was applied was clicked.                                           *)
Sent == {j \in jobs : j.stage = "sent"}
AppliedInv == IsFiniteSet(jobs) /\ data + Cardinality(Sent) <= clicks

(* As long as no two items' mutations overlapped, the one under way has    *)
(* the mark.                                                               *)
MarkInv ==
  page.marks # "none" /\ ~ crossed => \A j \in jobs : slot = j.item /\ jobs = {j}

(* As long as the selection did not change under a mutation, what it will  *)
(* load or show is of the selection.                                       *)
SelInv ==
  ~ moved => /\ \A j \in jobs : j.sel = sel
             /\ "answer" \in page.reloads /\ jobs # {} => loads = {}

(* Mutations do what their page has them do, and all of them have it load  *)
(* again where none does nothing.                                          *)
DoesInv ==
  /\ \A j \in jobs : j.does \in page.reloads
  /\ "never" \notin page.reloads => owed = data
  /\ \A l \in loads : l.at # None => l.at <= data
  /\ shown # None => shown.at <= data

(* The newest load is of the selection and has what the page's mutations   *)
(* left that make it load again, or one of them has yet to ask for more.   *)
Pending == \E j \in jobs : j.stage = "applied" /\ j.does # "never"
NewestInv ==
  ~ failed /\ ~ moved =>
    /\ (\E l \in loads : l.id = asked) \/ shown # None
    /\ \A l \in loads : l.id = asked => l.sel = sel /\ (l.at = None \/ l.at >= owed \/ Pending)
    /\ shown # None /\ shown.id = asked => shown.sel = sel /\ (shown.at >= owed \/ Pending)

(* A panel that drops the answers to older loads shows the newest.         *)
GuardInv ==
  page.guards /\ ~ failed /\ ~ moved =>
    (\E l \in loads : l.id = asked) \/ (shown # None /\ shown.id = asked)

ScreensInv ==
  S!TypeOK /\ IdsInv /\ AppliedInv /\ MarkInv /\ SelInv /\ DoesInv /\ NewestInv /\ GuardInv

(* What a page's mutations do.                                             *)
LEMMA PageKinds ==
  ASSUME page \in S!Pages
  PROVE  /\ page.reloads \subseteq S!Reloads
         /\ "answer" \in page.reloads => \A d \in page.reloads : d = "answer"
         /\ page.guards => "never" \notin page.reloads
BY DEF S!Pages, S!Reloads, S!ListPage, S!DetailPage, S!CustomFields, S!PermissionsPage, S!DefinedFields,
       S!AddFieldForm, S!Settings, S!Shell, S!Terminal, S!CubeAgent

LEMMA ScreensInit == S!Init => ScreensInv
<1> SUFFICES ASSUME S!Init PROVE ScreensInv
  OBVIOUS
<1>1. S!TypeOK
  BY ScreensAssumption DEF S!Init, S!TypeOK, S!Load, S!Job
<1>2. AppliedInv
  <2>1. IsFiniteSet(jobs) /\ Sent = {}
    BY FS_EmptySet DEF S!Init, Sent
  <2>2. Cardinality(Sent) = 0
    BY <2>1, FS_EmptySet
  <2> QED
    BY <2>1, <2>2 DEF S!Init, AppliedInv
<1>3. IdsInv /\ MarkInv /\ SelInv /\ DoesInv /\ NewestInv /\ GuardInv
  BY DEF S!Init, IdsInv, MarkInv, SelInv, DoesInv, NewestInv, GuardInv, Pending
<1> QED
  BY <1>1, <1>2, <1>3 DEF ScreensInv

(* How many of the mutations under way were sent only.                     *)
LEMMA SentStays ==
  ASSUME AppliedInv, UNCHANGED <<data, clicks>>, Sent' \subseteq Sent, IsFiniteSet(jobs'),
         data \in Nat, clicks \in Nat
  PROVE  AppliedInv'
<1>1. IsFiniteSet(Sent) /\ IsFiniteSet(Sent')
  BY FS_Subset DEF AppliedInv, Sent
<1>2. Cardinality(Sent') <= Cardinality(Sent) /\ Cardinality(Sent) \in Nat /\ Cardinality(Sent') \in Nat
  BY <1>1, FS_Subset, FS_CardinalityType
<1> QED
  BY <1>2 DEF AppliedInv

(* A load more.                                                            *)
LEMMA AskedMore ==
  ASSUME S!TypeOK, IdsInv, NEW s \in Selections, S!Ask(s)
  PROVE  /\ asked' \in 1..MaxLoads /\ loads' \subseteq S!Load
         /\ \A l \in loads' : l.id <= asked'
         /\ \A l, m \in loads' : l.id = m.id => l = m
         /\ \A l \in loads' : l.id = asked' => l.sel = s /\ l.at = None
         /\ \E l \in loads' : l.id = asked'
         /\ shown # None => shown.id < asked'
<1> DEFINE l0 == [id |-> asked + 1, sel |-> s, at |-> None]
<1>1. l0 \in S!Load /\ l0.id = asked' /\ l0.sel = s /\ l0.at = None /\ asked' \in 1..MaxLoads
  BY ScreensAssumption DEF S!TypeOK, S!Load, S!Ask
<1>2. loads' = loads \cup {l0} /\ asked' = asked + 1 /\ asked \in Nat
  BY ScreensAssumption DEF S!Ask, S!TypeOK
<1>3. \A l \in loads : l.id \in Nat /\ l.id < asked'
  BY <1>2 DEF S!TypeOK, S!Load, IdsInv
<1>4. shown # None => shown.id < asked'
  BY <1>2 DEF S!TypeOK, S!Answer, IdsInv
<1> HIDE DEF l0
<1> QED
  BY <1>1, <1>2, <1>3, <1>4 DEF S!TypeOK, IdsInv

(* A load that ends takes with it the mutations that waited for it.        *)
LEMMA Settled ==
  ASSUME S!TypeOK, IdsInv, AppliedInv, MarkInv, SelInv, DoesInv, NEW l \in loads, S!Settle(l),
         UNCHANGED <<page, sel, asked, clicks, data, moved, crossed>>
  PROVE  /\ loads' = loads \ {l} /\ loads' \subseteq S!Load /\ jobs' \subseteq jobs
         /\ slot' \in Packages \cup {None}
         /\ AppliedInv' /\ MarkInv' /\ SelInv'
         /\ Pending' <=> Pending
<1>1. loads' = loads \ {l} /\ loads' \subseteq S!Load /\ jobs' \subseteq jobs
      /\ slot' \in Packages \cup {None}
  BY DEF S!Settle, S!TypeOK
<1>2. AppliedInv'
  <2>1. Sent' \subseteq Sent /\ IsFiniteSet(jobs')
    BY <1>1, FS_Subset DEF Sent, AppliedInv
  <2> QED
    BY <2>1, ScreensAssumption, SentStays DEF S!TypeOK
<1>3. MarkInv'
  BY DEF MarkInv, S!Settle
<1>4. SelInv'
  BY <1>1 DEF SelInv
<1>5. Pending' <=> Pending
  BY DEF Pending, S!Settle
<1> QED
  BY <1>1, <1>2, <1>3, <1>4, <1>5

LEMMA Reloading ==
  ASSUME NEW j \in S!Job, NEW n \in Nat
  PROVE  [j EXCEPT !.stage = "reload", !.load = n] =
         [id |-> j.id, item |-> j.item, does |-> j.does, sel |-> j.sel, stage |-> "reload", load |-> n]
<1> DEFINE m == [id |-> j.id, item |-> j.item, does |-> j.does, sel |-> j.sel, stage |-> "reload", load |-> j.load]
<1>1. [j EXCEPT !.stage = "reload"] = m
  BY DEF S!Job
<1>2. [m EXCEPT !.load = n] =
      [id |-> j.id, item |-> j.item, does |-> j.does, sel |-> j.sel, stage |-> "reload", load |-> n]
  BY DEF S!Job
<1> QED
  BY <1>1, <1>2

LEMMA ScreensStep ==
  ASSUME ScreensInv, S!Next
  PROVE  ScreensInv'
<1> USE ScreensAssumption DEF ScreensInv
<1>1. ASSUME NEW s \in Selections, S!Select(s)
      PROVE  ScreensInv'
  <2>0. /\ asked' \in 1..MaxLoads /\ loads' \subseteq S!Load
        /\ \A l \in loads' : l.id <= asked'
        /\ \A l, m \in loads' : l.id = m.id => l = m
        /\ shown # None => shown.id < asked'
    BY <1>1, AskedMore DEF S!Select
  <2>1. S!TypeOK' /\ IdsInv'
    BY <1>1, <2>0 DEF S!Select, S!TypeOK, S!Answer, IdsInv
  <2>2. AppliedInv'
    BY <1>1 DEF S!Select, AppliedInv, Sent
  <2>3. MarkInv'
    BY <1>1 DEF S!Select, MarkInv
  <2>4. SelInv'
    BY <1>1 DEF S!Select, SelInv
  <2>5. NewestInv' /\ GuardInv'
    BY <1>1, AskedMore DEF S!Select, S!TypeOK, S!Answer, NewestInv, GuardInv
  <2>6. DoesInv'
    BY <1>1 DEF S!Select, S!Ask, DoesInv
  <2> QED
    BY <2>1, <2>2, <2>3, <2>4, <2>5, <2>6
<1>2. ASSUME NEW l \in loads, S!Read(l)
      PROVE  ScreensInv'
  <2> DEFINE m == [l EXCEPT !.at = data]
  <2>1. m \in S!Load /\ m.id = l.id /\ m.sel = l.sel /\ m.at = data
    BY DEF S!TypeOK, S!Load
  <2>2. loads' = (loads \ {l}) \cup {m}
    BY <1>2 DEF S!Read
  <2> HIDE DEF m
  <2>3. S!TypeOK' /\ IdsInv'
    BY <1>2, <2>1, <2>2 DEF S!Read, S!history, S!TypeOK, IdsInv
  <2>4. AppliedInv'
    BY <1>2 DEF S!Read, S!history, AppliedInv, Sent
  <2>5. MarkInv' /\ SelInv'
    BY <1>2 DEF S!Read, S!history, MarkInv, SelInv
  <2>6. NewestInv' /\ GuardInv'
    BY <1>2, <2>1, <2>2 DEF S!Read, S!history, S!TypeOK, NewestInv, Pending, GuardInv
  <2>7. DoesInv'
    BY <1>2, <2>1, <2>2 DEF S!Read, S!history, S!TypeOK, DoesInv
  <2> QED
    BY <2>3, <2>4, <2>5, <2>6, <2>7
<1>3. ASSUME NEW l \in loads, S!Show(l)
      PROVE  ScreensInv'
  <2>1. /\ loads' = loads \ {l} /\ loads' \subseteq S!Load /\ jobs' \subseteq jobs
        /\ slot' \in Packages \cup {None}
        /\ AppliedInv' /\ MarkInv' /\ SelInv'
        /\ Pending' <=> Pending
    BY <1>3, Settled DEF S!Show
  <2>2. l \in S!Load /\ l.at # None /\ l.id <= asked
    BY <1>3 DEF S!Show, S!TypeOK, IdsInv
  <2>3. [id |-> l.id, sel |-> l.sel, at |-> l.at] \in S!Answer
    BY <2>2 DEF S!Load, S!Answer
  <2>4. S!TypeOK'
    BY <1>3, <2>1, <2>3 DEF S!Show, S!TypeOK
  <2>5. IdsInv'
    BY <1>3, <2>1, <2>2 DEF S!Show, IdsInv
  <2>6. DoesInv'
    <3>1. l.at <= data
      BY <2>2 DEF DoesInv
    <3> QED
      BY <1>3, <2>1, <2>3, <3>1 DEF S!Show, DoesInv
  <2>7. CASE S!Wanted(l)
    <3>1. shown' = [id |-> l.id, sel |-> l.sel, at |-> l.at]
      BY <1>3, <2>7 DEF S!Show
    <3>2. shown' # None /\ shown'.id = l.id /\ shown'.sel = l.sel /\ shown'.at = l.at
      BY <2>3, <3>1
    <3>3. UNCHANGED <<page, failed, moved, asked, sel, owed>>
      BY <1>3 DEF S!Show
    <3>4. NewestInv'
      BY <2>1, <2>2, <3>2, <3>3 DEF NewestInv
    <3>5. GuardInv'
      BY <2>7, <3>2, <3>3 DEF S!Wanted, GuardInv
    <3> QED
      BY <2>1, <2>4, <2>5, <2>6, <3>4, <3>5
  <2>8. CASE ~ S!Wanted(l)
    <3>1. shown' = shown /\ l.id # asked /\ UNCHANGED <<page, failed, moved, asked, sel, owed>>
      BY <1>3, <2>8 DEF S!Show, S!Wanted
    <3>2. NewestInv' /\ GuardInv'
      BY <2>1, <3>1 DEF NewestInv, GuardInv
    <3> QED
      BY <2>1, <2>4, <2>5, <2>6, <3>2
  <2> QED
    BY <2>7, <2>8
<1>4. ASSUME NEW l \in loads, S!FailLoad(l)
      PROVE  ScreensInv'
  <2>1. /\ loads' = loads \ {l} /\ loads' \subseteq S!Load /\ jobs' \subseteq jobs
        /\ slot' \in Packages \cup {None}
        /\ AppliedInv' /\ MarkInv' /\ SelInv'
    BY <1>4, Settled DEF S!FailLoad
  <2>2. S!TypeOK'
    BY <1>4, <2>1 DEF S!FailLoad, S!TypeOK
  <2>3. IdsInv'
    BY <1>4, <2>1 DEF S!FailLoad, IdsInv
  <2>4. NewestInv' /\ GuardInv'
    BY <1>4 DEF S!FailLoad, NewestInv, GuardInv
  <2>5. DoesInv'
    BY <1>4, <2>1 DEF S!FailLoad, DoesInv
  <2> QED
    BY <2>1, <2>2, <2>3, <2>4, <2>5
<1>5. ASSUME NEW i \in Packages, S!Click(i)
      PROVE  ScreensInv'
  <2>0. PICK does \in page.reloads :
          LET new == [id |-> clicks + 1, item |-> i, does |-> does, sel |-> sel, stage |-> "sent", load |-> 0]
          IN  jobs' = jobs \cup {new} /\ crossed' = S!Crossing(new)
              /\ moved' = (moved \/ (does = "answer" /\ loads # {}))
    BY <1>5 DEF S!Click
  <2> DEFINE j == [id |-> clicks + 1, item |-> i, does |-> does, sel |-> sel, stage |-> "sent", load |-> 0]
  <2>1. j \in S!Job /\ j.id = clicks + 1 /\ j.item = i /\ j.does = does /\ j.sel = sel /\ j.stage = "sent"
    BY PageKinds DEF S!TypeOK, S!Job
  <2>2. /\ jobs' = jobs \cup {j} /\ crossed' = S!Crossing(j) /\ clicks' = clicks + 1 /\ clicks \in Nat
        /\ moved' = (moved \/ (does = "answer" /\ loads # {}))
    BY <1>5, <2>0 DEF S!Click, S!TypeOK
  <2> HIDE DEF j
  <2>3. S!TypeOK'
    BY <1>5, <2>1, <2>2 DEF S!Click, S!TypeOK
  <2>4. IdsInv'
    BY <1>5, <2>1, <2>2 DEF S!Click, S!TypeOK, S!Job, IdsInv
  <2>5. AppliedInv'
    <3>0. Sent' = Sent \cup {j} /\ Sent \subseteq jobs /\ IsFiniteSet(jobs)
      BY <2>1, <2>2 DEF Sent, AppliedInv
    <3>1. IsFiniteSet(Sent)
      BY <3>0, FS_Subset
    <3>4. IsFiniteSet(jobs \cup {j})
      BY <3>0, FS_AddElement
    <3>6. jobs' = jobs \cup {j}
      BY <2>2
    <3>5. IsFiniteSet(jobs')
      BY <3>4, <3>6
    <3>2. Cardinality(Sent') <= Cardinality(Sent) + 1 /\ Cardinality(Sent) \in Nat /\ Cardinality(Sent') \in Nat
      <4>1. /\ IsFiniteSet(Sent \cup {j})
            /\ Cardinality(Sent \cup {j}) = IF j \in Sent THEN Cardinality(Sent) ELSE Cardinality(Sent) + 1
        BY <3>1, FS_AddElement
      <4>2. Cardinality(Sent) \in Nat /\ Cardinality(Sent \cup {j}) \in Nat
        BY <3>1, <4>1, FS_CardinalityType
      <4> QED
        BY <3>0, <4>1, <4>2
    <3>3. data' = data /\ data \in Nat
      BY <1>5 DEF S!Click, S!TypeOK
    <3> QED
      BY <2>2, <3>5, <3>2, <3>3 DEF AppliedInv
  <2>6. MarkInv'
    <3> SUFFICES ASSUME page.marks # "none", ~ crossed'
                 PROVE  slot' = i /\ jobs' = {j}
      BY <1>5, <2>1, <2>2 DEF MarkInv, S!Click
    <3>1. ~ crossed /\ \A k \in jobs : k.item = i
      BY <2>1, <2>2 DEF S!Crossing
    <3>2. jobs # {} => slot = i
      BY <3>1 DEF MarkInv
    <3>3. jobs = {}
      BY <1>5, <3>2 DEF S!Click, S!Enabled
    <3> QED
      BY <1>5, <2>2, <3>3 DEF S!Click
  <2>m. moved => moved'
    BY <2>2
  <2>7. SelInv'
    <3> SUFFICES ASSUME ~ moved', ~ moved PROVE SelInv'
      BY <2>m DEF SelInv
    <3>1. "answer" \in page.reloads => loads = {}
      BY <2>0, <2>2, PageKinds DEF S!TypeOK
    <3> QED
      BY <1>5, <2>1, <2>2, <3>1 DEF S!Click, SelInv
  <2>8. NewestInv' /\ GuardInv'
    BY <1>5, <2>1, <2>2, <2>m DEF S!Click, NewestInv, GuardInv, Pending
  <2>9. DoesInv'
    BY <1>5, <2>1, <2>2 DEF S!Click, DoesInv
  <2> QED
    BY <2>3, <2>4, <2>5, <2>6, <2>7, <2>8, <2>9
<1>6. ASSUME NEW j \in jobs, S!Apply(j)
      PROVE  ScreensInv'
  <2> DEFINE k == [j EXCEPT !.stage = "applied"]
  <2>1. /\ k \in S!Job /\ k.id = j.id /\ k.item = j.item /\ k.does = j.does /\ k.sel = j.sel
        /\ k.stage = "applied" /\ k.stage # j.stage
    BY <1>6 DEF S!TypeOK, S!Job, S!Apply
  <2>2. /\ jobs' = (jobs \ {j}) \cup {k} /\ data' = data + 1 /\ data \in Nat /\ clicks \in Nat
        /\ owed' = (IF j.does = "never" THEN owed ELSE data + 1) /\ owed \in 0..data
        /\ UNCHANGED <<page, sel, loads, asked, shown, slot, clicks, failed, moved, crossed>>
    BY <1>6 DEF S!Apply, S!Owed, S!TypeOK
  <2> HIDE DEF k
  <2>3. AppliedInv' /\ data' <= clicks
    <3>1. Sent' = Sent \ {j} /\ j \in Sent /\ IsFiniteSet(Sent) /\ IsFiniteSet(jobs')
      <4>1. Sent' = Sent \ {j} /\ j \in Sent /\ Sent \subseteq jobs
        BY <1>6, <2>1, <2>2 DEF Sent, S!Apply
      <4>2. IsFiniteSet(jobs)
        BY DEF AppliedInv
      <4>3. IsFiniteSet(jobs \ {j})
        BY <4>2, FS_RemoveElement
      <4>4. IsFiniteSet(jobs')
        BY <2>2, <4>3, FS_AddElement
      <4> QED
        BY <4>1, <4>2, <4>4, FS_Subset
    <3>2. Cardinality(Sent') = Cardinality(Sent) - 1 /\ Cardinality(Sent) \in Nat /\ Cardinality(Sent') \in Nat
      BY <3>1, FS_RemoveElement, FS_CardinalityType, FS_Subset
    <3>3. clicks' = clicks
      BY <1>6 DEF S!Apply
    <3> QED
      BY <2>2, <3>1, <3>2, <3>3 DEF AppliedInv
  <2>4. S!TypeOK'
    BY <2>1, <2>2, <2>3 DEF S!TypeOK
  <2>5. IdsInv'
    BY <2>1, <2>2 DEF IdsInv
  <2>6. MarkInv' /\ SelInv'
    BY <2>1, <2>2 DEF MarkInv, SelInv
  <2>7. NewestInv' /\ GuardInv'
    <3>1. j.does # "never" => Pending'
      BY <2>1, <2>2 DEF Pending
    <3>2. Pending => Pending'
      BY <1>6, <2>2 DEF Pending, S!Apply
    <3> QED
      BY <2>2, <3>1, <3>2 DEF NewestInv, GuardInv
  <2>8. DoesInv'
    <3>1. j.does \in page.reloads
      BY DEF DoesInv
    <3>2. \A l \in loads : l.at # None => l.at \in Nat
      BY DEF S!TypeOK, S!Load
    <3>3. shown # None => shown.at \in Nat
      BY DEF S!TypeOK, S!Answer
    <3> QED
      BY <2>1, <2>2, <3>1, <3>2, <3>3 DEF DoesInv
  <2> QED
    BY <2>3, <2>4, <2>5, <2>6, <2>7, <2>8
<1>7. ASSUME NEW j \in jobs, S!Done(j)
      PROVE  ScreensInv'
  <2> DEFINE k == [id |-> j.id, item |-> j.item, does |-> j.does, sel |-> j.sel, stage |-> "reload", load |-> asked + 1]
  <2>0. /\ j \in S!Job /\ j.sel \in Selections /\ sel \in Selections /\ asked \in Nat /\ data \in Nat
        /\ clicks \in Nat /\ owed \in 0..data /\ j.does \in page.reloads
    BY DEF S!TypeOK, S!Job, DoesInv
  <2>1. k \in S!Job /\ k.id = j.id /\ k.item = j.item /\ k.does = j.does /\ k.sel = j.sel /\ k.stage = "reload"
    BY <2>0 DEF S!Job
  <2>k. [j EXCEPT !.stage = "reload", !.load = asked + 1] = k
    <3>1. j \in S!Job /\ asked + 1 \in Nat
      BY <2>0
    <3> HIDE DEF k
    <3>2. [j EXCEPT !.stage = "reload", !.load = asked + 1] =
          [id |-> j.id, item |-> j.item, does |-> j.does, sel |-> j.sel, stage |-> "reload", load |-> asked + 1]
      BY <3>1, Reloading
    <3> QED
      BY <3>2 DEF k
  <2>2. /\ j.stage = "applied" /\ UNCHANGED <<page, sel, clicks, data, owed, failed, moved, crossed>>
        /\ \/ jobs' = jobs \ {j} /\ slot' = None
           \/ jobs' = (jobs \ {j}) \cup {k} /\ UNCHANGED slot
    BY <1>7, <2>k DEF S!Done, S!history
  <2> HIDE DEF k
  <2>3. AppliedInv'
    <3>1. Sent' \subseteq Sent
      BY <2>1, <2>2 DEF Sent
    <3>2. IsFiniteSet(jobs \ {j}) /\ IsFiniteSet((jobs \ {j}) \cup {k})
      BY FS_AddElement, FS_RemoveElement DEF AppliedInv
    <3>3. IsFiniteSet(jobs')
      BY <2>2, <3>2
    <3> QED
      BY <2>0, <2>2, <3>1, <3>3, SentStays
  <2>4. MarkInv'
    BY <2>1, <2>2 DEF MarkInv
  <2>5. \A m \in jobs' : /\ m \in S!Job
                         /\ m.id <= clicks
                         /\ m.does \in page.reloads
                         /\ \A n \in jobs' : m.id = n.id => m = n
                         /\ ~ moved => m.sel = sel
    BY <2>1, <2>2 DEF S!TypeOK, IdsInv, SelInv, DoesInv
  <2>6. CASE /\ j.does # "answer" /\ UNCHANGED shown
             /\ S!Ask(sel) \/ S!Ask(j.sel)
    <3>1. PICK s \in Selections : S!Ask(s) /\ (~ moved => s = sel)
      BY <2>0, <2>6 DEF SelInv
    <3>0. /\ asked' \in 1..MaxLoads /\ loads' \subseteq S!Load
          /\ \A l \in loads' : l.id <= asked'
          /\ \A l, m \in loads' : l.id = m.id => l = m
          /\ shown # None => shown.id < asked'
      BY <3>1, AskedMore
    <3>2. S!TypeOK' /\ IdsInv'
      BY <2>2, <2>5, <2>6, <3>0 DEF S!TypeOK, S!Answer, IdsInv
    <3>3. SelInv'
      <4>1. "answer" \notin page.reloads
        BY <2>0, <2>6, PageKinds DEF S!TypeOK
      <4> QED
        BY <2>2, <2>5, <4>1 DEF SelInv
    <3>4. NewestInv' /\ GuardInv'
      BY <2>2, <2>6, <3>1, AskedMore DEF NewestInv, GuardInv, S!TypeOK, S!Answer
    <3>5. DoesInv'
      BY <2>2, <2>5, <2>6, <3>1 DEF S!Ask, DoesInv
    <3> QED
      BY <2>3, <2>4, <3>2, <3>3, <3>4, <3>5
  <2>7. CASE /\ j.does = "answer" /\ shown' = [id |-> asked, sel |-> j.sel, at |-> data]
             /\ UNCHANGED <<loads, asked>>
    <3>1. shown' \in S!Answer /\ shown' # None /\ shown'.id = asked /\ shown'.sel = j.sel /\ shown'.at = data
      BY <2>0, <2>7 DEF S!Answer
    <3>2. S!TypeOK' /\ IdsInv'
      BY <2>0, <2>2, <2>5, <2>7, <3>1 DEF S!TypeOK, IdsInv
    <3>3. SelInv'
      BY <2>2, <2>5, <2>7 DEF SelInv
    <3>4. NewestInv' /\ GuardInv'
      BY <2>0, <2>2, <2>7, <3>1 DEF NewestInv, GuardInv, SelInv
    <3>5. DoesInv'
      BY <2>0, <2>2, <2>5, <2>7, <3>1 DEF DoesInv
    <3> QED
      BY <2>3, <2>4, <3>2, <3>3, <3>4, <3>5
  <2>8. CASE j.does = "never" /\ UNCHANGED <<loads, asked, shown>> /\ jobs' = jobs \ {j}
    <3>1. S!TypeOK' /\ IdsInv'
      BY <2>2, <2>5, <2>8 DEF S!TypeOK, IdsInv
    <3>2. SelInv' /\ DoesInv'
      BY <2>2, <2>5, <2>8 DEF SelInv, DoesInv
    <3>3. Pending' <=> Pending
      BY <2>8 DEF Pending
    <3>4. NewestInv' /\ GuardInv'
      BY <2>2, <2>8, <3>3 DEF NewestInv, GuardInv
    <3> QED
      BY <2>3, <2>4, <3>1, <3>2, <3>4
  <2> QED
    BY <1>7, <2>6, <2>7, <2>8 DEF S!Done
<1>8. ASSUME NEW j \in jobs, S!FailJob(j)
      PROVE  ScreensInv'
  <2>1. /\ jobs' = jobs \ {j} /\ slot' = None /\ failed' = TRUE
        /\ UNCHANGED <<page, sel, shown, clicks, data, owed, moved, crossed>>
    BY <1>8 DEF S!FailJob
  <2>2. j.sel \in Selections /\ data \in Nat /\ clicks \in Nat
    BY DEF S!TypeOK, S!Job
  <2>3. AppliedInv'
    <3>1. Sent' \subseteq Sent /\ IsFiniteSet(jobs')
      BY <2>1, FS_RemoveElement DEF Sent, AppliedInv
    <3> QED
      BY <2>1, <2>2, <3>1, SentStays
  <2>4. MarkInv' /\ GuardInv' /\ NewestInv'
    BY <2>1 DEF MarkInv, GuardInv, NewestInv
  <2>d. DoesInv'
    <3>1. UNCHANGED loads \/ S!Ask(j.sel)
      BY <1>8 DEF S!FailJob
    <3> QED
      BY <2>1, <3>1 DEF S!Ask, DoesInv
  <2>5. CASE j.does = "finally" /\ S!Ask(j.sel)
    <3>0. /\ asked' \in 1..MaxLoads /\ loads' \subseteq S!Load
          /\ \A l \in loads' : l.id <= asked'
          /\ \A l, m \in loads' : l.id = m.id => l = m
          /\ shown # None => shown.id < asked'
      BY <2>2, <2>5, AskedMore
    <3>1. S!TypeOK' /\ IdsInv'
      BY <2>1, <3>0 DEF S!TypeOK, S!Answer, IdsInv
    <3>2. SelInv'
      <4>1. "answer" \notin page.reloads
        BY <2>5, PageKinds DEF S!TypeOK, DoesInv
      <4> QED
        BY <2>1, <4>1 DEF SelInv
    <3> QED
      BY <2>3, <2>4, <2>d, <3>1, <3>2
  <2>6. CASE UNCHANGED <<loads, asked>>
    BY <2>1, <2>3, <2>4, <2>d, <2>6 DEF S!TypeOK, IdsInv, SelInv
  <2> QED
    BY <1>8, <2>5, <2>6 DEF S!FailJob
<1> QED
  BY <1>1, <1>2, <1>3, <1>4, <1>5, <1>6, <1>7, <1>8 DEF S!Next

ScreensPart == part = "screens" => ScreensInv

LEMMA ScreensPartHolds == SpecReading => []ScreensPart
<1>1. InitReading => ScreensPart
  BY ScreensInit DEF InitReading, ScreensPart
<1>2. ScreensPart /\ [NextReading]_all => ScreensPart'
  <2> SUFFICES ASSUME ScreensPart, [NextReading]_all, part' = "screens" PROVE ScreensInv'
    BY DEF ScreensPart
  <2>1. CASE S!Next /\ part = "screens"
    BY <2>1, ScreensStep DEF ScreensPart
  <2>2. CASE UNCHANGED <<all>>
    <3>1. UNCHANGED <<page, sel, loads, asked, shown, slot, jobs, data, owed, failed, moved, crossed, clicks>>
          /\ part = "screens"
      BY <2>2 DEF all, screensOnly
    <3> QED
      BY <3>1 DEF ScreensPart, ScreensInv, S!TypeOK, IdsInv, AppliedInv, Sent, MarkInv, SelInv, DoesInv,
                  NewestInv, Pending, GuardInv
  <2> QED
    BY <2>1, <2>2 DEF NextReading
<1> QED
  BY <1>1, <1>2, PTL DEF SpecReading

(* Whatever number of loads and mutations of a page are under way, in      *)
(* whatever order their answers come: a page at rest that shows its last   *)
(* load shows its selection with the mutations after which it loads again, *)
(* unless its selection changed under a mutation; the panel that drops the *)
(* answers to older loads does show its last; and no button has two calls  *)
(* out.                                                                    *)
THEOREM ScreensStayCurrent == SpecReading => []ScreensAreCurrent
<1>1. ScreensPart => ScreensAreCurrent
  <2> SUFFICES ASSUME ScreensInv
               PROVE  S!TypeOK /\ S!QuietScreenIsCurrent /\ S!PanelIgnoresLateLoads /\ S!OneClickOneCall
    BY DEF ScreensPart, ScreensAreCurrent
  <2>1. S!TypeOK
    BY DEF ScreensInv
  <2>2. S!Quiet => ~ Pending
    BY DEF S!Quiet, Pending
  <2>3. S!QuietScreenIsCurrent
    BY <2>2 DEF ScreensInv, NewestInv, S!Quiet, S!QuietScreenIsCurrent
  <2>4. S!PanelIgnoresLateLoads
    <3> SUFFICES ASSUME page.guards, S!Quiet, ~ moved
                 PROVE  shown # None /\ shown.id = asked /\ shown.sel = sel /\ shown.at = data
      BY DEF S!PanelIgnoresLateLoads
    <3>1. shown # None /\ shown.id = asked
      BY DEF ScreensInv, GuardInv, S!Quiet
    <3>2. owed = data /\ shown.at <= data
      BY <3>1, PageKinds DEF ScreensInv, DoesInv, S!TypeOK
    <3>3. shown.at \in Nat /\ data \in Nat
      BY <3>1 DEF ScreensInv, S!TypeOK, S!Answer
    <3> QED
      BY <2>3, <3>1, <3>2, <3>3 DEF S!QuietScreenIsCurrent
  <2>5. S!OneClickOneCall
    BY DEF ScreensInv, MarkInv, S!OneClickOneCall
  <2> QED
    BY <2>1, <2>3, <2>4, <2>5
<1> QED
  BY ScreensPartHolds, <1>1, PTL

-----------------------------------------------------------------------------
(* Feed.                                                                   *)

Record == [st : {"open", "done"}, row : Rows, type : Entities, op : {"live", "deleted", "row", "comment"}]
Comment == [author : Users \cup {""}, text : {"", "words", "new words"}, gone : BOOLEAN]
Gating == [at : {"gate"}, op : {"add"}, user : Users, row : Rows]
Adding == [at : {"decide", "write"}, op : {"add"}, user : Users, row : Rows, type : Entities]
Inserting == [at : {"insert"}, op : {"add"}, user : Users, row : Rows, type : Entities, id : Ids]
Changing == [at : {"gate", "decide", "moderator", "write", "wipe"}, op : {"edit", "remove"},
             user : Users, id : Ids, row : Rows, type : Entities]

FeedTyped ==
  /\ capture \in Entities \cup {"off"}
  /\ log \in [Ids -> Record \cup {[st |-> "free"], [st |-> "void"]}]
  /\ \A i \in Ids : log[i].st = "open" => log[i].op # "row"
  /\ comments \in [Ids -> Comment]
  /\ calls \in [Slots -> Gating \cup Adding \cup Inserting \cup Changing \cup {[at |-> "idle"], [at |-> "ended"]}]

(* An add that has inserted has its own open record; a comment that is     *)
(* edited or removed has a committed one.                                  *)
TalkInv ==
  \A s \in Slots :
    /\ calls[s].at = "insert" =>
         /\ log[calls[s].id].st = "open" /\ log[calls[s].id].op = "comment"
         /\ \A t \in Slots : calls[t].at = "insert" /\ calls[t].id = calls[s].id => t = s
    /\ calls[s] \in Changing => log[calls[s].id].st = "done" /\ log[calls[s].id].op = "comment"

CommentsInv == FeedTyped /\ TalkInv /\ RemovedTextIsGone /\ CommentsAreLogged

Verdicts == UNION {[D -> BOOLEAN] : D \in SUBSET Rows}
Asking == [at : {"ask", "refused"}, target : Rows \cup {"all"}, before : Nat, seen : SUBSET Ids,
           repeats : BOOLEAN, verdicts : Verdicts]
Judging == [at : {"judge", "ask", "ended", "refused"}, target : Rows \cup {"all"}, before : Nat,
            seen : SUBSET Ids, repeats : BOOLEAN, verdicts : Verdicts, scanned : SUBSET Ids,
            type : Entities \cup {"off"}, cap : BOOLEAN]

WalkTyped ==
  /\ walk \in Asking \cup Judging \cup {[at |-> "idle"]}
  /\ walk.at \in {"judge", "ended"} => walk \in Judging

(* What the walk has shown lies above its cursor, and once.                *)
CursorInv == walk.at # "idle" => ~ walk.repeats /\ \A i \in walk.seen : walk.before <= i

(* A record that has been visible all along was shown, is on the page, or  *)
(* is below it; and on the page its gates let it pass.                     *)
Matches(i) == walk.target \in {"all", log[i].row}
LastingInv ==
  /\ lasting \subseteq Visible
  /\ walk.at = "ask" => \A i \in lasting : Matches(i) => i \in walk.seen \/ i < walk.before
  /\ walk.at = "judge" =>
       /\ \A i \in walk.scanned : i \in Done /\ i < walk.before
       /\ \A i \in lasting : Matches(i) =>
            \/ i \in walk.seen \cup walk.scanned
            \/ walk.scanned # {} /\ \A p \in walk.scanned : i < p
       /\ \A i \in lasting \cap walk.scanned :
            /\ walk.cap /\ log[i].type = walk.type
            /\ log[i].row \in DOMAIN walk.verdicts => walk.verdicts[log[i].row]
  /\ walk.at = "ended" => \A i \in lasting : Matches(i) => i \in walk.seen

(* A verdict rests on facts of its request.                                *)
Backed(r) ==
  \/ <<"live", r>> \in met /\ \E k \in {"read", "edit", "moderate"} : <<k, r>> \in met
  \/ <<"deleted", r>> \in met /\ <<"moderate", r>> \in met
VerdictsInv == walk.at = "judge" => \A r \in DOMAIN walk.verdicts : walk.verdicts[r] => Backed(r)

FeedInv == CommentsInv /\ WalkTyped /\ CursorInv /\ LastingInv /\ VerdictsInv

(* What a commit makes of a record.                                        *)
LEMMA Committing ==
  ASSUME NEW f \in [Ids -> Record \cup {[st |-> "free"], [st |-> "void"]}], NEW i \in Ids, f[i] \in Record
  PROVE  [f EXCEPT ![i].st = "done", ![i].op = "row"][i] =
         [st |-> "done", row |-> f[i].row, type |-> f[i].type, op |-> "row"]
<1> DEFINE g == [f EXCEPT ![i].st = "done"]
<1>1. g[i] = [st |-> "done", row |-> f[i].row, type |-> f[i].type, op |-> f[i].op] /\ i \in DOMAIN g
  BY DEF Record
<1>2. [g EXCEPT ![i].op = "row"][i] = [g[i] EXCEPT !.op = "row"]
  BY <1>1
<1> HIDE DEF g
<1>3. [g[i] EXCEPT !.op = "row"] = [st |-> "done", row |-> f[i].row, type |-> f[i].type, op |-> "row"]
  BY <1>1
<1> QED
  BY <1>2, <1>3 DEF g

(* A call takes its next gate, or ends.                                    *)
Goes(s) ==
  \E c : /\ calls' = [calls EXCEPT ![s] = c]
         /\ \/ c \in Adding \cup {[at |-> "ended"]}
            \/ c \in Changing /\ calls[s] \in Changing /\ c.id = calls[s].id

LEMMA Steps ==
  ASSUME FeedTyped, NEW s \in Slots, Gated(s) \/ Moderator(s) \/ Decide(s)
  PROVE  Goes(s)
<1>0. calls[s] \in Gating \cup Adding \cup Inserting \cup Changing \cup {[at |-> "idle"], [at |-> "ended"]}
  BY DEF FeedTyped
<1>1. End(s) => Goes(s)
  BY DEF End, Goes
<1>2. ASSUME NEW stage \in {"decide", "moderator", "write", "wipe"}, To(s, stage), calls[s] \in Changing
      PROVE  Goes(s)
  <2> DEFINE c == [calls[s] EXCEPT !.at = stage]
  <2>1. c \in Changing /\ c.id = calls[s].id
    BY <1>2 DEF Changing
  <2>2. calls' = [calls EXCEPT ![s] = c]
    BY <1>2 DEF To, FeedTyped
  <2> HIDE DEF c
  <2> QED
    BY <1>2, <2>1, <2>2 DEF Goes
<1>3. ASSUME To(s, "write"), calls[s] \in Adding
      PROVE  Goes(s)
  <2> DEFINE c == [calls[s] EXCEPT !.at = "write"]
  <2>1. c \in Adding
    BY <1>3 DEF Adding
  <2>2. calls' = [calls EXCEPT ![s] = c]
    BY <1>3 DEF To, FeedTyped
  <2> HIDE DEF c
  <2> QED
    BY <2>1, <2>2 DEF Goes
<1>4. CASE Gated(s)
  <2>1. calls[s] \in Gating \cup Changing
    BY <1>0, <1>4 DEF Gated, Adding, Inserting
  <2>2. CASE calls[s] \in Changing
    BY <1>1, <1>2, <1>4, <2>2 DEF Gated, Changing
  <2>3. CASE calls[s] \in Gating
    <3> DEFINE c == [at |-> "decide", op |-> "add", user |-> calls[s].user, row |-> calls[s].row, type |-> capture]
    <3>1. CASE Gate(calls[s].user, calls[s].row) /\ calls' = [calls EXCEPT ![s] = c]
      <4>1. c \in Adding
        BY <2>3, <3>1 DEF Gate, FeedTyped, Gating, Adding
      <4> HIDE DEF c
      <4> QED
        BY <3>1, <4>1 DEF Goes
    <3>2. CASE End(s)
      BY <1>1, <3>2
    <3> QED
      BY <1>4, <2>3, <3>1, <3>2 DEF Gated, Gating
  <2> QED
    BY <2>1, <2>2, <2>3
<1>5. CASE Moderator(s)
  <2>1. calls[s] \in Changing
    BY <1>0, <1>5 DEF Moderator, Adding, Inserting, Gating
  <2> QED
    BY <1>2, <1>5, <2>1 DEF Moderator
<1>6. CASE Decide(s)
  <2>1. calls[s] \in Adding \cup Changing
    BY <1>0, <1>6 DEF Decide, Inserting, Gating
  <2> QED
    BY <1>1, <1>2, <1>3, <1>6, <2>1 DEF Decide
<1> QED
  BY <1>4, <1>5, <1>6

LEMMA Least ==
  ASSUME NEW T \in SUBSET Nat, T # {}
  PROVE  Min(T) \in T /\ \A y \in T : Min(T) <= y
<1> DEFINE Below == OpToRel(<, Nat)
<1>1. \A x, y \in Nat : x < y => <<x, y>> \in Below
  BY DEF OpToRel
<1>2. IsWellFoundedOn(Below, Nat)
  BY NatLessThanWellFounded
<1> HIDE DEF Below
<1>3. PICK x \in T : \A y \in T : ~ (<<y, x>> \in Below)
  BY <1>2, WFMin
<1>4. \A y \in T : x <= y
  <2> TAKE y \in T
  <2>1. x \in Nat /\ y \in Nat
    OBVIOUS
  <2>2. ~ (y < x)
    BY <1>1, <1>3, <2>1
  <2> QED
    BY <2>1, <2>2
<1> QED
  BY <1>4 DEF Min

LEMMA CommentsInit == Init => CommentsInv
<1> SUFFICES ASSUME Init PROVE CommentsInv
  OBVIOUS
<1>1. calls = [s \in Slots |-> [at |-> "idle"]] /\ capture \in Entities
  BY DEF Init
<1>2. CASE log = [i \in Ids |-> [st |-> "free"]] /\ comments = [i \in Ids |-> NoComment]
  BY <1>1, <1>2 DEF CommentsInv, FeedTyped, TalkInv, RemovedTextIsGone, CommentsAreLogged, NoComment, Comment,
                    Changing
<1>3. ASSUME NEW r \in Rows,
             log = [i \in Ids |-> IF i = 1 THEN [st |-> "done", row |-> r, type |-> capture, op |-> "comment"]
                                  ELSE [st |-> "free"]],
             comments = [i \in Ids |-> IF i = 1 THEN Words(Walker) ELSE NoComment],
             Walker \in Users
      PROVE  CommentsInv
  BY <1>1, <1>3 DEF CommentsInv, FeedTyped, TalkInv, RemovedTextIsGone, CommentsAreLogged, NoComment, Comment,
                    Changing, Words, Record
<1>4. Walker \in Users
  BY FeedAssumption DEF Walker
<1> QED
  BY <1>2, <1>3, <1>4 DEF Init

(* A call goes on, and what it writes keeps every comment a comment.       *)
LEMMA CallMoves ==
  ASSUME CommentsInv, NEW s \in Slots, NEW c, calls' = [calls EXCEPT ![s] = c], UNCHANGED <<log, capture>>,
         \/ c \in Gating \cup Adding \cup {[at |-> "ended"]}
         \/ c \in Changing /\ log[c.id].st = "done" /\ log[c.id].op = "comment",
         comments' \in [Ids -> Comment], RemovedTextIsGone',
         \A i \in Ids : comments'[i] # NoComment <=> comments[i] # NoComment
  PROVE  CommentsInv'
<1>1. c.at # "insert"
  BY DEF Gating, Adding, Changing
<1>2. c \in Changing => log[c.id].st = "done" /\ log[c.id].op = "comment"
  BY DEF Gating, Adding, Changing
<1>3. calls'[s] = c /\ \A t \in Slots : t # s => calls'[t] = calls[t]
  BY DEF CommentsInv, FeedTyped
<1>4. FeedTyped'
  BY DEF CommentsInv, FeedTyped
<1>5. TalkInv'
  BY <1>1, <1>2, <1>3 DEF CommentsInv, TalkInv
<1>6. CommentsAreLogged'
  BY DEF CommentsInv, CommentsAreLogged
<1> QED
  BY <1>4, <1>5, <1>6 DEF CommentsInv

(* The next id is drawn.                                                   *)
LEMMA Drawn ==
  ASSUME FeedTyped, NEW r \in Rows, NEW type \in Entities, NEW op \in {"live", "deleted", "comment"},
         Draw(r, type, op)
  PROVE  /\ Min(Free) \in Ids /\ log[Min(Free)].st = "free"
         /\ log' \in [Ids -> Record \cup {[st |-> "free"], [st |-> "void"]}]
         /\ log'[Min(Free)] = [st |-> "open", row |-> r, type |-> type, op |-> op]
         /\ \A i \in Ids : i # Min(Free) => log'[i] = log[i]
<1>1. Min(Free) \in Free
  <2>1. Free \in SUBSET Nat /\ Free # {}
    BY FeedAssumption DEF Draw, Free, Ids
  <2> QED
    BY <2>1, Least
<1>2. Min(Free) \in Ids /\ log[Min(Free)].st = "free"
  BY <1>1 DEF Free
<1>3. [st |-> "open", row |-> r, type |-> type, op |-> op] \in Record
  BY DEF Record
<1> QED
  BY <1>2, <1>3 DEF Draw, FeedTyped

Untold(k) == log[k].st # "done" /\ (log'[k].st # "done" \/ log'[k].op # "comment")

(* No comment appears with a record that is drawn, aborted or of a row.    *)
LEMMA LoggedStays ==
  ASSUME CommentsInv, UNCHANGED comments,
         \A k \in Ids : log'[k] = log[k] \/ Untold(k)
  PROVE  RemovedTextIsGone' /\ CommentsAreLogged'
<1>1. RemovedTextIsGone'
  BY DEF CommentsInv, RemovedTextIsGone
<1>2. CommentsAreLogged'
  <2> SUFFICES ASSUME NEW i \in Ids
               PROVE  comments'[i] # NoComment <=> log'[i].st = "done" /\ log'[i].op = "comment"
    BY DEF CommentsAreLogged
  <2>1. comments[i] # NoComment <=> log[i].st = "done" /\ log[i].op = "comment"
    BY DEF CommentsInv, CommentsAreLogged
  <2> QED
    BY <2>1 DEF Untold
<1> QED
  BY <1>1, <1>2

LEMMA CommentAdded ==
  ASSUME CommentsInv, NEW s \in Slots, Add(s)
  PROVE  CommentsInv'
<1>0. calls[s] \in Gating \cup Adding \cup Inserting \cup Changing \cup {[at |-> "idle"], [at |-> "ended"]}
  BY DEF CommentsInv, FeedTyped
<1>1. UNCHANGED capture
  BY DEF Add, Rest
<1>2. ASSUME calls[s].at = "write", calls[s].op = "add", Draw(calls[s].row, calls[s].type, "comment"),
             UNCHANGED comments, Insert(s, Min(Free))
      PROVE  CommentsInv'
  <2> DEFINE i == Min(Free)
             c == [at |-> "insert", op |-> "add", user |-> calls[s].user, row |-> calls[s].row,
                   type |-> calls[s].type, id |-> i]
  <2>1. calls[s] \in Adding
    BY <1>0, <1>2 DEF Gating, Inserting, Changing
  <2>2. /\ i \in Ids /\ log[i].st = "free"
        /\ log' \in [Ids -> Record \cup {[st |-> "free"], [st |-> "void"]}]
        /\ log'[i] = [st |-> "open", row |-> calls[s].row, type |-> calls[s].type, op |-> "comment"]
        /\ \A k \in Ids : k # i => log'[k] = log[k]
    <3>1. calls[s].row \in Rows /\ calls[s].type \in Entities
      BY <2>1 DEF Adding
    <3> QED
      BY <1>2, <3>1, Drawn DEF CommentsInv
  <2>3. calls' = [calls EXCEPT ![s] = c]
    BY <1>2 DEF Insert
  <2> HIDE DEF i
  <2>4. c \in Inserting /\ c.id = i /\ c.at = "insert" /\ c \notin Changing
    BY <2>1, <2>2 DEF Adding, Inserting, Changing
  <2> HIDE DEF c
  <2>5. calls'[s] = c /\ \A t \in Slots : t # s => calls'[t] = calls[t]
    BY <2>3 DEF CommentsInv, FeedTyped
  <2>6. \A t \in Slots : (calls[t].at = "insert" \/ calls[t] \in Changing) => calls[t].id \in Ids /\ calls[t].id # i
    BY <2>2 DEF CommentsInv, FeedTyped, TalkInv, Inserting, Changing, Gating, Adding
  <2>7. FeedTyped'
    <3>1. calls' \in [Slots -> Gating \cup Adding \cup Inserting \cup Changing \cup {[at |-> "idle"], [at |-> "ended"]}]
      BY <2>3, <2>4 DEF CommentsInv, FeedTyped
    <3> QED
      BY <1>1, <1>2, <2>2, <3>1 DEF CommentsInv, FeedTyped
  <2>8. TalkInv'
    BY <2>2, <2>4, <2>5, <2>6 DEF CommentsInv, TalkInv
  <2>9. RemovedTextIsGone' /\ CommentsAreLogged'
    <3>1. \A k \in Ids : log'[k] = log[k] \/ Untold(k)
      BY <2>2 DEF Untold
    <3> QED
      BY <1>2, <3>1, LoggedStays
  <2> QED
    BY <2>7, <2>8, <2>9 DEF CommentsInv
<1>3. ASSUME calls[s].at = "insert", log' = [log EXCEPT ![calls[s].id].st = "done"], End(s),
             comments' = [comments EXCEPT ![calls[s].id] = Words(calls[s].user)]
      PROVE  CommentsInv'
  <2> DEFINE i == calls[s].id
  <2>1. calls[s] \in Inserting
    BY <1>0, <1>3 DEF Gating, Adding, Changing
  <2>2. i \in Ids /\ calls[s].user \in Users /\ log[i].st = "open" /\ log[i].op = "comment"
    BY <1>3, <2>1 DEF Inserting, CommentsInv, TalkInv
  <2>3. log[i] \in Record
    BY <2>2 DEF CommentsInv, FeedTyped
  <2>4. log' = [log EXCEPT ![i].st = "done"]
    BY <1>3
  <2>5. comments' = [comments EXCEPT ![i] = Words(calls[s].user)]
    BY <1>3
  <2>6. calls'[s] = [at |-> "ended"] /\ \A t \in Slots : t # s => calls'[t] = calls[t]
    BY <1>3 DEF End, CommentsInv, FeedTyped
  <2>7. \A t \in Slots : t # s /\ calls[t].at = "insert" => calls[t].id # i
    BY <1>3, <2>1 DEF CommentsInv, TalkInv
  <2>8. \A t \in Slots : (calls[t].at = "insert" \/ calls[t] \in Changing) => calls[t].id \in Ids
    BY DEF CommentsInv, FeedTyped, Inserting, Changing, Gating, Adding
  <2>f. calls' \in [Slots -> Gating \cup Adding \cup Inserting \cup Changing \cup {[at |-> "idle"], [at |-> "ended"]}]
    BY <1>3 DEF End, CommentsInv, FeedTyped
  <2> HIDE DEF i
  <2>9. log'[i] = [st |-> "done", row |-> log[i].row, type |-> log[i].type, op |-> "comment"]
        /\ \A k \in Ids : k # i => log'[k] = log[k]
    BY <2>2, <2>3, <2>4 DEF CommentsInv, FeedTyped, Record
  <2>10. log' \in [Ids -> Record \cup {[st |-> "free"], [st |-> "void"]}]
    BY <2>2, <2>3, <2>4, <2>9 DEF CommentsInv, FeedTyped, Record
  <2>11. comments'[i] = Words(calls[s].user) /\ \A k \in Ids : k # i => comments'[k] = comments[k]
    BY <2>2, <2>5 DEF CommentsInv, FeedTyped
  <2>12. Words(calls[s].user) \in Comment /\ Words(calls[s].user) # NoComment /\ ~ Words(calls[s].user).gone
    BY <2>2 DEF Words, Comment, NoComment
  <2>13. FeedTyped'
    <3>1. comments' \in [Ids -> Comment]
      BY <2>2, <2>5, <2>12 DEF CommentsInv, FeedTyped
    <3>2. \A k \in Ids : log'[k].st = "open" => log'[k].op # "row"
      BY <2>9 DEF CommentsInv, FeedTyped
    <3> QED
      BY <1>1, <2>10, <2>f, <3>1, <3>2 DEF CommentsInv, FeedTyped
  <2>14. TalkInv'
    <3> SUFFICES ASSUME NEW t \in Slots, t # s
                 PROVE  /\ calls'[t].at = "insert" =>
                             /\ log'[calls'[t].id].st = "open" /\ log'[calls'[t].id].op = "comment"
                             /\ \A u \in Slots : calls'[u].at = "insert" /\ calls'[u].id = calls'[t].id => u = t
                        /\ calls'[t] \in Changing => log'[calls'[t].id].st = "done" /\ log'[calls'[t].id].op = "comment"
      BY <2>6 DEF TalkInv, Changing
    <3>1. calls[t] \in Changing => calls[t].id # i
      BY <2>2 DEF CommentsInv, TalkInv
    <3> QED
      BY <2>6, <2>7, <2>8, <2>9, <3>1 DEF CommentsInv, TalkInv
  <2>15. RemovedTextIsGone' /\ CommentsAreLogged'
    <3>1. RemovedTextIsGone'
      BY <2>11, <2>12 DEF CommentsInv, RemovedTextIsGone
    <3>2. CommentsAreLogged'
      <4> SUFFICES ASSUME NEW k \in Ids
                   PROVE  comments'[k] # NoComment <=> log'[k].st = "done" /\ log'[k].op = "comment"
        BY DEF CommentsAreLogged
      <4>1. comments[k] # NoComment <=> log[k].st = "done" /\ log[k].op = "comment"
        BY DEF CommentsInv, CommentsAreLogged
      <4>2. CASE k = i
        BY <2>9, <2>11, <2>12, <4>2
      <4>3. CASE k # i
        BY <2>9, <2>11, <4>1, <4>3
      <4> QED
        BY <4>2, <4>3
    <3> QED
      BY <3>1, <3>2
  <2> QED
    BY <2>13, <2>14, <2>15 DEF CommentsInv
<1> QED
  BY <1>2, <1>3 DEF Add

LEMMA CommentsStep ==
  ASSUME CommentsInv, Next
  PROVE  CommentsInv'
<1>1. ASSUME NEW r \in Rows, NEW op \in {"live", "deleted"}, Touch(r, op)
      PROVE  CommentsInv'
  <2>1. Draw(r, capture, op) /\ capture \in Entities /\ UNCHANGED <<capture, comments, calls>>
    BY <1>1 DEF Touch, CommentsInv, FeedTyped
  <2> DEFINE i == Min(Free)
  <2>2. /\ i \in Ids /\ log[i].st = "free"
        /\ log' \in [Ids -> Record \cup {[st |-> "free"], [st |-> "void"]}]
        /\ log'[i] = [st |-> "open", row |-> r, type |-> capture, op |-> op]
        /\ \A k \in Ids : k # i => log'[k] = log[k]
    BY <2>1, Drawn DEF CommentsInv
  <2> HIDE DEF i
  <2>3. \A s \in Slots : (calls[s].at = "insert" \/ calls[s] \in Changing) => calls[s].id \in Ids /\ calls[s].id # i
    BY <2>2 DEF CommentsInv, FeedTyped, TalkInv, Inserting, Changing, Gating, Adding
  <2>4. FeedTyped'
    BY <2>1, <2>2 DEF CommentsInv, FeedTyped
  <2>5. TalkInv'
    BY <2>1, <2>2, <2>3 DEF CommentsInv, TalkInv
  <2>6. RemovedTextIsGone' /\ CommentsAreLogged'
    <3>1. \A k \in Ids : log'[k] = log[k] \/ Untold(k)
      BY <2>1, <2>2 DEF Untold
    <3> QED
      BY <2>1, <3>1, LoggedStays
  <2> QED
    BY <2>4, <2>5, <2>6 DEF CommentsInv
<1>2. ASSUME NEW i \in Ids, Commit(i)
      PROVE  CommentsInv'
  <2>1. /\ log[i].st = "open" /\ log[i].op # "comment" /\ UNCHANGED <<capture, comments, calls>>
        /\ log' = [log EXCEPT ![i].st = "done", ![i].op = "row"]
    BY <1>2 DEF Commit
  <2>u. log[i].st = "open" /\ UNCHANGED <<capture, comments, calls>>
    BY <2>1
  <2>2. log[i] \in Record
    BY <2>1 DEF CommentsInv, FeedTyped
  <2>3. log'[i] = [st |-> "done", row |-> log[i].row, type |-> log[i].type, op |-> "row"]
    BY <2>1, <2>2, Committing DEF CommentsInv, FeedTyped
  <2>4. \A k \in Ids : k # i => log'[k] = log[k]
    BY <2>1 DEF CommentsInv, FeedTyped
  <2>5. log'[i] \in Record /\ log' \in [Ids -> Record \cup {[st |-> "free"], [st |-> "void"]}]
    BY <2>1, <2>2, <2>3, <2>4 DEF Record, CommentsInv, FeedTyped
  <2>6. \A s \in Slots : (calls[s].at = "insert" \/ calls[s] \in Changing) => calls[s].id \in Ids /\ calls[s].id # i
    BY <2>1 DEF CommentsInv, FeedTyped, TalkInv, Inserting, Changing, Gating, Adding
  <2>7. FeedTyped'
    BY <2>u, <2>3, <2>4, <2>5 DEF CommentsInv, FeedTyped
  <2>8. TalkInv'
    BY <2>u, <2>4, <2>6 DEF CommentsInv, TalkInv
  <2>9. RemovedTextIsGone' /\ CommentsAreLogged'
    <3>1. \A k \in Ids : log'[k] = log[k] \/ Untold(k)
      BY <2>u, <2>3, <2>4 DEF Untold
    <3> QED
      BY <2>u, <3>1, LoggedStays
  <2> QED
    BY <2>7, <2>8, <2>9 DEF CommentsInv
<1>3. ASSUME NEW i \in Ids, Abort(i)
      PROVE  CommentsInv'
  <2>1. /\ log[i].st = "open" /\ UNCHANGED <<capture, comments>>
        /\ log'[i] = [st |-> "void"] /\ \A k \in Ids : k # i => log'[k] = log[k]
        /\ log' \in [Ids -> Record \cup {[st |-> "free"], [st |-> "void"]}]
    BY <1>3 DEF Abort, CommentsInv, FeedTyped
  <2>2. \A s \in Slots : calls'[s] = IF calls[s].at = "insert" /\ calls[s].id = i THEN [at |-> "ended"] ELSE calls[s]
    BY <1>3 DEF Abort
  <2>3. FeedTyped'
    BY <1>3, <2>1, <2>2 DEF Abort, CommentsInv, FeedTyped
  <2>4. \A s \in Slots : calls[s] \in Changing => calls[s].id \in Ids /\ calls[s].id # i
    BY <2>1 DEF CommentsInv, TalkInv, Changing
  <2>5. \A s \in Slots : calls[s].at = "insert" => calls[s].id \in Ids
    BY DEF CommentsInv, FeedTyped, Inserting, Changing, Gating, Adding
  <2>6. TalkInv'
    <3> SUFFICES ASSUME NEW s \in Slots
                 PROVE  /\ calls'[s].at = "insert" =>
                             /\ log'[calls'[s].id].st = "open" /\ log'[calls'[s].id].op = "comment"
                             /\ \A t \in Slots : calls'[t].at = "insert" /\ calls'[t].id = calls'[s].id => t = s
                        /\ calls'[s] \in Changing => log'[calls'[s].id].st = "done" /\ log'[calls'[s].id].op = "comment"
      BY DEF TalkInv
    <3>1. CASE calls[s].at = "insert" /\ calls[s].id = i
      BY <2>2, <3>1 DEF Changing
    <3>2. CASE ~ (calls[s].at = "insert" /\ calls[s].id = i)
      <4>1. calls'[s] = calls[s]
        BY <2>2, <3>2
      <4>2. \A t \in Slots : calls'[t].at = "insert" => calls[t].at = "insert" /\ calls'[t] = calls[t]
        BY <2>2
      <4> QED
        BY <2>1, <2>4, <2>5, <3>2, <4>1, <4>2 DEF CommentsInv, TalkInv
    <3> QED
      BY <3>1, <3>2
  <2>7. RemovedTextIsGone' /\ CommentsAreLogged'
    <3>1. \A k \in Ids : log'[k] = log[k] \/ Untold(k)
      BY <2>1 DEF Untold
    <3> QED
      BY <2>1, <3>1, LoggedStays
  <2> QED
    BY <2>3, <2>6, <2>7 DEF CommentsInv
<1>4. ASSUME Change
      PROVE  CommentsInv'
  BY <1>4 DEF Change, CommentsInv, FeedTyped, TalkInv, RemovedTextIsGone, CommentsAreLogged
<1>5. ASSUME NEW s \in Slots, Ask(s)
      PROVE  CommentsInv'
  <2>1. UNCHANGED <<log, capture, comments>>
    BY <1>5 DEF Ask, Rest
  <2>2. ASSUME NEW u \in Users, NEW r \in Rows,
               calls' = [calls EXCEPT ![s] = [at |-> "gate", op |-> "add", user |-> u, row |-> r]]
        PROVE  CommentsInv'
    <3>1. [at |-> "gate", op |-> "add", user |-> u, row |-> r] \in Gating
      BY DEF Gating
    <3> QED
      BY <2>1, <2>2, <3>1, CallMoves DEF CommentsInv, FeedTyped, RemovedTextIsGone
  <2>3. ASSUME NEW u \in Users, NEW op \in {"edit", "remove"}, NEW i \in Done, log[i].op = "comment",
               calls' = [calls EXCEPT ![s] = [at |-> "gate", op |-> op, user |-> u, id |-> i,
                                              row |-> log[i].row, type |-> log[i].type]]
        PROVE  CommentsInv'
    <3> DEFINE c == [at |-> "gate", op |-> op, user |-> u, id |-> i, row |-> log[i].row, type |-> log[i].type]
    <3>1. log[i] \in Record /\ log[i].st = "done" /\ i \in Ids
      BY DEF CommentsInv, FeedTyped, Done
    <3>2. c \in Changing /\ c.id = i
      BY <3>1 DEF Changing, Record
    <3> HIDE DEF c
    <3>3. calls' = [calls EXCEPT ![s] = c]
      BY <2>3 DEF c
    <3> QED
      <4>1. log[c.id].st = "done" /\ log[c.id].op = "comment"
        BY <2>3, <3>1, <3>2
      <4>2. comments' \in [Ids -> Comment] /\ RemovedTextIsGone'
        BY <2>1 DEF CommentsInv, FeedTyped, RemovedTextIsGone
      <4> QED
        BY <2>1, <3>2, <3>3, <4>1, <4>2, CallMoves
  <2> QED
    BY <1>5, <2>2, <2>3 DEF Ask
<1>6. ASSUME NEW s \in Slots, Gated(s) \/ Moderator(s) \/ Decide(s)
      PROVE  CommentsInv'
  <2>1. UNCHANGED <<log, capture, comments>>
    BY <1>6 DEF Gated, Moderator, Decide, Rest
  <2>2. PICK c : /\ calls' = [calls EXCEPT ![s] = c]
                 /\ \/ c \in Adding \cup {[at |-> "ended"]}
                    \/ c \in Changing /\ calls[s] \in Changing /\ c.id = calls[s].id
    BY <1>6, Steps DEF Goes, CommentsInv
  <2>3. c \in Changing => log[c.id].st = "done" /\ log[c.id].op = "comment"
    BY <2>2 DEF CommentsInv, TalkInv, Changing, Adding
  <2> QED
    BY <2>1, <2>2, <2>3, CallMoves DEF CommentsInv, FeedTyped, RemovedTextIsGone
<1>7. ASSUME NEW s \in Slots, Add(s)
      PROVE  CommentsInv'
  BY <1>7, CommentAdded
<1>8. ASSUME NEW s \in Slots, Edit(s) \/ Remove(s)
      PROVE  CommentsInv'
  <2>1. UNCHANGED <<log, capture>> /\ calls' = [calls EXCEPT ![s] = [at |-> "ended"]]
    BY <1>8 DEF Edit, Remove, End, Rest
  <2>2. calls[s] \in Changing
    <3>1. calls[s].at = "wipe" \/ (calls[s].at = "write" /\ calls[s].op \in {"edit", "remove"})
      BY <1>8 DEF Edit, Remove
    <3>2. calls[s] \in Gating \cup Adding \cup Inserting \cup Changing \cup {[at |-> "idle"], [at |-> "ended"]}
      BY DEF CommentsInv, FeedTyped
    <3> QED
      BY <3>1, <3>2 DEF Gating, Adding, Inserting
  <2> DEFINE i == calls[s].id
  <2>3. i \in Ids /\ comments[i] # NoComment
    BY <2>2 DEF CommentsInv, TalkInv, CommentsAreLogged, Changing
  <2> HIDE DEF i
  <2>4. CASE UNCHANGED comments
    BY <2>1, <2>4, CallMoves DEF CommentsInv, FeedTyped, RemovedTextIsGone
  <2>5. CASE comments' = [comments EXCEPT ![i].text = "new words"] /\ ~ comments[i].gone
    <3>1. /\ comments'[i].text = "new words" /\ ~ comments'[i].gone
          /\ \A k \in Ids : k # i => comments'[k] = comments[k]
          /\ comments' \in [Ids -> Comment]
      BY <2>3, <2>5 DEF CommentsInv, FeedTyped, Comment
    <3>2. RemovedTextIsGone' /\ \A k \in Ids : comments'[k] # NoComment <=> comments[k] # NoComment
      <4>0. comments'[i].text = "new words" /\ \A k \in Ids : k # i => comments'[k] = comments[k]
        BY <3>1
      <4>g. ~ comments'[i].gone
        BY <3>1
      <4>1. comments'[i] # NoComment
        <5>1. NoComment.text = "" /\ ~ NoComment.gone
          BY DEF NoComment
        <5> QED
          BY <4>0, <4>g, <5>1
      <4>2. \A k \in Ids : comments'[k] # NoComment <=> comments[k] # NoComment
        BY <2>3, <3>1, <4>1
      <4>3. RemovedTextIsGone'
        BY <4>0, <4>g DEF CommentsInv, RemovedTextIsGone
      <4> QED
        BY <4>2, <4>3
    <3> QED
      BY <2>1, <3>1, <3>2, CallMoves
  <2>6. CASE comments' = [comments EXCEPT ![i] = [author |-> @.author, text |-> "", gone |-> TRUE]]
    <3>1. /\ comments'[i].text = "" /\ comments'[i].gone
          /\ \A k \in Ids : k # i => comments'[k] = comments[k]
      BY <2>3, <2>6 DEF CommentsInv, FeedTyped
    <3>2. comments' \in [Ids -> Comment]
      BY <2>3, <2>6 DEF CommentsInv, FeedTyped, Comment
    <3>3. RemovedTextIsGone' /\ \A k \in Ids : comments'[k] # NoComment <=> comments[k] # NoComment
      <4>0. comments'[i].text = "" /\ \A k \in Ids : k # i => comments'[k] = comments[k]
        BY <3>1
      <4>g. comments'[i].gone
        BY <3>1
      <4>1. comments'[i] # NoComment
        <5>1. NoComment.text = "" /\ ~ NoComment.gone
          BY DEF NoComment
        <5> QED
          BY <4>0, <4>g, <5>1
      <4>2. \A k \in Ids : comments'[k] # NoComment <=> comments[k] # NoComment
        BY <2>3, <3>1, <4>1
      <4>3. RemovedTextIsGone'
        BY <4>0, <4>g DEF CommentsInv, RemovedTextIsGone
      <4> QED
        BY <4>2, <4>3
    <3> QED
      BY <2>1, <3>2, <3>3, CallMoves
  <2> QED
    BY <1>8, <2>4, <2>5, <2>6 DEF Edit, Remove, Pinned, i
<1>9. CASE UNCHANGED <<capture, log, comments, calls>>
  BY <1>9 DEF CommentsInv, FeedTyped, TalkInv, RemovedTextIsGone, CommentsAreLogged
<1>10. ASSUME NEW i \in Ids, Judge(i)
       PROVE  CommentsInv'
  BY <1>9, <1>10 DEF Judge
<1>11. ASSUME NEW t \in Rows \cup {"all"}, Start(t)
       PROVE  CommentsInv'
  BY <1>9, <1>11 DEF Start
<1>12. ASSUME Scan \/ Answer
       PROVE  CommentsInv'
  BY <1>9, <1>12 DEF Scan, Answer
<1> QED
  BY <1>1, <1>2, <1>3, <1>4, <1>5, <1>6, <1>7, <1>8, <1>10, <1>11, <1>12 DEF Next

(* A committed record stays what it is.                                    *)
LEMMA RecordsStay ==
  ASSUME CommentsInv, Next
  PROVE  \A i \in Done : i \in Done' /\ log'[i].row = log[i].row /\ log'[i].type = log[i].type
<1> SUFFICES ASSUME NEW i \in Done
             PROVE  log'[i] = log[i]
  BY DEF Done
<1>0. i \in Ids /\ log[i].st = "done"
  BY DEF Done
<1>1. ASSUME NEW r \in Rows, NEW type \in Entities, NEW op \in {"live", "deleted", "comment"}, Draw(r, type, op)
      PROVE  log'[i] = log[i]
  <2>1. log[Min(Free)].st = "free" /\ \A k \in Ids : k # Min(Free) => log'[k] = log[k]
    BY <1>1, Drawn DEF CommentsInv
  <2> QED
    BY <1>0, <2>1
<1>2. ASSUME NEW r \in Rows, NEW op \in {"live", "deleted"}, Touch(r, op)
      PROVE  log'[i] = log[i]
  <2>1. Draw(r, capture, op) /\ capture \in Entities
    BY <1>2 DEF Touch, CommentsInv, FeedTyped
  <2> QED
    BY <1>1, <2>1
<1>3. ASSUME NEW k \in Ids, Commit(k) \/ Abort(k)
      PROVE  log'[i] = log[i]
  <2>1. k # i
    BY <1>0, <1>3 DEF Commit, Abort
  <2> QED
    BY <1>0, <1>3, <2>1 DEF Commit, Abort, CommentsInv, FeedTyped
<1>4. ASSUME NEW s \in Slots, Add(s)
      PROVE  log'[i] = log[i]
  <2>0. calls[s] \in Gating \cup Adding \cup Inserting \cup Changing \cup {[at |-> "idle"], [at |-> "ended"]}
    BY DEF CommentsInv, FeedTyped
  <2>1. CASE calls[s].at = "write" /\ calls[s].op = "add" /\ Draw(calls[s].row, calls[s].type, "comment")
    <3>1. calls[s].row \in Rows /\ calls[s].type \in Entities
      BY <2>0, <2>1 DEF Gating, Adding, Inserting, Changing
    <3> QED
      BY <1>1, <2>1, <3>1
  <2>2. CASE calls[s].at = "insert" /\ log' = [log EXCEPT ![calls[s].id].st = "done"]
    <3>1. calls[s].id # i
      BY <1>0, <2>2 DEF CommentsInv, TalkInv
    <3> QED
      BY <1>0, <2>2, <3>1 DEF CommentsInv, FeedTyped
  <2> QED
    BY <1>4, <2>1, <2>2 DEF Add
<1>5. CASE UNCHANGED log
  BY <1>5
<1>6. ASSUME NEW s \in Slots, Ask(s) \/ Gated(s) \/ Moderator(s) \/ Decide(s) \/ Edit(s) \/ Remove(s)
      PROVE  log'[i] = log[i]
  BY <1>6 DEF Ask, Gated, Moderator, Decide, Edit, Remove
<1>7. ASSUME NEW k \in Ids, Judge(k)
      PROVE  log'[i] = log[i]
  BY <1>7 DEF Judge
<1>8. ASSUME NEW t \in Rows \cup {"all"}, Start(t)
      PROVE  log'[i] = log[i]
  BY <1>8 DEF Start
<1>9. CASE Change \/ Scan \/ Answer
  BY <1>9 DEF Change, Scan, Answer
<1> QED
  BY <1>2, <1>3, <1>4, <1>6, <1>7, <1>8, <1>9 DEF Next

(* What does not fit on a page of Limit lies below all of it.              *)
LEMMA PageFills ==
  ASSUME NEW F \in SUBSET Ids, NEW i \in F,
         ~ (Cardinality({j \in F : j > i}) < Limit)
  PROVE  LET P == {p \in F : Cardinality({j \in F : j > p}) < Limit}
         IN  P # {} /\ \A p \in P : i < p
<1> DEFINE Above(p) == {j \in F : j > p}
           P == {p \in F : Cardinality(Above(p)) < Limit}
<1>0. Limit \in Nat /\ Limit > 0 /\ MaxIds \in Nat /\ Ids = 1..MaxIds /\ F \subseteq Nat
  BY FeedAssumption DEF Ids
<1>1. \A p \in F : IsFiniteSet(Above(p)) /\ Cardinality(Above(p)) \in Nat
  <2> TAKE p \in F
  <2>1. IsFiniteSet(1..MaxIds)
    BY <1>0, FS_Interval
  <2>2. Above(p) \subseteq F /\ F \subseteq 1..MaxIds
    BY <1>0
  <2>3. IsFiniteSet(F)
    BY <2>1, <2>2, FS_Subset
  <2>4. IsFiniteSet(Above(p))
    BY <2>2, <2>3, FS_Subset
  <2> QED
    BY <2>4, FS_CardinalityType
<1>2. ASSUME NEW p \in P PROVE i < p
  <2>1. p \in F /\ Cardinality(Above(p)) < Limit
    OBVIOUS
  <2>2. ~ (p <= i)
    <3> SUFFICES ASSUME p <= i PROVE FALSE
      OBVIOUS
    <3>1. Above(i) \subseteq Above(p)
      <4>1. i \in Nat /\ p \in Nat
        BY <1>0, <2>1
      <4>2. ASSUME NEW j \in F, j > i PROVE j > p
        <5>1. j \in Nat
          BY <1>0
        <5> QED
          BY <4>1, <4>2, <5>1
      <4> QED
        BY <4>2
    <3>2. Cardinality(Above(i)) <= Cardinality(Above(p))
      BY <1>1, <2>1, <3>1, FS_Subset
    <3>3. Cardinality(Above(i)) \in Nat /\ Cardinality(Above(p)) \in Nat /\ ~ (Cardinality(Above(i)) < Limit)
      BY <1>1, <2>1
    <3> HIDE DEF Above
    <3> QED
      BY <1>0, <2>1, <3>2, <3>3
  <2> QED
    BY <1>0, <2>1, <2>2
<1>3. PICK m \in F : \A j \in F : j <= m
  <2> DEFINE T == {MaxIds - j : j \in F}
  <2>1. T \in SUBSET Nat /\ T # {}
    BY <1>0
  <2>2. PICK x \in T : \A y \in T : x <= y
    BY <2>1, Least
  <2>3. PICK m \in F : x = MaxIds - m
    BY <2>2
  <2>4. \A j \in F : MaxIds - m <= MaxIds - j
    BY <2>2, <2>3
  <2>5. \A j \in F : j <= m
    BY <1>0, <2>4
  <2> QED
    BY <2>5
<1>4. Above(m) = {}
  <2> SUFFICES ASSUME NEW j \in F, j > m PROVE FALSE
    OBVIOUS
  <2>1. j \in Nat /\ m \in Nat /\ j <= m
    BY <1>0, <1>3
  <2> QED
    BY <2>1
<1>5. Cardinality(Above(m)) = 0
  BY <1>4, FS_EmptySet
<1>6. m \in P
  BY <1>0, <1>5
<1> QED
  BY <1>2, <1>6

(* What a walker may be told now is among the facts of now.                *)
LEMMA ToldIsFact ==
  ASSUME NEW r \in Rows, Target(Walker, r)
  PROVE  \/ <<"live", r>> \in Facts /\ \E k \in {"read", "edit", "moderate"} : <<k, r>> \in Facts
         \/ <<"deleted", r>> \in Facts /\ <<"moderate", r>> \in Facts
<1>1. <<rows[r], r>> \in Facts /\ <<rights[Walker][r], r>> \in Facts
  BY DEF Facts
<1>2. CASE rows[r] = "live" /\ Allows(Walker, r, "read")
  BY <1>1, <1>2 DEF Allows
<1>3. CASE rows[r] = "deleted" /\ Moderates(Walker, r)
  BY <1>1, <1>3 DEF Moderates
<1> QED
  BY <1>2, <1>3 DEF Target

LEMMA FeedInit == Init => FeedInv
<1> SUFFICES ASSUME Init PROVE FeedInv
  OBVIOUS
<1>1. walk = [at |-> "idle"] /\ lasting = {}
  BY DEF Init
<1>2. walk.at = "idle"
  BY <1>1
<1>3. WalkTyped /\ CursorInv /\ LastingInv /\ VerdictsInv
  BY <1>1, <1>2 DEF WalkTyped, CursorInv, LastingInv, VerdictsInv
<1> QED
  BY <1>3, CommentsInit DEF FeedInv

WalkInv == WalkTyped /\ CursorInv /\ LastingInv /\ VerdictsInv

(* Others write, and rights change.                                        *)
LEMMA WalkStays ==
  ASSUME FeedInv, Next, walk' = walk
  PROVE  WalkInv'
<1>1. \A i \in Done : i \in Done' /\ log'[i].row = log[i].row /\ log'[i].type = log[i].type
  BY RecordsStay DEF FeedInv
<1>2. Track
  BY DEF Next
<1>3. lasting' \subseteq Visible'
  BY <1>2 DEF Track
<1>4. walk.at # "idle" => lasting' \subseteq lasting
  BY <1>2 DEF Track
<1>5. lasting \subseteq Done
  BY DEF FeedInv, LastingInv, Visible
<1>6. WalkTyped' /\ CursorInv'
  BY DEF FeedInv, WalkTyped, CursorInv
<1>7. LastingInv'
  <2>1. \A i \in lasting : Matches(i)' <=> Matches(i)
    BY <1>1, <1>5 DEF Matches
  <2>2. CASE walk.at = "judge"
    BY <1>1, <1>3, <1>4, <1>5, <2>1, <2>2 DEF FeedInv, LastingInv
  <2>3. CASE walk.at # "judge"
    BY <1>3, <1>4, <2>1, <2>3 DEF FeedInv, LastingInv
  <2> QED
    BY <2>2, <2>3
<1>8. VerdictsInv'
  <2>1. walk.at = "judge" => met \subseteq met'
    BY <1>2 DEF Track
  <2> QED
    BY <2>1 DEF FeedInv, VerdictsInv, Backed
<1> QED
  BY <1>6, <1>7, <1>8 DEF WalkInv

(* The walk's own steps: nothing else moves.                               *)
LEMMA OthersRest ==
  ASSUME Next, UNCHANGED <<rows, capture, rights, capped, log>>
  PROVE  /\ Done' = Done /\ Visible' = Visible
         /\ walk'.at # "idle" /\ walk.at = "idle" => lasting' = Visible
         /\ walk'.at # "idle" /\ walk.at # "idle" => lasting' = lasting \cap Visible
         /\ walk'.at \notin {"idle", "ask"} => met' = met \cup Facts
<1>1. Done' = Done /\ Visible' = Visible /\ Facts' = Facts
  BY DEF Done, Visible, Target, Allows, Moderates, Facts
<1>2. Track
  BY DEF Next
<1> QED
  BY <1>1, <1>2 DEF Track

LEMMA WalkStarts ==
  ASSUME FeedInv, Next, NEW t \in Rows \cup {"all"}, Start(t)
  PROVE  WalkInv'
<1> DEFINE w == [at |-> "ask", target |-> t, before |-> MaxIds + 1, seen |-> {}, repeats |-> FALSE, verdicts |-> <<>>]
<1>1. walk' = w /\ walk.at = "idle" /\ UNCHANGED <<rows, capture, rights, capped, log>>
  BY DEF Start
<1>2. <<>> \in Verdicts
  BY DEF Verdicts
<1>3. w \in Asking
  BY <1>2, FeedAssumption DEF Asking
<1>4. w.at = "ask" /\ w.before = MaxIds + 1 /\ w.seen = {} /\ ~ w.repeats
  OBVIOUS
<1> HIDE DEF w
<1>5. lasting' = Visible /\ Visible' = Visible
  BY <1>1, <1>4, OthersRest
<1>6. WalkTyped'
  BY <1>1, <1>3, <1>4 DEF WalkTyped
<1>7. CursorInv'
  BY <1>1, <1>4 DEF CursorInv
<1>8. LastingInv'
  <2>1. \A i \in Visible : i < MaxIds + 1
    BY FeedAssumption DEF Visible, Done, Ids
  <2> QED
    BY <1>1, <1>4, <1>5, <2>1 DEF LastingInv
<1>9. VerdictsInv'
  BY <1>1, <1>4 DEF VerdictsInv
<1> QED
  BY <1>6, <1>7, <1>8, <1>9 DEF WalkInv

LEMMA Refused ==
  ASSUME NEW w \in Asking \cup Judging
  PROVE  LET v == [w EXCEPT !.at = "refused"]
         IN  /\ v \in Asking \cup Judging /\ v.at = "refused"
             /\ v.repeats = w.repeats /\ v.seen = w.seen /\ v.before = w.before
BY DEF Asking, Judging

LEMMA WalkScans ==
  ASSUME FeedInv, Next, Scan
  PROVE  WalkInv'
<1>1. walk.at = "ask" /\ UNCHANGED <<rows, capture, rights, capped, log>> /\ walk \in Asking \cup Judging
  BY DEF Scan, FeedInv, WalkTyped
<1> DEFINE t == walk.target
           page0 == Page(t, capture, walk.before)
           told == IF t = "all" THEN NoVerdicts ELSE [r \in {t} |-> TRUE]
           w == [at |-> "judge", target |-> t, before |-> walk.before, seen |-> walk.seen,
                 repeats |-> walk.repeats, scanned |-> page0, type |-> capture,
                 cap |-> Walker \in capped, verdicts |-> told]
<1>2. /\ t \in Rows \cup {"all"} /\ walk.before \in Nat /\ walk.seen \in SUBSET Ids /\ walk.repeats \in BOOLEAN
      /\ capture \in Entities \cup {"off"} /\ page0 \in SUBSET Ids
  BY <1>1 DEF Asking, Judging, FeedInv, CommentsInv, FeedTyped, Page, Done
<1>3. CASE walk' = [walk EXCEPT !.at = "refused"]
  <2> DEFINE v == [walk EXCEPT !.at = "refused"]
  <2>1. /\ v \in Asking \cup Judging /\ v.at = "refused"
        /\ v.repeats = walk.repeats /\ v.seen = walk.seen /\ v.before = walk.before
    BY <1>1, Refused
  <2>2. walk' = v
    BY <1>3
  <2> HIDE DEF v
  <2>3. lasting' \subseteq Visible'
    BY <1>1, <2>1, <2>2, OthersRest
  <2> QED
    BY <1>1, <2>1, <2>2, <2>3 DEF WalkInv, WalkTyped, CursorInv, LastingInv, VerdictsInv, FeedInv
<1>4. CASE walk' = w /\ ~ (t # "all" /\ ~ (capture # "off" /\ Walker \in capped /\ Target(Walker, t)))
  <2>1. told \in Verdicts /\ \A r \in DOMAIN told : r \in Rows /\ r = t /\ told[r] = TRUE /\ Target(Walker, r)
    <3>1. CASE t = "all"
      <4>1. told = <<>>
        BY <3>1 DEF NoVerdicts
      <4>2. <<>> \in [{} -> BOOLEAN] /\ DOMAIN <<>> = {}
        OBVIOUS
      <4> HIDE DEF told
      <4> QED
        BY <4>1, <4>2 DEF Verdicts
    <3>2. CASE t # "all"
      <4>1. told = [r \in {t} |-> TRUE] /\ t \in Rows /\ Target(Walker, t)
        BY <1>2, <1>4, <3>2
      <4> HIDE DEF told, t
      <4> QED
        BY <4>1 DEF Verdicts
    <3> QED
      BY <3>1, <3>2
  <2> HIDE DEF told
  <2>2. w \in Judging
    BY <1>2, <2>1 DEF Judging
  <2>3. /\ w.at = "judge" /\ w.target = t /\ w.before = walk.before /\ w.seen = walk.seen /\ w.scanned = page0
        /\ w.type = capture /\ w.verdicts = told
    OBVIOUS
  <2>4. w.repeats = walk.repeats /\ (w.cap <=> Walker \in capped)
    BY <1>2
  <2>5. walk' = w
    BY <1>4
  <2> HIDE DEF w
  <2>6. lasting' = lasting \cap Visible /\ Visible' = Visible /\ Done' = Done /\ met' = met \cup Facts
    BY <1>1, <2>3, <2>5, OthersRest
  <2>7. WalkTyped'
    BY <2>2, <2>5 DEF WalkTyped
  <2>8. CursorInv'
    BY <1>1, <2>3, <2>4, <2>5 DEF CursorInv, FeedInv
  <2>9. VerdictsInv'
    <3> SUFFICES ASSUME NEW r \in DOMAIN told
                 PROVE  Backed(r)'
      BY <2>3, <2>5 DEF VerdictsInv
    <3>1. r \in Rows /\ Target(Walker, r)
      BY <2>1
    <3>2. \/ <<"live", r>> \in Facts /\ \E k \in {"read", "edit", "moderate"} : <<k, r>> \in Facts
          \/ <<"deleted", r>> \in Facts /\ <<"moderate", r>> \in Facts
      BY <3>1, ToldIsFact
    <3> QED
      BY <2>6, <3>2 DEF Backed
  <2>10. LastingInv'
    <3> DEFINE F == {i \in Done : i < walk.before /\ (t = "all" \/ (log[i].row = t /\ log[i].type = capture))}
    <3>1. page0 = {i \in F : Cardinality({j \in F : j > i}) < Limit} /\ F \in SUBSET Ids
      BY DEF Page, Done
    <3>2. \A i \in page0 : i \in Done /\ i < walk.before
      BY <3>1
    <3>3. ASSUME NEW i \in lasting, Matches(i), i \notin walk.seen
          PROVE  i \in page0 \/ (page0 # {} /\ \A p \in page0 : i < p)
      <4>1. i < walk.before /\ i \in Done /\ log[i].type = capture
        BY <1>1, <3>3 DEF FeedInv, LastingInv, Visible
      <4>2. i \in F
        BY <3>3, <4>1 DEF Matches
      <4> HIDE DEF F, page0
      <4> QED
        BY <3>1, <4>2, PageFills
    <3>4. \A i \in lasting : Walker \in capped /\ log[i].type = capture
      BY DEF FeedInv, LastingInv, Visible
    <3> HIDE DEF F, page0, t
    <3>5. \A i \in lasting : Matches(i)' <=> Matches(i)
      BY <1>1, <2>3, <2>5 DEF Matches, t
    <3>6. \A r \in DOMAIN told : told[r] = TRUE
      BY <2>1
    <3> QED
      BY <1>1, <2>3, <2>4, <2>5, <2>6, <3>2, <3>3, <3>4, <3>5, <3>6 DEF LastingInv
  <2> QED
    BY <2>7, <2>8, <2>9, <2>10 DEF WalkInv
<1> QED
  BY <1>3, <1>4 DEF Scan

LEMMA VerdictsMore ==
  ASSUME NEW w \in Judging, NEW v \in Verdicts
  PROVE  LET x == [w EXCEPT !.verdicts = v]
         IN  /\ x \in Judging /\ x.verdicts = v /\ x.at = w.at /\ x.before = w.before /\ x.seen = w.seen
             /\ x.target = w.target /\ x.scanned = w.scanned /\ x.type = w.type
             /\ x.repeats = w.repeats /\ x.cap = w.cap
BY DEF Judging

LEMMA WalkJudges ==
  ASSUME FeedInv, Next, NEW k \in Ids, Judge(k)
  PROVE  WalkInv'
<1> DEFINE q == log[k].row
           v == Told(q)
           w == [walk EXCEPT !.verdicts = v]
<1>1. /\ walk.at = "judge" /\ k \in walk.scanned /\ q \notin DOMAIN walk.verdicts
      /\ UNCHANGED <<rows, capture, rights, capped, log>> /\ walk' = w
  BY DEF Judge
<1>2. walk \in Judging /\ walk.verdicts \in Verdicts
  BY <1>1 DEF FeedInv, WalkTyped, Judging
<1>3. k \in Done /\ q \in Rows
  <2>1. k \in Done
    BY <1>1 DEF FeedInv, LastingInv
  <2> QED
    BY <2>1 DEF Done, FeedInv, CommentsInv, FeedTyped, Record
<1>4. /\ v \in Verdicts /\ DOMAIN v = DOMAIN walk.verdicts \cup {q}
      /\ v[q] = Target(Walker, q) /\ \A r \in DOMAIN walk.verdicts : v[r] = walk.verdicts[r]
  <2>1. PICK D \in SUBSET Rows : walk.verdicts \in [D -> BOOLEAN]
    BY <1>2 DEF Verdicts
  <2>2. Target(Walker, q) \in BOOLEAN
    BY DEF Target
  <2>3. v = [r \in D \cup {q} |-> IF r = q THEN Target(Walker, r) ELSE walk.verdicts[r]] /\ DOMAIN walk.verdicts = D
    BY <2>1 DEF Told
  <2> HIDE DEF v, q
  <2>4. v \in [D \cup {q} -> BOOLEAN]
    BY <2>1, <2>2, <2>3
  <2>5. D \cup {q} \in SUBSET Rows
    BY <1>3
  <2>6. v \in Verdicts
    BY <2>4, <2>5 DEF Verdicts
  <2> QED
    BY <1>1, <2>3, <2>6
<1> HIDE DEF v, q
<1>5. /\ w \in Judging /\ w.verdicts = v /\ w.at = "judge" /\ w.before = walk.before /\ w.seen = walk.seen
      /\ w.target = walk.target /\ w.scanned = walk.scanned /\ w.type = walk.type
      /\ w.repeats = walk.repeats /\ w.cap = walk.cap
  BY <1>1, <1>2, <1>4, VerdictsMore
<1> HIDE DEF w
<1>6. lasting' = lasting \cap Visible /\ Visible' = Visible /\ Done' = Done /\ met' = met \cup Facts
  BY <1>1, <1>5, OthersRest
<1>7. WalkTyped'
  BY <1>1, <1>5 DEF WalkTyped
<1>8. CursorInv'
  BY <1>1, <1>5 DEF CursorInv, FeedInv
<1>9. VerdictsInv'
  <2> SUFFICES ASSUME NEW r \in DOMAIN v, v[r]
               PROVE  Backed(r)'
    BY <1>1, <1>5 DEF VerdictsInv
  <2>1. CASE r = q
    <3>1. r \in Rows /\ Target(Walker, r)
      BY <1>3, <1>4, <2>1
    <3>2. \/ <<"live", r>> \in Facts /\ \E kk \in {"read", "edit", "moderate"} : <<kk, r>> \in Facts
          \/ <<"deleted", r>> \in Facts /\ <<"moderate", r>> \in Facts
      BY <3>1, ToldIsFact
    <3> QED
      BY <1>6, <3>2 DEF Backed
  <2>2. CASE r # q
    <3>1. Backed(r)
      BY <1>1, <1>4, <2>2 DEF FeedInv, VerdictsInv
    <3> QED
      BY <1>6, <3>1 DEF Backed
  <2> QED
    BY <2>1, <2>2
<1>10. LastingInv'
  <2>1. \A i \in lasting : log[i].row = q => Target(Walker, q)
    BY DEF FeedInv, LastingInv, Visible
  <2>2. \A i \in lasting : Matches(i)' <=> Matches(i)
    BY <1>1, <1>5 DEF Matches
  <2>3. ASSUME NEW i \in lasting \cap walk.scanned, log[i].row \in DOMAIN v
        PROVE  v[log[i].row]
    <3>1. CASE log[i].row = q
      BY <1>4, <2>1, <3>1
    <3>2. CASE log[i].row # q
      BY <1>1, <1>4, <2>3, <3>2 DEF FeedInv, LastingInv
    <3> QED
      BY <3>1, <3>2
  <2>4. \A i \in lasting \cap walk.scanned : walk.cap /\ log[i].type = walk.type
    BY <1>1 DEF FeedInv, LastingInv
  <2>5. /\ \A i \in walk.scanned : i \in Done /\ i < walk.before
        /\ \A i \in lasting : Matches(i) =>
             \/ i \in walk.seen \cup walk.scanned
             \/ walk.scanned # {} /\ \A p \in walk.scanned : i < p
    BY <1>1 DEF FeedInv, LastingInv
  <2> QED
    BY <1>1, <1>5, <1>6, <2>2, <2>3, <2>4, <2>5 DEF LastingInv
<1> QED
  BY <1>7, <1>8, <1>9, <1>10 DEF WalkInv

LEMMA WalkAnswers ==
  ASSUME FeedInv, Next, Answer
  PROVE  WalkInv'
<1> DEFINE a == IF CursorOf = {} THEN "ended" ELSE "ask"
           b == IF CursorOf = {} THEN walk.before ELSE Min(CursorOf)
           s == walk.seen \cup Shown
           c == walk.repeats \/ Shown \cap walk.seen # {}
           w == [walk EXCEPT !.at = a, !.before = b, !.seen = s, !.repeats = c]
<1>1. /\ walk.at = "judge" /\ UNCHANGED <<rows, capture, rights, capped, log>> /\ walk' = w
      /\ \A i \in walk.scanned : Asked(i) => log[i].row \in DOMAIN walk.verdicts
  BY DEF Answer
<1>2. /\ walk \in Judging /\ walk.scanned \in SUBSET Ids /\ walk.seen \in SUBSET Ids /\ walk.before \in Nat
      /\ walk.repeats \in BOOLEAN
  BY <1>1 DEF FeedInv, WalkTyped, Judging
<1>3. Shown \subseteq walk.scanned /\ \A i \in walk.scanned : i < walk.before /\ i \in Nat
  BY <1>1, <1>2, FeedAssumption DEF Shown, FeedInv, LastingInv, Ids
<1>4. CursorOf = walk.scanned /\ (CursorOf # {} => b \in CursorOf /\ \A i \in CursorOf : b <= i)
  <2>1. CursorOf = walk.scanned
    BY DEF CursorOf
  <2>2. ASSUME CursorOf # {} PROVE Min(CursorOf) \in CursorOf /\ \A i \in CursorOf : Min(CursorOf) <= i
    BY <1>3, <2>1, <2>2, Least
  <2> QED
    BY <2>1, <2>2
<1>5. \A i \in walk.seen : walk.before <= i
  BY <1>1 DEF FeedInv, CursorInv
<1>6. ~ c
  <2>1. ~ walk.repeats
    BY <1>1 DEF FeedInv, CursorInv
  <2>2. Shown \cap walk.seen = {}
    <3> SUFFICES ASSUME NEW i \in Shown, i \in walk.seen PROVE FALSE
      OBVIOUS
    <3>1. i < walk.before /\ walk.before <= i /\ i \in Nat
      BY <1>3, <1>5
    <3> QED
      BY <1>2, <3>1
  <2> QED
    BY <2>1, <2>2
<1>7. a \in {"ask", "ended"} /\ b \in Nat /\ s \in SUBSET Ids /\ c \in BOOLEAN
      /\ (a = "ended" <=> walk.scanned = {})
  BY <1>2, <1>3, <1>4
<1>8. ASSUME NEW i \in s PROVE b <= i
  <2>1. CASE CursorOf = {}
    BY <1>3, <1>4, <1>5, <1>8, <2>1
  <2>2. CASE CursorOf # {}
    <3>1. b < walk.before /\ b \in Nat
      BY <1>3, <1>4, <2>2
    <3>2. CASE i \in Shown
      BY <1>3, <1>4, <2>2, <3>2
    <3>3. CASE i \in walk.seen
      <4>1. walk.before <= i /\ i \in Nat
        BY <1>2, <1>5, <3>3, FeedAssumption DEF Ids
      <4> QED
        BY <1>2, <3>1, <4>1
    <3> QED
      BY <1>8, <3>2, <3>3
  <2> QED
    BY <2>1, <2>2
<1>9. ASSUME NEW i \in lasting, Matches(i)
      PROVE  i \in s \/ (walk.scanned # {} /\ i < b)
  <2>1. CASE i \in walk.seen
    BY <2>1
  <2>2. CASE i \in walk.scanned
    <3>1. walk.cap /\ log[i].type = walk.type /\ (log[i].row \in DOMAIN walk.verdicts => walk.verdicts[log[i].row])
      BY <1>1, <2>2 DEF FeedInv, LastingInv
    <3>2. log[i].type \in Entities
      <4>1. i \in Ids /\ log[i].st = "done"
        BY DEF FeedInv, LastingInv, Visible, Done
      <4>2. log[i] \in Record
        BY <4>1 DEF FeedInv, CommentsInv, FeedTyped
      <4> QED
        BY <4>2 DEF Record
    <3>3. Asked(i)
      BY <3>1, <3>2, FeedAssumption DEF Asked
    <3>4. i \in Shown
      BY <1>1, <2>2, <3>1, <3>3 DEF Shown
    <3> QED
      BY <3>4
  <2>3. CASE walk.scanned # {} /\ \A p \in walk.scanned : i < p
    BY <1>4, <2>3
  <2> QED
    BY <1>1, <1>9, <2>1, <2>2, <2>3 DEF FeedInv, LastingInv
<1> HIDE DEF a, b, s, c
<1>10. /\ w \in Judging /\ w.at = a /\ w.before = b /\ w.seen = s /\ w.repeats = c /\ w.target = walk.target
  <2> DEFINE w1 == [walk EXCEPT !.at = a]
             w2 == [w1 EXCEPT !.before = b]
             w3 == [w2 EXCEPT !.seen = s]
             w4 == [w3 EXCEPT !.repeats = c]
  <2>0. w = w4
    OBVIOUS
  <2> HIDE DEF w
  <2>1. w1 \in Judging /\ w1.at = a /\ w1.target = walk.target
    BY <1>2, <1>7 DEF Judging
  <2> HIDE DEF w1
  <2>2. w2 \in Judging /\ w2.at = a /\ w2.before = b /\ w2.target = walk.target
    BY <1>7, <2>1 DEF Judging
  <2> HIDE DEF w2
  <2>3. w3 \in Judging /\ w3.at = a /\ w3.before = b /\ w3.seen = s /\ w3.target = walk.target
    BY <1>7, <2>2 DEF Judging
  <2> HIDE DEF w3
  <2>4. w4 \in Judging /\ w4.at = a /\ w4.before = b /\ w4.seen = s /\ w4.repeats = c /\ w4.target = walk.target
    BY <1>7, <2>3 DEF Judging
  <2> HIDE DEF w4
  <2> QED
    BY <2>0, <2>4
<1> HIDE DEF w
<1>11. lasting' = lasting \cap Visible /\ Visible' = Visible
  BY <1>1, <1>7, <1>10, OthersRest
<1>12. WalkTyped'
  BY <1>1, <1>10 DEF WalkTyped
<1>13. CursorInv'
  BY <1>1, <1>6, <1>8, <1>10 DEF CursorInv
<1>14. VerdictsInv'
  BY <1>1, <1>7, <1>10 DEF VerdictsInv
<1>15. LastingInv'
  <2>1. \A i \in lasting : Matches(i)' <=> Matches(i)
    BY <1>1, <1>10 DEF Matches
  <2> QED
    BY <1>1, <1>7, <1>9, <1>10, <1>11, <2>1 DEF LastingInv
<1> QED
  BY <1>12, <1>13, <1>14, <1>15 DEF WalkInv

LEMMA FeedStep ==
  ASSUME FeedInv, Next
  PROVE  FeedInv'
<1>1. CommentsInv'
  BY CommentsStep DEF FeedInv
<1>2. WalkInv'
  <2>1. CASE walk' = walk
    BY <2>1, WalkStays
  <2>2. ASSUME NEW i \in Ids, Judge(i)
        PROVE  WalkInv'
    BY <2>2, WalkJudges
  <2>3. ASSUME NEW t \in Rows \cup {"all"}, Start(t)
        PROVE  WalkInv'
    BY <2>3, WalkStarts
  <2>4. CASE Scan
    BY <2>4, WalkScans
  <2>5. CASE Answer
    BY <2>5, WalkAnswers
  <2>6. ASSUME NEW r \in Rows, NEW op \in {"live", "deleted"}, Touch(r, op)
        PROVE  WalkInv'
    BY <2>1, <2>6 DEF Touch
  <2>7. ASSUME NEW i \in Ids, Commit(i) \/ Abort(i)
        PROVE  WalkInv'
    BY <2>1, <2>7 DEF Commit, Abort
  <2>8. CASE Change
    BY <2>1, <2>8 DEF Change
  <2>9. ASSUME NEW s \in Slots, Ask(s) \/ Gated(s) \/ Moderator(s) \/ Decide(s) \/ Add(s) \/ Edit(s) \/ Remove(s)
        PROVE  WalkInv'
    BY <2>1, <2>9 DEF Ask, Gated, Moderator, Decide, Add, Edit, Remove, Rest
  <2> QED
    BY <2>2, <2>3, <2>4, <2>5, <2>6, <2>7, <2>8, <2>9 DEF Next
<1> QED
  BY <1>1, <1>2 DEF FeedInv, WalkInv

FeedPart == part = "feed" => FeedInv

LEMMA FeedPartHolds == SpecReading => []FeedPart
<1>1. InitReading => FeedPart
  BY FeedInit DEF InitReading, FeedPart
<1>2. FeedPart /\ [NextReading]_all => FeedPart'
  <2> SUFFICES ASSUME FeedPart, [NextReading]_all, part' = "feed" PROVE FeedInv'
    BY DEF FeedPart
  <2>1. CASE Next /\ part = "feed"
    BY <2>1, FeedStep DEF FeedPart
  <2>2. CASE UNCHANGED <<all>>
    <3>1. UNCHANGED <<rows, capture, rights, capped, log, comments, calls, walk, lasting, met>> /\ part = "feed"
      BY <2>2 DEF all, vars
    <3> QED
      BY <3>1 DEF FeedPart, FeedInv, CommentsInv, FeedTyped, TalkInv, RemovedTextIsGone, CommentsAreLogged,
                  WalkTyped, CursorInv, LastingInv, Visible, Done, Target, Allows, Moderates, Matches,
                  VerdictsInv, Backed
  <2> QED
    BY <2>1, <2>2 DEF NextReading
<1> QED
  BY <1>1, <1>2, PTL DEF SpecReading

(* However ids are drawn and committed while a walk goes down the feed: at *)
(* its end it has shown every record that was visible all along, nothing   *)
(* twice.                                                                  *)
THEOREM WalksAreComplete == SpecReading => []FeedIsComplete
<1>1. FeedPart => FeedIsComplete
  BY DEF FeedPart, FeedInv, FeedIsComplete, WalkSeesAll, LastingInv, CursorInv, Matches
<1> QED
  BY FeedPartHolds, <1>1, PTL

(* What a page of the feed shows, the walker could be told at some time of *)
(* its request, though rows and rights change between the gates.           *)
THEOREM PagesAreAllowed == SpecReading => FeedIsAllowed
<1>1. FeedPart /\ [NextReading]_all => [part = "feed" => ShownWasAllowed]_all
  <2> SUFFICES ASSUME FeedInv, Answer, NEW i \in Shown
               PROVE  Backed(log[i].row)
    BY DEF FeedPart, ShownWasAllowed, Backed
  <2>1. walk.at = "judge" /\ i \in walk.scanned /\ Asked(i) /\ walk.verdicts[log[i].row]
    BY DEF Answer, Shown
  <2>2. log[i].row \in DOMAIN walk.verdicts
    BY <2>1 DEF Answer
  <2> QED
    BY <2>1, <2>2 DEF FeedInv, VerdictsInv
<1> QED
  BY FeedPartHolds, <1>1, PTL DEF SpecReading, FeedIsAllowed

(* Whoever edits, moderates or fails beside it: the words of a removed     *)
(* comment are gone for good, and a comment is there exactly with its      *)
(* committed activity row.                                                 *)
THEOREM CommentsStayTold == SpecReading => []CommentsStand
<1>1. FeedPart => CommentsStand
  BY DEF FeedPart, FeedInv, CommentsInv, CommentsStand
<1> QED
  BY FeedPartHolds, <1>1, PTL

-----------------------------------------------------------------------------
(* InstallPage.                                                            *)

(* What a read got, and what an operation knew before it.                  *)
Catalogue == [mounted : SUBSET Packages, live : SUBSET Packages, gone : SUBSET Packages, at : Nat]
Snap == [live : SUBSET Packages, at : Nat \cup {-1}]

PageTyped ==
  /\ mounted \in SUBSET Packages /\ enabled \in SUBSET Packages /\ disk \in SUBSET Packages
  /\ epoch \in Nat /\ clicks \in Nat /\ up \in BOOLEAN
  /\ DOMAIN shelf = Packages /\ \A p \in disk : shelf[p] # "absent"
  /\ reading \subseteq I!Reads
  /\ cat \in [I!Reads -> {None} \cup Catalogue]
  /\ stock \in [I!Reads -> {None} \cup [installed : SUBSET Packages]]
  /\ snapshot \in {None} \cup Snap
  /\ busy \in {None} \cup I!Operation

(* The one operation under way; its read is the only one beside the page's *)
(* first.                                                                  *)
OneOperation ==
  /\ clicks = 0 => busy = None /\ ("opening" \in reading => seen = None)
  /\ busy # None => /\ busy.todo # {} => busy.op = "pick"
                    /\ busy.op # "restart" => busy.p \in Packages
                    /\ busy.moved => busy.op = "toggle" /\ busy.step = "read"
  /\ "operation" \in reading => busy # None /\ busy.step = "read"
  /\ \A r \in I!Reads : r \notin reading => cat[r] = None /\ stock[r] = None

(* While nothing happened since the last read began, what it has got, and  *)
(* then what the page shows, is how the server is.                         *)
SaysSo(r) ==
  /\ cat[r] # None => cat[r].mounted = mounted /\ cat[r].gone = mounted \ disk
  /\ stock[r] # None => stock[r].installed = disk
CalmPage ==
  ~ troubled =>
    /\ "operation" \in reading => SaysSo("operation")
    /\ "opening" \in reading /\ clicks = 0 => SaysSo("opening")
    /\ seen # None /\ "operation" \notin reading =>
         seen.mounted = mounted /\ seen.gone = mounted \ disk /\ seen.installed = disk

(* No epoch that was read is still to come.                                *)
EpochsPast ==
  /\ snapshot # None => snapshot.at <= epoch
  /\ busy # None /\ busy.before # None => busy.before.at <= epoch
  /\ \A r \in I!Reads : cat[r] # None => cat[r].at <= epoch

(* What an operation makes of what the page had read before it.            *)
Became(live) ==
  IF busy.moved THEN IF busy.on THEN live = busy.before.live \cup {busy.p} /\ busy.p \notin busy.before.live
                     ELSE live = busy.before.live \ {busy.p} /\ busy.p \in busy.before.live
  ELSE live = busy.before.live

(* In one epoch only the operations of the page change what is exposed.    *)
Epochs ==
  /\ snapshot # None /\ snapshot.at = epoch /\ ~ (busy # None /\ busy.moved) => snapshot.live = enabled
  /\ \A r \in I!Reads : (r = "operation" \/ clicks = 0) /\ cat[r] # None /\ cat[r].at = epoch =>
                          cat[r].live = enabled
  /\ busy # None /\ busy.before # None /\ busy.before.at = epoch => Became(enabled)
  /\ "operation" \in reading /\ cat["operation"] # None /\ busy.before # None =>
       (cat["operation"].at = busy.before.at => Became(cat["operation"].live))

PageInv == PageTyped /\ OneOperation /\ CalmPage /\ EpochsPast /\ Epochs /\ I!EffectIsOwn

LEMMA PageInit ==
  ASSUME I!Init
  PROVE  PageInv
<1> USE DEF I!Init, I!NoRead, I!Reads
<1>1. cat = [r \in I!Reads |-> None] /\ stock = [r \in I!Reads |-> None] /\ busy = None /\ snapshot = None
      /\ seen = None /\ effect = None /\ epoch = 0 /\ clicks = 0 /\ reading = {"opening"}
  OBVIOUS
<1>2. PageTyped
  BY <1>1 DEF PageTyped
<1>3. OneOperation /\ CalmPage /\ EpochsPast /\ Epochs /\ I!EffectIsOwn
  BY <1>1 DEF OneOperation, CalmPage, SaysSo, EpochsPast, Epochs, I!EffectIsOwn
<1> QED
  BY <1>2, <1>3 DEF PageInv

(* What a call does to the server.                                         *)
LEMMA ServerDoes ==
  ASSUME PageTyped, NEW op, NEW p \in Packages, NEW o \in BOOLEAN, I!Do(op, p, o)
  PROVE  /\ mounted' = mounted /\ up' = up /\ enabled' \in SUBSET Packages /\ disk' \in SUBSET Packages
         /\ DOMAIN shelf' = Packages /\ (\A q \in disk' : shelf'[q] # "absent")
         /\ op # "toggle" => enabled' = enabled
         /\ op = "toggle" => enabled' = I!Switched(p, o)
<1>1. /\ mounted' = mounted /\ up' = up /\ I!Accepts(op, p)
      /\ enabled' = IF op = "toggle" THEN I!Switched(p, o) ELSE enabled
      /\ disk' = CASE op \in {"install", "from"} -> disk \cup {p}
                   [] op \in {"remove", "uninstall"} -> disk \ {p}
                   [] OTHER -> disk
      /\ shelf' = CASE op = "from" -> [shelf EXCEPT ![p] = "identical"]
                    [] op = "forget" -> [shelf EXCEPT ![p] = "absent"]
                    [] OTHER -> shelf
  BY DEF I!Do
<1>2. enabled' \in SUBSET Packages
  BY <1>1 DEF PageTyped, I!Switched
<1>3. CASE op = "from"
  <2>1. disk' = disk \cup {p} /\ shelf' = [shelf EXCEPT ![p] = "identical"]
    BY <1>1, <1>3
  <2> QED
    BY <1>1, <1>2, <1>3, <2>1 DEF PageTyped
<1>4. CASE op = "forget"
  <2>1. disk' = disk /\ shelf' = [shelf EXCEPT ![p] = "absent"] /\ p \notin disk
    BY <1>1, <1>4 DEF I!Accepts
  <2> QED
    BY <1>1, <1>2, <1>4, <2>1 DEF PageTyped
<1>5. CASE op = "install"
  <2>1. disk' = disk \cup {p} /\ shelf' = shelf /\ shelf[p] # "absent"
    BY <1>1, <1>5 DEF I!Accepts
  <2> QED
    BY <1>1, <1>2, <1>5, <2>1 DEF PageTyped
<1>6. CASE op \notin {"from", "forget", "install"}
  <2>1. disk' \subseteq disk /\ shelf' = shelf
    BY <1>1, <1>6
  <2> QED
    BY <1>1, <1>2, <2>1 DEF PageTyped
<1> QED
  BY <1>3, <1>4, <1>5, <1>6

(* Whoever else changed something: what was read is of an earlier epoch.   *)
LEMMA OthersAct ==
  ASSUME PageInv, troubled', epoch' \in Nat, epoch' >= epoch, epoch' = epoch => enabled' = enabled,
         mounted' \in SUBSET Packages, enabled' \in SUBSET Packages, disk' \in SUBSET Packages, up' \in BOOLEAN,
         DOMAIN shelf' = Packages, \A p \in disk' : shelf'[p] # "absent",
         UNCHANGED <<reading, cat, stock, seen, snapshot, busy, effect, clicks>>
  PROVE  PageInv'
<1>1. PageTyped'
  BY DEF PageInv, PageTyped
<1>2. OneOperation' /\ CalmPage'
  BY DEF PageInv, OneOperation, CalmPage
<1>3. EpochsPast'
  <2>1. /\ snapshot # None => snapshot.at \in Int
        /\ busy # None /\ busy.before # None => busy.before.at \in Int
        /\ \A r \in I!Reads : cat[r] # None => cat[r].at \in Int
    BY DEF PageInv, PageTyped, Snap, Catalogue, I!Operation
  <2> QED
    BY <2>1 DEF PageInv, PageTyped, EpochsPast
<1>4. CASE epoch' = epoch
  BY <1>1, <1>2, <1>3, <1>4 DEF PageInv, Epochs, Became, I!EffectIsOwn, I!Shown
<1>5. CASE epoch' # epoch
  <2>1. /\ snapshot # None => snapshot.at # epoch'
        /\ busy # None /\ busy.before # None => busy.before.at # epoch'
        /\ \A r \in I!Reads : cat[r] # None => cat[r].at # epoch'
    <3>1. /\ snapshot # None => snapshot.at \in Int
          /\ busy # None /\ busy.before # None => busy.before.at \in Int
          /\ \A r \in I!Reads : cat[r] # None => cat[r].at \in Int
      BY DEF PageInv, PageTyped, Snap, Catalogue, I!Operation
    <3> QED
      BY <1>5, <3>1 DEF PageInv, PageTyped, EpochsPast
  <2> QED
    BY <1>1, <1>2, <1>3, <2>1 DEF PageInv, Epochs, Became, I!EffectIsOwn, I!Shown
<1> QED
  BY <1>4, <1>5

(* Nothing of the server but `up` and `dying`.                             *)
LEMMA PageRests ==
  ASSUME PageInv, up' \in BOOLEAN,
         UNCHANGED <<mounted, enabled, disk, shelf, epoch, reading, cat, stock, seen, snapshot, busy, effect,
                     clicks, troubled>>
  PROVE  PageInv'
BY DEF PageInv, PageTyped, OneOperation, CalmPage, SaysSo, EpochsPast, Epochs, Became, I!EffectIsOwn, I!Shown

(* Once an operation is over, the next of those picked at once begins.     *)
LEMMA OverGives ==
  ASSUME PageInv, busy # None, I!Over
  PROVE  \/ busy' = None
         \/ /\ busy' \in I!Operation /\ busy' # None /\ busy'.op = "pick" /\ busy'.p \in Packages
            /\ ~ busy'.moved /\ busy'.before = busy.before /\ busy'.step \in {"uninstall", "call"}
            /\ ~ busy.moved
<1> SUFFICES ASSUME busy' # None
             PROVE  /\ busy' \in I!Operation /\ busy'.op = "pick" /\ busy'.p \in Packages
                    /\ ~ busy'.moved /\ busy'.before = busy.before /\ busy'.step \in {"uninstall", "call"}
                    /\ ~ busy.moved
  OBVIOUS
<1>1. PICK p \in busy.todo :
        busy' = [busy EXCEPT !.p = p, !.todo = @ \ {p}, !.moved = FALSE,
                             !.step = IF found[p].shelf = "different" THEN "uninstall" ELSE "call"]
  BY DEF I!Over
<1>2. busy \in I!Operation /\ busy.op = "pick" /\ p \in Packages
  BY <1>1 DEF PageInv, PageTyped, OneOperation, I!Operation
<1>3. PICK st \in {"uninstall", "call"} :
        busy' = [busy EXCEPT !.p = p, !.todo = @ \ {p}, !.moved = FALSE, !.step = st]
  BY <1>1
<1>4. busy' = [busy EXCEPT !.p = p, !.todo = busy.todo \ {p}, !.moved = FALSE, !.step = st]
  BY <1>2, <1>3 DEF I!Operation
<1>5. busy' \in I!Operation /\ busy'.op = "pick" /\ busy'.p = p /\ busy'.moved = FALSE
      /\ busy'.before = busy.before /\ busy'.step = st
  BY <1>2, <1>4 DEF I!Operation
<1>6. ~ busy.moved
  BY <1>2 DEF PageInv, OneOperation
<1> QED
  BY <1>2, <1>5, <1>6

(* What the epochs and the times of reads are.                             *)
LEMMA PageNumbers ==
  ASSUME PageInv
  PROVE  /\ epoch \in Nat /\ clicks \in Nat
         /\ snapshot # None => snapshot.at \in Int /\ snapshot.at <= epoch
         /\ busy # None /\ busy.before # None => busy.before.at \in Int /\ busy.before.at <= epoch
         /\ \A r \in I!Reads : cat[r] # None => cat[r].at \in Nat /\ cat[r].at <= epoch
BY DEF PageInv, PageTyped, Snap, Catalogue, I!Operation, EpochsPast

LEMMA PageReads ==
  ASSUME PageInv, NEW r \in reading, I!ReadCatalogue(r) \/ I!ReadStore(r)
  PROVE  PageInv'
<1> USE DEF I!server, I!view
<1>0. r \in I!Reads
  BY DEF PageInv, PageTyped
<1>1. CASE I!ReadCatalogue(r)
  <2> DEFINE got == [mounted |-> mounted, live |-> enabled, gone |-> mounted \ disk, at |-> epoch]
  <2>1. /\ cat[r] = None /\ cat' = [cat EXCEPT ![r] = got]
        /\ UNCHANGED <<up, mounted, enabled, disk, shelf, epoch, reading, stock, seen, snapshot, busy, effect,
                       clicks, troubled>>
    BY <1>1 DEF I!ReadCatalogue
  <2>2. /\ got \in Catalogue /\ got.mounted = mounted /\ got.live = enabled /\ got.gone = mounted \ disk
        /\ got.at = epoch
    BY DEF PageInv, PageTyped, Catalogue
  <2> HIDE DEF got
  <2>3. cat'[r] = got /\ \A q \in I!Reads : q # r => cat'[q] = cat[q]
    BY <1>0, <2>1 DEF PageInv, PageTyped
  <2>4. PageTyped'
    BY <2>1, <2>2 DEF PageInv, PageTyped
  <2>5. OneOperation'
    BY <2>1, <2>3 DEF PageInv, OneOperation
  <2>6. CalmPage'
    BY <2>1, <2>2, <2>3 DEF PageInv, CalmPage, SaysSo, I!Reads
  <2>7. EpochsPast'
    BY <2>1, <2>2, <2>3, PageNumbers DEF PageInv, EpochsPast
  <2>8. \A q \in I!Reads : (q = "operation" \/ clicks = 0) /\ cat'[q] # None /\ cat'[q].at = epoch =>
                             cat'[q].live = enabled
    BY <2>2, <2>3 DEF PageInv, Epochs
  <2>9. ASSUME "operation" \in reading, cat'["operation"] # None, busy.before # None,
               cat'["operation"].at = busy.before.at
        PROVE  Became(cat'["operation"].live)
    <3>1. CASE r = "operation"
      BY <2>2, <2>3, <2>9, <3>1 DEF PageInv, OneOperation, Epochs
    <3>2. CASE r # "operation"
      BY <2>3, <2>9, <3>2 DEF PageInv, Epochs, I!Reads
    <3> QED
      BY <3>1, <3>2
  <2>10. Epochs'
    BY <2>1, <2>8, <2>9 DEF PageInv, Epochs, Became
  <2> QED
    BY <2>1, <2>4, <2>5, <2>6, <2>7, <2>10 DEF PageInv, I!EffectIsOwn, I!Shown
<1>2. CASE I!ReadStore(r)
  <2> DEFINE got == [installed |-> {p \in disk : shelf[p] # "absent"}]
  <2>1. /\ stock[r] = None /\ stock' = [stock EXCEPT ![r] = got]
        /\ UNCHANGED <<up, mounted, enabled, disk, shelf, epoch, reading, cat, seen, snapshot, busy, effect,
                       clicks, troubled>>
    BY <1>2 DEF I!ReadStore
  <2>2. got \in [installed : SUBSET Packages] /\ got.installed = disk
    BY DEF PageInv, PageTyped
  <2> HIDE DEF got
  <2>3. stock'[r] = got /\ \A q \in I!Reads : q # r => stock'[q] = stock[q]
    BY <1>0, <2>1 DEF PageInv, PageTyped
  <2>4. PageTyped'
    BY <2>1, <2>2 DEF PageInv, PageTyped
  <2>5. OneOperation'
    BY <2>1, <2>3 DEF PageInv, OneOperation
  <2>6. CalmPage'
    BY <2>1, <2>2, <2>3 DEF PageInv, CalmPage, SaysSo, I!Reads
  <2> QED
    BY <2>1, <2>4, <2>5, <2>6 DEF PageInv, EpochsPast, Epochs, Became, I!EffectIsOwn, I!Shown
<1> QED
  BY <1>1, <1>2

LEMMA ReadEnds ==
  ASSUME PageTyped, NEW r \in I!Reads, I!EndRead(r)
  PROVE  /\ reading' = reading \ {r} /\ cat'[r] = None /\ stock'[r] = None
         /\ cat' \in [I!Reads -> {None} \cup Catalogue]
         /\ stock' \in [I!Reads -> {None} \cup [installed : SUBSET Packages]]
         /\ \A q \in I!Reads : q # r => cat'[q] = cat[q] /\ stock'[q] = stock[q]
BY DEF PageTyped, I!EndRead

LEMMA ReadFails ==
  ASSUME PageInv, NEW r \in reading, I!FailRead(r)
  PROVE  PageInv'
<1>1. r \in I!Reads /\ troubled'
      /\ UNCHANGED <<up, mounted, enabled, disk, shelf, seen, snapshot, effect, clicks>>
  BY DEF PageInv, PageTyped, I!FailRead, I!view
<1>2. /\ reading' = reading \ {r} /\ cat'[r] = None /\ stock'[r] = None
      /\ cat' \in [I!Reads -> {None} \cup Catalogue]
      /\ stock' \in [I!Reads -> {None} \cup [installed : SUBSET Packages]]
      /\ \A q \in I!Reads : q # r => cat'[q] = cat[q] /\ stock'[q] = stock[q]
  BY <1>1, ReadEnds DEF PageInv, I!FailRead
<1>3. /\ \A q \in I!Reads : cat'[q] # None => cat'[q] = cat[q]
      /\ "operation" \in reading' => r # "operation"
  BY <1>1, <1>2
<1>4. CASE r = "operation"
  <2>1. busy # None /\ busy.step = "read" /\ I!Over /\ clicks # 0
    BY <1>4 DEF PageInv, OneOperation, I!FailRead
  <2>2. \/ busy' = None
        \/ /\ busy' \in I!Operation /\ busy' # None /\ busy'.op = "pick" /\ busy'.p \in Packages
           /\ ~ busy'.moved /\ busy'.before = busy.before /\ busy'.step \in {"uninstall", "call"}
           /\ ~ busy.moved
    BY <2>1, OverGives
  <2>3. epoch' = IF busy.moved THEN epoch + 1 ELSE epoch
    BY <1>4 DEF I!FailRead
  <2>4. epoch' \in Nat /\ epoch' >= epoch /\ (busy.moved => epoch' > epoch)
    BY <2>3, PageNumbers
  <2>5. PageTyped'
    BY <1>1, <1>2, <2>2, <2>4 DEF PageInv, PageTyped
  <2>6. OneOperation'
    BY <1>1, <1>2, <1>4, <2>1, <2>2 DEF PageInv, OneOperation, I!Operation
  <2>7. CalmPage'
    BY <1>1 DEF CalmPage
  <2>8. EpochsPast'
    <3>1. snapshot' # None => snapshot'.at <= epoch'
      BY <1>1, <2>4, PageNumbers
    <3>2. busy' # None /\ busy'.before # None => busy'.before.at <= epoch'
      BY <2>1, <2>2, <2>4, PageNumbers
    <3>3. \A q \in I!Reads : cat'[q] # None => cat'[q].at <= epoch'
      BY <1>3, <2>4, PageNumbers
    <3> QED
      BY <3>1, <3>2, <3>3 DEF EpochsPast
  <2>9. Epochs'
    <3>1. snapshot # None /\ snapshot.at = epoch' => snapshot.live = enabled
      BY <2>3, <2>4, PageNumbers DEF PageInv, Epochs
    <3>2. "operation" \notin reading' /\ cat'["operation"] = None
      BY <1>2, <1>4
    <3>3. busy' # None /\ busy'.before # None /\ busy'.before.at = epoch' => Became(enabled)'
      <4> SUFFICES ASSUME busy' # None, busy'.before # None, busy'.before.at = epoch' PROVE Became(enabled)'
        OBVIOUS
      <4>1. ~ busy.moved /\ ~ busy'.moved /\ busy'.before = busy.before /\ epoch' = epoch
        BY <2>2, <2>3
      <4>2. enabled = busy.before.live
        BY <2>1, <4>1 DEF PageInv, Epochs, Became
      <4> QED
        BY <1>1, <4>1, <4>2 DEF Became
    <3> QED
      BY <1>1, <1>2, <1>4, <2>1, <3>1, <3>2, <3>3 DEF Epochs
  <2> QED
    BY <1>1, <2>5, <2>6, <2>7, <2>8, <2>9 DEF PageInv, I!EffectIsOwn, I!Shown
<1>5. CASE r # "operation"
  <2>1. busy' = busy /\ epoch' = epoch
    BY <1>5 DEF I!FailRead
  <2>2. PageTyped' /\ OneOperation' /\ CalmPage' /\ EpochsPast'
    BY <1>1, <1>2, <1>3, <2>1 DEF PageInv, PageTyped, OneOperation, CalmPage, EpochsPast
  <2>3. Epochs'
    BY <1>1, <1>2, <1>3, <1>5, <2>1 DEF PageInv, Epochs, Became, I!Reads
  <2> QED
    BY <1>1, <2>2, <2>3 DEF PageInv, I!EffectIsOwn, I!Shown
<1> QED
  BY <1>4, <1>5

LEMMA PageOpens ==
  ASSUME PageInv, I!Open
  PROVE  PageInv'
<1>1. /\ "opening" \in reading /\ cat["opening"] # None /\ stock["opening"] # None /\ I!EndRead("opening")
      /\ seen' = [mounted |-> cat["opening"].mounted, live |-> cat["opening"].live,
                  gone |-> cat["opening"].gone, installed |-> stock["opening"].installed]
      /\ snapshot' = I!Taken("opening")
      /\ troubled' = (troubled \/ I!Overtaken("opening"))
      /\ UNCHANGED <<up, mounted, enabled, disk, shelf, epoch, busy, effect, clicks>>
  BY DEF I!Open, I!Keep, I!server
<1>2. /\ reading' = reading \ {"opening"} /\ cat'["opening"] = None /\ stock'["opening"] = None
      /\ cat' \in [I!Reads -> {None} \cup Catalogue]
      /\ stock' \in [I!Reads -> {None} \cup [installed : SUBSET Packages]]
      /\ \A q \in I!Reads : q # "opening" => cat'[q] = cat[q] /\ stock'[q] = stock[q]
  BY <1>1, ReadEnds DEF PageInv, I!Reads
<1>3. cat["opening"] \in Catalogue
  BY <1>1 DEF PageInv, PageTyped, I!Reads
<1>4. /\ snapshot' \in Snap /\ snapshot'.live = cat["opening"].live
      /\ snapshot'.at = IF I!Overtaken("opening") THEN -1 ELSE cat["opening"].at
  BY <1>1, <1>3 DEF I!Taken, Snap, Catalogue
<1>5. ~ I!Overtaken("opening") <=> seen = None /\ clicks = 0
  BY PageNumbers DEF I!Overtaken
<1>6. PageTyped'
  BY <1>1, <1>2, <1>4 DEF PageInv, PageTyped
<1>7. OneOperation'
  BY <1>1, <1>2 DEF PageInv, OneOperation
<1>8. CalmPage'
  <2> SUFFICES ASSUME ~ troubled'
               PROVE  /\ "operation" \notin reading'
                      /\ "opening" \notin reading'
                      /\ seen'.mounted = mounted /\ seen'.gone = mounted \ disk /\ seen'.installed = disk
    BY <1>1 DEF CalmPage
  <2>1. ~ troubled /\ clicks = 0 /\ seen = None
    BY <1>1, <1>5
  <2>2. SaysSo("opening") /\ "operation" \notin reading
    BY <1>1, <2>1 DEF PageInv, CalmPage, OneOperation
  <2> QED
    BY <1>1, <1>2, <2>2 DEF SaysSo
<1>9. EpochsPast'
  <2>1. snapshot'.at <= epoch
    BY <1>1, <1>4, PageNumbers DEF I!Reads
  <2> QED
    BY <1>1, <1>2, <2>1 DEF PageInv, EpochsPast
<1>10. Epochs'
  <2>1. snapshot'.at = epoch => snapshot'.live = enabled
    <3> SUFFICES ASSUME snapshot'.at = epoch PROVE snapshot'.live = enabled
      OBVIOUS
    <3>1. ~ I!Overtaken("opening")
      BY <1>4, PageNumbers
    <3>2. cat["opening"].at = epoch /\ clicks = 0
      BY <1>4, <1>5, <3>1
    <3> QED
      BY <1>1, <1>4, <3>2 DEF PageInv, Epochs, I!Reads
  <2>2. cat'["operation"] = cat["operation"] /\ ("operation" \in reading' <=> "operation" \in reading)
    BY <1>2 DEF I!Reads
  <2> QED
    BY <1>1, <1>2, <2>1, <2>2 DEF PageInv, Epochs, Became, I!Reads
<1> QED
  BY <1>1, <1>6, <1>7, <1>8, <1>9, <1>10 DEF PageInv, I!EffectIsOwn, I!Shown

LEMMA PageMeasures ==
  ASSUME PageInv, I!Measure
  PROVE  PageInv'
<1>1. /\ "operation" \in reading /\ cat["operation"] # None /\ stock["operation"] # None /\ I!EndRead("operation")
      /\ seen' = [mounted |-> cat["operation"].mounted, live |-> cat["operation"].live,
                  gone |-> cat["operation"].gone, installed |-> stock["operation"].installed]
      /\ snapshot' = I!Taken("operation") /\ I!Over
      /\ effect' = IF busy.op = "restart" THEN effect
                   ELSE [op |-> busy.op, p |-> busy.p, on |-> busy.on, moved |-> busy.moved,
                         before |-> busy.before, after |-> I!Taken("operation")]
      /\ UNCHANGED <<up, mounted, enabled, disk, shelf, epoch, clicks, troubled>>
  BY DEF I!Measure, I!Keep, I!server
<1>2. /\ reading' = reading \ {"operation"} /\ cat'["operation"] = None /\ stock'["operation"] = None
      /\ cat' \in [I!Reads -> {None} \cup Catalogue]
      /\ stock' \in [I!Reads -> {None} \cup [installed : SUBSET Packages]]
      /\ \A q \in I!Reads : q # "operation" => cat'[q] = cat[q] /\ stock'[q] = stock[q]
  BY <1>1, ReadEnds DEF PageInv, I!Reads
<1>3. cat["operation"] \in Catalogue /\ busy # None /\ busy.step = "read" /\ clicks # 0
  BY <1>1 DEF PageInv, PageTyped, OneOperation, I!Reads
<1>4. /\ I!Taken("operation") = [live |-> cat["operation"].live, at |-> cat["operation"].at]
      /\ snapshot' \in Snap /\ snapshot'.live = cat["operation"].live /\ snapshot'.at = cat["operation"].at
  BY <1>1, <1>3 DEF I!Taken, I!Overtaken, Snap, Catalogue
<1>5. \/ busy' = None
      \/ /\ busy' \in I!Operation /\ busy' # None /\ busy'.op = "pick" /\ busy'.p \in Packages
         /\ ~ busy'.moved /\ busy'.before = busy.before /\ busy'.step \in {"uninstall", "call"}
         /\ ~ busy.moved
  BY <1>1, <1>3, OverGives
<1>6. PageTyped'
  BY <1>1, <1>2, <1>4, <1>5 DEF PageInv, PageTyped
<1>7. OneOperation'
  BY <1>1, <1>2, <1>3, <1>5 DEF PageInv, OneOperation
<1>8. CalmPage'
  <2> SUFFICES ASSUME ~ troubled'
               PROVE  seen'.mounted = mounted /\ seen'.gone = mounted \ disk /\ seen'.installed = disk
    BY <1>1, <1>2, <1>3 DEF CalmPage
  <2>1. SaysSo("operation")
    BY <1>1 DEF PageInv, CalmPage
  <2> QED
    BY <1>1, <2>1 DEF SaysSo
<1>9. EpochsPast'
  <2>1. snapshot'.at <= epoch
    BY <1>1, <1>4, PageNumbers DEF I!Reads
  <2>2. busy' # None /\ busy'.before # None => busy'.before.at <= epoch
    BY <1>3, <1>5, PageNumbers
  <2>3. \A q \in I!Reads : cat'[q] # None => cat'[q].at <= epoch
    BY <1>2, PageNumbers
  <2> QED
    BY <1>1, <2>1, <2>2, <2>3 DEF EpochsPast
<1>10. Epochs'
  <2>1. snapshot'.at = epoch => snapshot'.live = enabled
    BY <1>1, <1>4 DEF PageInv, Epochs, I!Reads
  <2>2. busy' # None /\ busy'.before # None /\ busy'.before.at = epoch => Became(enabled)'
    <3> SUFFICES ASSUME busy' # None, busy'.before # None, busy'.before.at = epoch PROVE Became(enabled)'
      OBVIOUS
    <3>1. ~ busy.moved /\ ~ busy'.moved /\ busy'.before = busy.before
      BY <1>5
    <3>2. enabled = busy.before.live
      BY <1>3, <3>1 DEF PageInv, Epochs, Became
    <3> QED
      BY <1>1, <3>1, <3>2 DEF Became
  <2> QED
    BY <1>1, <1>2, <1>3, <2>1, <2>2 DEF Epochs, I!Reads
<1>11. I!EffectIsOwn'
  <2>1. CASE busy.op = "restart"
    BY <1>1, <2>1 DEF PageInv, I!EffectIsOwn, I!Shown
  <2>2. CASE busy.op # "restart"
    <3>1. /\ effect'.p = busy.p /\ effect'.on = busy.on /\ effect'.moved = busy.moved
          /\ effect'.before = busy.before
          /\ effect'.after.live = cat["operation"].live /\ effect'.after.at = cat["operation"].at
      BY <1>1, <1>4, <2>2
    <3> HIDE DEF I!Taken
    <3> SUFFICES ASSUME busy.before # None, cat["operation"].at = busy.before.at
                 PROVE  /\ cat["operation"].live \ busy.before.live =
                             IF busy.moved /\ busy.on THEN {busy.p} ELSE {}
                        /\ busy.before.live \ cat["operation"].live =
                             IF busy.moved /\ ~ busy.on THEN {busy.p} ELSE {}
      BY <3>1 DEF I!EffectIsOwn, I!Shown
    <3>2. Became(cat["operation"].live)
      BY <1>1 DEF PageInv, Epochs
    <3>3. CASE ~ busy.moved
      BY <3>2, <3>3 DEF Became
    <3>4. CASE busy.moved /\ busy.on
      BY <3>2, <3>4 DEF Became
    <3>5. CASE busy.moved /\ ~ busy.on
      BY <3>2, <3>5 DEF Became
    <3> QED
      BY <3>3, <3>4, <3>5
  <2> QED
    BY <2>1, <2>2
<1> QED
  BY <1>6, <1>7, <1>8, <1>9, <1>10, <1>11 DEF PageInv

LEMMA PageBegins ==
  ASSUME PageInv, NEW op, NEW p, NEW o \in BOOLEAN, NEW st \in {"call", "uninstall"}, NEW picked \in SUBSET Packages,
         op \in {"toggle", "remove", "install", "uninstall", "from", "pick", "restart"},
         op # "restart" => p \in Packages, p \in Packages \cup {None},
         picked # {} => op = "pick", I!Begin(op, p, o, st, picked)
  PROVE  PageInv'
<1> DEFINE new == [op |-> op, p |-> p, on |-> o, step |-> st, todo |-> picked, before |-> snapshot, moved |-> FALSE]
<1>1. /\ busy = None /\ clicks' = clicks + 1 /\ busy' = new
      /\ UNCHANGED <<up, mounted, enabled, disk, shelf, epoch, reading, cat, stock, seen, snapshot, effect, troubled>>
  BY DEF I!Begin, I!server, I!reads, I!view
<1>2. /\ new \in I!Operation /\ new.op = op /\ new.p = p /\ new.moved = FALSE /\ new.before = snapshot
      /\ new.todo = picked
  BY DEF PageInv, PageTyped, Snap, I!Operation
<1> HIDE DEF new
<1>3. busy' # None /\ clicks' \in Nat /\ clicks' # 0 /\ "operation" \notin reading
  BY <1>1, <1>2, ScreensAssumption, PageNumbers DEF PageInv, OneOperation
<1>4. PageTyped'
  BY <1>1, <1>2, <1>3 DEF PageInv, PageTyped
<1>5. OneOperation'
  BY <1>1, <1>2, <1>3 DEF PageInv, OneOperation
<1>6. CalmPage' /\ EpochsPast'
  BY <1>1, <1>2, <1>3 DEF PageInv, CalmPage, SaysSo, EpochsPast
<1>7. Epochs'
  BY <1>1, <1>2, <1>3 DEF PageInv, Epochs, Became
<1> QED
  BY <1>1, <1>4, <1>5, <1>6, <1>7 DEF PageInv, I!EffectIsOwn, I!Shown

(* A call is at work: nothing is read for it yet, and it moved no switch.  *)
LEMMA AtCallKnows ==
  ASSUME PageInv, I!AtCall, busy.op # "restart"
  PROVE  /\ busy \in I!Operation /\ busy # None /\ busy.p \in Packages /\ ~ busy.moved /\ clicks # 0
         /\ "operation" \notin reading /\ cat["operation"] = None /\ stock["operation"] = None
         /\ busy.op # "toggle" => I!Asked # "toggle"
         /\ busy.step # "call" => I!Asked # "toggle"
<1>1. busy # None /\ busy.step \in {"uninstall", "forget", "call"}
  BY DEF I!AtCall
<1>2. busy \in I!Operation /\ busy.p \in Packages /\ ~ busy.moved /\ clicks # 0 /\ "operation" \notin reading
  BY <1>1 DEF PageInv, PageTyped, OneOperation
<1>3. cat["operation"] = None /\ stock["operation"] = None
  BY <1>2 DEF PageInv, OneOperation, I!Reads
<1>4. (busy.op # "toggle" => I!Asked # "toggle") /\ (busy.step # "call" => I!Asked # "toggle")
  BY <1>1 DEF I!Asked
<1> QED
  BY <1>1, <1>2, <1>3, <1>4

LEMMA PageAnswered ==
  ASSUME PageInv, I!Answered
  PROVE  PageInv'
<1>1. /\ I!AtCall /\ busy.op # "restart" /\ I!Do(I!Asked, busy.p, busy.on)
      /\ UNCHANGED <<epoch, cat, stock, seen, snapshot, effect, clicks>>
  BY DEF I!Answered, I!view
<1>2. /\ busy \in I!Operation /\ busy # None /\ busy.p \in Packages /\ ~ busy.moved /\ clicks # 0
      /\ "operation" \notin reading /\ cat["operation"] = None /\ stock["operation"] = None
      /\ busy.op # "toggle" => I!Asked # "toggle"
      /\ busy.step # "call" => I!Asked # "toggle"
  BY <1>1, AtCallKnows
<1>3. /\ mounted' = mounted /\ up' = up /\ enabled' \in SUBSET Packages /\ disk' \in SUBSET Packages
      /\ DOMAIN shelf' = Packages /\ (\A q \in disk' : shelf'[q] # "absent")
      /\ I!Asked # "toggle" => enabled' = enabled
      /\ I!Asked = "toggle" => enabled' = I!Switched(busy.p, busy.on)
  <2>1. busy.on \in BOOLEAN
    BY <1>2 DEF I!Operation
  <2> HIDE DEF I!Asked
  <2> QED
    BY <1>1, <1>2, <2>1, ServerDoes DEF PageInv
<1>4. CASE busy.step = "call"
  <2> DEFINE mv == enabled' # enabled
  <2>1. /\ busy' = [busy EXCEPT !.step = "read", !.moved = mv]
        /\ reading' = reading \cup {"operation"} /\ ~ troubled'
    BY <1>4 DEF I!Answered, I!StartRead
  <2>2. mv \in BOOLEAN /\ (mv => busy.op = "toggle" /\ enabled' = I!Switched(busy.p, busy.on))
    BY <1>2, <1>3
  <2>3. /\ busy' \in I!Operation /\ busy'.step = "read" /\ busy'.moved = mv /\ busy'.op = busy.op /\ busy'.p = busy.p
        /\ busy'.on = busy.on /\ busy'.before = busy.before /\ busy'.todo = busy.todo
    <3> HIDE DEF mv
    <3> QED
      BY <1>2, <2>1, <2>2 DEF I!Operation
  <2>4. busy' # None
    BY <2>3, ScreensAssumption
  <2>5. PageTyped'
    BY <1>1, <1>3, <2>1, <2>3 DEF PageInv, PageTyped, I!Reads
  <2>6. OneOperation'
    BY <1>1, <1>2, <2>1, <2>2, <2>3, <2>4 DEF PageInv, OneOperation
  <2>7. CalmPage'
    BY <1>1, <1>2, <2>1 DEF CalmPage, SaysSo
  <2>8. EpochsPast'
    BY <1>1, <1>2, <2>3 DEF PageInv, EpochsPast
  <2>9. Epochs'
    <3>1. snapshot # None /\ snapshot.at = epoch /\ ~ mv => snapshot.live = enabled'
      BY <1>2 DEF PageInv, Epochs
    <3>2. busy.before # None /\ busy.before.at = epoch => Became(enabled)'
      <4> SUFFICES ASSUME busy.before # None, busy.before.at = epoch PROVE Became(enabled)'
        OBVIOUS
      <4>1. busy.before.live = enabled
        BY <1>2 DEF PageInv, Epochs, Became
      <4>2. CASE ~ mv
        BY <2>3, <4>1, <4>2 DEF Became
      <4>3. CASE mv
        <5>1. enabled' = (IF busy.on THEN enabled \cup {busy.p} ELSE enabled \ {busy.p}) /\ enabled' # enabled
          BY <2>2, <4>3 DEF I!Switched
        <5>2. IF busy.on THEN busy.p \notin enabled ELSE busy.p \in enabled
          BY <5>1
        <5> QED
          BY <2>3, <4>1, <4>3, <5>1, <5>2 DEF Became
      <4> QED
        BY <4>2, <4>3
    <3> HIDE DEF mv
    <3> QED
      BY <1>1, <1>2, <2>1, <2>3, <2>4, <3>1, <3>2 DEF Epochs, I!Reads
  <2> QED
    BY <1>1, <2>5, <2>6, <2>7, <2>8, <2>9 DEF PageInv, I!EffectIsOwn, I!Shown
<1>5. CASE busy.step # "call"
  <2>1. PICK st \in {"forget", "call"} : busy' = [busy EXCEPT !.step = st]
    BY <1>5 DEF I!Answered
  <2>2. troubled' /\ reading' = reading /\ enabled' = enabled
    BY <1>2, <1>3, <1>5 DEF I!Answered
  <2>3. /\ busy' \in I!Operation /\ busy'.step = st /\ busy'.moved = busy.moved /\ busy'.op = busy.op
        /\ busy'.p = busy.p /\ busy'.on = busy.on /\ busy'.before = busy.before /\ busy'.todo = busy.todo
    BY <1>2, <2>1 DEF I!Operation
  <2>4. busy' # None
    BY <2>3, ScreensAssumption
  <2>5. PageTyped'
    BY <1>1, <1>3, <2>2, <2>3 DEF PageInv, PageTyped
  <2>6. OneOperation'
    BY <1>1, <1>2, <2>2, <2>3 DEF PageInv, OneOperation
  <2>7. CalmPage' /\ EpochsPast'
    BY <1>1, <1>2, <2>2, <2>3 DEF PageInv, CalmPage, EpochsPast
  <2>8. Epochs'
    BY <1>1, <1>2, <2>2, <2>3, <2>4 DEF PageInv, Epochs, Became
  <2> QED
    BY <1>1, <2>5, <2>6, <2>7, <2>8 DEF PageInv, I!EffectIsOwn, I!Shown
<1> QED
  BY <1>4, <1>5

(* An operation is over without a read, and others may have acted.         *)
LEMMA CallEnds ==
  ASSUME PageInv, I!AtCall, busy.op # "restart", I!Over,
         epoch' \in Nat, epoch' >= epoch, epoch' = epoch => enabled' = enabled,
         mounted' \in SUBSET Packages, enabled' \in SUBSET Packages, disk' \in SUBSET Packages, up' \in BOOLEAN,
         DOMAIN shelf' = Packages, \A p \in disk' : shelf'[p] # "absent",
         troubled' \/ UNCHANGED <<mounted, disk, troubled>>,
         UNCHANGED <<reading, cat, stock, seen, snapshot, effect, clicks>>
  PROVE  PageInv'
<1>1. /\ busy # None /\ ~ busy.moved /\ clicks # 0 /\ "operation" \notin reading /\ cat["operation"] = None
      /\ stock["operation"] = None
  BY AtCallKnows
<1>2. \/ busy' = None
      \/ /\ busy' \in I!Operation /\ busy' # None /\ busy'.op = "pick" /\ busy'.p \in Packages
         /\ ~ busy'.moved /\ busy'.before = busy.before /\ busy'.step \in {"uninstall", "call"}
         /\ ~ busy.moved
  BY <1>1, OverGives
<1>3. PageTyped'
  BY <1>2 DEF PageInv, PageTyped
<1>4. OneOperation'
  BY <1>1, <1>2 DEF PageInv, OneOperation
<1>5. CalmPage'
  BY <1>1 DEF PageInv, CalmPage, SaysSo
<1>6. EpochsPast'
  <2>1. snapshot # None => snapshot.at <= epoch'
    BY PageNumbers
  <2>2. busy' # None /\ busy'.before # None => busy'.before.at <= epoch'
    BY <1>1, <1>2, PageNumbers
  <2>3. \A q \in I!Reads : cat[q] # None => cat[q].at <= epoch'
    BY PageNumbers
  <2> QED
    BY <2>1, <2>2, <2>3 DEF EpochsPast
<1>7. Epochs'
  <2>1. snapshot # None /\ snapshot.at = epoch' => snapshot.live = enabled'
    <3> SUFFICES ASSUME snapshot # None, snapshot.at = epoch' PROVE snapshot.live = enabled'
      OBVIOUS
    <3>1. epoch' = epoch
      BY PageNumbers
    <3> QED
      BY <1>1, <3>1 DEF PageInv, Epochs
  <2>2. busy' # None /\ busy'.before # None /\ busy'.before.at = epoch' => Became(enabled)'
    <3> SUFFICES ASSUME busy' # None, busy'.before # None, busy'.before.at = epoch' PROVE Became(enabled)'
      OBVIOUS
    <3>1. ~ busy'.moved /\ busy'.before = busy.before
      BY <1>2
    <3>2. epoch' = epoch
      BY <1>1, <3>1, PageNumbers
    <3>3. enabled = busy.before.live
      BY <1>1, <3>1, <3>2 DEF PageInv, Epochs, Became
    <3> QED
      BY <3>1, <3>2, <3>3 DEF Became
  <2> QED
    BY <1>1, <2>1, <2>2 DEF Epochs, I!Reads
<1> QED
  BY <1>3, <1>4, <1>5, <1>6, <1>7 DEF PageInv, I!EffectIsOwn, I!Shown

(* The restart button: what it waits for changes nothing that was read.    *)
LEMMA PageRestarts ==
  ASSUME PageInv, I!AskRestart \/ I!Back
  PROVE  PageInv'
<1>1. PICK st \in {"poll", "read"} : busy' = [busy EXCEPT !.step = st] /\ (st = "read" <=> I!Back)
      /\ (I!Back \/ I!AskRestart)
  BY DEF I!AskRestart, I!Back
<1>2. /\ busy # None /\ busy.op = "restart" /\ busy.step \in {"call", "poll"}
      /\ UNCHANGED <<up, mounted, enabled, disk, shelf, epoch, cat, stock, seen, snapshot, effect, clicks>>
  BY DEF I!AskRestart, I!Back, I!server, I!reads, I!view
<1>3. busy \in I!Operation /\ "operation" \notin reading /\ clicks # 0 /\ ~ busy.moved
  BY <1>2 DEF PageInv, PageTyped, OneOperation
<1>4. /\ busy' \in I!Operation /\ busy'.step = st /\ busy'.moved = busy.moved /\ busy'.op = busy.op
      /\ busy'.p = busy.p /\ busy'.on = busy.on /\ busy'.before = busy.before /\ busy'.todo = busy.todo
  BY <1>1, <1>3 DEF I!Operation
<1>5. busy' # None
  BY <1>4, ScreensAssumption
<1>6. \/ st = "poll" /\ reading' = reading /\ troubled' = troubled
      \/ st = "read" /\ reading' = reading \cup {"operation"}
  BY <1>1 DEF I!AskRestart, I!Back, I!StartRead, I!reads
<1>7. cat["operation"] = None /\ stock["operation"] = None
  BY <1>3 DEF PageInv, OneOperation, I!Reads
<1>8. PageTyped'
  BY <1>2, <1>4, <1>6 DEF PageInv, PageTyped, I!Reads
<1>9. OneOperation'
  BY <1>2, <1>3, <1>4, <1>5, <1>6 DEF PageInv, OneOperation
<1>10. CalmPage'
  BY <1>2, <1>3, <1>6, <1>7 DEF PageInv, CalmPage, SaysSo
<1>11. EpochsPast'
  BY <1>2, <1>4 DEF PageInv, EpochsPast
<1>12. Epochs'
  BY <1>2, <1>3, <1>4, <1>5, <1>7 DEF PageInv, Epochs, Became, I!Reads
<1> QED
  BY <1>2, <1>8, <1>9, <1>10, <1>11, <1>12 DEF PageInv, I!EffectIsOwn, I!Shown

LEMMA PageStep ==
  ASSUME PageInv, I!Next
  PROVE  PageInv'
<1> USE DEF I!server, I!reads, I!view
<1>1. ASSUME NEW op, NEW p \in Packages, NEW o \in BOOLEAN, I!Other(op, p, o) PROVE PageInv'
  <2>1. I!Do(op, p, o) /\ I!Strange /\ troubled'
        /\ UNCHANGED <<reading, cat, stock, seen, snapshot, busy, effect, clicks>>
    BY <1>1 DEF I!Other
  <2>2. /\ mounted' = mounted /\ up' = up /\ enabled' \in SUBSET Packages /\ disk' \in SUBSET Packages
        /\ DOMAIN shelf' = Packages /\ (\A q \in disk' : shelf'[q] # "absent")
    BY <2>1, ServerDoes DEF PageInv
  <2>3. epoch' \in Nat /\ epoch' >= epoch /\ (epoch' = epoch => enabled' = enabled)
    BY <2>1, PageNumbers DEF I!Strange
  <2>4. mounted' \in SUBSET Packages /\ up' \in BOOLEAN
    BY <2>2 DEF PageInv, PageTyped
  <2> QED
    BY <2>1, <2>2, <2>3, <2>4, OthersAct
<1>2. CASE I!Die
  BY <1>2, PageRests DEF I!Die
<1>3. CASE I!Boot
  <2>1. /\ troubled' /\ I!Strange /\ up' \in BOOLEAN /\ mounted' = disk
        /\ enabled' = (enabled \cap disk) \cup (disk \ mounted)
        /\ UNCHANGED <<disk, shelf, reading, cat, stock, seen, snapshot, busy, effect, clicks>>
    BY <1>3 DEF I!Boot
  <2>2. epoch' \in Nat /\ epoch' >= epoch /\ (epoch' = epoch => enabled' = enabled)
    BY <2>1, PageNumbers DEF I!Strange
  <2>3. /\ mounted' \in SUBSET Packages /\ enabled' \in SUBSET Packages /\ disk' \in SUBSET Packages
        /\ DOMAIN shelf' = Packages /\ (\A q \in disk' : shelf'[q] # "absent")
    BY <2>1 DEF PageInv, PageTyped
  <2> QED
    BY <2>1, <2>2, <2>3, OthersAct
<1>4. ASSUME NEW p \in Packages, I!CubeCard(p) \/ I!PackageCard(p) \/ I!InstallFromCard(p) PROVE PageInv'
  <2>1. PICK op \in {"toggle", "remove", "install", "uninstall", "from"}, o \in BOOLEAN : I!Begin(op, p, o, "call", {})
    BY <1>4 DEF I!CubeCard, I!PackageCard, I!InstallFromCard
  <2> QED
    BY <2>1, PageBegins
<1>5. CASE I!RestartButton
  <2>1. I!Begin("restart", None, FALSE, "call", {})
    BY <1>5 DEF I!RestartButton
  <2>2. "restart" \in {"toggle", "remove", "install", "uninstall", "from", "pick", "restart"}
        /\ FALSE \in BOOLEAN /\ "call" \in {"call", "uninstall"} /\ {} \in SUBSET Packages
        /\ None \in Packages \cup {None}
    OBVIOUS
  <2> QED
    BY <2>1, <2>2, PageBegins
<1>6. CASE I!InstallPicked
  <2>1. PICK p \in I!Picked :
          I!Begin("pick", p, FALSE, IF found[p].shelf = "different" THEN "uninstall" ELSE "call", I!Picked \ {p})
    BY <1>6 DEF I!InstallPicked
  <2>2. PICK st \in {"call", "uninstall"} : I!Begin("pick", p, FALSE, st, I!Picked \ {p})
    BY <2>1
  <2>3. p \in Packages /\ p \in Packages \cup {None} /\ I!Picked \ {p} \in SUBSET Packages /\ FALSE \in BOOLEAN
        /\ "pick" \in {"toggle", "remove", "install", "uninstall", "from", "pick", "restart"}
    BY DEF I!Picked
  <2> QED
    BY <2>2, <2>3, PageBegins
<1>7. CASE I!Scan
  BY <1>7, PageRests DEF I!Scan, PageInv, PageTyped
<1>8. CASE I!Refused
  <2>1. I!AtCall /\ busy.op # "restart" /\ I!Over
        /\ UNCHANGED <<up, mounted, enabled, disk, shelf, epoch, reading, cat, stock, seen, snapshot, effect, clicks, troubled>>
    BY <1>8 DEF I!Refused
  <2>2. /\ epoch' \in Nat /\ epoch' >= epoch /\ mounted' \in SUBSET Packages /\ enabled' \in SUBSET Packages
        /\ disk' \in SUBSET Packages /\ up' \in BOOLEAN /\ DOMAIN shelf' = Packages
        /\ (\A p \in disk' : shelf'[p] # "absent")
    BY <2>1 DEF PageInv, PageTyped
  <2> QED
    BY <2>1, <2>2, CallEnds
<1>9. CASE I!Lost
  <2>1. /\ I!AtCall /\ busy.op # "restart" /\ I!Over /\ troubled'
        /\ UNCHANGED <<reading, cat, stock, seen, snapshot, effect, clicks>>
    BY <1>9 DEF I!Lost
  <2>2. /\ epoch' \in Nat /\ epoch' >= epoch /\ (epoch' = epoch => enabled' = enabled)
        /\ mounted' \in SUBSET Packages /\ enabled' \in SUBSET Packages
        /\ disk' \in SUBSET Packages /\ up' \in BOOLEAN /\ DOMAIN shelf' = Packages
        /\ (\A p \in disk' : shelf'[p] # "absent")
    <3>1. CASE UNCHANGED <<up, mounted, enabled, disk, shelf, epoch>>
      BY <3>1 DEF PageInv, PageTyped
    <3>2. CASE I!Do(I!Asked, busy.p, busy.on) /\ I!Strange
      <4>1. busy.p \in Packages /\ busy.on \in BOOLEAN
        BY <2>1, AtCallKnows DEF I!Operation
      <4> HIDE DEF I!Asked
      <4>2. /\ mounted' = mounted /\ up' = up /\ enabled' \in SUBSET Packages /\ disk' \in SUBSET Packages
            /\ DOMAIN shelf' = Packages /\ (\A q \in disk' : shelf'[q] # "absent")
        BY <3>2, <4>1, ServerDoes DEF PageInv
      <4>3. epoch' \in Nat /\ epoch' >= epoch /\ (epoch' = epoch => enabled' = enabled)
        BY <3>2, PageNumbers DEF I!Strange
      <4> QED
        BY <4>2, <4>3 DEF PageInv, PageTyped
    <3> QED
      BY <1>9, <3>1, <3>2 DEF I!Lost
  <2> QED
    BY <2>1, <2>2, CallEnds
<1> QED
  BY <1>1, <1>2, <1>3, <1>4, <1>5, <1>6, <1>7, <1>8, <1>9, PageReads, ReadFails, PageOpens, PageMeasures,
     PageAnswered, PageRestarts DEF I!Next

PagePart == part = "install" => PageInv

LEMMA PagePartHolds == SpecReading => []PagePart
<1>1. InitReading => PagePart
  BY PageInit DEF InitReading, PagePart
<1>2. PagePart /\ [NextReading]_all => PagePart'
  <2> SUFFICES ASSUME PagePart, [NextReading]_all, part' = "install" PROVE PageInv'
    BY DEF PagePart
  <2>1. CASE I!Next /\ part = "install"
    BY <2>1, PageStep DEF PagePart
  <2>2. CASE UNCHANGED <<all>>
    <3>1. UNCHANGED <<up, mounted, enabled, disk, shelf, epoch, reading, cat, stock, seen, snapshot, busy, effect,
                      clicks, troubled>> /\ part = "install"
      BY <2>2 DEF all, installOnly
    <3> QED
      BY <3>1, PageRests DEF PagePart, PageInv, PageTyped
  <2> QED
    BY <2>1, <2>2 DEF NextReading
<1> QED
  BY <1>1, <1>2, PTL DEF SpecReading

(* For any packages, operations, restarts and other administrators: the    *)
(* page at rest asks for a restart exactly when disk and server differ,    *)
(* and the effect it shows is its own operation's, unless something else   *)
(* happened that the property names.                                       *)
THEOREM InstallPageIsTrue == SpecReading => []InstallPageMeasures
<1>1. PagePart => InstallPageMeasures
  <2> SUFFICES ASSUME PageInv PROVE I!BannerIsTrue /\ I!EffectIsOwn
    BY DEF PagePart, InstallPageMeasures
  <2>1. I!BannerIsTrue
    <3> SUFFICES ASSUME busy = None, seen # None, ~ troubled PROVE I!Banner <=> disk # mounted
      BY DEF I!BannerIsTrue
    <3>1. seen.mounted = mounted /\ seen.gone = mounted \ disk /\ seen.installed = disk
      BY DEF PageInv, OneOperation, CalmPage
    <3> QED
      BY <3>1 DEF I!Banner, I!Drift, PageInv, PageTyped
  <2> QED
    BY <2>1 DEF PageInv
<1> QED
  BY PagePartHolds, <1>1, PTL

-----------------------------------------------------------------------------
(* Relations.                                                              *)

PageAsked == [offset : Nat, limit : Nat]
RelatedTyped ==
  /\ on \in [{"from", "to"} -> BOOLEAN] /\ value \in [FromRows -> Targets \cup {None}]
  /\ may \in [Readers -> SUBSET FromRows] /\ kind \in {"careful", "plain", "ignores"}
  /\ DOMAIN call = Readers /\ call = [u \in Readers |-> call[u]]
  /\ could \in [Readers -> SUBSET FromRows] /\ quiet \in [Readers -> BOOLEAN]
  /\ relinks \in 0 .. MaxRelinks

(* What a call carries from step to step.                                  *)
Carried(c) ==
  \/ c = R!Idle
  \/ \E t \in Targets, p \in PageAsked : c = [at |-> "search", target |-> t, page |-> p]
  \/ \E t \in Targets, p \in PageAsked, v \in SUBSET FromRows :
       v # {} /\ c = [at |-> "found", target |-> t, page |-> p, visible |-> v]
  \/ \E a \in {"field", "value"}, r \in FromRows : c = [at |-> a, row |-> r]
  \/ c.at = "done"

(* What is readable in a call, or was when its verdict fell, and was not   *)
(* deleted since, could be read during the call.                           *)
Standing(ids) == {r \in ids : value[r] # None}
CallCould(u) ==
  /\ R!Open(u) => R!CouldNow(u) \subseteq could[u]
  /\ call[u].at = "found" => Standing(call[u].visible) \subseteq could[u]
  /\ call[u].at = "value" => Standing({call[u].row}) \subseteq could[u]

(* While nothing changed, the verdict is the permissions.                  *)
CallQuiet(u) ==
  quiet[u] => /\ call[u].at \in {"search", "found"} => on["from"]
              /\ call[u].at = "found" => call[u].visible = R!Readable(u)

(* What a call answered: rows and a number of rows it could read, all of   *)
(* them in the audit; and all there were, if nothing changed.              *)
AnswerStands(u) ==
  LET c == call[u] IN
  c.at = "done" =>
    /\ c.rows \subseteq could[u] /\ c.total \in Nat /\ c.total >= Cardinality(c.rows)
    /\ kind # "ignores" => c.total <= Cardinality(could[u])
    /\ c.parent # None => c.asked.row \in could[u]
    /\ c.audit # None => c.audit = c.rows
AllOf(c, list) == c.rows = R!PageOf(list, c.asked.page) /\ c.total = Cardinality(list)
AnswerExact(u) ==
  call[u].at = "done" /\ quiet[u] /\ R!IsList(u) /\ kind # "ignores" =>
    AllOf(call[u], R!PointingAt(call[u].asked.target, R!Readable(u)))

CallInv(u) == Carried(call[u]) /\ CallCould(u) /\ CallQuiet(u) /\ AnswerStands(u) /\ AnswerExact(u)
RelatedInv == RelatedTyped /\ \A u \in Readers : CallInv(u)
RelatedPart == part = "relations" => RelatedInv

(* Relations counts with a Cardinality of its own: it is the library's.    *)
LEMMA CountsAlike ==
  ASSUME NEW Q
  PROVE  R!Cardinality(Q) = Cardinality(Q)
BY DEF R!Cardinality, Cardinality

(* The rows of a list and of a page of it are finite in number.            *)
LEMMA ListsAreFinite ==
  ASSUME NEW list \in SUBSET FromRows, NEW more \in SUBSET FromRows, list \subseteq more
  PROVE  /\ Cardinality(list) \in Nat /\ Cardinality(list) <= Cardinality(more)
<1>1. IsFiniteSet(more)
  BY RelationsAssumption, FS_Subset
<1> QED
  BY <1>1, FS_Subset, FS_CardinalityType

LEMMA ReadableRows ==
  ASSUME RelatedTyped, NEW u \in Readers
  PROVE  R!Readable(u) \subseteq FromRows /\ R!CouldNow(u) \subseteq FromRows
BY DEF RelatedTyped, R!Readable, R!CouldNow

LEMMA RelatedInit == R!Init => RelatedInv
<1> SUFFICES ASSUME R!Init PROVE RelatedInv
  OBVIOUS
<1>1. RelatedTyped
  BY RelationsAssumption DEF R!Init, RelatedTyped
<1>2. ASSUME NEW u \in Readers PROVE CallInv(u)
  <2>1. call[u] = R!Idle /\ call[u].at = "idle"
    BY DEF R!Init, R!Idle
  <2> QED
    BY <2>1 DEF CallInv, Carried, CallCould, CallQuiet, AnswerStands, AnswerExact, R!Open
<1> QED
  BY <1>1, <1>2 DEF RelatedInv

LEMMA CallRests ==
  ASSUME NEW w \in Readers, CallInv(w), call'[w] = call[w], could'[w] = could[w], quiet'[w] = quiet[w],
         UNCHANGED <<on, value, admins, may, kind>>
  PROVE  CallInv(w)'
<1>1. R!Readable(w)' = R!Readable(w) /\ R!CouldNow(w)' = R!CouldNow(w)
  BY DEF R!CouldNow, R!Readable
<1>2. Carried(call[w])'
  BY DEF CallInv
<1>3. CallQuiet(w)'
  BY <1>1 DEF CallInv, CallQuiet
<1>4. CallCould(w)'
  BY <1>1 DEF CallInv, CallCould, R!Open, Standing
<1>5. AnswerStands(w)'
  BY DEF CallInv, AnswerStands
<1>6. AnswerExact(w)'
  BY <1>1 DEF CallInv, AnswerExact, R!IsList, R!PointingAt, AllOf, R!PageOf, R!Place
<1> QED
  BY <1>2, <1>3, <1>4, <1>5, <1>6 DEF CallInv

(* A step of one call: the others rest, and nothing they rest on moves.    *)
LEMMA OneCallMoves ==
  ASSUME RelatedInv, NEW u \in Readers, NEW c,
         call' = [call EXCEPT ![u] = c],
         UNCHANGED <<on, value, admins, may, kind, relinks>>,
         could' \in [Readers -> SUBSET FromRows], quiet' \in [Readers -> BOOLEAN],
         \A w \in Readers \ {u} : could'[w] = could[w] /\ quiet'[w] = quiet[w],
         CallInv(u)'
  PROVE  RelatedInv'
<1>1. RelatedTyped'
  BY DEF RelatedInv, RelatedTyped
<1>2. ASSUME NEW w \in Readers \ {u} PROVE CallInv(w)'
  <2>1. call'[w] = call[w] /\ could'[w] = could[w] /\ quiet'[w] = quiet[w]
    BY DEF RelatedInv, RelatedTyped
  <2>2. CallInv(w)
    BY DEF RelatedInv
  <2> QED
    BY <2>1, <2>2, CallRests
<1> QED
  BY <1>1, <1>2 DEF RelatedInv

LEMMA CallBegins ==
  ASSUME RelatedInv, NEW u \in Readers, NEW c, R!Begin(u, c), Carried(c), c.at \in {"search", "field"},
         c.at = "search" => on["from"]
  PROVE  RelatedInv'
<1>1. /\ call' = [call EXCEPT ![u] = c] /\ UNCHANGED <<on, value, admins, may, kind, relinks>>
      /\ could' = [could EXCEPT ![u] = R!CouldNow(u)] /\ quiet' = [quiet EXCEPT ![u] = TRUE]
  BY DEF R!Begin
<1>2. RelatedTyped /\ R!CouldNow(u) \subseteq FromRows
  BY ReadableRows DEF RelatedInv
<1>3. could' \in [Readers -> SUBSET FromRows] /\ quiet' \in [Readers -> BOOLEAN]
  BY <1>1, <1>2 DEF RelatedTyped
<1>4. \A w \in Readers \ {u} : could'[w] = could[w] /\ quiet'[w] = quiet[w]
  BY <1>1, <1>2 DEF RelatedTyped
<1>5. call'[u] = c /\ could'[u] = R!CouldNow(u) /\ R!CouldNow(u)' = R!CouldNow(u)
  BY <1>1, <1>2 DEF RelatedTyped, R!CouldNow, R!Readable
<1>6. CallInv(u)'
  BY <1>1, <1>5 DEF CallInv, CallCould, CallQuiet, AnswerStands, AnswerExact
<1> QED
  BY <1>1, <1>3, <1>4, <1>6, OneCallMoves

(* A step within a call.                                                   *)
LEMMA CallGoes ==
  ASSUME RelatedInv, NEW u \in Readers, NEW c, R!Goes(u, c), call'[u] = c => CallInv(u)'
  PROVE  RelatedInv'
<1>1. /\ call' = [call EXCEPT ![u] = c]
      /\ UNCHANGED <<on, value, admins, may, kind, could, quiet, relinks>>
  BY DEF R!Goes
<1>2. call'[u] = c /\ could' \in [Readers -> SUBSET FromRows] /\ quiet' \in [Readers -> BOOLEAN]
  BY <1>1 DEF RelatedInv, RelatedTyped
<1> QED
  BY <1>1, <1>2, OneCallMoves

(* What is asked for is a page of at most MaxLimit rows.                   *)
LEMMA CappedPage ==
  ASSUME NEW p \in GroupPages
  PROVE  R!Capped(p) \in PageAsked
<1>1. p.offset \in Int /\ p.limit \in Int
  BY RelationsAssumption
<1>2. R!Cut(p.offset, 0, p.offset) \in Nat /\ R!Cut(p.limit, 1, MaxLimit) \in Nat
  BY <1>1, RelationsAssumption DEF R!Cut
<1> QED
  BY <1>2 DEF R!Capped, PageAsked

LEMMA ListBegins ==
  ASSUME RelatedInv, NEW u \in Readers, NEW t \in Targets,
         R!Counts(u, t) \/ \E p \in GroupPages : R!Group(u, t, p)
  PROVE  RelatedInv'
<1>1. PICK q \in PageAsked : R!LinkLive /\ R!Begin(u, [at |-> "search", target |-> t, page |-> q])
  BY CappedPage DEF R!Counts, R!Group, PageAsked
<1> DEFINE c == [at |-> "search", target |-> t, page |-> q]
<1>2. Carried(c) /\ c.at = "search"
  BY DEF Carried
<1>3. on["from"]
  BY <1>1 DEF R!LinkLive
<1>4. R!Begin(u, c)
  BY <1>1
<1> HIDE DEF c
<1> QED
  BY <1>2, <1>3, <1>4, CallBegins

LEMMA ItemBegins ==
  ASSUME RelatedInv, NEW u \in Readers, NEW r \in FromRows, R!Item(u, r)
  PROVE  RelatedInv'
<1> DEFINE c == [at |-> "field", row |-> r]
<1>1. Carried(c) /\ c.at = "field"
  BY DEF Carried
<1>2. R!Begin(u, c)
  BY DEF R!Item
<1> HIDE DEF c
<1> QED
  BY <1>1, <1>2, CallBegins

(* An answer without rows.                                                 *)
LEMMA EmptyAnswer ==
  ASSUME RelatedInv, NEW u \in Readers, NEW parent, NEW audit, R!Answer(u, {}, 0, parent, audit),
         parent # None => call[u].row \in could[u],
         audit \in {None, {}},
         quiet[u] /\ call[u].at \in {"search", "found"} /\ kind # "ignores" =>
           R!PointingAt(call[u].target, R!Readable(u)) = {}
  PROVE  RelatedInv'
<1> DEFINE c == [at |-> "done", asked |-> call[u], rows |-> {}, total |-> 0, parent |-> parent, audit |-> audit]
<1>1. R!Goes(u, c)
  BY DEF R!Answer
<1>2. UNCHANGED <<on, value, admins, may, kind, could, quiet>> /\ could[u] \subseteq FromRows
  BY <1>1 DEF R!Goes, RelatedInv, RelatedTyped
<1>3. /\ c.at = "done" /\ c.asked = call[u] /\ c.rows = {} /\ c.total = 0 /\ c.parent = parent
      /\ c.audit = audit
  OBVIOUS
<1>4. Cardinality({}) = 0 /\ Cardinality(could[u]) >= 0 /\ Cardinality(could[u]) \in Nat
  BY <1>2, FS_EmptySet, ListsAreFinite
<1> HIDE DEF c
<1>5. ASSUME call'[u] = c PROVE CallInv(u)'
  <2>1. Carried(call[u])' /\ CallCould(u)' /\ CallQuiet(u)'
    BY <1>3, <1>5 DEF Carried, CallCould, CallQuiet, R!Open
  <2>2. AnswerStands(u)'
    <3>1. /\ c.rows \subseteq could[u] /\ c.total \in Nat
          /\ c.total >= Cardinality(c.rows) /\ c.total <= Cardinality(could[u])
      BY <1>3, <1>4
    <3>2. c.parent # None => c.asked.row \in could[u]
      BY <1>3
    <3>3. c.audit # None => c.audit = c.rows
      BY <1>3
    <3> QED
      BY <1>2, <1>5, <3>1, <3>2, <3>3 DEF AnswerStands
  <2>3. ASSUME quiet[u], call[u].at \in {"search", "found"}, kind # "ignores"
        PROVE  AllOf(c, R!PointingAt(call[u].target, R!Readable(u)))
    BY <1>3, <1>4, <2>3 DEF AllOf, R!PageOf
  <2>4. AnswerExact(u)'
    BY <1>2, <1>3, <1>5, <2>3 DEF AnswerExact, R!IsList, R!PointingAt, R!Readable
  <2> QED
    BY <2>1, <2>2, <2>4 DEF CallInv
<1> QED
  BY <1>1, <1>5, CallGoes

LEMMA SearchCarries ==
  ASSUME NEW c, Carried(c), c.at = "search"
  PROVE  \E t \in Targets, p \in PageAsked : c = [at |-> "search", target |-> t, page |-> p]
<1>1. c # R!Idle /\ c.at \notin {"found", "field", "value", "done"}
  BY DEF R!Idle
<1> QED
  BY <1>1 DEF Carried

LEMMA FoundCarries ==
  ASSUME NEW c, Carried(c), c.at = "found"
  PROVE  \E t \in Targets, p \in PageAsked, v \in SUBSET FromRows :
           v # {} /\ c = [at |-> "found", target |-> t, page |-> p, visible |-> v]
<1>1. c # R!Idle /\ c.at \notin {"search", "field", "value", "done"}
  BY DEF R!Idle
<1> QED
  BY <1>1 DEF Carried

LEMMA FieldCarries ==
  ASSUME NEW c, Carried(c), c.at \in {"field", "value"}
  PROVE  \E r \in FromRows : c = [at |-> c.at, row |-> r]
<1>1. c # R!Idle /\ c.at \notin {"search", "found", "done"}
  BY DEF R!Idle
<1>2. PICK a \in {"field", "value"}, r \in FromRows : c = [at |-> a, row |-> r]
  BY <1>1 DEF Carried
<1>3. c.at = a
  BY <1>2
<1> QED
  BY <1>2, <1>3

LEMMA VerdictStep ==
  ASSUME RelatedInv, NEW u \in Readers, R!Verdict(u)
  PROVE  RelatedInv'
<1>1. RelatedTyped /\ CallInv(u) /\ call[u].at = "search"
  BY DEF RelatedInv, R!Verdict
<1>2. CASE ~ on["from"] /\ R!Answer(u, {}, 0, None, None)
  <2>1. ~ quiet[u]
    BY <1>1, <1>2 DEF CallInv, CallQuiet
  <2> QED
    BY <1>2, <2>1, EmptyAnswer
<1>3. CASE R!SeesNothing(R!Readable(u)) /\ R!Answer(u, {}, 0, None, {})
  <2>1. R!PointingAt(call[u].target, R!Readable(u)) = {}
    BY <1>3 DEF R!SeesNothing, R!PointingAt
  <2> QED
    BY <1>3, <2>1, EmptyAnswer
<1>4. CASE /\ ~ R!SeesNothing(R!Readable(u))
           /\ R!Goes(u, [at |-> "found", target |-> call[u].target, page |-> call[u].page, visible |-> R!Readable(u)])
  <2>1. PICK t \in Targets, p \in PageAsked : call[u] = [at |-> "search", target |-> t, page |-> p]
    BY <1>1, SearchCarries DEF CallInv
  <2> DEFINE c == [at |-> "found", target |-> t, page |-> p, visible |-> R!Readable(u)]
  <2>2. R!Goes(u, c)
    BY <1>4, <2>1
  <2>3. R!Readable(u) \in SUBSET FromRows /\ R!Readable(u) # {}
    BY <1>1, <1>4, ReadableRows DEF R!SeesNothing
  <2>4. Carried(c)
    BY <2>3 DEF Carried
  <2>5. c.at = "found" /\ c.visible = R!Readable(u)
    OBVIOUS
  <2> HIDE DEF c
  <2>6. ASSUME call'[u] = c PROVE CallInv(u)'
    <3>1. UNCHANGED <<on, value, admins, may, kind, could, quiet>>
      BY <2>2 DEF R!Goes
    <3>2. R!CouldNow(u) \subseteq could[u] /\ Standing(R!Readable(u)) = R!CouldNow(u)
      BY <1>1 DEF CallInv, CallCould, R!Open, R!CouldNow, Standing
    <3>3. R!Readable(u)' = R!Readable(u) /\ R!CouldNow(u)' = R!CouldNow(u)
      BY <3>1 DEF R!Readable, R!CouldNow
    <3>4. CallCould(u)'
      BY <2>5, <2>6, <3>1, <3>2, <3>3 DEF CallCould, Standing
    <3>5. CallQuiet(u)'
      BY <1>1, <2>5, <2>6, <3>1, <3>3 DEF CallInv, CallQuiet
    <3>6. AnswerStands(u)' /\ AnswerExact(u)'
      BY <2>5, <2>6 DEF AnswerStands, AnswerExact
    <3> QED
      BY <2>4, <2>6, <3>4, <3>5, <3>6 DEF CallInv
  <2> QED
    BY <2>2, <2>6, CallGoes
<1> QED
  BY <1>2, <1>3, <1>4 DEF R!Verdict

(* What a cube finds for a verdict: nothing the verdict does not say is    *)
(* kept, and a cube that filters by the ids finds exactly what it says.    *)
LEMMA FoundRows ==
  ASSUME RelatedTyped, NEW t \in Targets, NEW p \in PageAsked, NEW v \in SUBSET FromRows, v # {}
  PROVE  LET hits == R!Search(t, p, v)
             list == R!PointingAt(t, v)
         IN /\ hits.rows \in SUBSET FromRows /\ hits.total \in Nat
            /\ hits.rows \cap v \subseteq Standing(v)
            /\ hits.total >= Cardinality(hits.rows)
            /\ list \subseteq Standing(v)
            /\ kind # "ignores" => /\ hits.rows = R!PageOf(list, p) /\ hits.total = Cardinality(list)
                                   /\ hits.rows \subseteq v
<1> DEFINE all0 == R!PointingAt(t, FromRows)
           list == R!PointingAt(t, v)
           hits == R!Search(t, p, v)
<1>1. t # None
  BY RelationsAssumption
<1>2. list \in SUBSET FromRows /\ all0 \in SUBSET FromRows /\ list \subseteq Standing(v) /\ list \subseteq v
      /\ all0 \cap v \subseteq Standing(v)
  BY <1>1 DEF R!PointingAt, Standing
<1>3. \A l : R!PageOf(l, p) \subseteq l
  BY DEF R!PageOf
<1>4. Cardinality(list) \in Nat /\ Cardinality(all0) \in Nat
  BY <1>2, ListsAreFinite
<1>5. /\ Cardinality(R!PageOf(list, p)) <= Cardinality(list) /\ Cardinality(R!PageOf(all0, p)) <= Cardinality(all0)
      /\ Cardinality(R!PageOf(list, p)) \in Nat /\ Cardinality(R!PageOf(all0, p)) \in Nat
  <2>1. R!PageOf(list, p) \in SUBSET FromRows /\ R!PageOf(all0, p) \in SUBSET FromRows
    BY <1>2, <1>3
  <2> QED
    BY <1>2, <1>3, <2>1, ListsAreFinite
<1>6. \/ hits.rows = R!PageOf(list, p) /\ hits.total = Cardinality(list)
      \/ kind = "ignores" /\ hits.rows = R!PageOf(all0, p) /\ hits.total = Cardinality(all0)
  <2>1. CASE kind = "ignores"
    <3>1. hits = [rows |-> R!PageOf(all0, p), total |-> R!Cardinality(all0)]
      BY <2>1 DEF R!Search
    <3>2. R!Cardinality(all0) = Cardinality(all0)
      BY CountsAlike
    <3> HIDE DEF hits, all0, list
    <3> QED
      BY <2>1, <3>1, <3>2
  <2>2. CASE kind # "ignores"
    <3>1. hits = [rows |-> R!PageOf(list, p), total |-> R!Cardinality(list)]
      BY <2>2 DEF R!Search
    <3>2. R!Cardinality(list) = Cardinality(list)
      BY CountsAlike
    <3> HIDE DEF hits, all0, list
    <3> QED
      BY <3>1, <3>2
  <2> QED
    BY <2>1, <2>2
<1> HIDE DEF all0, list, hits
<1>7. CASE hits.rows = R!PageOf(list, p) /\ hits.total = Cardinality(list)
  <2>1. hits.rows \subseteq list
    BY <1>3, <1>7
  <2>2. hits.total >= Cardinality(hits.rows)
    BY <1>4, <1>5, <1>7
  <2> QED
    BY <1>2, <1>4, <1>7, <2>1, <2>2 DEF list, hits
<1>8. CASE kind = "ignores" /\ hits.rows = R!PageOf(all0, p) /\ hits.total = Cardinality(all0)
  <2>1. hits.rows \subseteq all0
    BY <1>3, <1>8
  <2>2. hits.total >= Cardinality(hits.rows)
    BY <1>4, <1>5, <1>8
  <2> QED
    BY <1>2, <1>4, <1>8, <2>1, <2>2 DEF list, hits
<1> QED
  BY <1>6, <1>7, <1>8

LEMMA FoundStep ==
  ASSUME RelatedInv, NEW u \in Readers, R!Found(u)
  PROVE  RelatedInv'
<1>1. RelatedTyped /\ CallInv(u) /\ call[u].at = "found"
  BY DEF RelatedInv, R!Found
<1>2. PICK t \in Targets, p \in PageAsked, v \in SUBSET FromRows :
        v # {} /\ call[u] = [at |-> "found", target |-> t, page |-> p, visible |-> v]
  BY <1>1, FoundCarries DEF CallInv
<1> DEFINE hits == R!Search(t, p, v)
           kept == R!Kept(hits.rows, v)
           list == R!PointingAt(t, v)
           total == IF kept = hits.rows THEN hits.total ELSE p.offset + R!Cardinality(kept)
           c == [at |-> "done", asked |-> call[u], rows |-> kept, total |-> total, parent |-> None,
                 audit |-> kept]
<1>3. call[u].target = t /\ call[u].page = p /\ call[u].visible = v /\ p.offset \in Nat
  BY <1>2 DEF PageAsked
<1>4. R!Goes(u, c)
  BY <1>3 DEF R!Found, R!Answer, R!AuditedRows
<1>5. /\ hits.rows \in SUBSET FromRows /\ hits.total \in Nat
      /\ hits.rows \cap v \subseteq Standing(v)
      /\ hits.total >= Cardinality(hits.rows)
      /\ list \subseteq Standing(v)
      /\ kind # "ignores" => /\ hits.rows = R!PageOf(list, p) /\ hits.total = Cardinality(list)
                             /\ hits.rows \subseteq v
  BY <1>1, <1>2, FoundRows
<1>6. kept = hits.rows \cap v
  BY DEF R!Kept
<1>7. /\ c.at = "done" /\ c.asked = call[u] /\ c.rows = kept /\ c.total = total /\ c.parent = None
      /\ c.audit = kept
  OBVIOUS
<1>8. R!Cardinality(kept) = Cardinality(kept)
  BY CountsAlike
<1> HIDE DEF hits, kept, list, c
<1>9. /\ UNCHANGED <<on, value, admins, may, kind, could, quiet>> /\ could[u] \subseteq FromRows
      /\ Standing(v) \subseteq could[u]
  BY <1>1, <1>3, <1>4 DEF R!Goes, RelatedTyped, CallInv, CallCould
<1>10. kept \subseteq could[u] /\ total \in Nat /\ total >= Cardinality(kept)
  <2>1. kept \in SUBSET FromRows /\ Cardinality(kept) \in Nat
    BY <1>5, <1>6, ListsAreFinite
  <2>2. CASE kept = hits.rows
    BY <1>5, <1>6, <1>9, <2>2
  <2>3. CASE kept # hits.rows
    <3>1. total = p.offset + Cardinality(kept)
      BY <1>8, <2>3
    <3>2. total \in Nat /\ total >= Cardinality(kept)
      BY <1>3, <2>1, <3>1
    <3> QED
      BY <1>5, <1>6, <1>9, <3>2
  <2> QED
    BY <2>2, <2>3
<1>11. ASSUME kind # "ignores"
       PROVE  kept = R!PageOf(list, p) /\ total = Cardinality(list) /\ total <= Cardinality(could[u])
  <2>1. kept = hits.rows /\ total = hits.total
    BY <1>5, <1>6, <1>11
  <2>2. list \in SUBSET FromRows /\ could[u] \in SUBSET FromRows /\ list \subseteq could[u]
    BY <1>5, <1>9
  <2>3. Cardinality(list) <= Cardinality(could[u])
    BY <2>2, ListsAreFinite
  <2> QED
    BY <1>5, <1>11, <2>1, <2>3
<1> HIDE DEF total
<1>12. ASSUME call'[u] = c PROVE CallInv(u)'
  <2>1. Carried(call[u])' /\ CallCould(u)' /\ CallQuiet(u)'
    BY <1>7, <1>12 DEF Carried, CallCould, CallQuiet, R!Open
  <2>2. AnswerStands(u)'
    BY <1>7, <1>9, <1>10, <1>11, <1>12 DEF AnswerStands
  <2>3. ASSUME quiet[u], kind # "ignores"
        PROVE  AllOf(c, R!PointingAt(t, R!Readable(u)))
    <3>1. v = R!Readable(u)
      BY <1>1, <1>3, <2>3 DEF CallInv, CallQuiet
    <3> QED
      BY <1>3, <1>7, <1>11, <2>3, <3>1 DEF AllOf, list
  <2>4. AnswerExact(u)'
    BY <1>3, <1>7, <1>9, <1>12, <2>3 DEF AnswerExact, R!PointingAt, R!Readable
  <2> QED
    BY <2>1, <2>2, <2>4 DEF CallInv
<1> QED
  BY <1>4, <1>12, CallGoes

LEMMA FieldStep ==
  ASSUME RelatedInv, NEW u \in Readers, R!MayReadField(u) \/ R!ReadField(u)
  PROVE  RelatedInv'
<1>1. RelatedTyped /\ CallInv(u) /\ call[u].at \in {"field", "value"}
  BY DEF RelatedInv, R!MayReadField, R!ReadField
<1>2. PICK r \in FromRows : call[u] = [at |-> call[u].at, row |-> r]
  BY <1>1, FieldCarries DEF CallInv
<1>3. CASE R!Answer(u, {}, 0, None, None)
  BY <1>1, <1>3, EmptyAnswer
<1>4. CASE R!ReadField(u) /\ on["to"]
  <2>1. R!Answer(u, {}, 0, value[call[u].row], None) /\ call[u].at = "value"
    BY <1>4 DEF R!ReadField
  <2>2. value[call[u].row] # None => call[u].row \in could[u]
    BY <1>1, <2>1 DEF CallInv, CallCould, Standing
  <2> QED
    BY <1>1, <2>1, <2>2, EmptyAnswer
<1>5. CASE R!MayReadField(u) /\ R!ReadAllowed(u, call[u].row) /\ R!Goes(u, [call[u] EXCEPT !.at = "value"])
  <2> DEFINE c == [call[u] EXCEPT !.at = "value"]
  <2>1. call[u].at = "field"
    BY <1>5 DEF R!MayReadField
  <2>2. c = [at |-> "value", row |-> r] /\ call[u].row = r
    BY <1>2
  <2>4. c.at = "value" /\ c.row = r
    BY <2>2
  <2> HIDE DEF c
  <2>3. ASSUME call'[u] = c PROVE CallInv(u)'
    <3>1. UNCHANGED <<on, value, admins, may, kind, could, quiet>>
      BY <1>5 DEF R!Goes
    <3>2. R!CouldNow(u) \subseteq could[u]
      BY <1>1, <2>1 DEF CallInv, CallCould, R!Open
    <3>3. Standing({call[u].row}) \subseteq R!CouldNow(u)
      BY <1>5 DEF R!ReadAllowed, R!CouldNow, Standing
    <3>4. R!CouldNow(u)' = R!CouldNow(u)
      BY <3>1 DEF R!Readable, R!CouldNow
    <3>5. CallCould(u)'
      BY <2>2, <2>3, <2>4, <3>1, <3>2, <3>3, <3>4 DEF CallCould, Standing
    <3>6. Carried(call[u])' /\ CallQuiet(u)' /\ AnswerStands(u)' /\ AnswerExact(u)'
      BY <2>2, <2>3, <2>4 DEF Carried, CallQuiet, AnswerStands, AnswerExact
    <3> QED
      BY <3>5, <3>6 DEF CallInv
  <2> QED
    BY <1>5, <2>3, CallGoes DEF c
<1> QED
  BY <1>3, <1>4, <1>5 DEF R!MayReadField, R!ReadField

(* Something changes: no call has a quiet end any more, and what may be    *)
(* read now is added to what could be.  A deletion is final.               *)
LEMMA OthersChange ==
  ASSUME RelatedInv, R!Changed,
         on' \in [{"from", "to"} -> BOOLEAN], value' \in [FromRows -> Targets \cup {None}],
         may' \in [Readers -> SUBSET FromRows],
         \A r \in FromRows : value'[r] # None => value[r] # None
  PROVE  RelatedInv'
<1>1. /\ relinks < MaxRelinks /\ relinks' = relinks + 1 /\ UNCHANGED <<admins, kind, call>>
      /\ quiet' = [u \in Readers |-> quiet[u] /\ call[u].at = "idle"]
      /\ could' = [u \in Readers |-> could[u] \cup IF R!Open(u) THEN R!CouldNow(u)' ELSE {}]
  BY DEF R!Changed
<1>2. RelatedTyped /\ MaxRelinks \in Nat
  BY RelationsAssumption DEF RelatedInv
<1>3. \A u \in Readers : R!CouldNow(u)' \subseteq FromRows
  BY DEF R!CouldNow, R!Readable
<1>4. could' \in [Readers -> SUBSET FromRows]
  BY <1>1, <1>2, <1>3 DEF RelatedTyped
<1>5. quiet' \in [Readers -> BOOLEAN]
  BY <1>1, <1>2 DEF RelatedTyped
<1>6. relinks' \in 0 .. MaxRelinks
  BY <1>1, <1>2 DEF RelatedTyped
<1>7. RelatedTyped'
  BY <1>1, <1>2, <1>4, <1>5, <1>6 DEF RelatedTyped
<1>8. ASSUME NEW u \in Readers PROVE CallInv(u)'
  <2>1. CallInv(u) /\ call'[u] = call[u] /\ kind' = kind
    BY <1>1 DEF RelatedInv
  <2>2. /\ could[u] \in SUBSET FromRows /\ could'[u] \in SUBSET FromRows /\ could[u] \subseteq could'[u]
        /\ R!Open(u) => R!CouldNow(u)' \subseteq could'[u]
    BY <1>1, <1>2, <1>4 DEF RelatedTyped
  <2>3. quiet'[u] => call[u].at = "idle"
    BY <1>1
  <2>4. Carried(call[u])'
    BY <2>1 DEF CallInv
  <2>5. CallQuiet(u)' /\ AnswerExact(u)'
    BY <2>1, <2>3 DEF CallQuiet, AnswerExact
  <2>6. CallCould(u)'
    <3>1. R!Open(u)' => R!CouldNow(u)' \subseteq could'[u]
      BY <2>1, <2>2 DEF R!Open
    <3>2. \A ids \in SUBSET FromRows : {r \in ids : value'[r] # None} \subseteq {r \in ids : value[r] # None}
      OBVIOUS
    <3>3. ASSUME call[u].at = "found"
          PROVE  {r \in call[u].visible : value'[r] # None} \subseteq could'[u]
      <4>1. call[u].visible \in SUBSET FromRows
        BY <2>1, <3>3, FoundCarries DEF CallInv
      <4>2. {r \in call[u].visible : value[r] # None} \subseteq could[u]
        BY <2>1, <3>3 DEF CallInv, CallCould, Standing
      <4> QED
        BY <2>2, <3>2, <4>1, <4>2
    <3>4. ASSUME call[u].at = "value"
          PROVE  {r \in {call[u].row} : value'[r] # None} \subseteq could'[u]
      <4>1. {call[u].row} \in SUBSET FromRows
        BY <2>1, <3>4, FieldCarries DEF CallInv
      <4>2. {r \in {call[u].row} : value[r] # None} \subseteq could[u]
        BY <2>1, <3>4 DEF CallInv, CallCould, Standing
      <4> QED
        BY <2>2, <3>2, <4>1, <4>2
    <3> QED
      BY <2>1, <3>1, <3>3, <3>4 DEF CallCould, Standing
  <2>7. Cardinality(could[u]) \in Nat /\ Cardinality(could[u]) <= Cardinality(could'[u])
    BY <2>2, ListsAreFinite
  <2>8. AnswerStands(u)'
    <3>1. ASSUME call[u].at = "done"
          PROVE  /\ call[u].rows \subseteq could'[u] /\ call[u].total \in Nat
                 /\ call[u].total >= Cardinality(call[u].rows)
                 /\ call[u].parent # None => call[u].asked.row \in could'[u]
                 /\ call[u].audit # None => call[u].audit = call[u].rows
      BY <2>1, <2>2, <3>1 DEF CallInv, AnswerStands
    <3>2. ASSUME call[u].at = "done", kind # "ignores"
          PROVE  call[u].total <= Cardinality(could'[u])
      <4>1. call[u].total <= Cardinality(could[u]) /\ call[u].total \in Nat
        BY <2>1, <3>2 DEF CallInv, AnswerStands
      <4>2. Cardinality(could'[u]) \in Nat
        BY <2>2, ListsAreFinite
      <4> QED
        BY <2>7, <4>1, <4>2
    <3> QED
      BY <2>1, <3>1, <3>2 DEF AnswerStands
  <2> QED
    BY <2>4, <2>5, <2>6, <2>8 DEF CallInv
<1> QED
  BY <1>7, <1>8 DEF RelatedInv

LEMMA RelatedStep == RelatedInv /\ R!Next => RelatedInv'
<1> SUFFICES ASSUME RelatedInv, R!Next PROVE RelatedInv'
  OBVIOUS
<1>1. RelatedTyped
  BY DEF RelatedInv
<1>2. ASSUME NEW u \in Readers, R!Finish(u) PROVE RelatedInv'
  <2>1. R!Goes(u, R!Idle)
    BY <1>2 DEF R!Finish
  <2>2. ASSUME call'[u] = R!Idle PROVE CallInv(u)'
    <3>1. R!Idle.at = "idle"
      BY DEF R!Idle
    <3> QED
      BY <2>2, <3>1 DEF CallInv, Carried, CallCould, CallQuiet, AnswerStands, AnswerExact, R!Open
  <2> QED
    BY <2>1, <2>2, CallGoes
<1>3. ASSUME NEW d \in {"from", "to"}, R!Switch(d) PROVE RelatedInv'
  <2>1. on' \in [{"from", "to"} -> BOOLEAN] /\ value' = value /\ may' = may /\ R!Changed
    BY <1>1, <1>3 DEF R!Switch, RelatedTyped
  <2> QED
    BY <1>1, <2>1, OthersChange DEF RelatedTyped
<1>4. ASSUME NEW u \in Readers, NEW r \in FromRows, R!Share(u, r) PROVE RelatedInv'
  <2>1. on' = on /\ value' = value /\ may' \in [Readers -> SUBSET FromRows] /\ R!Changed
    BY <1>1, <1>4 DEF R!Share, RelatedTyped
  <2> QED
    BY <1>1, <2>1, OthersChange DEF RelatedTyped
<1>5. ASSUME NEW r \in FromRows, NEW t \in Targets \cup {None}, R!Relink(r, t) PROVE RelatedInv'
  <2>1. /\ value[r] # None /\ value' = [value EXCEPT ![r] = t] /\ on' = on /\ may' = may /\ R!Changed
    BY <1>5 DEF R!Relink
  <2>2. value' \in [FromRows -> Targets \cup {None}] /\ \A q \in FromRows : value'[q] # None => value[q] # None
    BY <1>1, <2>1 DEF RelatedTyped
  <2> QED
    BY <1>1, <2>1, <2>2, OthersChange DEF RelatedTyped
<1> QED
  BY <1>2, <1>3, <1>4, <1>5, VerdictStep, FoundStep, FieldStep, ListBegins, ItemBegins DEF R!Next

LEMMA RelatedPartHolds == SpecReading => []RelatedPart
<1>1. InitReading => RelatedPart
  BY RelatedInit DEF InitReading, RelatedPart
<1>2. RelatedPart /\ [NextReading]_all => RelatedPart'
  <2> SUFFICES ASSUME RelatedPart, [NextReading]_all, part' = "relations" PROVE RelatedInv'
    BY DEF RelatedPart
  <2>1. CASE R!Next /\ part = "relations"
    BY <2>1, RelatedStep DEF RelatedPart
  <2>2. CASE UNCHANGED <<all>>
    <3>1. UNCHANGED <<on, value, admins, may, kind, call, could, quiet, relinks>> /\ part = "relations"
      BY <2>2 DEF all, relationsOnly
    <3>2. RelatedTyped'
      BY <3>1 DEF RelatedPart, RelatedInv, RelatedTyped
    <3>3. ASSUME NEW u \in Readers PROVE CallInv(u)'
      BY <3>1, CallRests DEF RelatedPart, RelatedInv
    <3> QED
      BY <3>2, <3>3 DEF RelatedInv
  <2> QED
    BY <2>1, <2>2 DEF NextReading
<1> QED
  BY <1>1, <1>2, PTL DEF SpecReading

(* For any rows, shares, links and pages, however cubes treat the ids they *)
(* are given and whatever changes between verdict, search and answer: a    *)
(* related page, count or parent is of rows the caller could read at some  *)
(* time of the call.                                                       *)
THEOREM RelatedStaysReadable == SpecReading => []RelatedWasReadable
<1>1. RelatedPart => RelatedWasReadable
  <2> SUFFICES ASSUME RelatedInv PROVE R!TypeOK /\ R!AnswersWereReadable
    BY DEF RelatedPart, RelatedWasReadable
  <2>1. ASSUME NEW u \in Readers
        PROVE  call[u].at \in {"idle", "search", "found", "field", "value", "done"}
    <3>1. Carried(call[u])
      BY DEF RelatedInv, CallInv
    <3>2. ASSUME NEW c, Carried(c) PROVE c.at \in {"idle", "search", "found", "field", "value", "done"}
      <4>1. c = R!Idle => c.at = "idle"
        BY DEF R!Idle
      <4> QED
        BY <3>2, <4>1 DEF Carried
    <3> QED
      BY <3>1, <3>2
  <2>2. ASSUME NEW u \in Readers, call[u].at = "done"
        PROVE  /\ call[u].rows \subseteq FromRows /\ call[u].total >= R!Cardinality(call[u].rows)
               /\ call[u].rows \subseteq could[u]
               /\ kind # "ignores" => call[u].total <= R!Cardinality(could[u])
               /\ call[u].parent # None => call[u].asked.row \in could[u]
    <3>1. AnswerStands(u) /\ could[u] \subseteq FromRows
      BY DEF RelatedInv, RelatedTyped, CallInv
    <3>2. /\ R!Cardinality(call[u].rows) = Cardinality(call[u].rows)
          /\ R!Cardinality(could[u]) = Cardinality(could[u])
      BY CountsAlike
    <3> QED
      BY <2>2, <3>1, <3>2 DEF AnswerStands
  <2>3. R!TypeOK
    BY <2>1, <2>2 DEF RelatedInv, RelatedTyped, R!TypeOK, R!Answered
  <2>4. R!AnswersWereReadable
    BY <2>2 DEF R!AnswersWereReadable, R!Answered
  <2> QED
    BY <2>3, <2>4
<1> QED
  BY RelatedPartHolds, <1>1, PTL

(* The audit of a list names exactly the rows that were shown, and a call  *)
(* during which nothing changed answers exactly the asked page of the rows *)
(* the caller may read, and how many there are.                            *)
THEOREM RelatedStaysExact == SpecReading => []RelatedIsExact
<1>1. RelatedPart => RelatedIsExact
  <2> SUFFICES ASSUME RelatedInv PROVE R!AuditIsTheAnswer /\ R!QuietAnswerIsExact
    BY DEF RelatedPart, RelatedIsExact
  <2>1. R!AuditIsTheAnswer
    BY DEF RelatedInv, CallInv, AnswerStands, R!AuditIsTheAnswer, R!Answered
  <2>2. ASSUME NEW u \in Readers, R!Answered(u), quiet[u], R!IsList(u), kind # "ignores"
        PROVE  LET list == R!PointingAt(call[u].asked.target, R!Readable(u))
               IN call[u].rows = R!PageOf(list, call[u].asked.page) /\ call[u].total = R!Cardinality(list)
    <3>1. AllOf(call[u], R!PointingAt(call[u].asked.target, R!Readable(u)))
      BY <2>2 DEF RelatedInv, CallInv, AnswerExact, R!Answered
    <3> QED
      BY <3>1, CountsAlike DEF AllOf
  <2>3. R!QuietAnswerIsExact
    BY <2>2 DEF R!QuietAnswerIsExact
  <2> QED
    BY <2>1, <2>3
<1> QED
  BY RelatedPartHolds, <1>1, PTL
=============================================================================
