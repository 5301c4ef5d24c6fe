--------------------- MODULE MCDefinitionSnapshot_proofs ---------------------
(***************************************************************************)
(* Proofs about DefinitionSnapshot, for any number of cubes, requests,     *)
(* restarts and other instances, and about CustomFields, for any number of *)
(* callers, definitions and rows.                                          *)
(***************************************************************************)
EXTENDS MCDefinitionSnapshot, FiniteSetTheorems, SequenceTheorems, TLAPS

(* Tickets are handed out in increasing order.                             *)
TicketInv ==
  /\ \A q \in Refreshes : stage[q] \in Ticketed => ticket[q] <= reads
  /\ \A k \in Keys : applied[k] <= reads

(* The store only grows, so a later ticket was drawn over a later store.   *)
BaseInv ==
  \A q \in Refreshes, c \in Cubes :
    stage[q] \in Ticketed =>
      /\ base[q][c] <= db[c]
      /\ \A p \in Refreshes :
           stage[p] \in Ticketed /\ ticket[p] <= ticket[q] => base[p][c] <= base[q][c]

(* A SELECT runs after its ticket was drawn.                               *)
GotInv ==
  \A q \in Refreshes, c \in Cubes :
    stage[q] = "fetched" /\ Covers(q, c) => got[q][c] >= base[q][c]

(* What the snapshot shows of a cube is at least the store at the time of  *)
(* any ticket not above the last one applied to the cube.                  *)
ServedInv ==
  \A q \in Refreshes, c \in Cubes :
    stage[q] \in Ticketed /\ ticket[q] <= Last(c) => snap[c] >= base[q][c]

(* A finished refresh was applied, or a later one already was.             *)
DoneInv ==
  \A q \in Refreshes, c \in Cubes :
    stage[q] = "done" /\ Covers(q, c) => ticket[q] <= Last(c)

IInv == TypeOK /\ TicketInv /\ BaseInv /\ GotInv /\ ServedInv /\ DoneInv

-----------------------------------------------------------------------------

LEMMA InitInv == Init => IInv
<1> SUFFICES ASSUME Init PROVE IInv
  OBVIOUS
<1> USE NamesAssumption DEF Init
<1>1. TypeOK
  BY DEF TypeOK, Counts, None, Keys, Refreshes, Stages
<1>2. TicketInv
  BY DEF TicketInv, Ticketed, Keys, Refreshes
<1>3. \A q \in Refreshes : stage[q] \in {"written", "idle"}
  BY DEF Refreshes
<1> QED
  BY <1>1, <1>2, <1>3 DEF IInv, BaseInv, GotInv, ServedInv, DoneInv, Ticketed

LEMMA TypeStep == TypeOK /\ [Next]_vars => TypeOK'
<1> SUFFICES ASSUME TypeOK, [Next]_vars PROVE TypeOK'
  OBVIOUS
<1> USE DEF TypeOK, Counts, None, Keys, Stages
<1>1. ASSUME NEW q \in Writers, NEW c \in Cubes, Change(q, c)
      PROVE  TypeOK'
  BY <1>1 DEF Change, Refreshes
<1>2. ASSUME NEW q \in Refreshes, Start(q)
      PROVE  TypeOK'
  BY <1>2 DEF Start
<1>3. ASSUME NEW q \in Refreshes, Fetch(q)
      PROVE  TypeOK'
  BY <1>3 DEF Fetch
<1>4. ASSUME NEW q \in Refreshes, Apply(q)
      PROVE  TypeOK'
  BY <1>4 DEF Apply, Greater
<1>5. ASSUME NEW q \in Refreshes, Fail(q)
      PROVE  TypeOK'
  BY <1>5 DEF Fail
<1>6. ASSUME NEW c \in Cubes, ForeignChange(c)
      PROVE  TypeOK'
  BY <1>6 DEF ForeignChange
<1>7. CASE Restart
  BY <1>7 DEF Restart
<1>8. CASE UNCHANGED vars
  BY <1>8 DEF vars
<1> QED
  BY <1>1, <1>2, <1>3, <1>4, <1>5, <1>6, <1>7, <1>8 DEF Next

(* What applying q does to the last ticket of each cube.                   *)
LEMMA ApplyEffect ==
  ASSUME IInv, NEW q \in Refreshes, Apply(q), NEW c \in Cubes
  PROVE  /\ ~ Covers(q, c) => Last(c)' = Last(c) /\ snap'[c] = snap[c]
         /\ Covers(q, c) /\ ticket[q] <= Last(c) => Last(c)' = Last(c) /\ snap'[c] = snap[c]
         /\ Covers(q, c) /\ Last(c) < ticket[q] => Last(c)' = ticket[q] /\ snap'[c] = got[q][c]
<1>1. /\ applied' = [applied EXCEPT ![scope[q]] = Greater(ticket[q], @)]
      /\ snap'[c] = IF Replaced(q, c) THEN got[q][c] ELSE snap[c]
  BY DEF Apply
<1>2. /\ applied[c] \in Nat /\ applied[All] \in Nat /\ ticket[q] \in Nat
      /\ c # All /\ scope[q] \in Keys
  BY NamesAssumption DEF IInv, TypeOK, Keys
<1>3. applied \in [Keys -> Nat] /\ c \in Keys /\ All \in Keys
  BY DEF IInv, TypeOK, Keys
<1> QED
  BY <1>1, <1>2, <1>3 DEF Last, Greater, Replaced, Covers

LEMMA InductiveStep == IInv /\ [Next]_vars => IInv'
<1> SUFFICES ASSUME IInv, [Next]_vars PROVE IInv'
  OBVIOUS
<1>0. TypeOK'
  BY TypeStep DEF IInv
<1> USE DEF IInv
<1>1. ASSUME NEW q \in Writers, NEW c \in Cubes, Change(q, c)
      PROVE  IInv'
  <2>1. \A p \in Refreshes : stage'[p] \in Ticketed \/ stage'[p] = "fetched" =>
                               stage'[p] = stage[p] /\ scope'[p] = scope[p]
    BY <1>1 DEF Change, TypeOK, Ticketed, Refreshes
  <2>2. \A d \in Cubes : db[d] <= db'[d] /\ Last(d)' = Last(d)
    BY <1>1 DEF Change, TypeOK, Counts, Last
  <2>3. /\ \A p \in Refreshes : base[p] \in Counts
        /\ db \in Counts /\ db' \in Counts
        /\ UNCHANGED <<snap, reads, applied, ticket, got, base>>
    BY <1>0, <1>1 DEF Change, TypeOK
  <2>4. TicketInv'
    BY <2>1, <2>3 DEF TicketInv
  <2>5. BaseInv'
    BY <2>1, <2>2, <2>3 DEF BaseInv, Counts
  <2>6. GotInv'
    BY <2>1, <2>3 DEF GotInv, Covers
  <2>7. ServedInv'
    BY <2>1, <2>2, <2>3 DEF ServedInv
  <2>8. DoneInv'
    BY <2>1, <2>2, <2>3 DEF DoneInv, Covers, Ticketed
  <2> QED
    BY <1>0, <2>4, <2>5, <2>6, <2>7, <2>8
<1>2. ASSUME NEW q \in Refreshes, Start(q)
      PROVE  IInv'
  <2>1. /\ ticket' = [ticket EXCEPT ![q] = reads + 1]
        /\ base' = [base EXCEPT ![q] = db]
        /\ stage' = [stage EXCEPT ![q] = "reading"]
        /\ reads' = reads + 1
        /\ UNCHANGED <<db, snap, applied, scope, got>>
    BY <1>2 DEF Start
  <2>2. \A c \in Cubes : Last(c)' = Last(c) /\ Last(c) <= reads
    BY <2>1 DEF Last, Greater, TicketInv, TypeOK, Keys
  <2>3. TicketInv'
    BY <2>1 DEF TicketInv, TypeOK, Ticketed
  <2>4. BaseInv'
    BY <2>1 DEF BaseInv, TicketInv, TypeOK, Ticketed, Counts
  <2>5. GotInv'
    BY <2>1 DEF GotInv, Covers, TypeOK
  <2>6. ServedInv'
    <3> SUFFICES ASSUME NEW p \in Refreshes, NEW c \in Cubes,
                        stage'[p] \in Ticketed, ticket'[p] <= Last(c)'
                 PROVE  snap'[c] >= base'[p][c]
      BY DEF ServedInv
    <3>1. p # q
      BY <2>1, <2>2 DEF TypeOK, Last, Greater, Keys
    <3> QED
      BY <3>1, <2>1, <2>2 DEF ServedInv, TypeOK
  <2>7. DoneInv'
    BY <2>1, <2>2 DEF DoneInv, Covers, TypeOK
  <2> QED
    BY <1>0, <2>3, <2>4, <2>5, <2>6, <2>7
<1>3. ASSUME NEW q \in Refreshes, Fetch(q)
      PROVE  IInv'
  <2>1. /\ got' = [got EXCEPT ![q] = [c \in Cubes |-> IF Covers(q, c) THEN db[c] ELSE 0]]
        /\ stage[q] = "reading"
        /\ stage' = [stage EXCEPT ![q] = "fetched"]
        /\ UNCHANGED <<db, snap, reads, applied, scope, ticket, base>>
    BY <1>3 DEF Fetch
  <2>2. \A p \in Refreshes : stage'[p] \in Ticketed => stage[p] \in Ticketed
    BY <2>1 DEF Ticketed, TypeOK
  <2>3. TicketInv'
    BY <2>1, <2>2 DEF TicketInv
  <2>4. BaseInv'
    BY <2>1, <2>2 DEF BaseInv
  <2>5. GotInv'
    <3> SUFFICES ASSUME NEW p \in Refreshes, NEW c \in Cubes,
                        stage'[p] = "fetched", Covers(p, c)
                 PROVE  got'[p][c] >= base[p][c]
      BY <2>1 DEF GotInv, Covers
    <3>1. CASE p = q
      BY <3>1, <2>1 DEF BaseInv, TypeOK, Ticketed, Counts
    <3>2. CASE p # q
      BY <3>2, <2>1 DEF GotInv, TypeOK
    <3> QED
      BY <3>1, <3>2
  <2>6. ServedInv'
    BY <2>1, <2>2 DEF ServedInv, Last
  <2>7. DoneInv'
    BY <2>1 DEF DoneInv, Covers, Last, TypeOK
  <2> QED
    BY <1>0, <2>3, <2>4, <2>5, <2>6, <2>7
<1>4. ASSUME NEW q \in Refreshes, Apply(q)
      PROVE  IInv'
  <2>1. /\ stage[q] = "fetched"
        /\ stage' = [stage EXCEPT ![q] = "done"]
        /\ got' = [got EXCEPT ![q] = None]
        /\ applied' = [applied EXCEPT ![scope[q]] = Greater(ticket[q], @)]
        /\ UNCHANGED <<db, reads, scope, ticket, base>>
    BY <1>4 DEF Apply
  <2>2. \A p \in Refreshes : stage'[p] \in Ticketed => stage[p] \in Ticketed
    BY <2>1 DEF Ticketed, TypeOK
  <2>3. TicketInv'
    <3>1. ticket[q] <= reads
      BY <2>1 DEF TicketInv, Ticketed
    <3> QED
      BY <2>1, <2>2, <3>1 DEF TicketInv, Greater, TypeOK
  <2>4. BaseInv'
    BY <2>1, <2>2 DEF BaseInv
  <2>5. GotInv'
    BY <2>1 DEF GotInv, Covers, TypeOK
  <2>6. ServedInv'
    <3> SUFFICES ASSUME NEW p \in Refreshes, NEW c \in Cubes,
                        stage[p] \in Ticketed, ticket[p] <= Last(c)'
                 PROVE  snap'[c] >= base[p][c]
      BY <2>1, <2>2 DEF ServedInv
    <3>1. CASE Covers(q, c) /\ Last(c) < ticket[q]
      <4>1. ticket[p] <= ticket[q] /\ snap'[c] = got[q][c]
        BY <1>4, <3>1, ApplyEffect
      <4>2. base[p][c] <= base[q][c] /\ got[q][c] >= base[q][c]
        BY <2>1, <3>1, <4>1 DEF BaseInv, GotInv, Ticketed
      <4> QED
        BY <4>1, <4>2 DEF TypeOK, Counts
    <3>2. CASE ~ (Covers(q, c) /\ Last(c) < ticket[q])
      <4>1. Last(c) \in Nat /\ ticket[q] \in Nat
        BY DEF Last, Greater, TypeOK, Keys
      <4>2. Last(c)' = Last(c) /\ snap'[c] = snap[c]
        BY <1>4, <3>2, <4>1, ApplyEffect
      <4> QED
        BY <4>2 DEF ServedInv
    <3> QED
      BY <3>1, <3>2
  <2>7. DoneInv'
    <3> SUFFICES ASSUME NEW p \in Refreshes, NEW c \in Cubes, stage'[p] = "done", Covers(p, c)
                 PROVE  ticket[p] <= Last(c)'
      BY <2>1 DEF DoneInv, Covers
    <3>1. Last(c) \in Nat /\ ticket[q] \in Nat /\ ticket[p] \in Nat
      BY DEF Last, Greater, TypeOK, Keys
    <3>2. Last(c) <= Last(c)'
      BY <1>4, <3>1, ApplyEffect
    <3>3. CASE p = q
      BY <1>4, <3>1, <3>3, ApplyEffect
    <3>4. CASE p # q
      <4>1. ticket[p] <= Last(c)
        BY <2>1, <3>4 DEF DoneInv, TypeOK
      <4>2. Last(c)' \in Nat
        BY <1>0 DEF Last, Greater, TypeOK, Keys
      <4> QED
        BY <3>1, <3>2, <4>1, <4>2
    <3> QED
      BY <3>3, <3>4
  <2> QED
    BY <1>0, <2>3, <2>4, <2>5, <2>6, <2>7
<1>5. ASSUME NEW q \in Refreshes, Fail(q)
      PROVE  IInv'
  <2>1. /\ \A p \in Refreshes : stage'[p] \in Ticketed => stage'[p] = stage[p]
        /\ UNCHANGED <<db, snap, reads, applied, scope, ticket, got, base>>
    BY <1>5 DEF Fail, Ticketed, TypeOK
  <2> QED
    BY <1>0, <2>1 DEF TicketInv, BaseInv, GotInv, ServedInv, DoneInv, Covers, Last, Ticketed
<1>6. ASSUME NEW c \in Cubes, ForeignChange(c)
      PROVE  IInv'
  <2>1. /\ UNCHANGED <<snap, reads, applied, stage, scope, ticket, got, base>>
        /\ \A d \in Cubes : db[d] <= db'[d]
    BY <1>6 DEF ForeignChange, TypeOK, Counts
  <2>2. BaseInv'
    BY <1>0, <2>1 DEF BaseInv, TypeOK, Counts
  <2> QED
    BY <1>0, <2>1, <2>2 DEF TicketInv, GotInv, ServedInv, DoneInv, Covers, Last
<1>7. CASE Restart
  <2>1. \A q \in Refreshes : stage'[q] \in {"written", "idle", "gone"}
    BY <1>7 DEF Restart, TypeOK
  <2>2. reads' = 0 /\ \A k \in Keys : applied'[k] = 0
    BY <1>7 DEF Restart
  <2> QED
    BY <1>0, <2>1, <2>2 DEF TicketInv, BaseInv, GotInv, ServedInv, DoneInv, Ticketed
<1>8. CASE UNCHANGED vars
  BY <1>0, <1>8 DEF vars, TicketInv, BaseInv, GotInv, ServedInv, DoneInv, Covers, Last
<1> QED
  BY <1>1, <1>2, <1>3, <1>4, <1>5, <1>6, <1>7, <1>8 DEF Next

LEMMA Inductive == Spec => []IInv
  BY InitInv, InductiveStep, PTL DEF Spec

(* The snapshot's state always has its type.                               *)
THEOREM SnapshotTypeCorrect == Spec => []TypeOK
<1>1. IInv => TypeOK
  BY DEF IInv
<1> QED
  BY Inductive, <1>1, PTL

(* A finished refresh is served for as long as the process lives, whatever *)
(* the order in which concurrent reads run and answer.                     *)
THEOREM TicketsServe == Spec => []FinishedRefreshIsServed
<1>1. IInv => FinishedRefreshIsServed
  BY DEF IInv, ServedInv, DoneInv, FinishedRefreshIsServed, Ticketed
<1> QED
  BY Inductive, <1>1, PTL
-----------------------------------------------------------------------------
(* Why a step back of the snapshot is always over a pending change.        *)

(* Nothing that was read, or is shown, is newer than the store.            *)
HeldInv ==
  \A c \in Cubes :
    /\ snap[c] <= db[c]
    /\ \A q \in Refreshes : got[q][c] <= db[c]

(* Request q committed a change to cube c, and the store of c has stood    *)
(* still since q's refresh began, if it began.                             *)
Latest(q, c) ==
  /\ scope[q] = c
  /\ \/ stage[q] \in {"written", "failed", "gone"}
     \/ stage[q] \in Ticketed /\ base[q][c] = db[c]

(* With no other instance, either some request made the latest change to   *)
(* a cube, or every refresh under way began with what the store holds.     *)
PendingInv ==
  foreign = 0 =>
    \A c \in Cubes :
      \/ \E q \in Writers : Latest(q, c)
      \/ \A q \in Refreshes : stage[q] \in Ticketed => base[q][c] = db[c]

StepInv == IInv /\ HeldInv /\ PendingInv

LEMMA HeldStep == IInv /\ HeldInv /\ [Next]_vars => HeldInv'
<1> SUFFICES ASSUME IInv, HeldInv, [Next]_vars PROVE HeldInv'
  OBVIOUS
<1> USE DEF IInv, HeldInv, TypeOK, Counts
<1>1. ASSUME NEW q \in Writers, NEW c \in Cubes, Change(q, c)
      PROVE  HeldInv'
  BY <1>1 DEF Change
<1>2. ASSUME NEW q \in Refreshes, Fetch(q)
      PROVE  HeldInv'
  BY <1>2 DEF Fetch
<1>3. ASSUME NEW q \in Refreshes, Apply(q)
      PROVE  HeldInv'
  BY <1>3 DEF Apply, None
<1>4. ASSUME NEW q \in Refreshes, Start(q) \/ Fail(q)
      PROVE  HeldInv'
  BY <1>4 DEF Start, Fail
<1>5. ASSUME NEW c \in Cubes, ForeignChange(c)
      PROVE  HeldInv'
  BY <1>5 DEF ForeignChange
<1>6. CASE Restart
  BY <1>6 DEF Restart, None
<1>7. CASE UNCHANGED vars
  BY <1>7 DEF vars
<1> QED
  BY <1>1, <1>2, <1>3, <1>4, <1>5, <1>6, <1>7 DEF Next

LEMMA PendingStep == IInv /\ PendingInv /\ [Next]_vars => PendingInv'
<1> SUFFICES ASSUME IInv, PendingInv, [Next]_vars, foreign' = 0, NEW c \in Cubes
             PROVE  \/ \E q \in Writers : Latest(q, c)'
                    \/ \A q \in Refreshes : stage'[q] \in Ticketed => base'[q][c] = db'[c]
  BY DEF PendingInv
<1> USE DEF IInv, TypeOK, Counts
<1>1. ASSUME NEW p \in Writers, NEW d \in Cubes, Change(p, d)
      PROVE  \/ \E q \in Writers : Latest(q, c)'
             \/ \A q \in Refreshes : stage'[q] \in Ticketed => base'[q][c] = db'[c]
  <2>1. CASE c = d
    <3>1. Latest(p, c)'
      BY <1>1, <2>1 DEF Change, Latest, Refreshes
    <3> QED
      BY <3>1
  <2>2. CASE c # d
    <3>1. \A q \in Writers : Latest(q, c) => Latest(q, c)'
      BY <1>1, <2>2 DEF Change, Latest, Ticketed, Refreshes
    <3> QED
      BY <1>1, <2>2, <3>1 DEF Change, PendingInv, Ticketed, Refreshes
  <2> QED
    BY <2>1, <2>2
<1>2. ASSUME NEW p \in Refreshes, Start(p) \/ Fetch(p) \/ Apply(p) \/ Fail(p)
      PROVE  \/ \E q \in Writers : Latest(q, c)'
             \/ \A q \in Refreshes : stage'[q] \in Ticketed => base'[q][c] = db'[c]
  <2>1. \A q \in Writers : Latest(q, c) => Latest(q, c)'
    BY <1>2 DEF Start, Fetch, Apply, Fail, Latest, Ticketed, Refreshes
  <2>2. \A q \in Refreshes : stage'[q] \in Ticketed =>
          base'[q][c] = db'[c] \/ (stage[q] \in Ticketed /\ base'[q][c] = base[q][c])
    BY <1>2 DEF Start, Fetch, Apply, Fail, Ticketed
  <2>3. db' = db /\ foreign' = foreign
    BY <1>2 DEF Start, Fetch, Apply, Fail
  <2> QED
    BY <2>1, <2>2, <2>3 DEF PendingInv
<1>3. ASSUME NEW d \in Cubes, ForeignChange(d)
      PROVE  FALSE
  BY <1>3 DEF ForeignChange
<1>4. CASE Restart
  BY <1>4 DEF Restart, Ticketed
<1>5. CASE UNCHANGED vars
  BY <1>5 DEF vars, PendingInv, Latest
<1> QED
  BY <1>1, <1>2, <1>3, <1>4, <1>5 DEF Next

(* A snapshot that steps back applied a read that began before the latest  *)
(* change to the cube, so whoever made that change has not refreshed yet.  *)
LEMMA BackOverPending ==
  ASSUME StepInv, NEW q \in Refreshes, Apply(q), NEW c \in Cubes,
         snap'[c] < snap[c], foreign = 0
  PROVE  \E p \in Writers : scope[p] = c /\ stage'[p] \notin {"idle", "done"}
<1> USE DEF StepInv, IInv, TypeOK, Counts
<1>1. /\ Covers(q, c) /\ Last(c) < ticket[q]
      /\ snap'[c] = got[q][c]
      /\ stage[q] = "fetched"
      /\ stage' = [stage EXCEPT ![q] = "done"]
  BY DEF Apply, Replaced
<1>2. base[q][c] < db[c]
  <2>1. base[q][c] <= got[q][c] /\ snap[c] <= db[c]
    BY <1>1 DEF GotInv, HeldInv
  <2> QED
    BY <1>1, <2>1
<1>3. PICK p \in Writers : Latest(p, c)
  BY <1>1, <1>2 DEF PendingInv, Ticketed
<1>4. p # q /\ p \in Refreshes
  BY <1>1, <1>2, <1>3 DEF Latest, Refreshes
<1>5. stage[p] # "done"
  <2> SUFFICES ASSUME stage[p] = "done" PROVE FALSE
    OBVIOUS
  <2>1. base[p][c] = db[c] /\ Covers(p, c)
    BY <1>3 DEF Latest, Covers
  <2>2. ticket[p] <= Last(c)
    BY <1>4, <2>1 DEF DoneInv
  <2>3. ticket[p] <= ticket[q]
    BY <1>1, <1>4, <2>2 DEF Last, Greater, Keys
  <2>4. base[p][c] <= base[q][c]
    BY <1>1, <1>4, <2>3 DEF BaseInv, Ticketed
  <2> QED
    BY <1>2, <1>4, <2>1, <2>4
<1>6. stage'[p] = stage[p] /\ stage[p] # "idle" /\ scope[p] = c
  BY <1>1, <1>3, <1>4 DEF Latest, Ticketed
<1> QED
  BY <1>5, <1>6

(* What is shown may step back, but only over a change whose own refresh   *)
(* is still to come, failed or died, or that another instance made: for    *)
(* any number of requests whose reads overtake each other.                 *)
THEOREM StepsBackArePending == Spec => StepsBackOnlyOverPending
<1>1. Init => StepInv
  <2> SUFFICES ASSUME Init PROVE StepInv
    OBVIOUS
  <2>1. HeldInv
    <3> SUFFICES ASSUME NEW c \in Cubes, NEW q \in Refreshes
                 PROVE  snap[c] <= db[c] /\ got[q][c] <= db[c]
      BY DEF HeldInv, Refreshes
    <3>1. db[c] \in Nat
      BY InitInv DEF IInv, TypeOK, Counts
    <3>2. snap[c] = 0 /\ got[q][c] = 0
      BY DEF Init, None
    <3> QED
      BY <3>1, <3>2
  <2>2. PendingInv
    BY DEF Init, PendingInv, Ticketed
  <2> QED
    BY <2>1, <2>2, InitInv DEF StepInv
<1>2. StepInv /\ [Next]_vars => StepInv'
  BY InductiveStep, HeldStep, PendingStep DEF StepInv
<1>3. ASSUME StepInv, [Next]_vars, NEW c \in Cubes, snap'[c] < snap[c], lives' = lives
      PROVE  \/ foreign > 0
             \/ \E q \in Writers : scope[q] = c /\ stage'[q] \notin {"idle", "done"}
  <2> USE DEF StepInv, IInv, TypeOK, Counts
  <2>1. PICK q \in Refreshes : Apply(q)
    BY <1>3 DEF Next, vars, Change, Start, Fetch, Fail, ForeignChange, Restart
  <2>2. CASE foreign = 0
    BY <1>3, <2>1, <2>2, BackOverPending
  <2> QED
    BY <1>3, <2>2
<1>4. StepInv /\ [Next]_vars =>
        [\A c \in Cubes :
           snap'[c] < snap[c] /\ lives' = lives
             => \/ foreign > 0
                \/ \E q \in Writers : scope[q] = c /\ stage'[q] \notin {"idle", "done"}]_vars
  BY <1>3
<1> QED
  BY <1>1, <1>2, <1>4, PTL DEF Spec, StepsBackOnlyOverPending

-----------------------------------------------------------------------------
(* Custom fields: what requests validate against, and store.               *)

Values == (UNION Options) \cup {Blank}
Customs == UNION {[D -> Values] : D \in SUBSET Fields}
Defs == [name : Fields, accepts : Options, required : BOOLEAN, live : BOOLEAN,
         saw : Nat, back : BOOLEAN, ever : SUBSET Values]
Rows == [custom : Customs, deleted : BOOLEAN, firm : SUBSET Fields]

(* A custom object within the caps, each of whose values some definition   *)
(* of its name has accepted.                                               *)
Good(custom, table) ==
  /\ custom \in Customs
  /\ F!CheckCustomObject(custom)
  /\ \A n \in DOMAIN custom : \E i \in DOMAIN table : table[i].name = n /\ custom[n] \in table[i].ever

Filled(firm, custom) == \A n \in firm : n \in DOMAIN custom /\ custom[n] # Blank

RowOK(row, table) ==
  /\ row \in Rows
  /\ Good(row.custom, table)
  /\ row.firm \subseteq F!Firm(table)
  /\ Filled(row.firm, row.custom)

RowsOK(rows, table) == rows \in Seq(Rows) /\ \A r \in DOMAIN rows : RowOK(rows[r], table)

Excused(i, saw, name, table) == table[i].live /\ table[i].name = name => saw < i \/ table[i].back

(* `ever` keeps up with what a definition accepts, and twins have a cause. *)
TableOK(table) ==
  /\ table \in Seq(Defs)
  /\ \A i \in DOMAIN table : /\ table[i].accepts \subseteq table[i].ever
                             /\ ~ table[i].required => Blank \in table[i].ever
  /\ \A j \in DOMAIN table : \A i \in 1..(j - 1) :
       table[j].live => Excused(i, table[j].saw, table[j].name, table) \/ table[j].back

(* What a request read as a definition is in what some definition of the   *)
(* name has accepted.                                                      *)
Known(d, table) ==
  \E i \in DOMAIN table : /\ table[i].name = d.name
                          /\ d.accepts \subseteq table[i].ever
                          /\ ~ d.required => Blank \in table[i].ever

Whole(q) == q = [op |-> q.op, at |-> q.at, id |-> q.id, put |-> q.put, read |-> q.read,
                 own |-> q.own, saw |-> q.saw, firm |-> q.firm, found |-> q.found,
                 stood |-> q.stood, offset |-> q.offset, shrunk |-> q.shrunk, active |-> q.active]

Defining(q, table) ==
  q.at = "insert" =>
    /\ q.put \in [name : Fields, accepts : Options, required : BOOLEAN]
    /\ q.saw \in 0..Len(table)
    /\ \A i \in DOMAIN table : Excused(i, q.saw, q.put.name, table)

Editing(q, table) ==
  q.at \in {"select", "edit"} =>
    /\ q.id \in DOMAIN table
    /\ q.op # "remove" => q.put \in [accepts : Options, required : BOOLEAN]
    /\ q.at = "edit" => /\ q.own \in Defs
                        /\ q.own.name = table[q.id].name
                        /\ q.own.saw = table[q.id].saw

Reading(q, table) == q.at = "read" => \A d \in q.read : Known(d, table)

Creating(q, table) ==
  q.op = "create" /\ q.at = "read" =>
    /\ q.firm \subseteq F!Firm(table)
    /\ \A n \in q.firm : \E d \in q.read : d.name = n /\ d.required

(* A patch that has passed the fold does not empty what must stay.         *)
Passed(q, table, rows) ==
  LET new == F!Folded(q.read, q.put) IN
  Good(new, table) /\ \A n \in rows[q.id].firm : n \in DOMAIN new => new[n] # Blank

Patching(q, table, rows) ==
  /\ q.op \in {"patch", "delete", "form"} => q.id \in DOMAIN rows
  /\ q.op = "patch" /\ q.at = "read" =>
       \A n \in rows[q.id].firm, d \in q.read : d.name = n => d.required
  /\ q.at \in {"row", "merge"} => q.op \in {"patch", "delete"}
  /\ q.op = "patch" /\ q.at \in {"row", "merge"} => Passed(q, table, rows)
  /\ q.at = "merge" => /\ q.own \in Rows
                       /\ Good(q.own.custom, table)
                       /\ Filled(rows[q.id].firm, q.own.custom)

Forming(q, table) ==
  q.op = "form" =>
    /\ q.at \in {"defs", "read"} => F!NamesOf(F!DefinitionsFor(table)) \subseteq q.active
    /\ q.at = "read" => F!NamesOf(q.read) \subseteq q.active
    /\ q.at = "done" => {shown[1] : shown \in q.found} \subseteq q.active

(* Up to its offset a report has found what stood all along.               *)
Reporting(q, table, rows) ==
  q.op = "report" =>
    /\ q.offset \in Nat
    /\ q.at \in {"defs", "read"} => q.stood \subseteq F!OrphanValues(F!DefinitionsFor(table), rows)
    /\ q.at = "defs" => q.offset = 0
    /\ q.at = "read" => \A o \in q.stood :
         /\ o[2] \notin F!NamesOf(q.read)
         /\ ~ q.shrunk /\ F!Place(o[1], rows) <= q.offset => o \in q.found
    /\ q.at = "done" /\ ~ q.shrunk => q.stood \subseteq q.found

CallOK(q, table, rows) ==
  /\ Whole(q)
  /\ Defining(q, table)
  /\ Editing(q, table)
  /\ Reading(q, table)
  /\ Creating(q, table)
  /\ Patching(q, table, rows)
  /\ Forming(q, table)
  /\ Reporting(q, table, rows)

FieldsInv ==
  /\ TableOK(defs)
  /\ RowsOK(items, defs)
  /\ serving = [c \in Callers |-> serving[c]]
  /\ \A c \in Callers : CallOK(serving[c], defs, items)

(* What other calls may do to the definitions and the rows under a call.   *)
Grown(table, after) ==
  /\ DOMAIN table \subseteq DOMAIN after
  /\ \A i \in DOMAIN table :
       /\ after[i].name = table[i].name /\ after[i].saw = table[i].saw
       /\ table[i].ever \subseteq after[i].ever
       /\ table[i].back => after[i].back
       /\ after[i].live => table[i].live \/ after[i].back
  /\ \A i \in (DOMAIN after) \ (DOMAIN table) : i > Len(table)

Longer(rows, after) ==
  /\ DOMAIN rows \subseteq DOMAIN after
  /\ \A r \in DOMAIN rows : after[r].firm \subseteq rows[r].firm

-----------------------------------------------------------------------------

LEMMA GoodGrows ==
  ASSUME NEW table, NEW after, Grown(table, after), NEW custom, Good(custom, table)
  PROVE  Good(custom, after)
BY DEF Grown, Good

LEMMA KnownGrows ==
  ASSUME NEW table, NEW after, Grown(table, after), NEW d, Known(d, table)
  PROVE  Known(d, after)
BY DEF Grown, Known

LEMMA Sizes == ASSUME NEW S PROVE F!Cardinality(S) = Cardinality(S)
BY DEF F!Cardinality, Cardinality

LEMMA PlacesAreNat ==
  ASSUME NEW rows \in Seq(Rows), NEW k
  PROVE  /\ IsFiniteSet(F!WithCustom(rows))
         /\ IsFiniteSet({p \in F!WithCustom(rows) : p <= k})
         /\ F!Place(k, rows) = Cardinality({p \in F!WithCustom(rows) : p <= k})
         /\ F!Place(k, rows) \in Nat
<1>1. DOMAIN rows = 1..Len(rows) /\ Len(rows) \in Nat
  BY LenProperties
<1>2. IsFiniteSet(DOMAIN rows)
  BY <1>1, FS_Interval
<1>3. F!WithCustom(rows) \subseteq DOMAIN rows
  BY DEF F!WithCustom
<1>4. IsFiniteSet(F!WithCustom(rows))
  BY <1>2, <1>3, FS_Subset
<1>5. {p \in F!WithCustom(rows) : p <= k} \subseteq F!WithCustom(rows)
  OBVIOUS
<1>6. IsFiniteSet({p \in F!WithCustom(rows) : p <= k})
  BY <1>4, <1>5, FS_Subset
<1>7. F!Place(k, rows) = Cardinality({p \in F!WithCustom(rows) : p <= k})
  BY Sizes DEF F!Place
<1> QED
  BY <1>4, <1>6, <1>7, FS_CardinalityType

LEMMA PlacesGrow ==
  ASSUME NEW rows \in Seq(Rows), NEW after \in Seq(Rows), NEW k,
         F!WithCustom(rows) \subseteq F!WithCustom(after)
  PROVE  F!Place(k, rows) <= F!Place(k, after)
<1>1. {p \in F!WithCustom(rows) : p <= k} \subseteq {p \in F!WithCustom(after) : p <= k}
  OBVIOUS
<1>2. /\ F!Place(k, rows) = Cardinality({p \in F!WithCustom(rows) : p <= k})
      /\ F!Place(k, after) = Cardinality({p \in F!WithCustom(after) : p <= k})
      /\ IsFiniteSet({p \in F!WithCustom(after) : p <= k})
  BY PlacesAreNat
<1>3. Cardinality({p \in F!WithCustom(rows) : p <= k}) <= Cardinality({p \in F!WithCustom(after) : p <= k})
  BY <1>1, <1>2, FS_Subset
<1> QED
  BY <1>2, <1>3

Later(q, shrunk, table, rows) ==
  [q EXCEPT !.firm = @ \cap F!Firm(table),
            !.stood = @ \cap F!OrphanValues(F!DefinitionsFor(table), rows),
            !.active = @ \cup F!NamesOf(F!DefinitionsFor(table)),
            !.shrunk = shrunk]

(* A call in flight stays consistent with the tables as others write them. *)
LEMMA Carried ==
  ASSUME NEW table \in Seq(Defs), NEW t2 \in Seq(Defs), Grown(table, t2),
         NEW rows \in Seq(Rows), NEW r2 \in Seq(Rows), Longer(rows, r2),
         NEW q, CallOK(q, table, rows), NEW shrunk, q.shrunk => shrunk,
         ~ shrunk => \A r \in DOMAIN rows : rows[r].custom # F!Empty => r2[r].custom # F!Empty
  PROVE  CallOK(Later(q, shrunk, t2, r2), t2, r2)
<1> DEFINE q2 == Later(q, shrunk, t2, r2)
<1>0. /\ q2 = [q EXCEPT !.firm = @ \cap F!Firm(t2),
                        !.stood = @ \cap F!OrphanValues(F!DefinitionsFor(t2), r2),
                        !.active = @ \cup F!NamesOf(F!DefinitionsFor(t2)),
                        !.shrunk = shrunk]
      /\ Whole(q)
  BY DEF Later, CallOK
<1> HIDE DEF q2
<1>1. /\ Whole(q2)
      /\ q2.op = q.op /\ q2.at = q.at /\ q2.id = q.id /\ q2.put = q.put /\ q2.read = q.read
      /\ q2.own = q.own /\ q2.saw = q.saw /\ q2.found = q.found /\ q2.offset = q.offset
      /\ q2.firm = q.firm \cap F!Firm(t2)
      /\ q2.stood = q.stood \cap F!OrphanValues(F!DefinitionsFor(t2), r2)
      /\ q2.active = q.active \cup F!NamesOf(F!DefinitionsFor(t2))
      /\ q2.shrunk = shrunk
  BY <1>0 DEF Whole
<1>2. Defining(q2, t2)
  <2> SUFFICES ASSUME q.at = "insert" PROVE Defining(q2, t2)
    BY <1>1 DEF Defining
  <2>1. /\ DOMAIN table = 1..Len(table) /\ DOMAIN t2 = 1..Len(t2)
        /\ Len(table) \in Nat /\ Len(t2) \in Nat
    BY LenProperties
  <2>2. Len(table) <= Len(t2)
    BY <2>1 DEF Grown
  <2>3. q.saw \in 0..Len(table) /\ \A i \in DOMAIN table : Excused(i, q.saw, q.put.name, table)
    BY DEF CallOK, Defining
  <2>4. \A i \in DOMAIN t2 : Excused(i, q.saw, q.put.name, t2)
    <3> TAKE i \in DOMAIN t2
    <3>1. CASE i \in DOMAIN table
      BY <2>3, <3>1 DEF Excused, Grown
    <3>2. CASE i \notin DOMAIN table
      <4>1. i > Len(table)
        BY <3>2 DEF Grown
      <4> QED
        BY <2>1, <2>3, <4>1 DEF Excused
    <3> QED
      BY <3>1, <3>2
  <2> QED
    BY <1>1, <2>1, <2>2, <2>3, <2>4 DEF CallOK, Defining
<1>3. Editing(q2, t2)
  BY <1>1 DEF CallOK, Editing, Grown
<1>4. Reading(q2, t2)
  BY <1>1, KnownGrows DEF CallOK, Reading
<1>5. Creating(q2, t2)
  BY <1>1 DEF CallOK, Creating
<1>6. Patching(q2, t2, r2)
  <2>1. q.op \in {"patch", "delete", "form"} =>
          q.id \in DOMAIN rows /\ q.id \in DOMAIN r2 /\ r2[q.id].firm \subseteq rows[q.id].firm
    BY DEF CallOK, Patching, Longer
  <2>2. q.op = "patch" /\ q.at \in {"row", "merge"} => Passed(q2, t2, r2)
    BY <1>1, <2>1, GoodGrows DEF CallOK, Patching, Passed
  <2>3. q.at = "merge" => Filled(r2[q.id].firm, q.own.custom) /\ Good(q.own.custom, t2)
    BY <2>1, GoodGrows DEF CallOK, Patching, Filled
  <2> QED
    BY <1>1, <2>1, <2>2, <2>3 DEF CallOK, Patching
<1>7. Forming(q2, t2)
  BY <1>1 DEF CallOK, Forming
<1>8. Reporting(q2, t2, r2)
  <2> SUFFICES ASSUME q.op = "report" PROVE Reporting(q2, t2, r2)
    BY <1>1 DEF Reporting
  <2>1. q2.at = "read" => \A o \in q2.stood :
          /\ o[2] \notin F!NamesOf(q2.read)
          /\ ~ q2.shrunk /\ F!Place(o[1], r2) <= q2.offset => o \in q2.found
    <3> SUFFICES ASSUME q.at = "read", NEW o \in q.stood, ~ q2.shrunk, F!Place(o[1], r2) <= q.offset
                 PROVE  o \in q.found
      BY <1>1 DEF CallOK, Reporting
    <3>1. F!WithCustom(rows) \subseteq F!WithCustom(r2)
      BY <1>1 DEF F!WithCustom, Longer
    <3>2. F!Place(o[1], rows) <= F!Place(o[1], r2)
      BY <3>1, PlacesGrow
    <3>3. F!Place(o[1], rows) \in Nat /\ F!Place(o[1], r2) \in Nat /\ q.offset \in Nat
      BY PlacesAreNat DEF CallOK, Reporting
    <3>4. F!Place(o[1], rows) <= q.offset
      BY <3>2, <3>3
    <3>5. ~ q.shrunk
      BY <1>1
    <3> QED
      BY <3>4, <3>5 DEF CallOK, Reporting
  <2> QED
    BY <1>1, <2>1 DEF CallOK, Reporting
<1> QED
  BY <1>1, <1>2, <1>3, <1>4, <1>5, <1>6, <1>7, <1>8 DEF CallOK, q2

(* The places of rows with custom values are distinct.                     *)
LEMMA PlacesDiffer ==
  ASSUME NEW rows \in Seq(Rows), NEW p \in F!WithCustom(rows), NEW q \in F!WithCustom(rows), p < q
  PROVE  F!Place(p, rows) < F!Place(q, rows)
<1> DEFINE W == F!WithCustom(rows)
           upTo(k) == {r \in W : r <= k}
<1>1. W \subseteq Nat
  BY LenProperties DEF F!WithCustom
<1>2. /\ IsFiniteSet(upTo(q)) /\ F!Place(p, rows) = Cardinality(upTo(p))
      /\ F!Place(q, rows) = Cardinality(upTo(q))
      /\ F!Place(p, rows) \in Nat /\ F!Place(q, rows) \in Nat
  BY PlacesAreNat
<1>3. upTo(p) \subseteq upTo(q) /\ q \in upTo(q) /\ q \notin upTo(p)
  BY <1>1
<1> HIDE DEF upTo, W
<1>4. upTo(p) # upTo(q)
  BY <1>3
<1>5. Cardinality(upTo(p)) <= Cardinality(upTo(q)) /\ Cardinality(upTo(p)) # Cardinality(upTo(q))
  BY <1>2, <1>3, <1>4, FS_Subset
<1> QED
  BY <1>2, <1>5

(* So they are the numbers from one to how many such rows there are.       *)
LEMMA PlacesAreAll ==
  ASSUME NEW rows \in Seq(Rows), NEW v \in 1..Cardinality(F!WithCustom(rows))
  PROVE  \E p \in F!WithCustom(rows) : F!Place(p, rows) = v
<1> DEFINE W == F!WithCustom(rows)
           N == Cardinality(W)
<1>1. W \subseteq Nat
  BY LenProperties DEF F!WithCustom
<1>2. IsFiniteSet(W) /\ N \in Nat
  BY PlacesAreNat, FS_CardinalityType
<1>3. \A p \in W : F!Place(p, rows) \in 1..N
  <2> TAKE p \in W
  <2> DEFINE upTo == {r \in W : r <= p}
  <2>1. F!Place(p, rows) = Cardinality(upTo) /\ IsFiniteSet(upTo) /\ F!Place(p, rows) \in Nat
    BY PlacesAreNat
  <2>2. upTo \subseteq W /\ p \in upTo
    BY <1>1
  <2> HIDE DEF upTo, W
  <2>3. Cardinality(upTo) <= N /\ Cardinality(upTo) # 0
    BY <1>2, <2>1, <2>2, FS_Subset, FS_EmptySet
  <2> QED
    BY <1>2, <2>1, <2>3
<1>4. SUFFICES ASSUME \A p \in W : F!Place(p, rows) # v PROVE FALSE
  OBVIOUS
<1> DEFINE T == (1..N) \ {v}
           place == [p \in W |-> F!Place(p, rows)]
<1>5. place \in [W -> T]
  BY <1>3, <1>4
<1>6. IsFiniteSet(1..N) /\ Cardinality(1..N) = N
  BY <1>2, FS_Interval
<1>7. IsFiniteSet(T) /\ Cardinality(T) = N - 1
  BY <1>6, FS_RemoveElement
<1>8. Cardinality(T) < N
  BY <1>2, <1>7
<1> HIDE DEF W, T, N, place
<1>9. PICK p, q \in W : p # q /\ place[p] = place[q]
  BY <1>2, <1>5, <1>7, <1>8, FS_PigeonHole DEF N
<1>10. F!Place(p, rows) = F!Place(q, rows)
  BY <1>9 DEF place
<1>11. p < q \/ q < p
  BY <1>1, <1>9
<1>12. F!Place(p, rows) \in Nat /\ F!Place(q, rows) \in Nat
  BY PlacesAreNat
<1> QED
  BY <1>10, <1>11, <1>12, PlacesDiffer DEF W

(* Nothing is beyond a page that is not full.                              *)
LEMMA LastPageEnds ==
  ASSUME NEW rows \in Seq(Rows), NEW offset \in Nat, NEW k \in F!WithCustom(rows),
         Cardinality(F!PageFrom(offset, rows)) < PageSize
  PROVE  F!Place(k, rows) <= offset + PageSize
<1> DEFINE W == F!WithCustom(rows)
           N == Cardinality(W)
           page == F!PageFrom(offset, rows)
<1>0. PageSize \in Nat
  BY FieldsAssumption
<1>1. IsFiniteSet(W) /\ N \in Nat
  BY PlacesAreNat, FS_CardinalityType
<1>2. F!Place(k, rows) \in Nat /\ F!Place(k, rows) <= N
  <2> DEFINE upTo == {r \in W : r <= k}
  <2>1. F!Place(k, rows) = Cardinality(upTo) /\ F!Place(k, rows) \in Nat
    BY PlacesAreNat
  <2>2. upTo \subseteq W
    OBVIOUS
  <2> HIDE DEF upTo, W
  <2>3. Cardinality(upTo) <= N
    BY <1>1, <2>2, FS_Subset
  <2> QED
    BY <2>1, <2>3
<1>3. page = {r \in W : F!Place(r, rows) > offset /\ F!Place(r, rows) <= offset + PageSize}
  BY DEF F!PageFrom
<1>4. IsFiniteSet(page)
  BY <1>1, <1>3, FS_Subset
<1> SUFFICES ASSUME F!Place(k, rows) > offset + PageSize PROVE FALSE
  BY <1>0, <1>2
<1>5. \A i \in 1..PageSize : \E r \in W : F!Place(r, rows) = offset + i
  <2> TAKE i \in 1..PageSize
  <2>1. offset + i \in 1..N
    BY <1>0, <1>1, <1>2
  <2> QED
    BY <2>1, PlacesAreAll
<1> DEFINE row == [i \in 1..PageSize |-> CHOOSE r \in W : F!Place(r, rows) = offset + i]
<1>6. \A i \in 1..PageSize : row[i] \in W /\ F!Place(row[i], rows) = offset + i
  BY <1>5
<1>7. \A i \in 1..PageSize : offset + i > offset /\ offset + i <= offset + PageSize
  BY <1>0
<1>8. row \in [1..PageSize -> page]
  BY <1>3, <1>6, <1>7
<1>9. IsFiniteSet(1..PageSize) /\ Cardinality(1..PageSize) = PageSize
  BY <1>0, FS_Interval
<1>10. Cardinality(page) < Cardinality(1..PageSize)
  BY <1>9
<1> HIDE DEF W, N, page, row
<1>11. PICK i, j \in 1..PageSize : i # j /\ row[i] = row[j]
  BY <1>4, <1>8, <1>9, <1>10, FS_PigeonHole
<1>12. offset + i = offset + j
  BY <1>6, <1>11
<1> QED
  BY <1>0, <1>11, <1>12
-----------------------------------------------------------------------------

LEMMA Listed ==
  ASSUME NEW S, NEW n \in Nat, NEW h \in [1..n -> S]
  PROVE  h \in Seq(S) /\ Len(h) = n
OBVIOUS

LEMMA IdleFields ==
  /\ Whole(F!Idle)
  /\ F!Idle.op = "none" /\ F!Idle.at = "idle" /\ F!Idle.id = 0 /\ F!Idle.put = F!NoPut
  /\ F!Idle.read = {} /\ F!Idle.own = 0 /\ F!Idle.saw = 0 /\ F!Idle.firm = {} /\ F!Idle.found = {}
  /\ F!Idle.stood = {} /\ F!Idle.offset = 0 /\ F!Idle.shrunk = FALSE /\ F!Idle.active = {}
<1> DEFINE q == F!Idle
<1>1. q = [op |-> "none", at |-> "idle", id |-> 0, put |-> F!NoPut, read |-> {}, own |-> 0,
           saw |-> 0, firm |-> {}, found |-> {}, stood |-> {}, offset |-> 0,
           shrunk |-> FALSE, active |-> {}]
  BY DEF F!Idle
<1> HIDE DEF q
<1>2. /\ Whole(q)
      /\ q.op = "none" /\ q.at = "idle" /\ q.id = 0 /\ q.put = F!NoPut
      /\ q.read = {} /\ q.own = 0 /\ q.saw = 0 /\ q.firm = {} /\ q.found = {}
      /\ q.stood = {} /\ q.offset = 0 /\ q.shrunk = FALSE /\ q.active = {}
  BY <1>1 DEF Whole
<1> QED
  BY <1>2 DEF q

LEMMA IdleOK == ASSUME NEW table, NEW rows PROVE CallOK(F!Idle, table, rows)
BY IdleFields DEF CallOK, Defining, Editing, Reading, Creating, Patching, Forming, Reporting

(* A step of one call that stores nothing.                                 *)
LEMMA Turn ==
  ASSUME FieldsInv, NEW c \in Callers, NEW call, CallOK(call, defs, items),
         serving' = [serving EXCEPT ![c] = call], UNCHANGED <<defs, items>>
  PROVE  FieldsInv'
<1>1. /\ TableOK(defs) /\ RowsOK(items, defs)
      /\ serving = [b \in Callers |-> serving[b]]
      /\ \A b \in Callers : CallOK(serving[b], defs, items)
  BY DEF FieldsInv
<1>2. serving' = [b \in Callers |-> serving'[b]]
  BY <1>1
<1>3. \A b \in Callers : CallOK(serving'[b], defs, items)
  BY <1>1
<1> QED
  BY <1>1, <1>2, <1>3 DEF FieldsInv

LEMMA Witnessed ==
  ASSUME FieldsInv, NEW c \in Callers, NEW t2 \in Seq(Defs), Grown(defs, t2),
         NEW r2 \in Seq(Rows), Longer(items, r2), NEW rows,
         F!OrphanValues(F!DefinitionsFor(t2), r2) = F!OrphanValues(F!DefinitionsFor(t2), rows),
         \A r \in DOMAIN items : rows[r].custom = r2[r].custom,
         serving' = F!Witness(c, t2, rows)
  PROVE  /\ serving' = [b \in Callers |-> serving'[b]]
         /\ \A b \in Callers : CallOK(serving'[b], t2, r2)
<1>1. /\ defs \in Seq(Defs) /\ items \in Seq(Rows)
      /\ \A b \in Callers : CallOK(serving[b], defs, items)
  BY DEF FieldsInv, TableOK, RowsOK
<1>2. serving' = [b \in Callers |-> IF b = c THEN F!Idle ELSE F!Seen(serving[b], t2, rows)]
  BY DEF F!Witness
<1>3. serving' = [b \in Callers |-> serving'[b]]
  BY <1>2
<1>4. ASSUME NEW b \in Callers
      PROVE  CallOK(serving'[b], t2, r2)
  <2>1. CASE b = c
    BY <1>2, <2>1, IdleOK
  <2>2. CASE b # c
    <3> DEFINE q == serving[b]
               q2 == serving'[b]
    <3>1. q2 = F!Seen(q, t2, rows) /\ CallOK(q, defs, items)
      BY <1>1, <1>2, <2>2
    <3>2. CASE q.at \in {"idle", "done"}
      <4>1. q2 = q
        BY <3>1, <3>2 DEF F!Seen
      <4>2. /\ Longer(items, r2) /\ Grown(defs, t2)
        OBVIOUS
      <4> HIDE DEF q, q2
      <4>3. CallOK(q, t2, r2)
        BY <3>1, <3>2, <4>2 DEF CallOK, Defining, Editing, Reading, Creating, Patching, Forming, Reporting, Longer
      <4> QED
        BY <4>1, <4>3 DEF q2
    <3>3. CASE q.at \notin {"idle", "done"}
      <4> DEFINE shrank == \E r \in DOMAIN items : items[r].custom # F!Empty /\ rows[r].custom = F!Empty
      <4>1. q2 = [q EXCEPT !.firm = @ \cap F!Firm(t2),
                           !.stood = @ \cap F!OrphanValues(F!DefinitionsFor(t2), rows),
                           !.active = @ \cup F!NamesOf(F!DefinitionsFor(t2)),
                           !.shrunk = @ \/ shrank]
        BY <3>1, <3>3 DEF F!Seen, F!Shrinks
      <4>2. Whole(q)
        BY <3>1 DEF CallOK
      <4>3. q2.shrunk = (q.shrunk \/ shrank)
        BY <4>1, <4>2 DEF Whole
      <4>4. /\ q.shrunk => q2.shrunk
            /\ ~ q2.shrunk => \A r \in DOMAIN items : items[r].custom # F!Empty => r2[r].custom # F!Empty
        BY <4>3
      <4>5. q2 = Later(q, q2.shrunk, t2, r2)
        BY <4>1, <4>3 DEF Later
      <4> HIDE DEF q, q2, shrank
      <4>6. CallOK(Later(q, q2.shrunk, t2, r2), t2, r2)
        BY <1>1, <3>1, <4>4, Carried
      <4> QED
        BY <4>5, <4>6 DEF q2
    <3> QED
      BY <3>2, <3>3
  <2> QED
    BY <2>1, <2>2
<1> QED
  BY <1>3, <1>4

LEMMA SameOrphans ==
  ASSUME NEW ds, NEW rows, NEW after, DOMAIN after = DOMAIN rows,
         \A r \in DOMAIN rows : after[r].custom = rows[r].custom
  PROVE  F!OrphanValues(ds, after) = F!OrphanValues(ds, rows)
<1>1. \A o \in (DOMAIN rows) \X Fields : after[o[1]].custom = rows[o[1]].custom
  OBVIOUS
<1> QED
  BY <1>1 DEF F!OrphanValues

(* A step that stores definitions.                                         *)
LEMMA DefsStored ==
  ASSUME FieldsInv, NEW c \in Callers, NEW table, TableOK(table), Grown(defs, table),
         F!StoreDefs(c, table)
  PROVE  FieldsInv'
<1>1. /\ defs' = table
      /\ items' = [r \in DOMAIN items |-> [items[r] EXCEPT !.firm = @ \cap F!Firm(table)]]
      /\ serving' = F!Witness(c, table, items)
  BY DEF F!StoreDefs
<1>2. items \in Seq(Rows) /\ \A r \in DOMAIN items : RowOK(items[r], defs)
  BY DEF FieldsInv, RowsOK
<1>3. DOMAIN items = 1..Len(items) /\ Len(items) \in Nat
  BY <1>2, LenProperties
<1>4. ASSUME NEW r \in DOMAIN items
      PROVE  RowOK(items'[r], table) /\ items'[r].custom = items[r].custom /\ items'[r].firm \subseteq items[r].firm
  <2> DEFINE row == items[r]
             new == items'[r]
  <2>1. RowOK(row, defs) /\ new = [row EXCEPT !.firm = @ \cap F!Firm(table)]
    BY <1>1, <1>2
  <2> HIDE DEF row, new
  <2>2. row \in Rows
    BY <2>1 DEF RowOK
  <2>3. new.custom = row.custom /\ new.firm = row.firm \cap F!Firm(table) /\ new \in Rows
    BY <2>1, <2>2 DEF Rows
  <2>4. Good(new.custom, table)
    BY <2>1, <2>3, GoodGrows DEF RowOK
  <2>5. RowOK(new, table)
    BY <2>1, <2>3, <2>4 DEF RowOK, Filled
  <2> QED
    BY <2>3, <2>5 DEF row, new
<1>5. items' \in [1..Len(items) -> Rows]
  BY <1>1, <1>3, <1>4 DEF RowOK
<1>6. items' \in Seq(Rows) /\ DOMAIN items' = DOMAIN items
  BY <1>1, <1>3, <1>5, Listed
<1>7. Longer(items, items') /\ RowsOK(items', table)
  BY <1>4, <1>6 DEF Longer, RowsOK
<1>8. F!OrphanValues(F!DefinitionsFor(table), items') = F!OrphanValues(F!DefinitionsFor(table), items)
  BY <1>4, <1>6, SameOrphans
<1>9. table \in Seq(Defs)
  BY DEF TableOK
<1>10. /\ serving' = [b \in Callers |-> serving'[b]]
       /\ \A b \in Callers : CallOK(serving'[b], table, items')
  BY <1>1, <1>4, <1>6, <1>7, <1>8, <1>9, Witnessed
<1> QED
  BY <1>1, <1>7, <1>10 DEF FieldsInv

(* A step that stores rows.                                                *)
LEMMA RowsStored ==
  ASSUME FieldsInv, NEW c \in Callers, NEW rows, RowsOK(rows, defs), Longer(items, rows),
         F!StoreItems(c, rows)
  PROVE  FieldsInv'
<1>1. items' = rows /\ defs' = defs /\ serving' = F!Witness(c, defs, rows)
  BY DEF F!StoreItems
<1>2. defs \in Seq(Defs) /\ TableOK(defs) /\ rows \in Seq(Rows)
  BY DEF FieldsInv, RowsOK, TableOK
<1>3. Grown(defs, defs)
  BY DEF Grown
<1>4. /\ serving' = [b \in Callers |-> serving'[b]]
      /\ \A b \in Callers : CallOK(serving'[b], defs, rows)
  BY <1>1, <1>2, <1>3, Witnessed
<1> QED
  BY <1>1, <1>2, <1>4 DEF FieldsInv

-----------------------------------------------------------------------------

LEMMA CallFacts ==
  ASSUME FieldsInv, NEW c \in Callers
  PROVE  /\ CallOK(serving[c], defs, items) /\ Whole(serving[c])
         /\ TableOK(defs) /\ RowsOK(items, defs)
         /\ defs \in Seq(Defs) /\ items \in Seq(Rows)
         /\ DOMAIN defs = 1..Len(defs) /\ Len(defs) \in Nat
         /\ DOMAIN items = 1..Len(items) /\ Len(items) \in Nat
         /\ serving = [b \in Callers |-> serving[b]]
<1>1. /\ CallOK(serving[c], defs, items) /\ TableOK(defs) /\ RowsOK(items, defs)
      /\ serving = [b \in Callers |-> serving[b]]
  BY DEF FieldsInv
<1>2. defs \in Seq(Defs) /\ items \in Seq(Rows)
  BY <1>1 DEF TableOK, RowsOK
<1> QED
  BY <1>1, <1>2, LenProperties DEF CallOK

LEMMA EndStep ==
  ASSUME FieldsInv, NEW c \in Callers, F!End(c)
  PROVE  FieldsInv'
<1>1. serving' = [serving EXCEPT ![c] = F!Idle] /\ UNCHANGED <<defs, items>>
  BY DEF F!End
<1> QED
  BY <1>1, IdleOK, Turn

LEMMA DefineStep ==
  ASSUME FieldsInv, NEW c \in Callers, F!Define(c)
  PROVE  FieldsInv'
<1>1. PICK n \in Fields, accepts \in Options, required \in BOOLEAN :
        /\ n \notin F!NamesOf(F!DefinitionsFor(defs))
        /\ F!Ask(c, [F!Idle EXCEPT !.op = "define", !.at = "insert", !.saw = Len(defs),
                     !.put = [name |-> n, accepts |-> accepts, required |-> required]])
  BY DEF F!Define
<1> DEFINE q == [F!Idle EXCEPT !.op = "define", !.at = "insert", !.saw = Len(defs),
                 !.put = [name |-> n, accepts |-> accepts, required |-> required]]
<1>2. serving' = [serving EXCEPT ![c] = q] /\ UNCHANGED <<defs, items>>
  BY <1>1 DEF F!Ask
<1>q. q = [F!Idle EXCEPT !.op = "define", !.at = "insert", !.saw = Len(defs),
                 !.put = [name |-> n, accepts |-> accepts, required |-> required]]
  OBVIOUS
<1> HIDE DEF q
<1>3. /\ q.op = "define" /\ q.at = "insert" /\ q.saw = Len(defs)
      /\ q.put = [name |-> n, accepts |-> accepts, required |-> required]
      /\ Whole(q)
  BY <1>q, IdleFields DEF Whole
<1>4. \A i \in DOMAIN defs : ~ (defs[i].live /\ defs[i].name = n)
  <2> SUFFICES ASSUME NEW i \in DOMAIN defs, defs[i].live, defs[i].name = n PROVE FALSE
    OBVIOUS
  <2>1. F!Definition(defs[i]) \in F!DefinitionsFor(defs)
    BY DEF F!DefinitionsFor
  <2>2. F!Definition(defs[i]).name = n
    BY DEF F!Definition
  <2> QED
    BY <1>1, <2>1, <2>2 DEF F!NamesOf
<1>5. Defining(q, defs)
  BY <1>3, <1>4, CallFacts DEF Defining, Excused
<1>6. CallOK(q, defs, items)
  BY <1>3, <1>5 DEF CallOK, Editing, Reading, Creating, Patching, Forming, Reporting
<1> QED
  BY <1>2, <1>6, Turn

LEMMA InsertStep ==
  ASSUME FieldsInv, NEW c \in Callers, F!InsertDefinition(c)
  PROVE  FieldsInv'
<1> DEFINE d == serving[c].put
           new == [name |-> d.name, accepts |-> d.accepts, required |-> d.required,
                   live |-> TRUE, saw |-> serving[c].saw, back |-> FALSE,
                   ever |-> d.accepts \cup (IF d.required THEN {} ELSE {Blank})]
           table == Append(defs, new)
<1>1. serving[c].at = "insert" /\ F!StoreDefs(c, table)
  BY DEF F!InsertDefinition
<1>2. /\ d \in [name : Fields, accepts : Options, required : BOOLEAN]
      /\ serving[c].saw \in 0..Len(defs)
      /\ \A i \in DOMAIN defs : Excused(i, serving[c].saw, d.name, defs)
  BY <1>1, CallFacts DEF CallOK, Defining
<1>3. serving[c].saw \in Nat /\ d.accepts \in Options /\ d.name \in Fields /\ d.required \in BOOLEAN
  BY <1>2, CallFacts
<1>4. new.ever \in SUBSET Values /\ d.accepts \subseteq new.ever /\ (~ d.required => Blank \in new.ever)
  BY <1>3 DEF Values
<1>5. new \in Defs
  BY <1>3, <1>4 DEF Defs
<1>6. /\ new.name = d.name /\ new.accepts = d.accepts /\ new.required = d.required
      /\ new.live = TRUE /\ new.saw = serving[c].saw /\ new.back = FALSE
  OBVIOUS
<1> HIDE DEF d, new
<1>7. /\ table \in Seq(Defs) /\ Len(table) = Len(defs) + 1
      /\ \A i \in DOMAIN defs : table[i] = defs[i]
      /\ table[Len(defs) + 1] = new
      /\ DOMAIN table = 1..(Len(defs) + 1)
  BY <1>5, CallFacts, AppendProperties, LenProperties
<1> HIDE DEF table
<1>8. Grown(defs, table)
  BY <1>7, CallFacts DEF Grown
<1>9. TableOK(table)
  <2>1. \A i \in DOMAIN table : /\ table[i].accepts \subseteq table[i].ever
                                /\ ~ table[i].required => Blank \in table[i].ever
    <3> TAKE i \in DOMAIN table
    <3>1. CASE i \in DOMAIN defs
      BY <1>7, <3>1, CallFacts DEF TableOK
    <3>2. CASE i \notin DOMAIN defs
      <4>1. table[i] = new
        BY <1>7, <3>2, CallFacts
      <4> QED
        BY <1>4, <1>6, <4>1
    <3> QED
      BY <3>1, <3>2
  <2>2. ASSUME NEW j \in DOMAIN table, NEW i \in 1..(j - 1), table[j].live
        PROVE  Excused(i, table[j].saw, table[j].name, table) \/ table[j].back
    <3>1. i \in DOMAIN defs /\ table[i] = defs[i]
      BY <1>7, CallFacts
    <3>2. CASE j \in DOMAIN defs
      <4>1. table[j] = defs[j]
        BY <1>7, <3>2
      <4> QED
        BY <2>2, <3>1, <3>2, <4>1, CallFacts DEF TableOK, Excused
    <3>3. CASE j \notin DOMAIN defs
      <4>1. table[j] = new
        BY <1>7, <3>3, CallFacts
      <4> QED
        BY <1>2, <1>6, <3>1, <4>1 DEF Excused
    <3> QED
      BY <3>2, <3>3
  <2> QED
    BY <1>7, <2>1, <2>2 DEF TableOK
<1> QED
  BY <1>1, <1>8, <1>9, DefsStored

LEMMA EditStep ==
  ASSUME FieldsInv, NEW c \in Callers, F!Edit(c)
  PROVE  FieldsInv'
<1>1. PICK i \in DOMAIN defs :
        \/ F!Ask(c, [F!Idle EXCEPT !.op = "remove", !.at = "select", !.id = i])
        \/ \E accepts \in Options, required \in BOOLEAN :
             F!Ask(c, [F!Idle EXCEPT !.op = "update", !.at = "select", !.id = i,
                       !.put = [accepts |-> accepts, required |-> required]])
  BY DEF F!Edit
<1>2. CASE F!Ask(c, [F!Idle EXCEPT !.op = "remove", !.at = "select", !.id = i])
  <2> DEFINE q == [F!Idle EXCEPT !.op = "remove", !.at = "select", !.id = i]
  <2>1. serving' = [serving EXCEPT ![c] = q] /\ UNCHANGED <<defs, items>>
    BY <1>2 DEF F!Ask
  <2>2. q = [F!Idle EXCEPT !.op = "remove", !.at = "select", !.id = i]
    OBVIOUS
  <2> HIDE DEF q
  <2>3. q.op = "remove" /\ q.at = "select" /\ q.id = i /\ Whole(q)
    BY <2>2, IdleFields DEF Whole
  <2>4. CallOK(q, defs, items)
    BY <2>3 DEF CallOK, Defining, Editing, Reading, Creating, Patching, Forming, Reporting
  <2> QED
    BY <2>1, <2>4, Turn
<1>3. ASSUME NEW accepts \in Options, NEW required \in BOOLEAN,
             F!Ask(c, [F!Idle EXCEPT !.op = "update", !.at = "select", !.id = i,
                       !.put = [accepts |-> accepts, required |-> required]])
      PROVE  FieldsInv'
  <2> DEFINE q == [F!Idle EXCEPT !.op = "update", !.at = "select", !.id = i,
                   !.put = [accepts |-> accepts, required |-> required]]
  <2>1. serving' = [serving EXCEPT ![c] = q] /\ UNCHANGED <<defs, items>>
    BY <1>3 DEF F!Ask
  <2>2. q = [F!Idle EXCEPT !.op = "update", !.at = "select", !.id = i,
             !.put = [accepts |-> accepts, required |-> required]]
    OBVIOUS
  <2> HIDE DEF q
  <2>3. /\ q.op = "update" /\ q.at = "select" /\ q.id = i /\ Whole(q)
        /\ q.put = [accepts |-> accepts, required |-> required]
    BY <2>2, IdleFields DEF Whole
  <2>4. q.put \in [accepts : Options, required : BOOLEAN]
    BY <2>3
  <2>5. CallOK(q, defs, items)
    BY <2>3, <2>4 DEF CallOK, Defining, Editing, Reading, Creating, Patching, Forming, Reporting
  <2> QED
    BY <2>1, <2>5, Turn
<1> QED
  BY <1>1, <1>2, <1>3

LEMMA SelectStep ==
  ASSUME FieldsInv, NEW c \in Callers, F!SelectDefinition(c)
  PROVE  FieldsInv'
<1> DEFINE q == serving[c]
           q2 == [q EXCEPT !.at = "edit", !.own = defs[q.id]]
<1>1. q.at = "select" /\ serving' = [serving EXCEPT ![c] = q2] /\ UNCHANGED <<defs, items>>
  BY DEF F!SelectDefinition, F!Step
<1>2. CallOK(q, defs, items) /\ Whole(q)
  BY CallFacts
<1>3. q2 = [q EXCEPT !.at = "edit", !.own = defs[q.id]]
  OBVIOUS
<1> HIDE DEF q, q2
<1>4. /\ Whole(q2) /\ q2.at = "edit" /\ q2.own = defs[q.id] /\ q2.op = q.op /\ q2.id = q.id
      /\ q2.put = q.put /\ q2.offset = q.offset
  BY <1>2, <1>3 DEF Whole
<1>5. q.id \in DOMAIN defs /\ defs[q.id] \in Defs
  BY <1>1, <1>2, CallFacts, ElementOfSeq DEF CallOK, Editing
<1>6. Editing(q2, defs)
  BY <1>1, <1>2, <1>4, <1>5 DEF CallOK, Editing
<1>7. CallOK(q2, defs, items)
  BY <1>1, <1>2, <1>4, <1>6 DEF CallOK, Defining, Reading, Creating, Patching, Forming, Reporting
<1> QED
  BY <1>1, <1>7, Turn

LEMMA EditDefinitionStep ==
  ASSUME FieldsInv, NEW c \in Callers, F!EditDefinition(c)
  PROVE  FieldsInv'
<1> DEFINE q == serving[c]
           after == IF q.op = "remove" THEN [q.own EXCEPT !.live = FALSE]
                    ELSE [q.own EXCEPT !.accepts = q.put.accepts, !.required = q.put.required]
           new == [after EXCEPT !.back = defs[q.id].back \/ (after.live /\ ~defs[q.id].live),
                                !.ever = defs[q.id].ever \cup after.accepts
                                         \cup (IF after.required THEN {} ELSE {Blank})]
           table == [defs EXCEPT ![q.id] = new]
<1>1. q.at = "edit" /\ F!StoreDefs(c, table)
  BY DEF F!EditDefinition
<1>2. /\ q.id \in DOMAIN defs /\ q.own \in Defs
      /\ q.op # "remove" => q.put \in [accepts : Options, required : BOOLEAN]
      /\ q.own.name = defs[q.id].name /\ q.own.saw = defs[q.id].saw
  BY <1>1, CallFacts DEF CallOK, Editing
<1>3. defs[q.id] \in Defs
  BY <1>2, CallFacts, ElementOfSeq
<1>4. after \in Defs /\ after.name = defs[q.id].name /\ after.saw = defs[q.id].saw
  BY <1>2 DEF Defs
<1> HIDE DEF after
<1>5. /\ new.name = after.name /\ new.accepts = after.accepts /\ new.required = after.required
      /\ new.live = after.live /\ new.saw = after.saw
      /\ new.back = (defs[q.id].back \/ (after.live /\ ~defs[q.id].live))
      /\ new.ever = defs[q.id].ever \cup after.accepts \cup (IF after.required THEN {} ELSE {Blank})
  BY <1>4 DEF Defs
<1>6. new.ever \in SUBSET Values
  BY <1>3, <1>4, <1>5 DEF Defs, Values
<1>7. new \in Defs
  <2>1. new.back \in BOOLEAN
    BY <1>5
  <2> QED
    BY <1>4, <1>6, <2>1 DEF Defs
<1>8. /\ defs[q.id].ever \subseteq new.ever /\ new.accepts \subseteq new.ever
      /\ ~ new.required => Blank \in new.ever
      /\ defs[q.id].back => new.back
      /\ new.live => defs[q.id].live \/ new.back
  BY <1>5
<1> HIDE DEF q, new
<1>9. /\ table \in Seq(Defs) /\ DOMAIN table = DOMAIN defs
      /\ table[q.id] = new
      /\ \A i \in DOMAIN defs : i # q.id => table[i] = defs[i]
  BY <1>2, <1>7, CallFacts, ExceptSeq
<1> HIDE DEF table
<1>10. Grown(defs, table)
  BY <1>4, <1>5, <1>8, <1>9 DEF Grown
<1>11. TableOK(table)
  <2>1. \A i \in DOMAIN table : /\ table[i].accepts \subseteq table[i].ever
                                /\ ~ table[i].required => Blank \in table[i].ever
    BY <1>8, <1>9, CallFacts DEF TableOK
  <2>2. ASSUME NEW j \in DOMAIN table, NEW i \in 1..(j - 1), table[j].live
        PROVE  Excused(i, table[j].saw, table[j].name, table) \/ table[j].back
    <3>1. i \in DOMAIN defs /\ j \in DOMAIN defs
      BY <1>9, CallFacts
    <3>2. defs[j].live => Excused(i, defs[j].saw, defs[j].name, defs) \/ defs[j].back
      BY <3>1, CallFacts DEF TableOK
    <3> QED
      BY <1>10, <2>2, <3>1, <3>2 DEF Grown, Excused
  <2> QED
    BY <1>9, <2>1, <2>2 DEF TableOK
<1> QED
  BY <1>1, <1>10, <1>11, DefsStored

-----------------------------------------------------------------------------
(* What the fold lets pass, and what a merge makes of it.                  *)

LEMMA CustomsAre ==
  /\ \A D \in SUBSET Fields : \A h \in [D -> Values] : h \in Customs
  /\ \A h \in Customs : /\ DOMAIN h \subseteq Fields
                        /\ \A n \in DOMAIN h : h[n] \in Values
                        /\ h = [n \in DOMAIN h |-> h[n]]
<1>1. \A h \in Customs : \E D \in SUBSET Fields : h \in [D -> Values]
  BY DEF Customs
<1> QED
  BY <1>1 DEF Customs

LEMMA EmptyIs == DOMAIN F!Empty = {}
BY DEF F!Empty

LEMMA EmptyIsGood == ASSUME NEW table PROVE Good(F!Empty, table)
<1>1. F!Empty \in [{} -> Values]
  BY DEF F!Empty
<1>2. F!Empty \in Customs
  BY <1>1, CustomsAre
<1>3. F!CheckCustomObject(F!Empty)
  BY EmptyIs, Sizes, FS_EmptySet, FieldsAssumption DEF F!CheckCustomObject
<1> QED
  BY <1>2, <1>3, EmptyIs DEF Good

LEMMA OverIs ==
  ASSUME NEW new, NEW old
  PROVE  /\ DOMAIN F!Over(new, old) = (DOMAIN new) \cup (DOMAIN old)
         /\ \A n \in DOMAIN new : F!Over(new, old)[n] = new[n]
         /\ \A n \in (DOMAIN old) \ (DOMAIN new) : F!Over(new, old)[n] = old[n]
BY DEF F!Over

LEMMA CustomIs ==
  ASSUME NEW put
  PROVE  /\ DOMAIN F!Custom(put) = (DOMAIN put.flat) \cup (DOMAIN put.nested)
         /\ \A n \in DOMAIN put.flat : F!Custom(put)[n] = put.flat[n]
         /\ \A n \in (DOMAIN put.nested) \ (DOMAIN put.flat) : F!Custom(put)[n] = put.nested[n]
BY OverIs DEF F!Custom

LEMMA OverIsFunction ==
  ASSUME NEW new, NEW old
  PROVE  F!Over(new, old) = [n \in DOMAIN F!Over(new, old) |-> F!Over(new, old)[n]]
BY DEF F!Over

LEMMA AcceptedIsCustom ==
  ASSUME NEW table \in Seq(Defs), NEW custom,
         custom = [n \in DOMAIN custom |-> custom[n]],
         F!CheckCustomObject(custom),
         \A n \in DOMAIN custom : \E i \in DOMAIN table : table[i].name = n /\ custom[n] \in table[i].ever
  PROVE  Good(custom, table)
<1>1. \A i \in DOMAIN table : table[i].name \in Fields /\ table[i].ever \in SUBSET Values
  <2>1. \A i \in DOMAIN table : table[i] \in Defs
    BY LenProperties, ElementOfSeq
  <2> QED
    BY <2>1 DEF Defs
<1>2. DOMAIN custom \in SUBSET Fields /\ \A n \in DOMAIN custom : custom[n] \in Values
  BY <1>1
<1>3. custom \in [DOMAIN custom -> Values]
  BY <1>2
<1> QED
  BY <1>2, <1>3, CustomsAre DEF Good

LEMMA ValueKnown ==
  ASSUME NEW table, NEW d, Known(d, table), NEW v, F!CheckCustomValue(d, v)
  PROVE  \E i \in DOMAIN table : table[i].name = d.name /\ v \in table[i].ever
BY DEF Known, F!CheckCustomValue

LEMMA FoldIsGood ==
  ASSUME NEW table \in Seq(Defs), NEW ds, \A d \in ds : Known(d, table),
         NEW one \in F!ByName(ds), NEW put, NEW create,
         ds # {} => F!FoldCustom(ds, one, put, create)
  PROVE  Good(F!Folded(ds, put), table)
<1>1. CASE ds = {}
  BY <1>1, EmptyIsGood DEF F!Folded
<1>2. CASE ds # {}
  <2>1. one \subseteq ds
    BY DEF F!ByName
  <2>2. /\ F!Accept(one, put.nested) /\ F!Accept(one, put.flat)
        /\ F!CheckCustomObject(F!Custom(put))
    BY <1>2 DEF F!FoldCustom
  <2>3. ASSUME NEW n \in DOMAIN F!Custom(put)
        PROVE  \E i \in DOMAIN table : table[i].name = n /\ F!Custom(put)[n] \in table[i].ever
    <3>1. PICK d \in one : d.name = n /\ F!CheckCustomValue(d, F!Custom(put)[n])
      <4>1. CASE n \in DOMAIN put.flat
        <5>1. F!Custom(put)[n] = put.flat[n]
          BY <4>1, CustomIs
        <5> QED
          BY <2>2, <4>1, <5>1 DEF F!Accept
      <4>2. CASE n \notin DOMAIN put.flat
        <5>1. n \in DOMAIN put.nested /\ F!Custom(put)[n] = put.nested[n]
          BY <2>3, <4>2, CustomIs
        <5> QED
          BY <2>2, <5>1 DEF F!Accept
      <4> QED
        BY <4>1, <4>2
    <3> QED
      BY <2>1, <3>1, ValueKnown
  <2>4. F!Folded(ds, put) = F!Custom(put)
    BY <1>2 DEF F!Folded
  <2>5. F!Custom(put) = [n \in DOMAIN F!Custom(put) |-> F!Custom(put)[n]]
    BY OverIsFunction DEF F!Custom
  <2> QED
    BY <2>2, <2>3, <2>4, <2>5, AcceptedIsCustom
<1> QED
  BY <1>1, <1>2

(* A required field that is in the request is not empty there.             *)
LEMMA FoldKeepsRequired ==
  ASSUME NEW ds, NEW one \in F!ByName(ds), NEW put, NEW create,
         ds # {} => F!FoldCustom(ds, one, put, create),
         NEW n \in DOMAIN F!Folded(ds, put), \A d \in ds : d.name = n => d.required
  PROVE  F!Folded(ds, put)[n] # Blank
<1>1. ds # {}
  BY EmptyIs DEF F!Folded
<1>2. F!Folded(ds, put) = F!Custom(put)
  BY <1>1 DEF F!Folded
<1>3. F!Accept(one, put.nested) /\ F!Accept(one, put.flat) /\ one \subseteq ds
  BY <1>1 DEF F!FoldCustom, F!ByName
<1>4. \E d \in one : d.name = n /\ F!CheckCustomValue(d, F!Custom(put)[n])
  <2>1. CASE n \in DOMAIN put.flat
    <3>1. F!Custom(put)[n] = put.flat[n]
      BY <2>1, CustomIs
    <3> QED
      BY <1>3, <2>1, <3>1 DEF F!Accept
  <2>2. CASE n \notin DOMAIN put.flat
    <3>1. n \in DOMAIN put.nested /\ F!Custom(put)[n] = put.nested[n]
      BY <1>2, <2>2, CustomIs
    <3> QED
      BY <1>3, <3>1 DEF F!Accept
  <2> QED
    BY <2>1, <2>2
<1> QED
  BY <1>2, <1>3, <1>4 DEF F!CheckCustomValue

LEMMA MergeIsGood ==
  ASSUME NEW table \in Seq(Defs), NEW old, Good(old, table), NEW new, Good(new, table),
         NEW custom \in F!MergeCustom(old, new)
  PROVE  Good(custom, table)
<1>1. /\ custom = IF new = F!Empty THEN old ELSE F!Over(new, old)
      /\ old # F!Empty /\ new # F!Empty => F!CheckCustomObject(custom)
  BY DEF F!MergeCustom
<1>2. CASE new = F!Empty
  BY <1>1, <1>2
<1>3. CASE new # F!Empty
  <2>1. custom = F!Over(new, old)
    BY <1>1, <1>3
  <2>0. /\ DOMAIN custom = (DOMAIN new) \cup (DOMAIN old)
        /\ \A n \in DOMAIN new : custom[n] = new[n]
        /\ \A n \in (DOMAIN old) \ (DOMAIN new) : custom[n] = old[n]
    BY <2>1 DEF F!Over
  <2>2. \A n \in DOMAIN custom : \E i \in DOMAIN table : table[i].name = n /\ custom[n] \in table[i].ever
    BY <2>0 DEF Good
  <2>3. F!CheckCustomObject(custom)
    <3>1. CASE old = F!Empty
      <4>1. DOMAIN custom = DOMAIN new
        BY <2>0, <3>1, EmptyIs
      <4> QED
        BY <4>1 DEF Good, F!CheckCustomObject
    <3>2. CASE old # F!Empty
      BY <1>1, <1>3, <3>2
    <3> QED
      BY <3>1, <3>2
  <2>4. custom = [n \in DOMAIN custom |-> custom[n]]
    BY <2>1, OverIsFunction
  <2> QED
    BY <2>2, <2>3, <2>4, AcceptedIsCustom
<1> QED
  BY <1>2, <1>3

LEMMA MergeKeeps ==
  ASSUME NEW firm, NEW old, Filled(firm, old), NEW new,
         \A n \in firm : n \in DOMAIN new => new[n] # Blank,
         NEW custom \in F!MergeCustom(old, new)
  PROVE  Filled(firm, custom)
<1>1. custom = IF new = F!Empty THEN old ELSE F!Over(new, old)
  BY DEF F!MergeCustom
<1>2. CASE new = F!Empty
  BY <1>1, <1>2
<1>3. CASE new # F!Empty
  <2>1. custom = F!Over(new, old)
    BY <1>1, <1>3
  <2>2. /\ DOMAIN custom = (DOMAIN new) \cup (DOMAIN old)
        /\ \A n \in DOMAIN new : custom[n] = new[n]
        /\ \A n \in (DOMAIN old) \ (DOMAIN new) : custom[n] = old[n]
    BY <2>1 DEF F!Over
  <2> QED
    BY <2>2 DEF Filled
<1> QED
  BY <1>2, <1>3

LEMMA PlacesStartAtOne ==
  ASSUME NEW rows \in Seq(Rows), NEW p \in F!WithCustom(rows)
  PROVE  F!Place(p, rows) \in Nat /\ F!Place(p, rows) >= 1
<1> DEFINE upTo == {r \in F!WithCustom(rows) : r <= p}
<1>1. F!Place(p, rows) = Cardinality(upTo) /\ IsFiniteSet(upTo) /\ F!Place(p, rows) \in Nat
  BY PlacesAreNat
<1>2. p \in upTo
  BY LenProperties DEF F!WithCustom
<1> HIDE DEF upTo
<1>3. Cardinality(upTo) # 0
  BY <1>1, <1>2, FS_EmptySet
<1> QED
  BY <1>1, <1>3

LEMMA OrphansHaveCustom ==
  ASSUME NEW ds, NEW rows, NEW o \in F!OrphanValues(ds, rows)
  PROVE  /\ o[1] \in F!WithCustom(rows) /\ o[1] \in DOMAIN rows
         /\ o[2] \notin F!NamesOf(ds)
<1>1. /\ o \in (DOMAIN rows) \X Fields
      /\ o[2] \in DOMAIN rows[o[1]].custom /\ o[2] \notin F!NamesOf(ds)
  BY DEF F!OrphanValues
<1>2. o[1] \in DOMAIN rows
  BY <1>1
<1>3. rows[o[1]].custom # F!Empty
  BY <1>1, EmptyIs
<1> QED
  BY <1>1, <1>2, <1>3 DEF F!WithCustom

-----------------------------------------------------------------------------

LEMMA WriteStep ==
  ASSUME FieldsInv, NEW c \in Callers, F!Write(c)
  PROVE  FieldsInv'
<1>1. ASSUME NEW put \in Payloads,
             F!Ask(c, [F!Idle EXCEPT !.op = "create", !.at = "defs", !.put = put])
      PROVE  FieldsInv'
  <2> DEFINE q == [F!Idle EXCEPT !.op = "create", !.at = "defs", !.put = put]
  <2>1. serving' = [serving EXCEPT ![c] = q] /\ UNCHANGED <<defs, items>>
    BY <1>1 DEF F!Ask
  <2>2. q = [F!Idle EXCEPT !.op = "create", !.at = "defs", !.put = put]
    OBVIOUS
  <2> HIDE DEF q
  <2>3. q.op = "create" /\ q.at = "defs" /\ Whole(q)
    BY <2>2, IdleFields DEF Whole
  <2>4. CallOK(q, defs, items)
    BY <2>3 DEF CallOK, Defining, Editing, Reading, Creating, Patching, Forming, Reporting
  <2> QED
    BY <2>1, <2>4, Turn
<1>2. ASSUME NEW r \in DOMAIN items, NEW put \in Payloads,
             F!Ask(c, [F!Idle EXCEPT !.op = "patch", !.at = "defs", !.id = r, !.put = put])
      PROVE  FieldsInv'
  <2> DEFINE q == [F!Idle EXCEPT !.op = "patch", !.at = "defs", !.id = r, !.put = put]
  <2>1. serving' = [serving EXCEPT ![c] = q] /\ UNCHANGED <<defs, items>>
    BY <1>2 DEF F!Ask
  <2>2. q = [F!Idle EXCEPT !.op = "patch", !.at = "defs", !.id = r, !.put = put]
    OBVIOUS
  <2> HIDE DEF q
  <2>3. q.op = "patch" /\ q.at = "defs" /\ q.id = r /\ Whole(q)
    BY <2>2, IdleFields DEF Whole
  <2>4. CallOK(q, defs, items)
    BY <2>3 DEF CallOK, Defining, Editing, Reading, Creating, Patching, Forming, Reporting
  <2> QED
    BY <2>1, <2>4, Turn
<1>3. ASSUME NEW r \in DOMAIN items, F!Ask(c, [F!Idle EXCEPT !.op = "delete", !.at = "row", !.id = r])
      PROVE  FieldsInv'
  <2> DEFINE q == [F!Idle EXCEPT !.op = "delete", !.at = "row", !.id = r]
  <2>1. serving' = [serving EXCEPT ![c] = q] /\ UNCHANGED <<defs, items>>
    BY <1>3 DEF F!Ask
  <2>2. q = [F!Idle EXCEPT !.op = "delete", !.at = "row", !.id = r]
    OBVIOUS
  <2> HIDE DEF q
  <2>3. q.op = "delete" /\ q.at = "row" /\ q.id = r /\ Whole(q)
    BY <2>2, IdleFields DEF Whole
  <2>4. CallOK(q, defs, items)
    BY <2>3 DEF CallOK, Defining, Editing, Reading, Creating, Patching, Forming, Reporting
  <2> QED
    BY <2>1, <2>4, Turn
<1> QED
  BY <1>1, <1>2, <1>3 DEF F!Write

LEMMA LookStep ==
  ASSUME FieldsInv, NEW c \in Callers, F!Look(c)
  PROVE  FieldsInv'
<1>1. ASSUME NEW r \in DOMAIN items,
             F!Ask(c, [F!Idle EXCEPT !.op = "form", !.at = "defs", !.id = r,
                       !.active = F!NamesOf(F!DefinitionsFor(defs))])
      PROVE  FieldsInv'
  <2> DEFINE q == [F!Idle EXCEPT !.op = "form", !.at = "defs", !.id = r,
                   !.active = F!NamesOf(F!DefinitionsFor(defs))]
  <2>1. serving' = [serving EXCEPT ![c] = q] /\ UNCHANGED <<defs, items>>
    BY <1>1 DEF F!Ask
  <2>2. q = [F!Idle EXCEPT !.op = "form", !.at = "defs", !.id = r,
             !.active = F!NamesOf(F!DefinitionsFor(defs))]
    OBVIOUS
  <2> HIDE DEF q
  <2>3. /\ q.op = "form" /\ q.at = "defs" /\ q.id = r /\ Whole(q)
        /\ q.active = F!NamesOf(F!DefinitionsFor(defs))
    BY <2>2, IdleFields DEF Whole
  <2>4. CallOK(q, defs, items)
    BY <2>3 DEF CallOK, Defining, Editing, Reading, Creating, Patching, Forming, Reporting
  <2> QED
    BY <2>1, <2>4, Turn
<1>2. ASSUME F!Ask(c, [F!Idle EXCEPT !.op = "report", !.at = "defs",
                       !.stood = F!OrphanValues(F!DefinitionsFor(defs), items)])
      PROVE  FieldsInv'
  <2> DEFINE q == [F!Idle EXCEPT !.op = "report", !.at = "defs",
                   !.stood = F!OrphanValues(F!DefinitionsFor(defs), items)]
  <2>1. serving' = [serving EXCEPT ![c] = q] /\ UNCHANGED <<defs, items>>
    BY <1>2 DEF F!Ask
  <2>2. q = [F!Idle EXCEPT !.op = "report", !.at = "defs",
             !.stood = F!OrphanValues(F!DefinitionsFor(defs), items)]
    OBVIOUS
  <2> HIDE DEF q
  <2>3. /\ q.op = "report" /\ q.at = "defs" /\ Whole(q) /\ q.offset = 0
        /\ q.stood = F!OrphanValues(F!DefinitionsFor(defs), items)
    BY <2>2, IdleFields DEF Whole
  <2>4. CallOK(q, defs, items)
    BY <2>3 DEF CallOK, Defining, Editing, Reading, Creating, Patching, Forming, Reporting
  <2> QED
    BY <2>1, <2>4, Turn
<1> QED
  BY <1>1, <1>2 DEF F!Look

LEMMA ReadStep ==
  ASSUME FieldsInv, NEW c \in Callers, F!ReadDefs(c)
  PROVE  FieldsInv'
<1> DEFINE q == serving[c]
           ds == F!DefinitionsFor(defs)
           q2 == [q EXCEPT !.at = "read", !.read = ds, !.firm = F!Firm(defs)]
<1>1. q.at = "defs" /\ serving' = [serving EXCEPT ![c] = q2] /\ UNCHANGED <<defs, items>>
  BY DEF F!ReadDefs, F!Step
<1>2. CallOK(q, defs, items) /\ Whole(q)
  BY CallFacts
<1>3. q2 = [q EXCEPT !.at = "read", !.read = ds, !.firm = F!Firm(defs)]
  OBVIOUS
<1>4. \A d \in ds : \E i \in DOMAIN defs :
        /\ defs[i].live /\ d.name = defs[i].name /\ d.accepts = defs[i].accepts
        /\ d.required = defs[i].required
  BY DEF F!DefinitionsFor, F!Definition
<1>5. \A i \in DOMAIN defs : defs[i].live => F!Definition(defs[i]) \in ds
  BY DEF F!DefinitionsFor
<1> HIDE DEF q, q2
<1>6. /\ Whole(q2) /\ q2.at = "read" /\ q2.read = ds /\ q2.firm = F!Firm(defs)
      /\ q2.op = q.op /\ q2.id = q.id /\ q2.offset = q.offset /\ q2.stood = q.stood
      /\ q2.active = q.active
  BY <1>2, <1>3 DEF Whole
<1> HIDE DEF ds
<1>7. \A d \in ds : Known(d, defs)
  BY <1>4, CallFacts DEF Known, TableOK
<1>8. Creating(q2, defs)
  <2>1. \A n \in F!Firm(defs) : \E d \in ds : d.name = n /\ d.required
    <3> TAKE n \in F!Firm(defs)
    <3>1. PICK i \in DOMAIN defs : defs[i].live /\ defs[i].required /\ defs[i].name = n
      BY DEF F!Firm
    <3>2. F!Definition(defs[i]) \in ds
      BY <1>5, <3>1
    <3>3. F!Definition(defs[i]).name = n /\ F!Definition(defs[i]).required
      BY <3>1 DEF F!Definition
    <3> QED
      BY <3>2, <3>3
  <2> QED
    BY <1>6, <2>1 DEF Creating
<1>9. Patching(q2, defs, items)
  <2>1. \A n \in F!Firm(defs), d \in ds : d.name = n => d.required
    <3> TAKE n \in F!Firm(defs), d \in ds
    <3>1. PICK i \in DOMAIN defs : /\ defs[i].required
                                   /\ \A j \in (DOMAIN defs) \ {i} : defs[j].live => defs[j].name # n
      BY DEF F!Firm
    <3> QED
      BY <1>4, <3>1
  <2>2. q.op \in {"patch", "delete", "form"} => q.id \in DOMAIN items
    BY <1>2 DEF CallOK, Patching
  <2>3. \A r \in DOMAIN items : items[r].firm \subseteq F!Firm(defs)
    BY CallFacts DEF RowsOK, RowOK
  <2> QED
    BY <1>6, <2>1, <2>2, <2>3 DEF Patching
<1>10. Forming(q2, defs)
  BY <1>1, <1>2, <1>6 DEF CallOK, Forming, ds
<1>11. Reporting(q2, defs, items)
  <2> SUFFICES ASSUME q.op = "report" PROVE Reporting(q2, defs, items)
    BY <1>6 DEF Reporting
  <2>1. q.offset = 0 /\ q.stood \subseteq F!OrphanValues(ds, items)
    BY <1>1, <1>2 DEF CallOK, Reporting, ds
  <2>2. \A o \in q.stood : /\ o[2] \notin F!NamesOf(ds)
                           /\ F!Place(o[1], items) \in Nat /\ F!Place(o[1], items) >= 1
    BY <2>1, OrphansHaveCustom, PlacesStartAtOne, CallFacts
  <2>3. \A o \in q.stood : ~ (F!Place(o[1], items) <= 0)
    BY <2>2
  <2> QED
    BY <1>6, <2>1, <2>2, <2>3 DEF Reporting, ds
<1> QED
  <2>1. CallOK(q2, defs, items)
    BY <1>6, <1>7, <1>8, <1>9, <1>10, <1>11 DEF CallOK, Defining, Editing, Reading
  <2> QED
    BY <1>1, <2>1, Turn

LEMMA CreateStep ==
  ASSUME FieldsInv, NEW c \in Callers, F!Create(c)
  PROVE  FieldsInv'
<1> DEFINE q == serving[c]
           new == [custom |-> F!Folded(q.read, q.put), deleted |-> FALSE, firm |-> q.firm]
           rows == Append(items, new)
<1>1. /\ q.at = "read" /\ q.op = "create"
      /\ \E one \in F!ByName(q.read) : q.read # {} => F!FoldCustom(q.read, one, q.put, TRUE)
      /\ F!StoreItems(c, rows)
  BY DEF F!Create
<1>2. PICK one \in F!ByName(q.read) : q.read # {} => F!FoldCustom(q.read, one, q.put, TRUE)
  BY <1>1
<1>3. /\ \A d \in q.read : Known(d, defs)
      /\ q.firm \subseteq F!Firm(defs)
      /\ \A n \in q.firm : \E d \in q.read : d.name = n /\ d.required
  BY <1>1, CallFacts DEF CallOK, Reading, Creating
<1>4. Good(F!Folded(q.read, q.put), defs)
  BY <1>2, <1>3, CallFacts, FoldIsGood
<1>5. Filled(q.firm, F!Folded(q.read, q.put))
  <2> SUFFICES ASSUME NEW n \in q.firm
               PROVE  n \in DOMAIN F!Folded(q.read, q.put) /\ F!Folded(q.read, q.put)[n] # Blank
    BY DEF Filled
  <2>1. PICK d \in q.read : d.name = n /\ d.required
    BY <1>3
  <2>2. F!Folded(q.read, q.put) = F!Custom(q.put)
    BY <2>1 DEF F!Folded
  <2>3. F!FoldCustom(q.read, one, q.put, TRUE)
    BY <1>2, <2>1
  <2>4. n \in DOMAIN F!Custom(q.put) /\ F!Custom(q.put)[n] # Blank
    BY <2>1, <2>3 DEF F!FoldCustom
  <2> QED
    BY <2>2, <2>4
<1>6. F!Firm(defs) \subseteq Fields
  BY DEF F!Firm
<1>7. new.custom = F!Folded(q.read, q.put) /\ new.firm = q.firm /\ new.deleted = FALSE
  OBVIOUS
<1>8. new \in Rows
  BY <1>3, <1>4, <1>6 DEF Good, Rows
<1> HIDE DEF new, q
<1>9. RowOK(new, defs)
  BY <1>3, <1>4, <1>5, <1>7, <1>8 DEF RowOK
<1>10. /\ rows \in Seq(Rows) /\ DOMAIN rows = 1..(Len(items) + 1)
       /\ \A r \in DOMAIN items : rows[r] = items[r]
       /\ rows[Len(items) + 1] = new
  BY <1>8, CallFacts, AppendProperties, LenProperties
<1> HIDE DEF rows
<1>11. RowsOK(rows, defs)
  <2>1. ASSUME NEW r \in DOMAIN rows PROVE RowOK(rows[r], defs)
    <3>1. CASE r \in DOMAIN items
      BY <1>10, <3>1, CallFacts DEF RowsOK
    <3>2. CASE r \notin DOMAIN items
      <4>1. rows[r] = new
        BY <1>10, <3>2, CallFacts
      <4> QED
        BY <1>9, <4>1
    <3> QED
      BY <3>1, <3>2
  <2> QED
    BY <1>10, <2>1 DEF RowsOK
<1>12. Longer(items, rows)
  BY <1>10, CallFacts DEF Longer
<1> QED
  BY <1>1, <1>11, <1>12, RowsStored

LEMMA PassStep ==
  ASSUME FieldsInv, NEW c \in Callers, F!Pass(c)
  PROVE  FieldsInv'
<1> DEFINE q == serving[c]
           q2 == [q EXCEPT !.at = "row"]
<1>1. /\ q.at = "read" /\ q.op = "patch"
      /\ \E one \in F!ByName(q.read) : q.read # {} => F!FoldCustom(q.read, one, q.put, FALSE)
      /\ serving' = [serving EXCEPT ![c] = q2] /\ UNCHANGED <<defs, items>>
  BY DEF F!Pass, F!Step
<1>2. CallOK(q, defs, items) /\ Whole(q)
  BY CallFacts
<1>3. q2 = [q EXCEPT !.at = "row"]
  OBVIOUS
<1> HIDE DEF q, q2
<1>4. /\ Whole(q2) /\ q2.at = "row" /\ q2.op = q.op /\ q2.id = q.id /\ q2.put = q.put
      /\ q2.read = q.read
  BY <1>2, <1>3 DEF Whole
<1>5. PICK one \in F!ByName(q.read) : q.read # {} => F!FoldCustom(q.read, one, q.put, FALSE)
  BY <1>1
<1>6. /\ \A d \in q.read : Known(d, defs)
      /\ q.id \in DOMAIN items
      /\ \A n \in items[q.id].firm, d \in q.read : d.name = n => d.required
  BY <1>1, <1>2 DEF CallOK, Reading, Patching
<1>7. Good(F!Folded(q.read, q.put), defs)
  BY <1>5, <1>6, CallFacts, FoldIsGood
<1>8. \A n \in items[q.id].firm : n \in DOMAIN F!Folded(q.read, q.put) => F!Folded(q.read, q.put)[n] # Blank
  BY <1>5, <1>6, FoldKeepsRequired
<1>9. Passed(q2, defs, items)
  BY <1>4, <1>7, <1>8 DEF Passed
<1>10. CallOK(q2, defs, items)
  BY <1>1, <1>4, <1>6, <1>9 DEF CallOK, Defining, Editing, Reading, Creating, Patching, Forming, Reporting
<1> QED
  BY <1>1, <1>10, Turn

LEMMA SelectRowStep ==
  ASSUME FieldsInv, NEW c \in Callers, F!SelectRow(c)
  PROVE  FieldsInv'
<1> DEFINE q == serving[c]
           q2 == [q EXCEPT !.at = "merge", !.own = items[q.id]]
<1>1. /\ q.at = "row"
      /\ serving' = [serving EXCEPT ![c] = q2] /\ UNCHANGED <<defs, items>>
  BY DEF F!SelectRow, F!Step
<1>2. CallOK(q, defs, items) /\ Whole(q)
  BY CallFacts
<1>3. q2 = [q EXCEPT !.at = "merge", !.own = items[q.id]]
  OBVIOUS
<1> HIDE DEF q, q2
<1>4. /\ Whole(q2) /\ q2.at = "merge" /\ q2.own = items[q.id] /\ q2.op = q.op /\ q2.id = q.id
      /\ q2.put = q.put /\ q2.read = q.read
  BY <1>2, <1>3 DEF Whole
<1>5. /\ q.op \in {"patch", "delete"} /\ q.id \in DOMAIN items
      /\ q.op = "patch" => Passed(q, defs, items)
  BY <1>1, <1>2 DEF CallOK, Patching
<1>6. q.op = "patch" => Passed(q2, defs, items)
  BY <1>4, <1>5 DEF Passed
<1>7. RowOK(items[q.id], defs)
  BY <1>5, CallFacts DEF RowsOK
<1>8. Patching(q2, defs, items)
  BY <1>4, <1>5, <1>6, <1>7 DEF RowOK, Patching
<1>9. CallOK(q2, defs, items)
  BY <1>4, <1>5, <1>8 DEF CallOK, Defining, Editing, Reading, Creating, Forming, Reporting
<1> QED
  BY <1>1, <1>9, Turn

LEMMA UpdateStep ==
  ASSUME FieldsInv, NEW c \in Callers, F!Update(c)
  PROVE  FieldsInv'
<1> DEFINE q == serving[c]
           new == IF q.op = "patch" THEN F!Folded(q.read, q.put) ELSE F!Empty
<1>1. PICK custom \in F!MergeCustom(q.own.custom, new) :
        F!StoreItems(c, [items EXCEPT ![q.id].custom = custom,
                                      ![q.id].deleted = q.own.deleted \/ q.op = "delete"])
  BY DEF F!Update
<1> DEFINE rows == [items EXCEPT ![q.id].custom = custom,
                                 ![q.id].deleted = q.own.deleted \/ q.op = "delete"]
<1>2. q.at = "merge"
  BY DEF F!Update
<1>3. /\ q.id \in DOMAIN items /\ q.own \in Rows
      /\ Good(q.own.custom, defs) /\ Filled(items[q.id].firm, q.own.custom)
      /\ q.op = "patch" => Passed(q, defs, items)
  BY <1>2, CallFacts DEF CallOK, Patching
<1>4. /\ Good(new, defs)
      /\ \A n \in items[q.id].firm : n \in DOMAIN new => new[n] # Blank
  <2>1. CASE q.op = "patch"
    BY <1>3, <2>1 DEF Passed
  <2>2. CASE q.op # "patch"
    BY <2>2, EmptyIs, EmptyIsGood
  <2> QED
    BY <2>1, <2>2
<1> HIDE DEF new
<1>5. Good(custom, defs)
  BY <1>1, <1>3, <1>4, CallFacts, MergeIsGood
<1>6. Filled(items[q.id].firm, custom)
  BY <1>1, <1>3, <1>4, MergeKeeps
<1>7. RowOK(items[q.id], defs)
  BY <1>3, CallFacts DEF RowsOK
<1> DEFINE row == [items[q.id] EXCEPT !.custom = custom, !.deleted = q.own.deleted \/ q.op = "delete"]
<1>8. row \in Rows /\ row.custom = custom /\ row.firm = items[q.id].firm
  <2>1. items[q.id] \in Rows /\ custom \in Customs
    BY <1>5, <1>7 DEF RowOK, Good
  <2>2. (q.own.deleted \/ q.op = "delete") \in BOOLEAN
    OBVIOUS
  <2> QED
    BY <2>1, <2>2 DEF Rows
<1>9. rows = [items EXCEPT ![q.id] = row]
  BY <1>3
<1>10. F!StoreItems(c, rows)
  BY <1>1
<1> HIDE DEF row, rows, q
<1>11. RowOK(row, defs)
  BY <1>5, <1>6, <1>7, <1>8 DEF RowOK
<1>12. /\ rows \in Seq(Rows) /\ DOMAIN rows = DOMAIN items
       /\ rows[q.id] = row
       /\ \A r \in DOMAIN items : r # q.id => rows[r] = items[r]
  BY <1>3, <1>8, <1>9, CallFacts, ExceptSeq
<1>13. RowsOK(rows, defs)
  BY <1>11, <1>12, CallFacts DEF RowsOK
<1>14. Longer(items, rows)
  BY <1>8, <1>12 DEF Longer
<1> QED
  BY <1>10, <1>13, <1>14, RowsStored

LEMMA RowFieldsStep ==
  ASSUME FieldsInv, NEW c \in Callers, F!RowFields(c)
  PROVE  FieldsInv'
<1> DEFINE q == serving[c]
           custom == F!CustomRowById(q.id)
           found == {<<n, IF n \in DOMAIN custom THEN custom[n] ELSE Blank>> : n \in F!NamesOf(q.read)}
           q2 == [q EXCEPT !.at = "done", !.found = found]
<1>1. /\ q.at = "read" /\ q.op = "form"
      /\ serving' = [serving EXCEPT ![c] = q2] /\ UNCHANGED <<defs, items>>
  BY DEF F!RowFields, F!Step
<1>2. CallOK(q, defs, items) /\ Whole(q)
  BY CallFacts
<1>3. \A shown \in found : shown[1] \in F!NamesOf(q.read)
  OBVIOUS
<1>4. q2 = [q EXCEPT !.at = "done", !.found = found]
  OBVIOUS
<1> HIDE DEF q, found, q2
<1>5. /\ Whole(q2) /\ q2.at = "done" /\ q2.op = q.op /\ q2.id = q.id /\ q2.active = q.active
      /\ q2.found = found
  BY <1>2, <1>4 DEF Whole
<1>6. F!NamesOf(q.read) \subseteq q.active
  BY <1>1, <1>2 DEF CallOK, Forming
<1>7. {shown[1] : shown \in q2.found} \subseteq q2.active
  BY <1>3, <1>5, <1>6
<1>8. q.id \in DOMAIN items
  BY <1>1, <1>2 DEF CallOK, Patching
<1>9. CallOK(q2, defs, items)
  BY <1>1, <1>5, <1>7, <1>8 DEF CallOK, Defining, Editing, Reading, Creating, Patching, Forming, Reporting
<1> QED
  BY <1>1, <1>9, Turn

LEMMA CustomRowsStep ==
  ASSUME FieldsInv, NEW c \in Callers, F!CustomRows(c)
  PROVE  FieldsInv'
<1> DEFINE q == serving[c]
           page == F!PageFrom(q.offset, items)
           found == q.found \cup {o \in F!OrphanValues(q.read, items) : o[1] \in page}
           at == IF F!LastPage(F!Cardinality(page)) THEN "done" ELSE "read"
           q2 == [q EXCEPT !.found = found, !.offset = q.offset + PageSize, !.at = at]
<1>1. /\ q.at = "read" /\ q.op = "report"
      /\ serving' = [serving EXCEPT ![c] = q2] /\ UNCHANGED <<defs, items>>
  BY DEF F!CustomRows, F!Step
<1>2. CallOK(q, defs, items) /\ Whole(q)
  BY CallFacts
<1>3. q2 = [q EXCEPT !.found = found, !.offset = q.offset + PageSize, !.at = at]
  OBVIOUS
<1>4. /\ q.found \subseteq found
      /\ \A o \in F!OrphanValues(q.read, items) : o[1] \in page => o \in found
  OBVIOUS
<1>5. at \in {"done", "read"} /\ (at = "done" => Cardinality(page) < PageSize)
  BY Sizes DEF F!LastPage
<1>6. \A r \in F!WithCustom(items) :
        F!Place(r, items) > q.offset /\ F!Place(r, items) <= q.offset + PageSize => r \in page
  BY DEF F!PageFrom
<1> HIDE DEF q, page, found, at, q2
<1>7. /\ Whole(q2) /\ q2.at = at /\ q2.op = q.op /\ q2.found = found /\ q2.offset = q.offset + PageSize
      /\ q2.stood = q.stood /\ q2.shrunk = q.shrunk /\ q2.read = q.read
  BY <1>2, <1>3 DEF Whole
<1>8. /\ q.offset \in Nat /\ PageSize \in Nat /\ q.offset + PageSize \in Nat
      /\ q.stood \subseteq F!OrphanValues(F!DefinitionsFor(defs), items)
      /\ \A o \in q.stood : /\ o[2] \notin F!NamesOf(q.read)
                            /\ ~ q.shrunk /\ F!Place(o[1], items) <= q.offset => o \in q.found
  BY <1>1, <1>2, FieldsAssumption DEF CallOK, Reporting
<1>9. ASSUME NEW o \in q.stood, ~ q.shrunk, F!Place(o[1], items) <= q.offset + PageSize
      PROVE  o \in found
  <2>1. o[1] \in F!WithCustom(items) /\ F!Place(o[1], items) \in Nat
    BY <1>8, OrphansHaveCustom, PlacesAreNat, CallFacts
  <2>2. CASE F!Place(o[1], items) <= q.offset
    BY <1>4, <1>8, <1>9, <2>2
  <2>3. CASE ~ (F!Place(o[1], items) <= q.offset)
    <3>1. o[1] \in page
      BY <1>6, <1>8, <1>9, <2>1, <2>3
    <3>2. o \in F!OrphanValues(q.read, items)
      BY <1>8 DEF F!OrphanValues
    <3> QED
      BY <1>4, <3>1, <3>2
  <2> QED
    BY <2>2, <2>3
<1>10. at = "done" /\ ~ q.shrunk => q.stood \subseteq found
  <2> SUFFICES ASSUME at = "done", ~ q.shrunk, NEW o \in q.stood PROVE o \in found
    OBVIOUS
  <2>1. o[1] \in F!WithCustom(items)
    BY <1>8, OrphansHaveCustom
  <2>2. Cardinality(F!PageFrom(q.offset, items)) < PageSize
    BY <1>5 DEF page
  <2>3. F!Place(o[1], items) <= q.offset + PageSize
    BY <1>8, <2>1, <2>2, LastPageEnds, CallFacts
  <2> QED
    BY <1>9, <2>3
<1>11. Reporting(q2, defs, items)
  BY <1>5, <1>7, <1>8, <1>9, <1>10 DEF Reporting
<1>12. Reading(q2, defs)
  BY <1>1, <1>2, <1>7 DEF CallOK, Reading
<1>13. CallOK(q2, defs, items)
  BY <1>1, <1>5, <1>7, <1>11, <1>12 DEF CallOK, Defining, Editing, Creating, Patching, Forming
<1> QED
  BY <1>1, <1>13, Turn

-----------------------------------------------------------------------------

LEMMA FieldsStart == F!InitFields => FieldsInv
<1> SUFFICES ASSUME F!InitFields PROVE FieldsInv
  OBVIOUS
<1>1. serving = [c \in Callers |-> F!Idle]
  BY DEF F!InitFields
<1>2. serving = [c \in Callers |-> serving[c]] /\ \A c \in Callers : CallOK(serving[c], defs, items)
  BY <1>1, IdleOK
<1>3. CASE defs = <<>> /\ items = <<>>
  <2>1. TableOK(defs)
    BY <1>3 DEF TableOK
  <2>2. RowsOK(items, defs)
    BY <1>3 DEF RowsOK
  <2> QED
    BY <1>2, <2>1, <2>2 DEF FieldsInv
<1>4. ASSUME NEW n \in Fields, NEW accepts \in Options, NEW v \in accepts,
             defs = <<[name |-> n, accepts |-> accepts, required |-> FALSE, live |-> TRUE,
                       saw |-> 0, back |-> FALSE, ever |-> accepts \cup {Blank}]>>,
             items = [r \in 1..MaxRows |-> [custom |-> [m \in {n} |-> v], deleted |-> FALSE, firm |-> {}]]
      PROVE  FieldsInv
  <2> DEFINE d == [name |-> n, accepts |-> accepts, required |-> FALSE, live |-> TRUE,
                   saw |-> 0, back |-> FALSE, ever |-> accepts \cup {Blank}]
             custom == [m \in {n} |-> v]
             row == [custom |-> custom, deleted |-> FALSE, firm |-> {}]
  <2>1. d.ever \in SUBSET Values
    BY DEF Values
  <2>2. d \in Defs
    BY <2>1 DEF Defs
  <2>3. defs = <<d>> /\ d.name = n /\ d.ever = accepts \cup {Blank} /\ d.accepts = accepts
    BY <1>4
  <2> HIDE DEF d
  <2>4. defs \in Seq(Defs) /\ DOMAIN defs = {1} /\ defs[1] = d
    BY <2>2, <2>3
  <2>5. TableOK(defs)
    BY <2>3, <2>4 DEF TableOK
  <2>6. DOMAIN custom = {n} /\ custom[n] = v /\ custom = [m \in DOMAIN custom |-> custom[m]]
    OBVIOUS
  <2> HIDE DEF custom
  <2>7. F!CheckCustomObject(custom)
    <3>1. Cardinality(DOMAIN custom) = 1
      BY <2>6, FS_Singleton
    <3> QED
      BY <3>1, Sizes, FieldsAssumption DEF F!CheckCustomObject
  <2>8. Good(custom, defs)
    BY <2>3, <2>4, <2>6, <2>7, AcceptedIsCustom
  <2>9. row \in Rows /\ row.custom = custom /\ row.firm = {}
    BY <2>8 DEF Good, Rows
  <2>10. items = [r \in 1..MaxRows |-> row]
    BY <1>4 DEF custom
  <2> HIDE DEF row
  <2>11. RowOK(row, defs)
    BY <2>8, <2>9 DEF RowOK, Filled
  <2>12. items \in [1..MaxRows -> Rows] /\ MaxRows \in Nat
    BY <2>9, <2>10, FieldsAssumption
  <2>13. items \in Seq(Rows)
    BY <2>12, Listed
  <2>14. RowsOK(items, defs)
    BY <2>10, <2>11, <2>13 DEF RowsOK
  <2> QED
    BY <1>2, <2>5, <2>14 DEF FieldsInv
<1> QED
  BY <1>3, <1>4 DEF F!InitFields

LEMMA FieldsStep == FieldsInv /\ [NextBoth]_<<part, vars, fieldsOnly>> => FieldsInv'
<1> SUFFICES ASSUME FieldsInv, [NextBoth]_<<part, vars, fieldsOnly>> PROVE FieldsInv'
  OBVIOUS
<1>1. CASE F!NextFields
  BY <1>1, DefineStep, InsertStep, EditStep, SelectStep, EditDefinitionStep, WriteStep, ReadStep,
     CreateStep, PassStep, SelectRowStep, UpdateStep, LookStep, RowFieldsStep, CustomRowsStep, EndStep
     DEF F!NextFields
<1>2. CASE UNCHANGED fieldsOnly
  BY <1>2 DEF fieldsOnly, FieldsInv
<1> QED
  BY <1>1, <1>2 DEF NextBoth

LEMMA FieldsAlways == SpecBoth => []FieldsInv
<1>1. InitBoth => FieldsInv
  BY FieldsStart DEF InitBoth
<1> QED
  BY <1>1, FieldsStep, PTL DEF SpecBoth

(* Whatever requests, definitions' changes, crashes and lost updates       *)
(* interleave: rows stay within the caps, hold only values a definition of *)
(* their name once accepted and never lose a field that must stay, and two *)
(* active definitions share a name only when calls overlapped.             *)
THEOREM FieldsAreHeld == SpecBoth => []FieldsHold
<1>1. FieldsInv => FieldsHold
  <2> SUFFICES ASSUME FieldsInv PROVE FieldsHold
    OBVIOUS
  <2>1. TableOK(defs) /\ \A r \in DOMAIN items : RowOK(items[r], defs)
    BY DEF FieldsInv, RowsOK
  <2>2. F!CapsHold /\ F!ValuesWereAccepted
    BY <2>1 DEF F!CapsHold, F!ValuesWereAccepted, RowOK, Good
  <2>3. F!RequiredStay
    BY <2>1 DEF F!RequiredStay, RowOK, Filled
  <2>4. F!TwinsHaveACause
    BY <2>1 DEF F!TwinsHaveACause, TableOK, Excused
  <2> QED
    BY <2>2, <2>3, <2>4 DEF FieldsHold
<1> QED
  BY FieldsAlways, <1>1, PTL

(* The report misses no orphan that stood all the while it paged, for any  *)
(* number of rows and any size of page, and a form shows only fields that  *)
(* were active at some time of its call.                                   *)
THEOREM OrphansAreFound == SpecBoth => []OrphansAreReported
<1>1. FieldsInv => OrphansAreReported
  BY DEF FieldsInv, CallOK, Forming, Reporting, OrphansAreReported, F!ReportIsComplete, F!FormsHideOrphans
<1> QED
  BY FieldsAlways, <1>1, PTL
=============================================================================
