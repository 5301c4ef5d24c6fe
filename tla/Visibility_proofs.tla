--------------------------- MODULE Visibility_proofs ---------------------------
(***************************************************************************)
(* Proofs about Visibility, for any users, groups, entities and grants.    *)
(***************************************************************************)
EXTENDS Visibility, FiniteSetTheorems, SequenceTheorems, TLAPS

(* Every ownership row, duplicates included, stores how many grants its    *)
(* entity has: what the SQL predicate of two views reads.                  *)
CountInv ==
  \A e \in Entities : \A i \in DOMAIN owners[e] : owners[e][i].shared = Live(grants, e)

IInv == TypeOK /\ IsFiniteSet(Copies(grants)) /\ CountInv

-----------------------------------------------------------------------------
(* The grants as a bag.                                                    *)

LEMMA CopyOf ==
  ASSUME NEW bag, IsABag(bag), NEW c
  PROVE  c \in Copies(bag) <=> \E g \in DOMAIN bag : \E i \in 1..bag[g] : c = <<g, i>>
  BY DEF Copies, BagToSet

LEMMA LiveType ==
  ASSUME NEW bag, NEW e, IsFiniteSet(Copies(bag))
  PROVE  Live(bag, e) \in Nat
<1>1. {c \in Copies(bag) : c[1].entity = e} \in SUBSET Copies(bag)
  OBVIOUS
<1>2. IsFiniteSet({c \in Copies(bag) : c[1].entity = e})
  BY <1>1, FS_Subset
<1> QED
  BY <1>2, FS_CardinalityType DEF Live

(* A grant more, and a grant less.                                         *)
LEMMA AddGrant ==
  ASSUME NEW bag, IsABag(bag), NEW g
  PROVE  LET more == bag (+) SetToBag({g})
         IN  /\ IsABag(more) /\ DOMAIN more = DOMAIN bag \cup {g}
             /\ Copies(more) = Copies(bag) \cup {<<g, (IF g \in DOMAIN bag THEN bag[g] ELSE 0) + 1>>}
<1> DEFINE more == bag (+) SetToBag({g})
           old == IF g \in DOMAIN bag THEN bag[g] ELSE 0
<1>1. /\ DOMAIN more = DOMAIN bag \cup {g}
      /\ more[g] = old + 1
      /\ \A h \in DOMAIN bag : h # g => more[h] = bag[h]
      /\ more = [h \in DOMAIN more |-> more[h]]
  BY DEF (+), SetToBag, IsABag
<1>2. \A h \in DOMAIN bag : bag[h] \in Nat /\ bag[h] > 0
  BY DEF IsABag
<1>3. old \in Nat
  BY <1>2
<1> HIDE DEF more, old
<1>4. IsABag(more)
  BY <1>1, <1>2, <1>3 DEF IsABag
<1>5. Copies(more) = Copies(bag) \cup {<<g, old + 1>>}
  <2>1. ASSUME NEW c, c \in Copies(more)
        PROVE  c \in Copies(bag) \cup {<<g, old + 1>>}
    <3>1. PICK h \in DOMAIN more : \E i \in 1..more[h] : c = <<h, i>>
      BY <1>4, <2>1, CopyOf
    <3>2. PICK i \in 1..more[h] : c = <<h, i>>
      BY <3>1
    <3>3. CASE h # g
      BY <1>1, <3>2, <3>3, CopyOf
    <3>4. CASE h = g /\ i = old + 1
      BY <3>2, <3>4
    <3>5. CASE h = g /\ i # old + 1
      <4>1. i \in 1..old
        BY <1>1, <1>3, <3>2, <3>5
      <4>2. g \in DOMAIN bag /\ old = bag[g]
        BY <4>1, <1>3 DEF old
      <4> QED
        BY <3>2, <3>5, <4>1, <4>2, CopyOf
    <3> QED
      BY <3>3, <3>4, <3>5
  <2>2. ASSUME NEW c, c \in Copies(bag)
        PROVE  c \in Copies(more)
    <3>1. PICK h \in DOMAIN bag : \E i \in 1..bag[h] : c = <<h, i>>
      BY <2>2, CopyOf
    <3>2. PICK i \in 1..bag[h] : c = <<h, i>>
      BY <3>1
    <3>3. h \in DOMAIN more /\ i \in 1..more[h]
      BY <1>1, <1>2, <3>2 DEF old
    <3> QED
      BY <1>4, <3>2, <3>3, CopyOf
  <2>3. <<g, old + 1>> \in Copies(more)
    <3>1. g \in DOMAIN more /\ old + 1 \in 1..more[g]
      BY <1>1, <1>3
    <3> QED
      BY <1>4, <3>1, CopyOf
  <2> QED
    BY <2>1, <2>2, <2>3
<1> QED
  BY <1>1, <1>4, <1>5 DEF more, old

LEMMA DropGrant ==
  ASSUME NEW bag, IsABag(bag), NEW g \in DOMAIN bag
  PROVE  LET less == bag (-) SetToBag({g})
         IN  /\ IsABag(less) /\ DOMAIN less \subseteq DOMAIN bag
             /\ Copies(less) = Copies(bag) \ {<<g, bag[g]>>}
<1> DEFINE less == bag (-) SetToBag({g})
<1>1. \A h \in DOMAIN bag : bag[h] \in Nat /\ bag[h] > 0
  BY DEF IsABag
<1>2. /\ DOMAIN less = {h \in DOMAIN bag : h # g \/ bag[g] - 1 > 0}
      /\ \A h \in DOMAIN less : less[h] = IF h = g THEN bag[g] - 1 ELSE bag[h]
      /\ less = [h \in DOMAIN less |-> less[h]]
  BY <1>1 DEF (-), SetToBag
<1> HIDE DEF less
<1>3. IsABag(less)
  BY <1>1, <1>2 DEF IsABag
<1>4. Copies(less) = Copies(bag) \ {<<g, bag[g]>>}
  <2>1. ASSUME NEW c, c \in Copies(less)
        PROVE  c \in Copies(bag) /\ c # <<g, bag[g]>>
    <3>1. PICK h \in DOMAIN less : \E i \in 1..less[h] : c = <<h, i>>
      BY <1>3, <2>1, CopyOf
    <3>2. PICK i \in 1..less[h] : c = <<h, i>>
      BY <3>1
    <3>3. h \in DOMAIN bag /\ i \in 1..bag[h] /\ (h = g => i # bag[g])
      BY <1>1, <1>2, <3>2
    <3> QED
      BY <3>2, <3>3, CopyOf
  <2>2. ASSUME NEW c, c \in Copies(bag), c # <<g, bag[g]>>
        PROVE  c \in Copies(less)
    <3>1. PICK h \in DOMAIN bag : \E i \in 1..bag[h] : c = <<h, i>>
      BY <2>2, CopyOf
    <3>2. PICK i \in 1..bag[h] : c = <<h, i>>
      BY <3>1
    <3>3. h = g => i \in 1..(bag[g] - 1)
      BY <1>1, <2>2, <3>2
    <3>4. h \in DOMAIN less /\ i \in 1..less[h]
      BY <1>1, <1>2, <3>2, <3>3
    <3> QED
      BY <1>3, <3>2, <3>4, CopyOf
  <2> QED
    BY <2>1, <2>2
<1> QED
  BY <1>2, <1>3, <1>4 DEF less

-----------------------------------------------------------------------------
(* The ownership rows.                                                     *)

LEMMA RecountRows ==
  ASSUME NEW bag, NEW e, Live(bag, e) \in Nat, NEW rows \in Seq(OwnershipRow)
  PROVE  /\ Recount(bag, e, rows) \in Seq(OwnershipRow)
         /\ \A i \in DOMAIN Recount(bag, e, rows) : Recount(bag, e, rows)[i].shared = Live(bag, e)
         /\ rows = <<>> => Recount(bag, e, rows) = <<>>
<1> DEFINE new == Recount(bag, e, rows)
<1>1. DOMAIN rows = 1..Len(rows) /\ Len(rows) \in Nat /\ \A i \in 1..Len(rows) : rows[i] \in OwnershipRow
  OBVIOUS
<1>2. new = [i \in 1..Len(rows) |-> [rows[i] EXCEPT !.shared = Live(bag, e)]]
  BY <1>1 DEF Recount
<1>3. ASSUME NEW row \in OwnershipRow
      PROVE  /\ [row EXCEPT !.shared = Live(bag, e)] \in OwnershipRow
             /\ [row EXCEPT !.shared = Live(bag, e)].shared = Live(bag, e)
  BY DEF OwnershipRow
<1>4. \A i \in 1..Len(rows) : new[i] \in OwnershipRow /\ new[i].shared = Live(bag, e)
  <2> SUFFICES ASSUME NEW i \in 1..Len(rows)
               PROVE  new[i] \in OwnershipRow /\ new[i].shared = Live(bag, e)
    OBVIOUS
  <2>1. rows[i] \in OwnershipRow /\ new[i] = [rows[i] EXCEPT !.shared = Live(bag, e)]
    BY <1>1, <1>2
  <2> QED
    BY <1>3, <2>1
<1>5. new \in Seq(OwnershipRow) /\ DOMAIN new = 1..Len(rows)
  BY <1>1, <1>2, <1>4
<1>6. rows = <<>> => new = <<>>
  BY <1>2
<1> QED
  BY <1>4, <1>5, <1>6

LEMMA NewRowCounts ==
  ASSUME NEW u \in Users, NEW e, Live(grants, e) \in Nat
  PROVE  NewRow(u, e) \in OwnershipRow /\ NewRow(u, e).shared = Live(grants, e)
  BY DEF NewRow, OwnershipRow

(* The rows of one entity change and those of the others do not.           *)
LEMMA RowsOfOne ==
  ASSUME TypeOK, NEW e \in Entities, NEW rows \in Seq(OwnershipRow),
         owners' = [owners EXCEPT ![e] = rows], rows # <<>> => e \in used',
         used \subseteq used'
  PROVE  /\ owners' \in [Entities -> Seq(OwnershipRow)] /\ owners'[e] = rows
         /\ \A f \in Entities : f # e => owners'[f] = owners[f]
         /\ \A f \in Entities : owners'[f] # <<>> => f \in used'
  BY DEF TypeOK

(* Grants change by one, of an entity that is counted anew.                *)
LEMMA GrantStep ==
  ASSUME IInv, NEW g \in GrantRow, NEW i,
         \/ Copies(grants') = Copies(grants) \cup {<<g, i>>}
         \/ Copies(grants') = Copies(grants) \ {<<g, i>>},
         BagToSet(grants') \subseteq GrantRow, IsABag(grants'),
         owners' = [owners EXCEPT ![g.entity] = Recount(grants', g.entity, @)],
         UNCHANGED <<admins, members, used, items, hidden>>
  PROVE  IInv'
<1> DEFINE e == g.entity
<1>1. e \in Entities
  BY DEF GrantRow
<1>2. IsFiniteSet(Copies(grants'))
  <2>1. IsFiniteSet(Copies(grants))
    BY DEF IInv
  <2>2. IsFiniteSet(Copies(grants) \cup {<<g, i>>})
    BY <2>1, FS_AddElement
  <2>3. IsFiniteSet(Copies(grants) \ {<<g, i>>})
    BY <2>1, FS_Subset
  <2> QED
    BY <2>2, <2>3
<1>3. Live(grants', e) \in Nat
  BY <1>2, LiveType
<1> DEFINE rows == Recount(grants', e, owners[e])
<1>4. owners[e] \in Seq(OwnershipRow)
  BY <1>1 DEF IInv, TypeOK
<1>5. /\ rows \in Seq(OwnershipRow) /\ (owners[e] = <<>> => rows = <<>>)
      /\ \A j \in DOMAIN rows : rows[j].shared = Live(grants', e)
  BY <1>3, <1>4, RecountRows
<1>6. owners' = [owners EXCEPT ![e] = rows]
  OBVIOUS
<1> HIDE DEF rows
<1>7. /\ owners' \in [Entities -> Seq(OwnershipRow)] /\ owners'[e] = rows
      /\ \A f \in Entities : f # e => owners'[f] = owners[f]
      /\ \A f \in Entities : owners'[f] # <<>> => f \in used'
  <2>1. rows # <<>> => e \in used'
    BY <1>1, <1>5 DEF IInv, TypeOK
  <2> QED
    BY <1>1, <1>5, <1>6, <2>1, RowsOfOne DEF IInv
<1>8. TypeOK'
  BY <1>7 DEF IInv, TypeOK
<1>9. CountInv'
  <2> SUFFICES ASSUME NEW f \in Entities, NEW j \in DOMAIN owners'[f]
               PROVE  owners'[f][j].shared = Live(grants', f)
    BY DEF CountInv, Live, Copies
  <2>1. CASE f = e
    BY <1>5, <1>7, <2>1
  <2>2. CASE f # e
    <3>1. {c \in Copies(grants') : c[1].entity = f} = {c \in Copies(grants) : c[1].entity = f}
      BY <2>2
    <3>2. owners'[f] = owners[f]
      BY <1>7, <2>2
    <3> QED
      BY <3>1, <3>2 DEF IInv, CountInv, Live
  <2> QED
    BY <2>1, <2>2
<1> QED
  BY <1>2, <1>8, <1>9 DEF IInv, Copies

LEMMA InitInv == Init => IInv
<1> SUFFICES ASSUME Init PROVE IInv
  OBVIOUS
<1>1. DOMAIN grants = {} /\ IsABag(grants) /\ Copies(grants) = {}
  BY DEF Init, EmptyBag, SetToBag, IsABag, Copies, BagToSet
<1>2. IsFiniteSet(Copies(grants))
  BY <1>1, FS_EmptySet
<1>3. TypeOK
  BY <1>1 DEF Init, TypeOK, BagToSet
<1>4. CountInv
  BY DEF Init, CountInv
<1> QED
  BY <1>2, <1>3, <1>4 DEF IInv

(* The steps that leave the grants alone and change the rows of one entity *)
(* keep the count in each.                                                 *)
LEMMA RowStep ==
  ASSUME IInv, NEW e \in Entities, NEW rows \in Seq(OwnershipRow),
         \A i \in DOMAIN rows : rows[i].shared = Live(grants, e),
         owners' = [owners EXCEPT ![e] = rows], rows # <<>> => e \in used',
         used \subseteq used', used' \subseteq Entities, items' \subseteq used',
         UNCHANGED <<admins, members, grants, hidden>>
  PROVE  IInv'
<1>1. /\ owners' \in [Entities -> Seq(OwnershipRow)] /\ owners'[e] = rows
      /\ \A f \in Entities : f # e => owners'[f] = owners[f]
      /\ \A f \in Entities : owners'[f] # <<>> => f \in used'
  BY RowsOfOne DEF IInv
<1>2. TypeOK'
  BY <1>1 DEF IInv, TypeOK
<1>3. CountInv'
  <2> SUFFICES ASSUME NEW f \in Entities, NEW j \in DOMAIN owners'[f]
               PROVE  owners'[f][j].shared = Live(grants', f)
    BY DEF CountInv, Live, Copies
  <2>1. owners'[f][j].shared = Live(grants, f)
    BY <1>1 DEF IInv, CountInv
  <2> QED
    BY <2>1
<1>4. IsFiniteSet(Copies(grants))'
  BY DEF IInv, Copies
<1> QED
  BY <1>2, <1>3, <1>4 DEF IInv

LEMMA Inductive == Spec => []IInv
<1>1. IInv /\ [Next]_vars => IInv'
  <2> SUFFICES ASSUME IInv, [Next]_vars PROVE IInv'
    OBVIOUS
  <2>1. \A e : Live(grants, e) \in Nat
    BY LiveType DEF IInv
  <2>2. ASSUME NEW u \in Users, NEW g \in GrantRow, Share(u, g)
        PROVE  IInv'
    <3>1. grants' = grants (+) SetToBag({g}) /\ IsABag(grants)
      BY <2>2 DEF Share, IInv, TypeOK
    <3> DEFINE i == (IF g \in DOMAIN grants THEN grants[g] ELSE 0) + 1
    <3>2. /\ IsABag(grants') /\ DOMAIN grants' = DOMAIN grants \cup {g}
          /\ Copies(grants') = Copies(grants) \cup {<<g, i>>}
      BY <3>1, AddGrant
    <3> HIDE DEF i
    <3>3. BagToSet(grants') \subseteq GrantRow
      BY <3>2 DEF BagToSet, IInv, TypeOK
    <3> QED
      BY <2>2, <3>2, <3>3, GrantStep DEF Share
  <2>3. ASSUME NEW u \in Users, NEW g \in GrantRow, Revoke(u, g)
        PROVE  IInv'
    <3>1. grants' = grants (-) SetToBag({g}) /\ IsABag(grants) /\ g \in DOMAIN grants
      BY <2>3 DEF Revoke, IInv, TypeOK, BagIn, BagToSet
    <3>2. /\ IsABag(grants') /\ DOMAIN grants' \subseteq DOMAIN grants
          /\ Copies(grants') = Copies(grants) \ {<<g, grants[g]>>}
      BY <3>1, DropGrant
    <3>3. BagToSet(grants') \subseteq GrantRow
      BY <3>2 DEF BagToSet, IInv, TypeOK
    <3> QED
      BY <2>3, <3>2, <3>3, GrantStep DEF Revoke
  <2>4. ASSUME NEW u \in Users, NEW e \in Entities, Create(u, e)
        PROVE  IInv'
    <3> DEFINE rows == <<NewRow(u, e)>>
    <3>1. rows \in Seq(OwnershipRow) /\ \A i \in DOMAIN rows : rows[i].shared = Live(grants, e)
      BY <2>1, NewRowCounts
    <3> HIDE DEF rows
    <3>2. owners' = [owners EXCEPT ![e] = rows]
      BY <2>4 DEF Create, rows
    <3>3. e \in used' /\ used \subseteq used' /\ used' \subseteq Entities /\ items' \subseteq used'
      BY <2>4 DEF Create, IInv, TypeOK
    <3> QED
      BY <2>4, <3>1, <3>2, <3>3, RowStep DEF Create
  <2>5. ASSUME NEW u \in Users, NEW e \in Entities, Claim(u, e)
        PROVE  IInv'
    <3> DEFINE rows == Append(owners[e], NewRow(u, e))
    <3>1. owners[e] \in Seq(OwnershipRow) /\ NewRow(u, e) \in OwnershipRow
          /\ NewRow(u, e).shared = Live(grants, e)
      BY <2>1, NewRowCounts DEF IInv, TypeOK
    <3>2. \A i \in DOMAIN owners[e] : owners[e][i].shared = Live(grants, e)
      BY DEF IInv, CountInv
    <3>3. rows \in Seq(OwnershipRow) /\ \A i \in DOMAIN rows : rows[i].shared = Live(grants, e)
      BY <3>1, <3>2
    <3>4. owners' = [owners EXCEPT ![e] = rows]
      BY <2>5 DEF Claim
    <3> HIDE DEF rows
    <3>5. e \in used' /\ used \subseteq used' /\ used' \subseteq Entities /\ items' \subseteq used'
      BY <2>5 DEF Claim, IInv, TypeOK
    <3> QED
      BY <2>5, <3>3, <3>4, <3>5, RowStep DEF Claim
  <2>6. ASSUME NEW u \in Users, NEW e \in Entities, NEW to \in Users, Transfer(u, e, to)
        PROVE  IInv'
    <3> DEFINE given == [owners[e] EXCEPT ![1].owner = to]
               rows == Recount(grants, e, given)
    <3>1. owners[e] \in Seq(OwnershipRow) /\ owners[e] # <<>> /\ e \in used /\ used \subseteq Entities
          /\ items \subseteq used
      BY <2>6 DEF Transfer, IInv, TypeOK
    <3>2. given \in Seq(OwnershipRow)
      <4>1. owners[e][1] \in OwnershipRow
        BY <3>1
      <4>2. [owners[e][1] EXCEPT !.owner = to] \in OwnershipRow
        BY <4>1 DEF OwnershipRow
      <4> QED
        BY <3>1, <4>2
    <3>3. owners' = [owners EXCEPT ![e] = rows]
      BY <2>6 DEF Transfer
    <3> HIDE DEF given
    <3>4. rows \in Seq(OwnershipRow) /\ \A i \in DOMAIN rows : rows[i].shared = Live(grants, e)
      BY <2>1, <3>2, RecountRows
    <3> HIDE DEF rows
    <3> QED
      BY <2>6, <3>1, <3>3, <3>4, RowStep DEF Transfer
  <2>7. ASSUME UNCHANGED <<owners, grants, members>>, admins' = admins,
               items' \subseteq used', used \subseteq used', used' \subseteq Entities,
               hidden' \subseteq Users \X used'
        PROVE  IInv'
    <3>1. TypeOK'
      BY <2>7 DEF IInv, TypeOK
    <3>2. CountInv' /\ IsFiniteSet(Copies(grants))'
      BY <2>7 DEF IInv, CountInv, Live, Copies
    <3> QED
      BY <3>1, <3>2 DEF IInv
  <2>8. ASSUME NEW e \in Entities, CreateAndDie(e)
        PROVE  IInv'
    BY <2>7, <2>8 DEF CreateAndDie, IInv, TypeOK
  <2>9. ASSUME NEW u \in Users, NEW e \in Entities, NEW hide \in BOOLEAN, SetHidden(u, e, hide)
        PROVE  IInv'
    BY <2>7, <2>9 DEF SetHidden, IInv, TypeOK
  <2>10. ASSUME NEW u \in Users, NEW e \in Entities, Delete(u, e)
         PROVE  IInv'
    BY <2>7, <2>10 DEF Delete, IInv, TypeOK
  <2>11. CASE UNCHANGED vars
    BY <2>7, <2>11 DEF vars, IInv, TypeOK
  <2> QED
    BY <2>2, <2>3, <2>4, <2>5, <2>6, <2>8, <2>9, <2>10, <2>11 DEF Next
<1> QED
  BY InitInv, <1>1, PTL DEF Spec

-----------------------------------------------------------------------------
(* What follows.                                                           *)

LEMMA GrantAccessIs ==
  ASSUME IInv, NEW u \in Users, NEW e \in Entities
  PROVE  /\ GrantAccess(u, e) \subseteq EntityActions
         /\ GrantAccess(u, e) # {} <=> \E g \in GrantsOf(e) : Names(u, g)
         /\ \A a : a \in GrantAccess(u, e) <=> \E g \in GrantsOf(e) : Names(u, g) /\ a \in g.actions
<1>1. \A g \in GrantsOf(e) : g.actions # {} /\ g.actions \subseteq EntityActions
  BY OffersAssumption DEF IInv, TypeOK, GrantsOf, GrantRow
<1> QED
  BY <1>1 DEF GrantAccess

(* A list is what the item routes answer one by one: an actor who sees     *)
(* nothing is not given everything, a later row of an entity gives its     *)
(* owner nothing, and what was deleted does not come back.                 *)
THEOREM ListsAreItemRoutes == Spec => []ListIsItemRoutes
<1>1. ASSUME IInv, NEW u \in Users, NEW asked \in SUBSET Entities
      PROVE  ListRoute(u, asked) = {e \in Entities : (asked = {} \/ e \in asked) /\ ItemRoute(u, e)}
  <2>1. items \subseteq Entities
    BY <1>1 DEF IInv, TypeOK
  <2>2. u \notin admins => VisibleIds(u, "read") = {e \in Entities : Allowed(u, e, "read")}
    <3> SUFFICES ASSUME u \notin admins
                 PROVE  VisibleIds(u, "read") = {e \in Entities : Allowed(u, e, "read")}
      OBVIOUS
    <3>1. OldestOwnedBy(u) = {e \in Entities : IsOwner(u, e)}
      <4> SUFFICES ASSUME NEW e \in Entities
                   PROVE  /\ (owners[e] # <<>> => 1 \in DOMAIN owners[e])
                          /\ (owners[e] = <<>> => DOMAIN owners[e] = {})
        BY DEF OldestOwnedBy, IsOwner
      <4>1. owners[e] \in Seq(OwnershipRow)
        BY <1>1 DEF IInv, TypeOK
      <4> QED
        BY <4>1
    <3>2. {g.entity : g \in {h \in BagToSet(grants) : Names(u, h) /\ "read" \in h.actions}}
            = {e \in Entities : \E g \in GrantsOf(e) : Names(u, g) /\ "read" \in g.actions}
      <4>1. \A g \in BagToSet(grants) : g.entity \in Entities
        BY <1>1 DEF IInv, TypeOK, GrantRow
      <4> QED
        BY <4>1 DEF GrantsOf
    <3> QED
      BY <3>1, <3>2 DEF VisibleIds, Allowed
  <2>3. CASE u \in admins
    BY <2>1, <2>3 DEF ListRoute, Handler, ItemRoute, Allowed
  <2>4. CASE u \notin admins
    BY <2>1, <2>2, <2>4 DEF ListRoute, Handler, ItemRoute
  <2> QED
    BY <2>3, <2>4
<1>2. IInv => ListIsItemRoutes
  BY <1>1 DEF ListIsItemRoutes
<1> QED
  BY Inductive, <1>2, PTL

(* The predicate that Postgres evaluates keeps of every view the rows that *)
(* the rule keeps, whatever was shared, revoked, transferred and claimed   *)
(* twice before; and a user is shown the actions that are allowed.         *)
THEOREM FormsOfTheRuleAgree == Spec => []FormsAgree
<1>1. ASSUME IInv, NEW u \in Users, NEW e \in Entities, NEW view \in Views, NEW i \in DOMAIN owners[e]
      PROVE  Kept(u, owners[e][i], e, view)
               <=> Access(u, owners[e][i], e) # {} /\ Matches(u, owners[e][i], e, view)
  <2> DEFINE row == owners[e][i]
  <2>1. row.shared = Live(grants, e) /\ Live(grants, e) \in Nat
    BY <1>1, LiveType DEF IInv, CountInv
  <2>2. Access(u, row, e) # {} <=> u \in admins \/ row.owner = u \/ \E g \in GrantsOf(e) : Names(u, g)
    <3>1. EntityActions # {}
      BY DEF EntityActions
    <3> QED
      BY <1>1, <3>1, GrantAccessIs DEF Access
  <2> QED
    BY <2>1, <2>2 DEF Kept, Matches, Views
<1>2. ASSUME IInv, NEW u \in Users, NEW e \in Entities, owners[e] # <<>>
      PROVE  LET allowed == {a \in EntityActions : Allowed(u, e, a)}
                 shown == Access(u, owners[e][1], e)
             IN  shown \subseteq allowed /\ (u \notin admins => shown = allowed)
  BY <1>2, GrantAccessIs DEF Access, Allowed, IsOwner
<1>3. IInv => FormsAgree
  BY <1>1, <1>2 DEF FormsAgree, PredicateIsRule, ShownActionsAreAllowed, IInv
<1> QED
  BY Inductive, <1>3, PTL
=============================================================================
