------------------------------ MODULE Visibility ------------------------------
(***************************************************************************)
(* Who may do what, and who is shown what (core/src/cubes/permissions,     *)
(* core/src/entity-enforcement.ts).  One rule is written four times:       *)
(*                                                                         *)
(*   decide          foundation.ts: may the actor do it to this entity?    *)
(*   visibleIds      foundation.ts: the entities an entity list may return *)
(*   decide          visibility.ts: why the actor sees the entity          *)
(*   visibleWhere    visibility.ts: the rows of a view, as a predicate     *)
(*                   that Postgres evaluates                               *)
(*                                                                         *)
(* The state is what they read, for one entity type of one cube.  Calls    *)
(* run one after the other here; Sharing and Assignments interleave them.  *)
(***************************************************************************)
EXTENDS Integers, Sequences, FiniteSets, FiniteSetsExt, Bags

CONSTANTS
  Users, Groups,
  Entities,  \* item ids: random, none is given out twice
  Offers,    \* the sets of actions that grants are made with
  MaxGrants, \* bound: live grants
  MaxRows,   \* bound: ownership rows
  MaxHidden  \* bound: hidden preferences

EntityActions == {"read", "create", "edit", "delete", "share", "transfer"}
Views == {"all", "owned-by-me", "created-by-me", "only-mine", "shared-by-me", "shared-with-me", "hidden-by-me"}

ASSUME SubjectsAssumption == Users \cap Groups = {}
ASSUME OffersAssumption == Offers \subseteq SUBSET EntityActions /\ {} \notin Offers

VARIABLES
  admins,   \* the superadmins and the admins of the cube
  members,  \* the members of each group
  used,     \* the ids given out
  items,    \* the live items of the cube
  owners,   \* the ownership rows of each entity, oldest first
  grants,   \* the bag of live grants
  hidden    \* the <<user, entity>> with a hidden preference

vars == <<admins, members, used, items, owners, grants, hidden>>

OwnershipRow == [owner : Users, createdBy : Users, shared : Nat]
GrantRow == [entity : Entities, subject : Users \cup Groups, actions : Offers]

GrantsOf(e) == {g \in BagToSet(grants) : g.entity = e}

(* The grants of a bag one by one, and how many of them an entity has.     *)
Copies(bag) == UNION {{g} \X (1..bag[g]) : g \in BagToSet(bag)}
Live(bag, e) == Cardinality({c \in Copies(bag) : c[1].entity = e})

(* namesActor: the grant is the user's own or one of a group of the user.  *)
Names(u, g) == g.subject = u \/ g.subject \in {k \in Groups : u \in members[k]}

-----------------------------------------------------------------------------
(* foundation.ts *)

IsOwner(u, e) == owners[e] # <<>> /\ owners[e][1].owner = u

Allowed(u, e, action) ==
  \/ u \in admins
  \/ IsOwner(u, e)
  \/ \E g \in GrantsOf(e) : Names(u, g) /\ action \in g.actions

(* requireShare: no grant gives the right to share.                        *)
MayShare(u, e) == u \in admins \/ IsOwner(u, e)

(* Mutant: every ownership row counts.                                     *)
AnyRowOwnedBy(u) == {e \in Entities : \E i \in DOMAIN owners[e] : owners[e][i].owner = u}

(* ownershipRowsOf and oldestOwnedBy: all rows of the entities the user    *)
(* has a row of, then those whose oldest row is the user's.                *)
OldestOwnedBy(u) ==
  {e \in {f \in Entities : \E i \in DOMAIN owners[f] : owners[f][i].owner = u} : owners[e][1].owner = u}

(* visibleIds of an actor who is no admin.                                 *)
VisibleIds(u, action) ==
  OldestOwnedBy(u) \cup {g.entity : g \in {h \in BagToSet(grants) : Names(u, h) /\ action \in h.actions}}

-----------------------------------------------------------------------------
(* entity-enforcement.ts: the list route.  `asked` is the ids= parameter,  *)
(* the empty set standing for its absence; the cube's own list handler     *)
(* also reads no ids as no filter.                                         *)

Handler(ids) == IF ids = {} THEN items ELSE items \cap ids

(* Mutant: an actor who sees nothing still reaches the handler.            *)
ListRouteUnguarded(u, asked) ==
  LET visible == VisibleIds(u, "read")
  IN  IF u \in admins THEN Handler(asked) ELSE Handler(IF asked = {} THEN visible ELSE asked \cap visible)

ListRoute(u, asked) ==
  LET visible == VisibleIds(u, "read")
      ids == IF asked = {} THEN visible ELSE asked \cap visible
  IN  IF u \in admins THEN Handler(asked)
      ELSE IF ids = {} THEN {} ELSE Handler(ids)

(* The item route: authorize, then the handler.                            *)
ItemRoute(u, e) == e \in items /\ Allowed(u, e, "read")

-----------------------------------------------------------------------------
(* visibility.ts *)

(* grantAccess: all actions of all applicable grants; no access if none    *)
(* applies.                                                                *)
GrantAccess(u, e) == UNION {g.actions : g \in {h \in GrantsOf(e) : Names(u, h)}}

(* Mutant: who created an entity keeps access to it.                       *)
AccessAsCreator(u, row, e) ==
  IF row.owner = u THEN EntityActions
  ELSE IF GrantAccess(u, e) # {} THEN GrantAccess(u, e)
  ELSE IF row.createdBy = u \/ u \in admins THEN EntityActions ELSE {}

(* accessOf, first match wins: owner, grant, creator who is an admin,      *)
(* superadmin, cube admin.  {} is no access.                               *)
Access(u, row, e) ==
  IF row.owner = u THEN EntityActions
  ELSE IF GrantAccess(u, e) # {} THEN GrantAccess(u, e)
  ELSE IF u \in admins THEN EntityActions ELSE {}

(* matchesVisibilityView.                                                  *)
Matches(u, row, e, view) ==
  /\ view = "hidden-by-me" <=> <<u, e>> \in hidden
  /\ view \in {"owned-by-me", "only-mine", "shared-by-me"} => row.owner = u
  /\ view = "created-by-me" => row.createdBy = u
  /\ view = "only-mine" => Live(grants, e) = 0
  /\ view = "shared-by-me" => Live(grants, e) > 0
  /\ view = "shared-with-me" => row.owner # u

(* Mutant: the view of what others share does not exclude the own rows.    *)
KeptWithOwn(u, row, e, view) ==
  /\ view \in {"owned-by-me", "only-mine", "shared-by-me"} => row.owner = u
  /\ view = "only-mine" => row.shared = 0
  /\ view = "created-by-me" => row.createdBy = u
  /\ view = "hidden-by-me" => <<u, e>> \in hidden
  /\ u \in admins \/ row.owner = u \/ \E g \in GrantsOf(e) : Names(u, g)
  /\ ~ \/ view # "hidden-by-me" /\ <<u, e>> \in hidden
       \/ view = "shared-by-me" /\ row.shared = 0

(* visibleWhere: equals, in, anyOf and not.                                *)
Kept(u, row, e, view) ==
  /\ view \in {"owned-by-me", "only-mine", "shared-by-me"} => row.owner = u
  /\ view = "only-mine" => row.shared = 0
  /\ view = "created-by-me" => row.createdBy = u
  /\ view = "hidden-by-me" => <<u, e>> \in hidden
  /\ u \in admins \/ row.owner = u \/ \E g \in GrantsOf(e) : Names(u, g)
  /\ ~ \/ view # "hidden-by-me" /\ <<u, e>> \in hidden
       \/ view = "shared-by-me" /\ row.shared = 0
       \/ view = "shared-with-me" /\ row.owner = u

-----------------------------------------------------------------------------

Init ==
  /\ admins \in SUBSET Users
  /\ members \in [Groups -> SUBSET Users]
  /\ used = {}
  /\ items = {}
  /\ owners = [e \in Entities |-> <<>>]
  /\ grants = EmptyBag
  /\ hidden = {}

(* Mutant: the row is inserted without sharedWithCount.                    *)
NewRowUncounted(u, e) == [owner |-> u, createdBy |-> u]

(* The grants are counted: an admin may have shared the item before.       *)
NewRow(u, e) == [owner |-> u, createdBy |-> u, shared |-> Live(grants, e)]

(* claimCreated: the handler inserts the item, which is then claimed.      *)
Create(u, e) ==
  /\ e \notin used
  /\ used' = used \cup {e}
  /\ items' = items \cup {e}
  /\ owners' = [owners EXCEPT ![e] = <<NewRow(u, e)>>]
  /\ UNCHANGED <<admins, members, grants, hidden>>

(* The process dies between the two: an item nobody owns.                  *)
CreateAndDie(e) ==
  /\ e \notin used
  /\ used' = used \cup {e}
  /\ items' = items \cup {e}
  /\ UNCHANGED <<admins, members, owners, grants, hidden>>

AllRows == MapThenSumSet(LAMBDA f : Len(owners[f]), Entities)

(* claim: of an item without an owner, or beside another claim that the    *)
(* first read of both did not see (Sharing).                               *)
Claim(u, e) ==
  /\ e \in items
  /\ Len(owners[e]) <= 1
  /\ AllRows < MaxRows
  /\ owners' = [owners EXCEPT ![e] = Append(@, NewRow(u, e))]
  /\ UNCHANGED <<admins, members, used, items, grants, hidden>>

(* Mutant: only the row that decides is counted anew.                      *)
RecountOldest(bag, e, rows) ==
  IF rows = <<>> THEN rows ELSE [rows EXCEPT ![1].shared = Live(bag, e)]

(* recountShares, over all ownership rows of the entity.                   *)
Recount(bag, e, rows) == [i \in DOMAIN rows |-> [rows[i] EXCEPT !.shared = Live(bag, e)]]

(* grantUser, grantGroup.                                                  *)
Share(u, g) ==
  /\ g.entity \in used
  /\ BagCardinality(grants) < MaxGrants
  /\ MayShare(u, g.entity)
  /\ grants' = grants (+) SetToBag({g})
  /\ owners' = [owners EXCEPT ![g.entity] = Recount(grants', g.entity, @)]
  /\ UNCHANGED <<admins, members, used, items, hidden>>

(* revokeGrant.                                                            *)
Revoke(u, g) ==
  /\ BagIn(g, grants)
  /\ MayShare(u, g.entity)
  /\ grants' = grants (-) SetToBag({g})
  /\ owners' = [owners EXCEPT ![g.entity] = Recount(grants', g.entity, @)]
  /\ UNCHANGED <<admins, members, used, items, hidden>>

(* transferOwnership: of the row that decides.                             *)
Transfer(u, e, to) ==
  /\ owners[e] # <<>>
  /\ Allowed(u, e, "transfer")
  /\ owners' = [owners EXCEPT ![e] = Recount(grants, e, [@ EXCEPT ![1].owner = to])]
  /\ UNCHANGED <<admins, members, used, items, grants, hidden>>

(* setHidden: of an entity the user sees.                                  *)
SetHidden(u, e, hide) ==
  /\ owners[e] # <<>>
  /\ Access(u, owners[e][1], e) # {}
  /\ hide => Cardinality(hidden) < MaxHidden
  /\ hidden' = IF hide THEN hidden \cup {<<u, e>>} ELSE hidden \ {<<u, e>>}
  /\ UNCHANGED <<admins, members, used, items, owners, grants>>

(* The item route of a DELETE.  Ownership rows and grants stay.            *)
Delete(u, e) ==
  /\ e \in items
  /\ Allowed(u, e, "delete")
  /\ items' = items \ {e}
  /\ UNCHANGED <<admins, members, used, owners, grants, hidden>>

Next ==
  \E u \in Users :
    \/ \E g \in GrantRow : Share(u, g) \/ Revoke(u, g)
    \/ \E e \in Entities :
         \/ Create(u, e) \/ CreateAndDie(e) \/ Claim(u, e) \/ Delete(u, e)
         \/ \E to \in Users : Transfer(u, e, to)
         \/ \E hide \in BOOLEAN : SetHidden(u, e, hide)

Spec == Init /\ [][Next]_vars

-----------------------------------------------------------------------------
(* TypeOK: ownership rows, grants and preferences are well formed and only *)
(* of ids that were given out.                                             *)
TypeOK ==
  /\ admins \subseteq Users
  /\ members \in [Groups -> SUBSET Users]
  /\ items \subseteq used /\ used \subseteq Entities
  /\ owners \in [Entities -> Seq(OwnershipRow)]
  /\ \A e \in Entities : owners[e] # <<>> => e \in used
  /\ BagToSet(grants) \subseteq GrantRow /\ IsABag(grants)
  /\ hidden \subseteq Users \X used

(* PredicateIsRule: a view pages, counts and sorts by a predicate in SQL;  *)
(* it keeps exactly the ownership rows that the rule, applied row by row,  *)
(* would keep, so the total is right and no page comes out short.  This    *)
(* rests on the stored sharedWithCount and on leaving out the creator.     *)
PredicateIsRule ==
  \A u \in Users, e \in Entities, view \in Views : \A i \in DOMAIN owners[e] :
    LET row == owners[e][i]
    IN  Kept(u, row, e, view) <=> Access(u, row, e) # {} /\ Matches(u, row, e, view)

(* ListIsItemRoutes: the list route returns exactly the items of those     *)
(* asked for that the item routes would answer one by one: duplicate       *)
(* ownership rows give nothing, deleted items do not come back, and who    *)
(* sees nothing gets nothing rather than everything.                       *)
ListIsItemRoutes ==
  \A u \in Users, asked \in SUBSET Entities :
    ListRoute(u, asked) = {e \in Entities : (asked = {} \/ e \in asked) /\ ItemRoute(u, e)}

(* ShownActionsAreAllowed: the actions a user is shown for an entity, by   *)
(* the row that decides, are allowed when the user tries them; and a user  *)
(* who is no admin is shown all that is allowed.                           *)
ShownActionsAreAllowed ==
  \A u \in Users, e \in Entities :
    owners[e] # <<>> =>
      LET allowed == {a \in EntityActions : Allowed(u, e, a)}
          shown == Access(u, owners[e][1], e)
      IN  shown \subseteq allowed /\ (u \notin admins => shown = allowed)

(* FormsAgree: the forms of the rule agree. The SQL predicate of a view    *)
(* keeps the rows that the rule keeps one by one (PredicateIsRule), and    *)
(* the actions shown for an entity are those its routes allow              *)
(* (ShownActionsAreAllowed), in states of the right type (TypeOK).         *)
(* permissions/visibility.ts, visibility-view.ts.                          *)
FormsAgree == TypeOK /\ PredicateIsRule /\ ShownActionsAreAllowed
=============================================================================
