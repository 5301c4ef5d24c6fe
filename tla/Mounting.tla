------------------------------ MODULE Mounting ------------------------------
(***************************************************************************)
(* A boot from the cubes on disk to a serving system: what is discovered,  *)
(* the contract of every package before any package runs, the manifests,   *)
(* the rules over all of them, each cube created in turn, the life rules,  *)
(* the record of schema versions; and the life after it: which route,      *)
(* command and link answers while cubes are switched off.  Between boots   *)
(* the operator removes, upgrades or leaves out cubes.                     *)
(*                                                                         *)
(* A name is the sequence of its dash-separated words, so that a child     *)
(* a/b and a cube a-b meet in the forms in which the kernel joins them.  A *)
(* cube is a record: its directory `id`, what its module exports `m` (the  *)
(* manifest) and what create returns (`ends`, `commands`, `returns`).      *)
(* The schema migrations between the manifests and the mount are           *)
(* BootMigration's; the wrappers of entity routes are Visibility's.        *)
(***************************************************************************)
EXTENDS Integers, Sequences, FiniteSets, SequencesExt

CONSTANTS Layouts,   \* what may be on disk: sequences of cubes in load order
          Wanted,    \* values of QWBE_MOUNTED: Everything, or a set of ids
          Links,     \* the links of the spaces: [from, to] (cube, entity)
          Shipped,   \* the committed records of versions: id |-> record
          MaxBoots,  \* bound: boots
          MaxEdits,  \* bound: changes of the disk between boots
          Everything, None

VARIABLES disk,      \* the cubes on disk by their place in the load order
          wanted,    \* QWBE_MOUNTED
          off,       \* the file of the switches: ids of disabled cubes
          records,   \* the file of versions, written by earlier boots
          phase,     \* "down", "import", "gates", "create", "rules", "drift", "serving"
          ran,       \* the cubes whose module this boot has imported, in order
          system,    \* the cubes created, in order
          bound,     \* capability |-> the cube bound as its provider
          handles,   \* what consumers hold: id |-> capability |-> handle
          meta,      \* the metadata cache: id |-> hash
          refused,   \* why the last boot stopped: None, or the rule
          served,    \* history: <<id, version, hash>> shown by a serving system
          boots, edits

vars == <<disk, wanted, off, records, phase, ran, system, bound, handles, meta,
          refused, served, boots, edits>>

Capabilities == {"credentials", "identities", "permissions"}
Reasons == {"duplicate", "nested", "not on disk", "contract", "manifest", "gates", "agent surface", "no provider",
            "commands", "routes", "dead cubes", "public endpoint", "route ownership", "drift"}
Methods == [health |-> "GET", context |-> "GET", goals |-> "POST", trace |-> "GET"]

----------------------------------------------------------------------------
(* Names.                                                                  *)

Full(m)  == [parent |-> m.parent, name |-> m.name]
Dash(id) == id.parent \o id.name
Above(id) == [parent |-> <<>>, name |-> id.parent]

(* The first segment under which a cube may serve: its leaf or dash form.  *)
OwnPrefixes(c) == {c.m.name, Dash(Full(c.m))}

Ids(cubes) == {cubes[i].id : i \in DOMAIN cubes}
AllIds == DOMAIN Shipped
OnDisk == Range(disk)

----------------------------------------------------------------------------
(* Discovery: what is on disk, what is asked for, what will be mounted.    *)

Requested == IF wanted = Everything THEN Ids(disk) ELSE wanted

(* A child brings its parent.                                              *)
Expanded == Requested \cup {Above(id) : id \in {i \in Requested : i.parent # <<>>}}

Mounting == {c \in OnDisk : c.id \in Expanded}

(* Mutant: a package is judged by the cubes of it that are mounted.        *)
MountedDirt == {c.plugin : c \in {d \in Mounting : ~d.clean}}

(* The packages whose sources break the contract, wherever in the package. *)
DirtyPackages == {c.plugin : c \in {d \in OnDisk : ~d.clean}}

DiscoveryRefusal ==
  IF \E i, j \in DOMAIN disk : i # j /\ disk[i].id = disk[j].id THEN "duplicate"
  ELSE IF \E c \in OnDisk : c.deep THEN "nested"
  ELSE IF ~(Requested \subseteq Ids(disk)) THEN "not on disk"
  ELSE IF \E c \in Mounting : c.plugin # None /\ c.plugin \in DirtyPackages THEN "contract"
  ELSE None

----------------------------------------------------------------------------
(* The rules on one manifest, and over all of them.                        *)

BadManifest(c) ==
  \/ c.m.name # c.id.name \/ c.m.parent # c.id.parent
  \/ c.m.name = <<"qwbe">> \/ ~c.m.wellFormed
  \/ c.m.entity # None /\ c.m.tables = {}
  \/ \E p \in c.m.permissions : p.cube # Full(c.m)

(* Mutant: two cubes may provide a capability.                             *)
TablesAndPrivileges(cubes) ==
  \E i, j \in DOMAIN cubes :
     /\ i # j
     /\ \/ cubes[i].m.tables \cap cubes[j].m.tables # {}
        \/ cubes[i].m.holds \cap cubes[j].m.holds # {}

(* A table has one owner, a privilege over the others' data at most one    *)
(* holder, and a capability one provider; one cube uses the credentials.   *)
GatesRefusal(cubes) ==
  \E i, j \in DOMAIN cubes :
     /\ i # j
     /\ \/ cubes[i].m.tables \cap cubes[j].m.tables # {}
        \/ cubes[i].m.holds \cap cubes[j].m.holds # {}
        \/ cubes[i].m.provides \cap cubes[j].m.provides # {}
        \/ "credentials" \in cubes[i].m.uses \cap cubes[j].m.uses

----------------------------------------------------------------------------
(* The rules on what a cube's create returned.                             *)

Ends(c) == ToSet(c.ends)
Served(c) == {e.name : e \in Ends(c)}

AgentMissing(c) ==
  /\ c.m.agent
  /\ \A p \in OwnPrefixes(c) : \E s \in DOMAIN Methods :
       ~\E e \in Ends(c) : e.prefix = p /\ e.last = s /\ e.method = Methods[s]

BadCommands(c) ==
  \/ \E i, j \in DOMAIN c.commands : i # j /\ c.commands[i].name = c.commands[j].name
  \/ \E k \in ToSet(c.commands) : k.cube # Full(c.m) \/ k.permission \notin c.m.permissions

(* What the wrapper of a route demands: the declared permission, the read  *)
(* convention for a list, or None (the handler decides).                   *)
DeclaredPermission(c, name) ==
  IF name \in DOMAIN c.m.routes THEN c.m.routes[name]
  ELSE IF name = "list" THEN [cube |-> Full(c.m), act |-> "read"]
  ELSE None

BehindGate(c, e, permission) == permission \in c.m.permissions /\ e.auth /\ e.has403

(* Mutant: a list nobody declared is left to the convention unchecked.     *)
DeclaredRoutesOnly(c) ==
  \/ ~(DOMAIN c.m.routes \subseteq Served(c))
  \/ "list" \in DOMAIN c.m.routes /\ c.m.routes["list"] = None
  \/ \E e \in Ends(c) :
       IF e.name \in DOMAIN c.m.routes
       THEN c.m.routes[e.name] # None /\ ~BehindGate(c, e, c.m.routes[e.name])
       ELSE e.name # "list" /\ e.auth

BadRoutes(c) ==
  \/ ~(DOMAIN c.m.routes \subseteq Served(c))
  \/ "list" \in DOMAIN c.m.routes /\ c.m.routes["list"] = None
  \/ \E e \in Ends(c) :
       IF e.name \in DOMAIN c.m.routes
       THEN c.m.routes[e.name] # None /\ ~BehindGate(c, e, c.m.routes[e.name])
       ELSE IF e.name = "list" THEN ~BehindGate(c, e, [cube |-> Full(c.m), act |-> "read"])
       ELSE e.auth

CreateRefusal(c) ==
  IF AgentMissing(c) THEN "agent surface"
  ELSE IF ~(c.m.provides \subseteq c.returns) THEN "no provider"
  ELSE IF BadCommands(c) THEN "commands"
  ELSE IF BadRoutes(c) THEN "routes"
  ELSE None

----------------------------------------------------------------------------
(* The life rules over the created cubes.                                  *)

IsAuth(c) == c.m.name = <<"auth">>

(* The segment the switch goes by: that of the cube's first route.         *)
RoutePrefix(c) == IF c.ends = <<>> THEN None ELSE c.ends[1].prefix

(* Mutant: only whose name a route carries is checked, not who shares it.  *)
ForeignRoutes(cubes) == \E c \in ToSet(cubes) : \E e \in Ends(c) : e.prefix \notin OwnPrefixes(c)

RouteOwnership(cubes) ==
  \/ \E c \in ToSet(cubes) : \E e \in Ends(c) : e.prefix \notin OwnPrefixes(c)
  \/ \E i, j \in DOMAIN cubes :
       /\ i # j
       /\ \/ cubes[i].ends # <<>> /\ cubes[j].ends # <<>> /\ RoutePrefix(cubes[i]) = RoutePrefix(cubes[j])
          \/ cubes[i].group = cubes[j].group

RulesRefusal ==
  IF (\A c \in ToSet(system) : ~IsAuth(c)) /\ \E c \in ToSet(system) : c.m.requiresAuth THEN "dead cubes"
  ELSE IF \E c \in ToSet(system) : ~IsAuth(c) /\ \E e \in Ends(c) : ~e.auth THEN "public endpoint"
  ELSE IF RouteOwnership(system) THEN "route ownership"
  ELSE None

----------------------------------------------------------------------------
(* Switches and links as they are now.                                     *)

(* A child is off while its parent is.                                     *)
IsEnabled(id) ==
  /\ id \in Ids(ran) /\ id \notin off
  /\ id.parent = <<>> \/ (Above(id) \in Ids(ran) /\ Above(id) \notin off)

(* The cube that holds an entity, for a link: the last that declares it.   *)
Holders(entity) == {i \in DOMAIN ran : ran[i].m.entity = entity}
Holder(entity) == ran[Max(Holders(entity))].id

LiveLinks ==
  {l \in Links : Holders(l.to) # {} /\ IsEnabled(l.from) /\ IsEnabled(Holder(l.to))}

----------------------------------------------------------------------------
(* Derived metadata: what of it the fingerprint of a schema covers.        *)

LinksOf(c) == {l \in LiveLinks : l.from = c.id}

(* Where the field of the cube points: the relation it declares, or the    *)
(* first enabled cube that holds the entity of its link.                   *)
Relation(c) ==
  IF c.m.relation # None
  THEN IF c.m.relation \in Ids(system) THEN c.m.relation ELSE None
  ELSE LET live == {i \in DOMAIN system : /\ IsEnabled(system[i].id)
                                          /\ \E l \in LinksOf(c) : system[i].m.entity = l.to}
       IN IF live = {} THEN None ELSE system[Min(live)].id

SchemaHash(c) == [shape |-> c.m.shape, relation |-> Relation(c), searchable |-> LinksOf(c) # {}]

Tracked == {c \in ToSet(system) : c.m.entity # None /\ c.m.version # None}

(* Mutant: a fresh data directory has nothing to compare with.             *)
WrittenOnly(id) == records[id]

(* What an earlier boot wrote, or what was committed with the cubes.       *)
Recorded(id) == IF records[id] # None THEN records[id] ELSE Shipped[id]

Drifted(c) ==
  LET prev == Recorded(c.id)
  IN prev # None /\ prev.version = c.m.version /\ prev.hash # SchemaHash(c)

----------------------------------------------------------------------------
(* What may be on disk and what was committed with it.                     *)

(* A cube is its directory, what its module exports, and what create       *)
(* returns; a child's directory lies in its parent's; and the cube of a    *)
(* command is the part of its name before the colon.                       *)
Whole(c) ==
  /\ c = [id |-> c.id, plugin |-> c.plugin, deep |-> c.deep, clean |-> c.clean, loads |-> c.loads,
          group |-> c.group, m |-> c.m, ends |-> c.ends, commands |-> c.commands, returns |-> c.returns]
  /\ c.m = [name |-> c.m.name, parent |-> c.m.parent, wellFormed |-> c.m.wellFormed, tables |-> c.m.tables,
            entity |-> c.m.entity, version |-> c.m.version, shape |-> c.m.shape, relation |-> c.m.relation,
            required |-> c.m.required, requiresAuth |-> c.m.requiresAuth, agent |-> c.m.agent,
            holds |-> c.m.holds, provides |-> c.m.provides, uses |-> c.m.uses,
            permissions |-> c.m.permissions, routes |-> c.m.routes]

SoundDisk(cubes) ==
  /\ \A c \in cubes :
       /\ Whole(c) /\ c.id \in AllIds /\ c.m.uses \subseteq Capabilities
       /\ c.m.version \in Nat \cup {None} /\ c.m.shape \in Nat
       /\ c.id.parent # <<>> => \E p \in cubes : p.id = Above(c.id)
  /\ \A c, d \in cubes : \A j \in ToSet(c.commands), k \in ToSet(d.commands) :
       j.name = k.name => j.cube = k.cube

SchemaHashes == [shape : Nat, relation : AllIds \cup {None}, searchable : BOOLEAN]
Records == [version : Nat, hash : SchemaHashes]

(* What was committed is of no later version than the cube beside it.      *)
ASSUME MountAssumption ==
  /\ MaxBoots \in Nat /\ MaxEdits \in Nat
  /\ None \notin AllIds /\ None \notin Reasons /\ None \notin Nat
  /\ None \notin Records /\ None \notin [cube : AllIds, act : {"read"}]
  /\ \A id \in AllIds : /\ id = [parent |-> id.parent, name |-> id.name] /\ id.name # <<>>
                        /\ Shipped[id] \in Records \cup {None}
  /\ \A cubes \in Layouts :
       /\ SoundDisk(Range(cubes))
       /\ \A c \in Range(cubes) :
            c.m.version # None /\ Shipped[c.id] # None => Shipped[c.id].version <= c.m.version

NoRecords == [id \in AllIds |-> None]
Unbound == [k \in Capabilities |-> None]

Init ==
  /\ disk \in Layouts /\ wanted = Everything
  /\ off = {} /\ records = NoRecords /\ served = {}
  /\ phase = "down" /\ ran = <<>> /\ system = <<>> /\ bound = Unbound
  /\ handles = <<>> /\ meta = <<>> /\ refused = None
  /\ boots = 0 /\ edits = 0

Refuse(why) == phase' = "down" /\ refused' = why

(* A mount begins with nothing of an earlier one.                          *)
NothingMounted == ran' = <<>> /\ system' = <<>> /\ bound' = Unbound /\ handles' = <<>> /\ meta' = <<>>

(* loadDefinitions up to the first import.                                 *)
Discover ==
  /\ phase = "down" /\ boots < MaxBoots /\ boots' = boots + 1
  /\ NothingMounted
  /\ IF DiscoveryRefusal # None THEN Refuse(DiscoveryRefusal) ELSE phase' = "import" /\ refused' = None
  /\ UNCHANGED <<disk, wanted, off, records, served, edits>>

(* The places of the cubes still to be imported.                           *)
Pending == {i \in DOMAIN disk : disk[i].id \in Expanded \ Ids(ran)}

(* Import the next module: its top-level code runs, then its manifest is   *)
(* read.                                                                   *)
Import ==
  /\ phase = "import"
  /\ \E i \in Pending :
       /\ \A j \in Pending : i <= j
       /\ ran' = Append(ran, disk[i])
       /\ IF ~disk[i].loads \/ BadManifest(disk[i]) THEN Refuse("manifest") ELSE UNCHANGED <<phase, refused>>
  /\ UNCHANGED <<disk, wanted, off, records, system, bound, handles, meta, served, boots, edits>>

(* All manifests are known: the switches forget cubes that are not among   *)
(* them, and the rules over all of them are checked.                       *)
Gates ==
  /\ phase = "import" /\ Pending = {}
  /\ off' = off \cap Ids(ran)
  /\ IF GatesRefusal(ran) THEN Refuse("gates") ELSE phase' = "create" /\ UNCHANGED refused
  /\ UNCHANGED <<disk, wanted, records, ran, system, bound, handles, meta, served, boots, edits>>

(* Mutant: a consumer is handed the provider there is when it is created.  *)
EarlyHandle(k) == bound[k]

(* A consumer is handed a wrapper that looks for the provider per call.    *)
HandleFor(k) == [looksUp |-> k]

(* Create the next cube with its tools, check what it returns, and bind    *)
(* what it provides.                                                       *)
Create ==
  /\ phase = "create" /\ Len(system) < Len(ran)
  /\ LET c == ran[Len(system) + 1] IN
       IF CreateRefusal(c) # None
       THEN Refuse(CreateRefusal(c)) /\ UNCHANGED <<system, bound, handles>>
       ELSE /\ system' = Append(system, c)
            /\ handles' = Append(handles, [k \in c.m.uses |-> HandleFor(k)])
            /\ bound' = [k \in Capabilities |-> IF k \in c.m.provides THEN c.id ELSE bound[k]]
            /\ UNCHANGED <<phase, refused>>
  /\ UNCHANGED <<disk, wanted, off, records, ran, meta, served, boots, edits>>

(* checkCubes: the life rules.                                             *)
LifeRules ==
  /\ phase = "create" /\ Len(system) = Len(ran)
  /\ IF RulesRefusal # None THEN Refuse(RulesRefusal) ELSE phase' = "drift" /\ UNCHANGED refused
  /\ UNCHANGED <<disk, wanted, off, records, ran, system, bound, handles, meta, served, boots, edits>>

(* checkSchemaDrift over the metadata, derived here and cached for the     *)
(* life of the process; then the records are written and requests come in. *)
Drift ==
  /\ phase = "drift"
  /\ meta' = [i \in DOMAIN system |-> SchemaHash(system[i])]
  /\ IF \E c \in Tracked : Drifted(c)
     THEN Refuse("drift") /\ UNCHANGED <<records, served>>
     ELSE /\ phase' = "serving" /\ UNCHANGED refused
          /\ records' = [id \in AllIds |->
               IF id \in {c.id : c \in Tracked}
               THEN LET c == CHOOSE d \in Tracked : d.id = id
                    IN [version |-> c.m.version, hash |-> SchemaHash(c)]
               ELSE Recorded(id)]
          /\ served' = served \cup {<<c.id, c.m.version, SchemaHash(c)>> : c \in Tracked}
  /\ UNCHANGED <<disk, wanted, off, ran, system, bound, handles, boots, edits>>

(* The administrator switches a cube that is not required.                 *)
SetSwitch(id) ==
  /\ phase = "serving" /\ id \in Ids(ran)
  /\ \E c \in ToSet(ran) : c.id = id /\ ~c.m.required
  /\ off' = IF id \in off THEN off \ {id} ELSE off \cup {id}
  /\ UNCHANGED <<disk, wanted, records, phase, ran, system, bound, handles, meta, refused, served, boots, edits>>

(* The process ends.                                                       *)
Stop ==
  /\ phase = "serving" /\ phase' = "down"
  /\ UNCHANGED <<disk, wanted, off, records, ran, system, bound, handles, meta, refused, served, boots, edits>>

Edit == phase = "down" /\ edits < MaxEdits /\ edits' = edits + 1

(* A cube's directory is deleted, its children with it.                    *)
DeleteCube(id) ==
  /\ Edit /\ id \in Ids(disk)
  /\ disk' = Restrict(disk, {i \in DOMAIN disk : disk[i].id # id /\ Above(disk[i].id) # id})
  /\ UNCHANGED <<wanted, off, records, phase, ran, system, bound, handles, meta, refused, served, boots>>

(* A field of a cube changes, with or without the next version.            *)
Upgraded(c, bump) == [c EXCEPT !.m.shape = @ + 1, !.m.version = @ + bump]
Upgrade(i, bump) ==
  /\ Edit /\ disk[i].m.version # None
  /\ disk' = [disk EXCEPT ![i] = Upgraded(@, bump)]
  /\ UNCHANGED <<wanted, off, records, phase, ran, system, bound, handles, meta, refused, served, boots>>

(* Another QWBE_MOUNTED.                                                   *)
Want(w) ==
  /\ Edit /\ w # wanted /\ wanted' = w
  /\ UNCHANGED <<disk, off, records, phase, ran, system, bound, handles, meta, refused, served, boots>>

Next ==
  \/ Discover \/ Import \/ Gates \/ Create \/ LifeRules \/ Drift \/ Stop
  \/ \E id \in AllIds : SetSwitch(id) \/ DeleteCube(id)
  \/ \E i \in DOMAIN disk, bump \in {0, 1} : Upgrade(i, bump)
  \/ \E w \in Wanted : Want(w)

Spec == Init /\ [][Next]_vars

----------------------------------------------------------------------------
(* What a serving system answers.                                          *)

Serving == phase = "serving"

(* The cube whose switch a request goes by: a map of first segments, in    *)
(* which the last cube wins.                                               *)
Owner(prefix) ==
  LET owners == {i \in DOMAIN system : system[i].ends # <<>> /\ RoutePrefix(system[i]) = prefix}
  IN IF owners = {} THEN None ELSE system[Max(owners)].id

(* A request on this route reaches its handler's wrappers.                 *)
Dispatched(e) == Owner(e.prefix) = None \/ IsEnabled(Owner(e.prefix))

LiveCommands == {k \in UNION {ToSet(c.commands) : c \in ToSet(system)} : IsEnabled(k.cube)}

(* The dispatcher: what an invocation by someone with these permissions    *)
(* ends in.                                                                *)
Invoke(name, permissions, args) ==
  LET found == {k \in LiveCommands : k.name = name}
  IN IF found = {} THEN "unknown"
     ELSE LET k == CHOOSE k \in found : TRUE
          IN IF k.permission \notin permissions THEN "not allowed"
             ELSE IF args > k.maxArgs THEN "too many"
             ELSE "runs"

(* catalog's route of one cube's metadata: the permission before the       *)
(* switch, and one answer for every reason not to tell.                    *)
CatalogAnswers(c, permissions) ==
  /\ [cube |-> c.id, act |-> "read"] \in permissions
  /\ IsEnabled(c.id) /\ c.m.entity # None

----------------------------------------------------------------------------
(* The variables stay in their types.                                      *)
TypeOK ==
  /\ phase \in {"down", "import", "create", "drift", "serving"}
  /\ off \subseteq AllIds /\ DOMAIN records = AllIds
  /\ Len(system) <= Len(ran) /\ Len(handles) = Len(system)
  /\ bound \in [Capabilities -> AllIds \cup {None}]
  /\ boots \in 0 .. MaxBoots /\ edits \in 0 .. MaxEdits

(* No module of any package runs in a boot that a mounted package stops by *)
(* breaking the contract: the contracts are all read before the first      *)
(* import (discovery.ts:107-109, package-contract.ts:170-196).             *)
ContractsComeFirst ==
  ran # <<>> /\ phase # "down" =>
    \A c \in Mounting : \A d \in OnDisk : c.plugin # None /\ d.plugin = c.plugin => d.clean

(* A consumer of a capability reaches the mounted cube that provides it,   *)
(* in whatever order their directories come, and nothing when there is     *)
(* none (discovery.ts:213-216, late-bound-capabilities.ts:12-28).          *)
ConsumersReachProviders ==
  Serving => \A i \in DOMAIN system : \A k \in system[i].m.uses :
    LET reached == IF handles[i][k] = [looksUp |-> k] THEN bound[k] ELSE handles[i][k]
    IN \A c \in ToSet(system) : k \in c.m.provides <=> reached = c.id

(* Every gate of a serving system can be passed and none was forgotten:    *)
(* what the wrapper of a route demands is a permission that some cube's    *)
(* roles are granted, the route knows its caller and can answer 403, and   *)
(* only a declared null leaves a route behind Authorization to its handler *)
(* (manifest-validation.ts:200-216, runtime-composition.ts:202-215).       *)
GatesCanOpen ==
  Serving => \A c \in ToSet(system) : \A e \in Ends(c) :
    LET p == DeclaredPermission(c, e.name)
    IN IF p # None THEN p \in UNION {d.m.permissions : d \in ToSet(system)} /\ e.auth /\ e.has403
       ELSE e.auth => e.name \in DOMAIN c.m.routes

(* The routes of a cube that serves under one prefix.                      *)
OnePrefix(c) == \A e \in Ends(c) : e.prefix = RoutePrefix(c)

(* A link to the entity of the cube leads to another, enabled cube.        *)
LeadsElsewhere(l, c) ==
  l.to = c.m.entity => \E d \in ToSet(ran) : d.m.entity = l.to /\ d.id # c.id /\ IsEnabled(d.id)

(* A cube that is off, by its own switch or its parent's, is gone: no      *)
(* route of it is dispatched, no command of it runs, no link starts or     *)
(* ends there, and it switches no other cube's routes off.  (For cubes     *)
(* that serve under one prefix: mount.ts:137-177, discovery.ts:218-249.)   *)
OffMeansGone ==
  Serving => \A c \in ToSet(system) :
    LET isOff == c.id \in off \/ Above(c.id) \in off
    IN /\ isOff => /\ \A e \in Ends(c) : OnePrefix(c) => ~Dispatched(e)
                   /\ \A k \in ToSet(c.commands) : Invoke(k.name, c.m.permissions, 0) = "unknown"
                   /\ \A l \in LiveLinks : l.from # c.id /\ LeadsElsewhere(l, c)
                   /\ ~CatalogAnswers(c, c.m.permissions)
       /\ ~isOff => \A e \in Ends(c) : OnePrefix(c) => Dispatched(e)

(* Clients cache metadata by a cube's version: two systems that served the *)
(* same version of a cube showed the same schema, however often the cube   *)
(* was upgraded and the process restarted in between, the shipped records  *)
(* included (schema-drift.ts:1-12).                                        *)
OneSchemaPerVersion ==
  LET shown == served \cup {<<id, Shipped[id].version, Shipped[id].hash>> : id \in {i \in AllIds : Shipped[i] # None}}
  IN \A s, t \in shown : s[1] = t[1] /\ s[2] = t[2] => s[3] = t[3]

(* What spaces/workspace/index.ts:11-12 promises of every link: delete     *)
(* either cube and the space simply loses a link.  A boot refused for      *)
(* drift is refused for a field of the cube that changed.                  *)
DriftIsOfTheCube ==
  refused = "drift" => \E c \in Tracked : Drifted(c) /\ Recorded(c.id).hash.shape # c.m.shape
=============================================================================
