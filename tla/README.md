# Verification of Qwbe

This directory holds TLA+ models of Qwbe's server (`core/src`), of its web front end (`web`) and of its
package check, the configurations with which TLC checks them on small instances, and proofs that TLAPS
checks for every value of the constants. Every definition was translated from the source; `PROJECT.json`
names the lines each one stands for, the properties of every run, and for every property plausible bugs
(*mutants*) that break it.

Check a model with `tlc -config MCStore.cfg MCStore.tla`, a proof with `tlapm MCStore_proofs.tla`.

## 1. The system

Qwbe is a server that is assembled at boot from *cubes*, small packages with their own tables, routes,
events and commands, over one Postgres database. The kernel finds the cubes on disk, judges their
contracts and manifests, moves their data if they were renamed, mounts them and serves. A few cubes ship
with it and carry the rest: permissions, accounts, auth, settings, custom fields, staging, echo, views,
notes, links. A web front end shows their pages; `qwbe check` tries a package before it is published.

### Components

| Component (source) | State it keeps | Operations | Modelled by |
|---|---|---|---|
| Row store, `pg/store.ts`, `pg/rows.ts` | rows, outbox, activity, two id sequences | insert, update, soft delete, reads | RowStore |
| Setup and pool, `pg/db.ts`, `pg/setup.ts` | schemas, roles, tables, grants; a memo per process; advisory locks, ten connections | migrate at boot, first touch of a schema, a table, the reader | SetupLocks |
| Sort keys and pages, `kernel/{sort-key,list,pagination}.ts`, `pg/batch.ts`, `rekey` in `pg/setup.ts` | a key per sortable field in each row | re-key a table at its first call, re-key what a batch names, page by number, offset or ids | SortKeys |
| Accounts, `cubes/account` | accounts, user names without a unique index | seed, verify, create | Accounts |
| Sessions, `cubes/auth`, `web/lib/{api,session}.ts` | sessions; one stored token per browser | login, validate, permission gate, logout; what an answer does to the token | Sessions |
| Definition snapshot, `cubes/customfields/context.ts` | the definitions in memory, tickets | refresh after each change, at boot | DefinitionSnapshot |
| Custom fields, `cubes/customfields`, `custom-*.ts`, `pg/custom-rows.ts` | definitions, the `custom` object of rows | define, update, remove; fold, merge, caps; form, orphan report | CustomFields |
| Ownership and sharing, `cubes/permissions/{foundation,sharing,state}.ts` | ownership rows with a stored count, grants | claim, grant, revoke, transfer, recount | Sharing |
| Standing rights, `cubes/permissions/{cube-admins,groups,capabilities,visibility}.ts` | one row per right, without a unique index | give, take away | Assignments |
| Decisions and views, `foundation.ts`, `visibility.ts`, `permissions-model.ts`, `entity-enforcement.ts` | none of their own | decide, list ids, views as SQL predicate, item and list routes | Visibility |
| Registry and links, `registry-runtime.ts`, `relational-enforcement.ts`, `cubes/links` | none of their own | summary, field, group page, counts | Relations |
| Echo, `cubes/echo`, `pg/activity.ts` | comments, the activity log | page the feed, one target's history; comment, edit, remove | Feed |
| Staging import, `cubes/staging` | the set, its rows, its tally, an advisory lock | chunk, finish, sensitive, delete | StagingImport |
| Boot and data moves, `main.ts`, `boot-storage.ts`, `kernel/{ledger,migrate*}.ts` | schemas, `provenance.json` | ownership, preflight, rename, roll back, record | BootMigration |
| Discovery, manifests, mounting, `kernel/{discovery,scan,manifest*,mount,routes}.ts`, `metadata` | what is mounted, the schema records | discover, validate, create, bind, life rules; dispatch, switch, upgrade | Mounting |
| Package check, `check-*.ts`, `package-*.ts`, `qwbe-cli.ts` | a directory, a database, a process | four stages, probes, clean-up | PackageCheck, SamplePacks |
| Switches, `kernel/state.ts` | the disabled set, in memory and in `switches.json` | set, read at boot | Switches |
| Bus and replay, `kernel/bus.ts`, example plugin | nothing that outlasts a publication; a setting and its copy | publish, announce, replay | SettingsReplay |
| Installer and shelf, `kernel/install*.ts`, `files.ts` | shelf, destination directories | install, install from a directory, uninstall, remove, forget, restart, boot | Installer |
| Pages, `web/app`, `web/components` | what is shown, what is busy | load, select, mutate | Screens |
| Install page, `web/app/install` | one read of the server, the last effect | install, uninstall, switch, restart, scan | InstallPage |
| Views, notes, parsing and profiles, audit, configuration, tracing, developer tools | little or none | reads and single store calls | not modelled (section 7) |

`PROJECT.json` has a row for every component, with what is left out of it and why.

### How they interact

* A handler never holds anything between two store calls: every `insert` or `update` is a transaction of
  its own, and an `update` is a SELECT without a lock followed by a write of the whole merged row.
  RowStore shows what that means for one row; Accounts, Sessions, Sharing, Assignments, StagingImport,
  CustomFields and Feed inherit it by modelling a call as that many steps.
* The first store call of a cube waits for the setup of its schema and table, whose lookups take locks
  and connections of the same pool (SetupLocks).
* permissions decides for every entity cube, through `entity-enforcement.ts`; the counts that Sharing
  writes are what the views of Visibility filter by; Feed and Relations ask for its verdicts, and use
  them some statements later.
* custom fields publishes its definitions to the synchronous catalogue through a snapshot that
  requests, the boot and other instances race to refresh; writes validate against what they read
  from the table themselves.
* Switching a cube on is announced on the bus inside the call; cubes answer it by publishing their
  values again. Nobody keeps an event for a cube that is off.
* The installer changes directories that only the next boot reads; the boot refuses what does not agree
  with the shelf, moves schemas, mounts, and then writes the ledger and the schema records that the
  boot after it trusts.
* A page of the front end learns of all this from answers that come in any order, or not at all.

### What is hard

Interleaved store calls (lost updates, twins, stale counts); verdicts that are old when they are used;
late answers, to the browser or from a SELECT that overtakes another; locks and connections that wait
for each other; processes that die between two steps of a handler, a batch, a boot or a check; calls that
overlap on files nobody locks; an event that finds its listener off; one version of a schema recorded
by many boots. `PROJECT.json` lists them as `hazards`, each at its line, with the properties that would
catch it. No property was chosen because it holds by construction.

## 2. The modules

A property that a run checks is often a conjunction of named parts. The parts are stated with their
component, each with a comment on the code it is about; the run's module joins them under one name
(section 3). They are described here by their own names.

### RowStore, ChangeJournal, RowStoreJournal

A statement is an action: `Insert` (the INSERT) or `Lookup` (the SELECT of an update), `Write`,
`LogOutbox`, `LogActivity`, `Commit`, and `Abort` for anything that rolls back. What a transaction wrote
is visible at `Commit`; `Holds` is the row lock. A body is a function from a few keys to values, and a
patch names some of them.

* `OutboxTellsTheRow`: read in id order, a row's outbox records end with the state the row has.
* `LogsAgree`: outbox and activity, whose ids come from two sequences at two moments, tell one story.
* `InTurnActivityReplays`, `InTurnDeleteIsFinal`: what the activity log and a soft delete promise holds
  as long as versions are given out in turn, so whatever lost updates spoil shows in the versions.
* `ImplementsJournal`: the store, seen through its outbox, implements ChangeJournal, in which a row and
  its journal change in one step (refinement by `INSTANCE ... WITH`). The journal of a row is its outbox
  records in the order of their ids (`Nth`).
* `EveryRequestEnds`: nobody waits for a lock for ever.
* `PatchKeepsSiblings` is what a comment says, and is violated (section 4).

### SetupLocks

Processes boot (migrations file by file under a session lock on a connection of their own), then callers
touch cubes for the first time. `Get` is the memo: the first asker of a key starts a `Lookup`, the others
wait for it; a lookup is `Begin`, `Lock`, `Write`, `Commit` on a pooled connection. Two transactions that
write one catalog row wait for each other, and the second fails. A process may crash and a session lock
may be lost with its connection.

* `RowsFindTheirTable`: a call's own transaction finds schema, table and grants, though the memo answered
  from a lookup that may still have been under way.
* `OnlyTheReaderClashes`: no DDL fails another's, except the GRANTs of the activity reader, which take
  none of the locks (`setup.ts:183`).
* `BootsDoNotCollide`, `FilesRunOnce`: two boots over one database, crashes included.
* `EveryCallEnds`: no cycle of schema lock, role lock, lookup and connection.

### SortKeys

A row carries keys that the release which wrote it derived from its sortable fields, and a page is ordered
by them. `ReadChunk` and `WriteStale` are one round of `rekey`, which a process goes through before its
first call on the table is answered; `Insert`, `Lookup` and `Write` key what they write; `Statement` and
`CommitBatch` are a raw batch that keys the rows it names in its own transaction; `Ask`, `Count` and
`Select` are a reader who goes through a list. Two releases run side by side, and the newer one orders
values the other way round.

* `KeysAreCurrent`: a process that is through finds its own keys on every row, except where the other
  release wrote later (its older keys stay until somebody writes the row or starts anew), or where a raw
  batch named nothing. The second exception has a corner the comments do not mention: a batch that changes
  some *other* field between the SELECT and the UPDATE of a chunk makes the hash differ, so that row's stale
  key is left until the next boot. No statement does that today: the one raw UPDATE of a body
  (`import-chunks.ts:78-107`) names its row.
* `WalkIsExact`: a walk through a list that nobody writes shows each matching row once, by page number, by
  offset or by ids, also when the size asked is 0 or above the cap, with ties, rows without the field and
  keys of two releases.
* `WalkIsInOrder`: where nothing is behind, in the order of the release that serves it.

### Accounts, Sessions

Accounts takes the seed apart: COUNT, hash, insert, print. `OperatorGetsIn`: however many first calls
seed at once and whichever die, somebody knows the admin's password, unless the seed that wrote it died
before it printed. `NameKeepsItsHolder`: user names are not unique, but a second row of a name never
becomes the one that logs in, unless the inserts overlapped.

Sessions has both ends: session rows, and the one token that the tabs of a browser share.
`EndedStaysOut`: an admitted call carries a session that had not ended when it was sent, and a right its
account held at some time since. `LiveSessionGetsIn`: only a session's own logout or end refuses it,
however many logins drop expired rows meanwhile. `BrowserKeepsLiveSession`: a browser loses a good token
only to a sign-out, to the login that replaces it, or to the late 401 of another token (`api.ts:107`
clears whatever is stored by then).

### DefinitionSnapshot, CustomFields

The definitions of a cube are counted in DefinitionSnapshot, so that "shows at least" is `>=`. `Start`
draws a ticket, `Fetch` is the SELECT, `Apply` replaces what no later ticket replaced, `Fail` is the
swallowed failure; `Restart` and `ForeignChange` are the process and the other instance.

* `FinishedRefreshIsServed`: once a refresh has answered, what had been committed when it began is shown
  and stays shown.
* `StepsBackOnlyOverPending`: the snapshot may step back, but only over changes whose own refresh is
  still to come or failed, or that another instance made.

CustomFields has the definitions themselves and the values in rows; every request is its store calls.
`CapsHold`, `ValuesWereAccepted` and `RequiredStay` say what validation against definitions read earlier
still guarantees; `TwinsHaveACause` that two active definitions of one name come only from overlapping
defines, or from an update that brings a removed definition back; `ReportIsComplete` that the orphan
report, which pages by OFFSET while rows are written, misses no value that was an orphan all along, unless
a lost update removed a row's whole `custom` object and shifted the pages; `FormsHideOrphans` that a form
shows only fields active during its call.

### Sharing

One entity. Each call of the permission service is its store operations, with `Die` anywhere.
`SoloCallSettles` is the strongest statement that holds: whatever overlapping and dead calls left, a call
that then runs alone leaves every stored count right and its own effect in place. It does not hold of
calls that overlap: a recount that read the ownership row before a transfer writes the former owner back.

### Assignments

Giving looks for a row and then inserts; taking looks and then deletes. `DuplicatesOverlap`: twins come
from overlapping givings only. `RevokeIsComplete`: a capability revoke that answered success left nothing
that had been given before. It is claimed for capabilities only: `revokeCubeAdmin`, `removeGroupMember`
and `unhide` delete the first row they find and leave a twin standing.

### Visibility

States that sequential calls reach, over which four formulations of one rule are compared.
`PredicateIsRule`: the SQL predicate of a view keeps exactly the rows the rule keeps.
`ListIsItemRoutes`: the list route returns what the item routes would answer one by one.
`ShownActionsAreAllowed`: what a user is shown may be done. This is claimed of the oldest ownership row;
`listPage` also lists a second claimant as an owner. The action "share" in a grant authorises nothing,
because `requireShare` looks at ownership only. An empty `ids=` means no filter for an admin and an empty
batch for others, so only absent and non-empty batches are in the model.

### Relations

Rows of one cube point at entities of another. A call reads the permissions, then the rows, and writes
one audit row; rights, rows and switches change in between. `AnswersWereReadable`: what is shown was
readable at some time of the call, so a row edited just after access was withdrawn may be shown.
`AuditIsTheAnswer`: the audit names exactly the rows shown. `QuietAnswerIsExact`: if nothing changed, page
and total are those of the readable rows. A total is claimed only for a cube that filters by the ids it is
given: one that ignores `only` shows its whole count when the page happens to be readable, though
`relational-enforcement.ts:49` speaks of "a short page, never a leak".

### Feed

The activity log with ids drawn at INSERT and seen at COMMIT; one user walks down page by page while
others write, comment and change rights. `WalkSeesAll`: a walk to the end shows all that stood all the
while, and nothing twice, though whole pages of hidden rows lie between. `ShownWasAllowed`: what a page
shows, a deleted row's history included, rests on what was so during that request. `RemovedTextIsGone`: an
edit that passed its gates before a removal does not bring the words back. `CommentsAreLogged`: a comment
and its activity row appear together.

### StagingImport

One set. A chunk's batch takes the advisory lock, inserts its rows (`InsertRows`, one INSERT of at most
`BatchSize` of them, 500 in the code, at a time) and tallies them in one transaction; finish, sensitive and
a failed chunk are unlocked updates; a delete takes no lock.

* `RowsAreNumbered`: the rows are numbered 0, 1, ... without a gap as long as every chunk fits into one
  INSERT. Each INSERT counts the rows of the set anew, those of its own transaction included, and adds the
  place of a line in the whole chunk (`import-chunks.ts:50-53`), so the numbers of a longer chunk skip from
  its second INSERT on, and a later chunk may use one of them again. For any chunks: only a chunk that took
  more than one INSERT shares a number with another, and within a chunk the numbers follow the lines.
* `TallyCountsRows`, `ThrownChunkShows` hold unless an update of the set overlapped another change of it
  (`crossed`): `finish` written over a failure, or a sensitive patch over a tally, undoes it.
* `DeleteTakesTheRows`: only a request that was still under way when the delete began can leave rows of a
  set that is gone. `handlers.ts:142-143` promises more ("a set half-deleted while its rows survive is
  the failure this endpoint exists to make impossible"): a chunk that loaded the set before the delete
  and commits after it leaves its rows, since it neither waits for the delete nor looks again.
* `LaterChunkKeepsItsLines` is what a comment says, and is violated (section 4).

### BootMigration

Boots in sequence or at once over one database and ledger file, each query and rename a step, with
crashes anywhere and COMMITs that succeed unacknowledged. `ServesItsData`, `NoConflict`,
`SourcesStayAttributable`, `RolledBackIsBack` say that boots one at a time never serve without their
data, never leave a conflict, keep provenance and roll back to what they found. They are conditional on
`~beside`: nothing keeps two boots over one database apart.

### Mounting

From the cubes on disk to a serving system, and the life after it. `Discover`, `Import`, `Gates`,
`Create` (one cube), `LifeRules`, `Drift` are the phases, each with the refusals of the code in their
order; then `SetSwitch`, and between boots the operator removes, upgrades or leaves out cubes. A name is
its dash-separated words, so that the joined forms of a child `a/b` and a cube `a-b` collide here as in
the code.

* `ContractsComeFirst`: no package's code runs in a boot that a package's contract stops.
* `ConsumersReachProviders`: whatever the load order, a consumer's handle finds the provider.
* `GatesCanOpen`: every gate of a serving system can be passed, and none was forgotten.
* `OffMeansGone`: no route, command or link of a cube that is off is left; a link to an entity it shares
  with another cube leads to that one. Stated for cubes that serve under one prefix: `routes.ts:82` and
  `mount.ts:138` look at the first endpoint's only.
* `OneSchemaPerVersion`: over upgrades, removals and boots, one version shows one schema.
* `DriftIsOfTheCube` is what a comment says, and is violated (section 4).

### PackageCheck, SamplePacks

`qwbe check`: source contract, size caps, a kernel booted in a sandbox and probed, invocation. A package is
a record of what a rule asks of it; SamplePacks has one good package and what a change of a part makes of
it. A fault or Ctrl-C may come at any step. `PassIsSound` compares the verdict with what the stages are said
to judge, however much a probe skipped, with one exception: any answer but 200 to the request for a cube's
metadata counts as "publishes none" (`check-probes.ts:267-269`), after which its routes, required and
searchable fields are not probed. Such cubes are in `unread`, of them only mounting and relations are
claimed, and of a check without faults everything is. A fault in another request of a probe makes the probe
report the cube (`Spoilt`), which refuses a package but passes none; `RefusalIsEarned` says that a sound
package the probes can judge is not refused when every call succeeds; `KernelKeepsItsGround` and
`NothingIsLeft` are about the scope: reverse order, and nothing left but a database whose DROP failed. A
searchable enum field or a required object field cannot be judged: the probe has no value it accepts, and
such a package never passes.

### Switches, SettingsReplay

`Switches` has the set in memory and the file, written in two steps (truncate, write) by calls that hold
nothing; SettingsReplay extends it with a setting, its copy in another cube, and the announcement that
makes one replay to the other. `SoloSetSettles`, `SoloReplayLands`: a call that runs alone repairs
memory, file and copy. `SettledSwitchesSurvive`: a restart keeps it. `CopyCatchesUp` is what a comment
says, and is violated (section 4).

### Installer

Shelf and destination of each package, file by file. A call is its checks and file operations in the
order of the code; `Stop` is the restart that an administrator asks for, or a crash, which rolls nothing
back; `Boot` accepts what discovery and the package gate accept. A copy may fail at every file, and a
deletion before its end: the error of a rollback's is ignored (`install.ts:140`, `install-from.ts:186`) and
the call ends as refused, while an uninstall, a removal and a forget pass theirs on (`install.ts:248`,
`install-parts.ts:127`, `install-scan.ts:109`) and end as thrown. Whatever was not deleted stays, and
`botched` remembers of which package, until a later deletion of the same is complete.

Three things are needed for calls to leave order behind. No call died (`calm`). No two calls on packages
that share a cube overlapped (`calm`): two installs of one package that overlap leave nothing if one of them
fails, although `install.ts:133-135` calls the removal "not a deletion of anyone else's work"; two packages
that bring one cube can both find it free; a forget that overlaps an install takes away the manifest the
boot looks for; and a conflict that is gone by the time of the copy lets a package in that skipped the gate
(`install-from.ts:145`). And no deletion failed; what one that failed leaves concerns its own package only:

* `CallsStand`: under the first two conditions a call did all of its work or nothing, with three exceptions.
  What a rollback could not delete stays, of the shelf or of the destination, whichever it failed on; a
  thrown uninstall, removal or forget leaves a part of what was there and touches nothing else (`Halfway`);
  and an install from a shelf that a failed deletion left torn copies what is there of it.
* `CalmBoots`: under the first two conditions, between calls, the next boot comes up if no deletion failed;
  and whatever deletions left, no cube has two directories, and every package they did not touch is one the
  boot accepts.
* `ShelfIsPublishedWhole`: without any condition: half a package is on the shelf only where someone was
  deleting it and has yet to end, died or failed. Such a shelf cannot be forgotten or replaced once its
  manifest is gone.

### Screens, InstallPage

Screens is one model of a page, and `Pages` says of each of the ten how it loads: whether a selection starts
a load, whether a late answer is ignored, what is disabled while a call is out, and which of its mutations
have it load again (`reloads`). All do but one: "Add member" of the permissions page only clears its input
(`permissions/page.tsx:127-132`), although the audit table below shows a row that the call wrote; the page
stays behind until another of its mutations reloads it. `QuietScreenIsCurrent`: a page at rest that shows
the answer to its youngest load shows its selection, as of the last of its own mutations that reloads. It
says nothing of a page whose youngest answer was overtaken by an older one that came last, and nothing of
one whose selection moved under a mutation; only the custom fields' effect has a guard against the first,
and none has one against the second. `PanelIgnoresLateLoads`: that guard works. `OneClickOneCall`: one item
never has two calls out, as long as no other item's ran beside them, since a page has one mark for both.

InstallPage is the page that installs, against a server that others use too and that a restart takes
down. `BannerIsTrue`: at rest, and with nothing else happening since the read, the page asks for a restart
exactly when the disk and the server differ. `EffectIsOwn`: the effect it shows is that of its own
operation, unless something else changed the server since the read before. Two exceptions are named in the
model: an operation whose read failed, and the page's first read. That read is not cancelled, so its answer
may come after an operation's and put an older snapshot over the newer one (`Overtaken`, `page.tsx:124`);
the next effect is then measured from a state that is older than what the page showed. It takes three
operations to see it.

## 3. Runs, bounds and fairness

Three modules of one kind share a run where that is cheaper than a run each: the run's module instantiates
them, `part` says which of them a behaviour is about, and the variables of the others keep a dummy value
(0). Nothing passes between the parts; the compositions proper are RowStore with ChangeJournal, Switches
with the replay, boots with the shelf (Installer), and decisions with lists, feeds and links.

| Run | Instance | Properties and their parts |
|---|---|---|
| `rowstore` | RowStore: 3 transactions, an entity row and an auxiliary row, 1 key. SetupLocks: 2 processes, pool of 2, 2 schemas, 1 migration file, 1 fault, two bursts of callers | `TypeOK`, `OutboxTellsTheRow`, `LogsTellTheRow` (LogsAgree, InTurnActivityReplays, InTurnDeleteIsFinal), `ImplementsJournal`; `FirstTouchesStand` (RowsFindTheirTable, OnlyTheReaderClashes), `MigrationsStand` (BootsDoNotCollide, FilesRunOnce); `RequestsEnd` (EveryRequestEnds, EveryCallEnds) |
| `rowstore_siblings` | 3 transactions, 1 row, 2 keys | counterexample to `PatchKeepsSiblings` |
| `access` | Accounts: 3 calls. Sessions: 4 calls, 1 browser, tokens that last one tick | `SeedLetsOperatorIn` (OperatorGetsIn), `NamesStay` (NameKeepsItsHolder); `SessionsDecide` (EndedStaysOut, LiveSessionGetsIn), `BrowserKeeps` (BrowserKeepsLiveSession) |
| `snapshot` | DefinitionSnapshot: 2 writers, 2 cubes, 1 restart, 1 foreign change. CustomFields: 2 callers with 4 calls, 2 definitions, 2 rows, caps and pages of 1 | `TypeOK`, `FinishedRefreshIsServed`, `StepsBackOnlyOverPending`; `FieldsHold` (CapsHold, ValuesWereAccepted, RequiredStay, TwinsHaveACause), `OrphansAreReported` (ReportIsComplete, FormsHideOrphans) |
| `operations` | Switches and SettingsReplay: 4 cubes, 3 calls, 1 crash and restart. Sharing: 3 calls, an admin and a user. Assignments: 4 calls, a table with and one without a complete revoke. StagingImport: 3 requests, chunks of 1 to 3 lines, INSERTs of 2 rows, CSV and JSON lines. SortKeys: 2 processes of 2 releases, 2 rows, 2 ranks, chunks and pages of 1, 2 writers, of which 1 stays away beside a reader | `SwitchesSettle` (SoloSetSettles, SoloReplayLands), `SettledSwitchesSurvive`; `SharesSettle` (SoloCallSettles); `RightsAreRevoked` (DuplicatesOverlap, RevokeIsComplete); `StagingStands` (RowsAreNumbered, DeleteTakesTheRows, TallyCountsRows, ThrownChunkShows); `ListsKeepOrder` (KeysAreCurrent, WalkIsExact, WalkIsInOrder) |
| `staging_header` | the same requests | counterexample to `LaterChunkKeepsItsLines` |
| `boot` | Mounting: 2 boots, 2 edits between them, systems of five or six cubes each changed in one part. BootMigration: 3 boots, 2 moves. PackageCheck: the sample packages, 1 fault | `MountsAreWired` (ContractsComeFirst, ConsumersReachProviders), `GatesOpen` (GatesCanOpen), `OffIsGone` (OffMeansGone), `SchemaPerVersion` (OneSchemaPerVersion); `MovesKeepData` (ServesItsData, NoConflict, SourcesStayAttributable, RolledBackIsBack); `VerdictsAreJust` (PassIsSound, RefusalIsEarned), `CheckCleansUp` (KernelKeepsItsGround, NothingIsLeft) |
| `mounting_removal` | the systems of `boot` | counterexample to `DriftIsOfTheCube` |
| `visibility` | 2 users, 1 group, 2 entities; 2 grants, 3 ownership rows, 1 preference | `FormsAgree` (PredicateIsRule, ShownActionsAreAllowed), `ListIsItemRoutes` |
| `switches_replay` | 4 cubes, 5 calls one after the other | counterexample to `CopyCatchesUp` |
| `installer` | 3 packages of which 2 share a cube, 2 versions, 3 calls of which 2 at a time, 1 restart; 2 calls once calls disturb each other; after a failed deletion one call at a time and no restart | `CalmCallsStand` (CalmBoots, CallsStand), `ShelfIsPublishedWhole` |
| `reading` | Feed: 2 rows, 2 users, 3 activity ids, pages of 1. Relations: 3 rows, 2 targets, 1 reader, 3 changes. Screens: ten pages, 2 selections, 4 loads, 2 clicks. InstallPage: 2 packages, 3 operations of which 1 may be another's | `FeedIsComplete` (WalkSeesAll), `FeedIsAllowed` (ShownWasAllowed), `CommentsStand` (RemovedTextIsGone, CommentsAreLogged); `RelatedWasReadable` (AnswersWereReadable), `RelatedIsExact` (AuditIsTheAnswer, QuietAnswerIsExact); `ScreensAreCurrent` (QuietScreenIsCurrent, PanelIgnoresLateLoads, OneClickOneCall), `InstallPageMeasures` (BannerIsTrue, EffectIsOwn) |

The type invariants are part of the first property of each component.

**Why the bounds are enough.** Requests run once, so their number also bounds versions, ids, rows and
clocks. Three requests are the least in which two overlap and a third sees what they left, which is what
most properties are about. Where the case needs more, the instance has it: four calls in Assignments make
twins and then overlapping revokes of them; four calls in Sessions are a login, a second login, a call of
the first session and its late refusal; three activity ids with pages of one put a page of hidden rows
between two shown ones; caps and report pages of one make the cap and the OFFSET shift happen with two rows;
chunks of three lines with INSERTs of two rows have a second INSERT, and a chunk after them, whose numbers
the skip can meet. Two entities suffice in Visibility because a rule looks at one and a list tells two
apart; two moves suffice for the boot because a batch is then half done; a pool of two is the least in which
one caller can keep a connection while a lookup needs another. The systems of Mounting are one good system
with one part changed at a time, a refusal being about one part of one cube; PackageCheck's packages
likewise. In `installer` a behaviour with a failed deletion has no restart, and no two calls at a time from
there on (`Mixed = FALSE`); the same instance with `Mixed = TRUE`, where failed deletions, restarts and
overlapping calls meet, has 10.7 million states and no error, but takes longer than a run should, and the
theorems hold for either value.

`CHECK_DEADLOCK FALSE` is set wherever requests run once: when all have ended nothing more happens. A
boot that refuses also ends its behaviour.

**Fairness** is assumed in one run, `rowstore`. `RowStore!FairSpec` and `SpecStore` have weak fairness on
the steps of a transaction once begun, and on the steps of a boot, a lookup and a caller: the runtime
drives every fiber that is ready, and Postgres executes a statement whose lock is free and hands a
released lock to some waiter. Nothing is assumed of the arrival of requests, of aborts and faults, or of
the order in which waiters get a lock: weak fairness is enough since a lock is waited for once, and who
holds it ends.

## 4. Disagreements with the repository's own statements

1. `rowstore_siblings`: `pg/store.ts:195` says that "a partial PATCH cannot wipe sibling values". Of two
   overlapping patches of different keys, the later restores the old values of the other's keys, since
   `update` writes back the row it read without a lock. The same read-modify-write lets an update that
   read a row before its soft delete bring the row back, makes a recount undo a transfer, makes an
   overlapping `finish` hide a failed chunk, and revives a custom definition that was removed meanwhile.
2. `staging_header`: `import-chunks.ts:121-123` says that the header is kept "from eating one data row per
   chunk". After a first chunk that held only the header, or no well-formed row, the set still counts no
   rows, and the next chunk loses its first data row.
3. `switches_replay`: `booktags/settings/index.ts:76-79` says that the settings are re-published when the
   sibling comes back on. If settings is off at that moment, or the parent comes back on, nobody replays.
4. `mounting_removal`: `workspace/index.ts:11-12` says that deleting a cube merely costs a space a link.
   The version gate hashes what is derived from the links that are live (`metadata.ts:127`, `:219`,
   `schema-drift.ts:80`), so deleting the account cube makes the next boot refuse for a change of notes.

Not claimed as findings, but met while modelling, beside what section 2 says of the modules:

* The outbox id, which the ADR calls the consumer's cursor, is drawn before COMMIT, so that rows of
  different entities become visible out of order. No consumer exists.
* The metadata that discovery caches is not derived again after a switch (`catalogue.ts:147-173`,
  `discovery.ts:247`).
* `switchesFrom` drops the switches of cubes that a narrower `QWBE_MOUNTED` merely leaves out, though
  `state.ts:123` speaks of cubes "removed from disk".
* Of two cubes that declare one entity, `activeLinks` takes the last, switched off or not, and
  `resolveRelation` the first that is on.
* The scan picker says that a package with another copy on the shelf is "replaced in one click"
  (`InstallScan.tsx:12-13`), but only packages that are not installed can be picked (lines 59 and 145),
  and `install.ts:243` refuses to uninstall those.
* The GRANTs of the activity reader run under none of the locks of the other DDL (`setup.ts:183`): two
  processes that make it at once can fail each other, once; the memo forgets a failure.
* `links.group` answers the limit that was asked, not the capped one (`links/index.ts:142`).
* The package check says that it skips relations (`check-probes.ts:248`), yet `probeRelations` runs
  against an empty catalogue and fails each.
* `import-chunks.ts:31` says that concurrent chunks cannot overlap row numbers. Chunks of at most 500 rows
  cannot; a longer one skips numbers, and a later chunk may meet one of its last (section 2, StagingImport).
* `check-probes.ts:265` reads a null metadata as "the cube publishes no metadata"; any answer but 200 gives
  that null, so after one 500 a cube passes without its routes and fields having been probed.
* Adding a member to a group leaves the audit table of the same page as it was (section 2, Screens).
* Removing a custom field and defining one of the same name with another type shows the old values under
  the new definition (`schema.ts:71-73`).

## 5. What is proved

Each row is a theorem that tlapm checks from nothing, for every value of the constants: any number of
requests, calls, rows, keys, users, cubes, packages, versions, writers, crashes and restarts.

| Theorem | States |
|---|---|
| `MCStore_proofs!TypeCorrect` | `Spec => []TypeOK` |
| `MCStore_proofs!OutboxIsTheRow` | `Spec => []OutboxTellsTheRow` |
| `MCStore_proofs!LogsAreTheRow` | `Spec => []LogsTellTheRow` |
| `MCStore_proofs!StoreImplementsJournal` | `Spec => ImplementsJournal` (the refinement) |
| `MCStore_proofs!FirstTouchesAreSafe` | `SpecStore => []FirstTouchesStand` |
| `MCStore_proofs!MigrationsAreSafe` | `SpecStore => []MigrationsStand` |
| `MCDefinitionSnapshot_proofs!SnapshotTypeCorrect` | `Spec => []TypeOK` |
| `MCDefinitionSnapshot_proofs!TicketsServe` | `Spec => []FinishedRefreshIsServed` |
| `MCDefinitionSnapshot_proofs!StepsBackArePending` | `Spec => StepsBackOnlyOverPending` (an action property) |
| `MCDefinitionSnapshot_proofs!FieldsAreHeld` | `SpecBoth => []FieldsHold` |
| `MCDefinitionSnapshot_proofs!OrphansAreFound` | `SpecBoth => []OrphansAreReported` |
| `MCOperations_proofs!RevokedIsGone` | `SpecOperations => []RightsAreRevoked` |
| `MCOperations_proofs!ImportKeepsItsCount` | `SpecOperations => []StagingStands` |
| `MCOperations_proofs!LoneCallRepairsShares` | `SpecOperations => []SharesSettle` |
| `MCOperations_proofs!LoneSetRepairsSwitches` | `SpecOperations => []SwitchesSettle` |
| `MCOperations_proofs!BootKeepsSettledSwitches` | `SpecOperations => SettledSwitchesSurvive` (an action property) |
| `MCOperations_proofs!WalksShowEveryRow` | `SpecOperations => []ListsKeepOrder` |
| `MCAccess_proofs!EndedSessionsStayOut` | `Spec => []SessionsDecide` |
| `MCAccess_proofs!BrowsersKeepTheirSession` | `Spec => BrowserKeeps` (an action property) |
| `MCAccess_proofs!OperatorsGetIn` | `Spec => []SeedLetsOperatorIn` |
| `MCAccess_proofs!NamesKeepTheirHolder` | `Spec => NamesStay` (an action property) |
| `MCReading_proofs!ScreensStayCurrent` | `SpecReading => []ScreensAreCurrent` |
| `MCReading_proofs!WalksAreComplete` | `SpecReading => []FeedIsComplete` |
| `MCReading_proofs!PagesAreAllowed` | `SpecReading => FeedIsAllowed` (an action property) |
| `MCReading_proofs!CommentsStayTold` | `SpecReading => []CommentsStand` |
| `MCReading_proofs!RelatedStaysReadable` | `SpecReading => []RelatedWasReadable` |
| `MCReading_proofs!RelatedStaysExact` | `SpecReading => []RelatedIsExact` |
| `MCReading_proofs!InstallPageIsTrue` | `SpecReading => []InstallPageMeasures` |
| `MCBoot_proofs!MovesLoseNothing` | `SpecBoot => []MovesKeepData` |
| `MCBoot_proofs!ChecksJudgeRightly` | `SpecBoot => []VerdictsAreJust` |
| `MCBoot_proofs!ChecksCleanUp` | `SpecBoot => []CheckCleansUp` |
| `MCBoot_proofs!MountsReadFirstAndBindLate` | `SpecBoot => []MountsAreWired` |
| `MCBoot_proofs!NoGateIsForgotten` | `SpecBoot => []GatesOpen` |
| `MCBoot_proofs!WhatIsOffIsGone` | `SpecBoot => []OffIsGone` |
| `MCBoot_proofs!OneVersionOneSchema` | `SpecBoot => []SchemaPerVersion` |
| `Visibility_proofs!ListsAreItemRoutes` | `Spec => []ListIsItemRoutes` |
| `Visibility_proofs!FormsOfTheRuleAgree` | `Spec => []FormsAgree` |
| `Installer_proofs!ShelfStaysWhole` | `Spec => []ShelfIsPublishedWhole` |
| `Installer_proofs!CalmCallsAreSafe` | `Spec => []CalmCallsStand` |

The assumptions are the named ones of the modules, which TLC evaluates in the runs: values that the code
keeps apart are distinct (an id is not the mark for none, a member is not a group), bounds are natural
numbers, a cap and a page hold at least one, the rows of a relation are finite in number, a version of a package has at least one cube, the
fields of a cube have distinct names, ids are positive numbers and ranks are whole numbers, an admin is a user, a first touch is of a known process and schema and
a feed's is of the reader's schema. What the length of a switches
file is, is left to an arbitrary function of the set in it.

A theorem about `SpecStore`, `SpecOperations`, `SpecReading`, `SpecBoot` or the `Spec` of MCAccess is about one part of that run: its
invariant is claimed while `part` is that part (`part = "assignments" => RightsInv`), since a behaviour keeps
its part and leaves the variables of the others alone.

Each proof has one step per action and one under it per conjunct that the action can disturb. None of the
invariants checked by the runs is inductive as it stands; what it takes:

**RowStore.** `OutboxTellsTheRow` does not say why the record of a commit is the last one of its row.
`IInv` adds `TargetInv` (an open transaction has a target, an update one that exists, an insert one that
is its own), `LockInv` (one holder per row) and `IdInv` (ids grow, and the id a holder drew is above every
committed record of its row). A commit then appends the greatest id of the row, and no other step touches
the row or its records. `LogInv` carries this to the activity, whose ids are drawn at another moment
(`ActivityIdInv`): by `ReadInv`, an update whose row was replaced since it read it writes a version that
is already there, so while versions come in turn every record is a diff against the record before it.

**The refinement.** The journal of a row is the sequence of its records in id order, so it is shown
(`RankAppend`, `NthAppend`, `HistoryAppend`) that a record with the greatest id comes after the others and
moves none of them; a commit is then `Create`, `Change` or `Record` of the abstract journal
(`CommitIsJournalled`), and every other step leaves rows and outbox alone.

**SetupLocks.** `LookInv`: an advisory lock has one holder, and a lookup that writes holds all of its; so two
transactions that write one catalog row at the same time include the reader's (`LocksKeepApart`), whatever
the lookups and the pool. `MemoInv` and `CallsInv`: what a memo gave out is committed, and so is what a call was
given. `FilesInv`: a process that writes a file found those before it applied and this one not, and no two write
one file, since the second waits and fails; this holds with the session lock lost, which `SessionInv` needs
only for the claim that no boot fails another.

**DefinitionSnapshot.** `FinishedRefreshIsServed` follows from `DoneInv` (a finished refresh was applied,
or a later ticket was) and `ServedInv` (what is shown covers the store as of every ticket up to the last
applied). These need `TicketInv` (tickets grow), `BaseInv` (a later ticket saw no less) and `GotInv` (a
SELECT runs after its ticket). That a step back is only over pending changes needs `HeldInv` (nothing
that was read, or is shown, is newer than the store) and `PendingInv` (with no other instance, either the
latest change to a cube is of a writer that still owes its refresh, or every refresh under way began with
what the store holds).

**CustomFields.** `CallOK` says what a request knows at each of its store calls, of the tables as they are by
then (`Carried`: other requests' steps leave it true). What it read as a definition is within what some
definition of the name has accepted by now (`Known`); what it read in a row it writes back is `Good`, and has
a value wherever the row must keep one; `Excused` is the cause that a twin must have. The report's part is
that it has found every orphan whose place is up to its offset: places are the numbers from one to the number
of rows with custom values (`PlacesAreAll`), they only move up while no row loses its object (`PlacesGrow`),
so a page that is not full is the last (`LastPageEnds`).

**Assignments.** `RightsInv`: a row is of the giving that inserted it; what a call found given was given by
then; so a giving that found no row is never beside an earlier giving's row, and what a revoke has still to
delete is among the rows it found.

**StagingImport.** `StagingInv`: only the holder of the advisory lock is inside a batch, and its tally starts
from the count it read; an unlocked update writes to the set it read, unless it was crossed; rows that a
delete has not found are of requests that were under way. `NumberInv`: an open transaction has inserted the
first lines of its chunk, one row each; a chunk of one INSERT has none of them or all, with the numbers from
the count on, so its numbers are below the count once it has committed. A longer chunk's only grow with its
lines, since each INSERT finds a greater count. The rest is about cardinalities of intervals.

**Sharing.** `OwnersInv`: each ownership row is of the claim that inserted it and keeps the time that claim
drew, so that a write-back leaves it as old as it is and all readers go on trusting the same row
(`OldestIsFirst`). `SoloInv`: a call that runs alone has nobody beside it who could undo it, and of the rows
it has not recounted yet each is still to do. To state its effect on a revoke, the model remembers which
grant was taken (`gone`) apart from the row that the recount writes.

**SortKeys.** `KeysInv`: a row a scan has passed, and nobody wrote behind it, has the scan's keys or is about
to get them, because the body the chunk was read with stands. A chunk that is not full is the last
(`ReadChunkStep`), so a scan passes every row. `WalkInv`: what a reader was shown are the rows at the places
1, 2, ...; the places are all taken (`SortedPicks`), since the stored keys and then the ids order the rows
totally (`RowsAreOrdered`), keys of two releases and rows without a key included.

**Switches, SettingsReplay.** `SwitchCallsInv` says what a call knows at each of its stages; `AloneInv` that
the file and memory are, for a call that runs alone and until another begins, as it left them. The boot of
`SettledSwitchesSurvive` reads that file.

**Sessions.** A call is judged some time after it was sent. `JudgedInv`: a session that is good now has been
good since it was issued, so a call let in now was good when it was sent; `TokensInv`: every token that is
stored or carried was issued, to one account; `EndedInv`: a session that is gone had run out, or was logged
out, or its account was removed.

**Accounts.** `StampsInv`: no two rows share a creation time, and an insert under way is stamped above every
row that had committed when it began; so the oldest row of a name stays the oldest (`HolderIsOldest`).
`SeedInv`: a password nobody knows is that of a seed that has still to print it or died before, and where there
is any account there is an admin's.

**Visibility.** `CountInv`: the stored count of every ownership row, duplicates included, is the number of
live grants of its entity. The predicate of a view filters by that count, the rule by the grants; with
`CountInv` they agree. Live grants are a bag, and `Copies` counts them one by one.

**Installer.** `StageInv` ties each stage to the calls that have it, and with `TypeOK` makes
`ShelfIsPublishedWhole` inductive. `CalmInv` says, as long as nothing disturbed the calls, what a running
call knows of its package at each stage (`CallInv`), that a package no call works on is settled
(`Settled`), and that no cube has two destinations (`NoDuplicate`). Failed deletions weaken it package by
package: `Kept` claims a settled package only while none of its deletions is in `botched`, and a sound shelf
while none of the shelf's is. That suffices because a call checks for itself what it builds on: an install
finds no destination (`CheckExists`) and copies all of the shelf it reads, or, of a torn one, a part of it
(`Copying`), and only a complete deletion takes a package out of `botched` again. Whether a failed deletion
and restarts may meet (`Mixed`) plays no part in the proof.

**Screens.** Loads and mutations are told apart by their numbers (`IdsInv`); while no two items' mutations
overlapped, the one mark is that of the one mutation under way (`MarkInv`). `NewestInv`: the newest load is
in flight or shown, is of the selection, and has what the last reloading mutation left (`owed`) or one of them
has yet to ask again. `DoesInv`: on a page all of whose mutations reload, `owed` is all there is, which is what
the panel's claim needs.

**Feed.** `TalkInv`: an insert under way owns its open record, and an edit or a removal works on a comment
whose record has committed, so no edit finds the wiped text (`CommentsInv`). `LastingInv`: a record visible all
along was shown, or is on the page being judged, or lies below it; a page that is full has no record between
its ids (`PageFills`). `VerdictsInv`: a verdict rests on facts that held during the page's request.

**BootMigration.** `MoveInv`, as long as no two boots ran beside each other: at most one boot is under way
(`LoneInv`); what a boot has planned is what is left of the sources, and what it moved holds the data
(`PlanInv`), which is what makes its rename back, after a failure, restore each of them; data is either at
its source with no destination or at its destination with no source (`DataInv`); and once a boot served no
source is left (`ServedInv`), since the boot serves only after its last rename.

**Mounting.** `PhaseInv`: from the first import to the stop the disk passed discovery, all that is to be
mounted was imported once (`RanInv`), and what is created is the beginning of it, by the rules, with the
providers bound (`MadeInv`, `BoundInv`). One cube per name, one provider per capability and one cube per first
segment then make a consumer, a switch and a route each find their cube (`ServingSystem`, `SwitchDecides`).
`DiskInv` and `RecordInv`: no record is of a later version than the cube on disk, and a record agrees with
whatever was shown of its version; so a boot that passes the drift gate adds nothing that contradicts
(`DriftStep`). What is assumed of a disk is what a walk over directories yields: a child lies in its parent,
and what was committed with the cubes is of no later version. The attempt showed that the model had left out
the refusal of a second provider (`capability-runtime.ts:19-27`), and that "no link ends there" has to mean the
cube that the link leads to, since two cubes may declare one entity.

**PackageCheck.** `HeldInv`: what the scope holds is a beginning of one fixed order, and `LevelInv` says how
much of it at each step; giving back the last one therefore leaves a beginning of it again (`GivenBack`).
`GroundInv`: the kernel runs only while the scope reaches up to it. For the verdicts, `JustInv`: a stage is entered
with nothing found so far; a cube in which a round of probes found nothing keeps its word
(`ProbedKeepsWord`), unless its metadata was not answered, and then it has passed what mounting asks and its
relations; a cube that keeps its word is found nothing in (`WordPasses`), which needs the names of its fields
to be distinct.

**InstallPage.** `CalmPage`: while nothing happened since the last read began, what that read has got, and
then what the page shows, is how the server is. `Epochs`: within one epoch only the page's own operations
change what is exposed, and an operation's `moved` says which way (`Became`). The proof attempt is what
showed that the page's late first read has to be an exception.

**Relations.** `CallCould`: what is readable in a call, or was when its verdict fell, and has not been deleted
since, is among the rows the caller could read during the call; this holds because a deletion is final.
`CallQuiet`: while nothing changed, the verdict is the permissions. `FoundRows`: what a cube finds for a
verdict, intersected with it, is what the verdict says.

**Model-checked only.** Liveness (`RequestsEnd`) and what the runs of section 4 show to be violated.
Every other property a run checks is a theorem. Out of the prover's reach for good are liveness under fairness and ENABLED. The induction theorems of the
library take an operator as a parameter, which no prover here instantiates; where a proof needs an
induction over a given set of numbers it takes the least one (`Least`).

## 6. Plan

1. **Compositions**: Installer with Assignments (the installing user becomes cube admin after the copy,
   and a failure there leaves the package installed and the request failed); Installer with Switches (a
   removed cube is dropped from the file at the next boot).
2. **Abstract specifications**: an ownership record that Sharing implements when calls do not overlap; a
   switch that Switches implements; a session that Sessions implements.

## 7. Not modelled

* **Views, notes**: single store calls over rows that nothing else depends on; the generic routes they use
  are in Visibility, and the claim of old notes at boot is Sharing's `Claim`.
* **permissions: counts, audit log, groups, HTTP handlers**: wrappers of services that are modelled, and
  reads. The repair of rows older than the stored counts is a recount.
* **Staging parsing and profiles**: what a line parses to and the statistics of a read-only scan. Which
  line is the CSV header is in StagingImport.
* **Entity contract and refusal log, configuration, origins, tracing, profiling**: types, environment,
  the order of the middleware and logging; no state that a property depends on.
* **Store drift, source lexing, audit queries**: pure functions of text or of two directories.
* **Developer tools and probes**: build scripts, benchmarks, tests of the system.
* Within modelled components: password hashing (a hash answers whether a password is right), the text
  rules of names, paths and manifests (one condition each), symbolic links, the sizes and lists the
  installer shows, lookup indexes, the wording and layout of pages. The notes in `PROJECT.json` say it
  per component.
* `freePort` closes the port it found before the checked server opens it (`free-port.ts:20`); another
  program of the machine may take it, and the check then fails. PackageCheck counts that as a fault.

Two processes over one database are modelled for the setup of schemas, for the snapshot and for boots; for
handling requests they are the same as two requests, since handlers share no memory but the memo, the
snapshot and the switches.
