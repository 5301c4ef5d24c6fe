---------------------------- MODULE InstallPage -----------------------------
(***************************************************************************)
(* The install page (web/app/install) against the server it administers.   *)
(* The page shows what one read returned: the catalogue of the cubes that  *)
(* are mounted and the listing of the store, asked for together and        *)
(* answered apart.  An operation is one or more calls and then a read; its *)
(* effect is the difference to the read before.  Another administrator may *)
(* act at any time, answers may be lost, and a restart takes the server    *)
(* down.  Each package brings one cube, of its name.                       *)
(***************************************************************************)
EXTENDS Integers, FiniteSets

CONSTANTS
  Packages,
  None,
  MaxClicks, \* bound on the operations of the page and of others together
  MaxOthers  \* bound on what another administrator does

VARIABLES
  up,
  dying,     \* a restart was accepted
  mounted,   \* what the server found on disk when it booted
  enabled,   \* which of it is switched on: what it exposes
  disk,      \* the packages installed on disk
  shelf,     \* of each package, the store's copy beside the one in a directory
  epoch,     \* history: changes of `enabled` but by a call that was answered
  reading,   \* the reads in flight: that of the page's effect, an operation's
  cat, stock, \* the answers they have
  seen,      \* what the page shows
  snapshot,  \* what the server exposed when it was read, and the epoch then
  found,     \* the packages a scan of the directory listed
  busy,      \* the operation under way
  effect,    \* the last one's effect
  clicks, others,
  troubled   \* history: something happened since the last read began

server == <<up, dying, mounted, enabled, disk, shelf, epoch>>
reads == <<reading, cat, stock>>
view == <<seen, snapshot, found>>
vars == <<server, reads, view, busy, effect, clicks, others, troubled>>

Reads == {"opening", "operation"}
NoRead == [r \in Reads |-> None]

(* The shelf of what is installed is there: installing needs it.           *)
Init ==
  /\ up = TRUE /\ dying = FALSE
  /\ disk \in SUBSET Packages /\ mounted = disk /\ enabled = disk
  /\ shelf \in {s \in [Packages -> {"absent", "identical", "different"}] :
                  \A p \in disk : s[p] # "absent"}
  /\ epoch = 0
  /\ reading = {"opening"} /\ cat = NoRead /\ stock = NoRead
  /\ seen = None /\ snapshot = None /\ found = None
  /\ busy = None /\ effect = None
  /\ clicks = 0 /\ others = 0
  /\ troubled = FALSE

-----------------------------------------------------------------------------
(* The server.                                                             *)

(* Whether it does what it is asked, and what it then does.                *)
Accepts(op, p) ==
  \/ op = "toggle" /\ p \in mounted
  \/ op = "remove" /\ p \in mounted \cap disk
  \/ op = "install" /\ p \notin disk /\ shelf[p] # "absent"
  \/ op = "uninstall" /\ p \in disk
  \/ op = "forget" /\ p \notin disk /\ shelf[p] # "absent"
  \/ op = "from" /\ p \notin disk /\ shelf[p] # "different"

Switched(p, on) == IF on THEN enabled \cup {p} ELSE enabled \ {p}

Strange == epoch' = IF enabled' # enabled THEN epoch + 1 ELSE epoch

Do(op, p, on) ==
  /\ up /\ Accepts(op, p)
  /\ enabled' = IF op = "toggle" THEN Switched(p, on) ELSE enabled
  /\ disk' = CASE op \in {"install", "from"} -> disk \cup {p}
               [] op \in {"remove", "uninstall"} -> disk \ {p}
               [] OTHER -> disk
  /\ shelf' = CASE op = "from" -> [shelf EXCEPT ![p] = "identical"]
                [] op = "forget" -> [shelf EXCEPT ![p] = "absent"]
                [] OTHER -> shelf
  /\ UNCHANGED <<up, dying, mounted>>

(* Another administrator, another tab, or a command line.                  *)
Other(op, p, on) ==
  /\ others < MaxOthers /\ clicks + others < MaxClicks
  /\ others' = others + 1
  /\ Do(op, p, on) /\ Strange
  /\ troubled' = TRUE
  /\ UNCHANGED <<reads, view, busy, effect, clicks>>

(* The process of a restart that was accepted ends, some time after its    *)
(* answer, and systemd brings the next one up.                             *)
Die ==
  /\ up /\ dying
  /\ up' = FALSE
  /\ UNCHANGED <<dying, mounted, enabled, disk, shelf, epoch, reads, view, busy, effect, clicks, others, troubled>>

Boot ==
  /\ ~ up
  /\ up' = TRUE /\ dying' = FALSE
  /\ mounted' = disk
  /\ enabled' = (enabled \cap disk) \cup (disk \ mounted)
  /\ Strange
  /\ troubled' = TRUE
  /\ UNCHANGED <<disk, shelf, reads, view, busy, effect, clicks, others>>

-----------------------------------------------------------------------------
(* Reading.                                                                *)

(* What went before is seen by it.                                         *)
StartRead(late) ==
  /\ reading' = reading \cup {"operation"}
  /\ troubled' = late

ReadCatalogue(r) ==
  /\ up /\ cat[r] = None
  /\ cat' = [cat EXCEPT ![r] = [mounted |-> mounted, live |-> enabled, gone |-> mounted \ disk, at |-> epoch]]
  /\ UNCHANGED <<server, reading, stock, view, busy, effect, clicks, others, troubled>>

ReadStore(r) ==
  /\ up /\ stock[r] = None
  /\ stock' = [stock EXCEPT ![r] = [installed |-> {p \in disk : shelf[p] # "absent"}]]
  /\ UNCHANGED <<server, reading, cat, view, busy, effect, clicks, others, troubled>>

(* The page can be used before its first read is answered: it then shows   *)
(* what may be older than what it showed.                                  *)
Overtaken(r) == r = "opening" /\ (seen # None \/ clicks > 0)

Taken(r) == [live |-> cat[r].live, at |-> IF Overtaken(r) THEN -1 ELSE cat[r].at]

(* Mutant: the snapshot is that of the page's first read.                  *)
KeepOld(r) ==
  /\ seen' = [mounted |-> cat[r].mounted, live |-> cat[r].live, gone |-> cat[r].gone, installed |-> stock[r].installed]
  /\ snapshot' = IF snapshot = None THEN Taken(r) ELSE snapshot

(* read: everything is shown, and kept to be compared with.                *)
Keep(r) ==
  /\ seen' = [mounted |-> cat[r].mounted, live |-> cat[r].live, gone |-> cat[r].gone, installed |-> stock[r].installed]
  /\ snapshot' = Taken(r)

EndRead(r) ==
  /\ reading' = reading \ {r}
  /\ cat' = [cat EXCEPT ![r] = None] /\ stock' = [stock EXCEPT ![r] = None]

(* The next of the packages picked, or none: the operation is over.        *)
Over ==
  \/ /\ busy.todo = {}
     /\ busy' = None
  \/ \E p \in busy.todo :
       busy' = [busy EXCEPT !.p = p, !.todo = @ \ {p}, !.moved = FALSE,
                            !.step = IF found[p].shelf = "different" THEN "uninstall" ELSE "call"]

Open ==
  /\ "opening" \in reading /\ cat["opening"] # None /\ stock["opening"] # None
  /\ Keep("opening") /\ EndRead("opening")
  /\ troubled' = (troubled \/ Overtaken("opening"))
  /\ UNCHANGED <<server, found, busy, effect, clicks, others>>

(* The read after an operation: its effect is measured, unless it was a    *)
(* restart.  What happened while it ran may be in one answer only.         *)
Measure ==
  /\ "operation" \in reading /\ cat["operation"] # None /\ stock["operation"] # None
  /\ Keep("operation") /\ EndRead("operation")
  /\ effect' = IF busy.op = "restart" THEN effect
               ELSE [op |-> busy.op, p |-> busy.p, on |-> busy.on, moved |-> busy.moved,
                     before |-> busy.before, after |-> Taken("operation")]
  /\ Over
  /\ UNCHANGED <<server, found, clicks, others, troubled>>

FailRead(r) ==
  /\ r \in reading
  /\ EndRead(r)
  /\ troubled' = TRUE
  /\ IF r = "operation" THEN Over ELSE UNCHANGED busy
  /\ epoch' = IF r = "operation" /\ busy.moved THEN epoch + 1 ELSE epoch
  /\ UNCHANGED <<up, dying, mounted, enabled, disk, shelf, view, effect, clicks, others>>

-----------------------------------------------------------------------------
(* Operations.                                                             *)

(* One under way: what it is of, the call it is at, the packages still     *)
(* picked, what the page had read before, and whether it moved a switch.   *)
Operation ==
  [op : {"toggle", "remove", "install", "uninstall", "from", "pick", "restart"},
   p : Packages \cup {None}, on : BOOLEAN,
   step : {"uninstall", "forget", "call", "poll", "read"}, todo : SUBSET Packages,
   before : {None} \cup [live : SUBSET Packages, at : Nat \cup {-1}], moved : BOOLEAN]

Begin(op, p, on, step, todo) ==
  /\ busy = None /\ clicks + others < MaxClicks
  /\ clicks' = clicks + 1
  /\ busy' = [op |-> op, p |-> p, on |-> on, step |-> step, todo |-> todo,
              before |-> snapshot, moved |-> FALSE]
  /\ UNCHANGED <<server, reads, view, effect, others, troubled>>

Drift == {p \in seen.installed : p \notin seen.mounted}

(* Mutant: the banner asks the store alone.                                *)
StoreBanner == Drift # {}

(* diskDrift: what is on disk and not mounted, or mounted and not on disk. *)
Banner == Drift # {} \/ seen.gone # {}

(* The card of a mounted cube.                                             *)
CubeCard(p) ==
  /\ seen # None /\ p \in seen.mounted
  /\ \/ Begin("toggle", p, p \notin seen.live, "call", {})
     \/ Begin("remove", p, FALSE, "call", {})

(* That of a package: what waits for a restart can be undone.              *)
PackageCard(p) ==
  /\ seen # None
  /\ \/ p \in Drift /\ Begin("uninstall", p, FALSE, "call", {})
     \/ p \notin seen.installed /\ Begin("install", p, FALSE, "call", {})

InstallFromCard(p) == Begin("from", p, FALSE, "call", {})

RestartButton ==
  /\ seen # None /\ Banner
  /\ Begin("restart", None, FALSE, "call", {})

(* The directory is scanned; what is not installed is picked.              *)
Scan ==
  /\ up /\ busy = None
  /\ found' = [p \in Packages |-> [installed |-> p \in disk, shelf |-> shelf[p]]]
  /\ found' # found
  /\ UNCHANGED <<server, reads, seen, snapshot, busy, effect, clicks, others, troubled>>

Picked == {p \in Packages : ~ found[p].installed}

InstallPicked ==
  /\ found # None
  /\ \E p \in Picked :
       Begin("pick", p, FALSE, IF found[p].shelf = "different" THEN "uninstall" ELSE "call", Picked \ {p})

(* The call of each step; a pick replaces a copy that differs first.       *)
Asked == CASE busy.step \in {"uninstall", "forget"} -> busy.step
           [] busy.op = "pick" -> "from"
           [] OTHER -> busy.op

AtCall == busy # None /\ busy.step \in {"uninstall", "forget", "call"}

(* A call is done and its answer arrives: the next call, or the read.      *)
Answered ==
  /\ AtCall /\ busy.op # "restart"
  /\ Do(Asked, busy.p, busy.on) /\ epoch' = epoch
  /\ IF busy.step = "call"
     THEN /\ busy' = [busy EXCEPT !.step = "read", !.moved = enabled' # enabled]
          /\ StartRead(FALSE)
     ELSE /\ busy' = [busy EXCEPT !.step = IF @ = "uninstall" THEN "forget" ELSE "call"]
          /\ troubled' = TRUE /\ UNCHANGED reading
  /\ UNCHANGED <<cat, stock, view, effect, clicks, others>>

(* A refusal is shown, and nothing is read.                                *)
Refused ==
  /\ AtCall /\ busy.op # "restart"
  /\ up /\ ~ Accepts(Asked, busy.p)
  /\ Over
  /\ UNCHANGED <<server, reads, view, effect, clicks, others, troubled>>

(* The answer is lost, whether the call was carried out or not.            *)
Lost ==
  /\ AtCall /\ busy.op # "restart"
  /\ (Do(Asked, busy.p, busy.on) /\ Strange) \/ UNCHANGED server
  /\ Over
  /\ troubled' = TRUE
  /\ UNCHANGED <<reads, view, effect, clicks, others>>

(* A restart: whether it is accepted or lost, the page asks for the       *)
(* catalogue every second until it gets it, twenty times at most, and      *)
(* reads.  The answer may be that of the process that has yet to end.      *)
AskRestart ==
  /\ busy # None /\ busy.op = "restart" /\ busy.step = "call"
  /\ busy' = [busy EXCEPT !.step = "poll"]
  /\ dying' \in {dying, up}
  /\ UNCHANGED <<up, mounted, enabled, disk, shelf, epoch, reads, view, effect, clicks, others, troubled>>

Back ==
  /\ busy # None /\ busy.op = "restart" /\ busy.step = "poll"
  /\ busy' = [busy EXCEPT !.step = "read"]
  /\ StartRead(~ up \/ dying)
  /\ UNCHANGED <<server, cat, stock, view, effect, clicks, others>>

Next ==
  \/ \E op \in {"toggle", "remove", "install", "uninstall", "forget", "from"}, p \in Packages, on \in BOOLEAN :
       (on => op = "toggle") /\ Other(op, p, on)
  \/ Die \/ Boot
  \/ \E r \in reading : ReadCatalogue(r) \/ ReadStore(r) \/ FailRead(r)
  \/ Open \/ Measure
  \/ \E p \in Packages : CubeCard(p) \/ PackageCard(p) \/ InstallFromCard(p)
  \/ RestartButton \/ Scan \/ InstallPicked
  \/ Answered \/ Refused \/ Lost
  \/ AskRestart \/ Back

-----------------------------------------------------------------------------

(* page.tsx:210, "the disk and the server that runs no longer say the same *)
(* thing": the page at rest shows its banner exactly when what is mounted  *)
(* is not what is on disk, if nothing happened since its last read began:  *)
(* nobody else acted, its own last call was answered and read after, and a *)
(* restart had ended when the page took it to be over.                     *)
BannerIsTrue ==
  busy = None /\ seen # None /\ up /\ ~ troubled /\ "opening" \notin reading =>
    (Banner <=> disk # mounted)

Shown(e) == [added |-> e.after.live \ e.before.live, gone |-> e.before.live \ e.after.live]

(* page.tsx:12, "this page MEASURES": unless what the server exposes was   *)
(* changed by something else since the read before -- another              *)
(* administrator, a restart, an operation the page saw no end of -- or an  *)
(* operation's read failed, or the read before is the page's first one     *)
(* that answered late, the effect shown is the cube that was switched, and *)
(* nothing after an install or a removal, also for the packages of one     *)
(* click, which are all compared with the read before the first.  Of the   *)
(* lists of an effect it is that of the live cubes.                        *)
EffectIsOwn ==
  effect # None /\ effect.before # None /\ effect.after.at = effect.before.at =>
    Shown(effect) = [added |-> IF effect.moved /\ effect.on THEN {effect.p} ELSE {},
                     gone |-> IF effect.moved /\ ~ effect.on THEN {effect.p} ELSE {}]
=============================================================================
