----------------------------- MODULE MCReading ------------------------------
(***************************************************************************)
(* What a user is shown, for TLC: Feed and Relations on the server, the    *)
(* pages of Screens and InstallPage in the browser, side by side.  `part`  *)
(* says which of them a behaviour is of; the variables of the others keep  *)
(* a dummy.  `clicks` is of both kinds of pages.                           *)
(***************************************************************************)
EXTENDS Feed, TLC

CONSTANTS
  FromRows, Targets, Readers, GroupPages, MaxLimit, MaxRelinks, None, \* of Relations
  Selections, First, Packages, MaxLoads, MaxSaves, MaxClicks, MaxOthers     \* of the pages

VARIABLES
  part,
  on, value, admins, may, kind, call, could, quiet, relinks,
  page, sel, loads, asked, shown, slot, jobs, data, owed, failed, moved, crossed,
  up, dying, mounted, enabled, disk, shelf, epoch, reading, cat, stock, seen, snapshot,
  found, busy, effect, others, troubled,
  clicks

MCPages == {[offset |-> -1, limit |-> 0], [offset |-> 0, limit |-> 9],
            [offset |-> 1, limit |-> 1], [offset |-> 1, limit |-> 2]}

R == INSTANCE Relations WITH Rows <- FromRows, Users <- Readers, Pages <- GroupPages,
                             MaxChanges <- MaxRelinks, changes <- relinks
S == INSTANCE Screens WITH Items <- Packages, MaxClicks <- MaxSaves
I == INSTANCE InstallPage

ASSUME RelationsAssumption == /\ IsFiniteSet(FromRows) /\ FromRows \subseteq Int /\ None \notin Targets
                              /\ GroupPages \subseteq [offset : Int, limit : Int]
                              /\ MaxLimit \in Nat /\ MaxRelinks \in Nat
ASSUME ScreensAssumption == /\ MaxLoads \in Nat \ {0} /\ MaxSaves \in Nat /\ First \in Selections
                            /\ None \notin Packages /\ None \notin S!Answer /\ None \notin Nat
                            /\ MaxClicks \in Nat /\ None \notin I!Operation

relationsOnly == <<on, value, admins, may, kind, call, could, quiet, relinks>>
screensOnly == <<page, sel, loads, asked, shown, slot, jobs, data, owed, failed, moved, crossed>>
installOnly == <<up, dying, mounted, enabled, disk, shelf, epoch, reading, cat, stock, seen,
                 snapshot, found, busy, effect, others, troubled>>
all == <<part, vars, relationsOnly, screensOnly, installOnly, clicks>>

NoFeed == /\ rows = 0 /\ capture = 0 /\ rights = 0 /\ capped = 0 /\ log = 0 /\ comments = 0
          /\ calls = 0 /\ walk = 0 /\ changes = 0 /\ lasting = 0 /\ met = 0
NoRelations == /\ on = 0 /\ value = 0 /\ admins = 0 /\ may = 0 /\ kind = 0 /\ call = 0
               /\ could = 0 /\ quiet = 0 /\ relinks = 0
NoScreens == /\ page = 0 /\ sel = 0 /\ loads = 0 /\ asked = 0 /\ shown = 0 /\ slot = 0 /\ jobs = 0
             /\ data = 0 /\ owed = 0 /\ failed = 0 /\ moved = 0 /\ crossed = 0
NoInstall == /\ up = 0 /\ dying = 0 /\ mounted = 0 /\ enabled = 0 /\ disk = 0 /\ shelf = 0 /\ epoch = 0
             /\ reading = 0 /\ cat = 0 /\ stock = 0 /\ seen = 0 /\ snapshot = 0 /\ found = 0
             /\ busy = 0 /\ effect = 0 /\ others = 0 /\ troubled = 0

InitReading ==
  \/ part = "feed" /\ Init /\ NoRelations /\ NoScreens /\ NoInstall /\ clicks = 0
  \/ part = "relations" /\ R!Init /\ NoFeed /\ NoScreens /\ NoInstall /\ clicks = 0
  \/ part = "screens" /\ S!Init /\ NoFeed /\ NoRelations /\ NoInstall
  \/ part = "install" /\ I!Init /\ NoFeed /\ NoRelations /\ NoScreens

FeedOnly == <<rows, capture, rights, capped, log, comments, calls, walk, changes, lasting, met>>

NextReading ==
  /\ part' = part
  /\ \/ part = "feed" /\ Next /\ UNCHANGED <<relationsOnly, screensOnly, installOnly, clicks>>
     \/ part = "relations" /\ R!Next /\ UNCHANGED <<FeedOnly, screensOnly, installOnly, clicks>>
     \/ part = "screens" /\ S!Next /\ UNCHANGED <<FeedOnly, relationsOnly, installOnly>>
     \/ part = "install" /\ I!Next /\ UNCHANGED <<FeedOnly, relationsOnly, screensOnly>>

SpecReading == InitReading /\ [][NextReading]_all

(* Rows of the feed, packages and the items of the other pages.            *)
SymRows == Permutations(Rows)

(* Feed!WalkSeesAll: a walk to the end shows all that stood all the while, *)
(* and nothing twice. feed.ts:28-29 and 75-86, activity.ts:153-171.        *)
FeedIsComplete == part = "feed" => WalkSeesAll

(* Feed!ShownWasAllowed: what a page shows rests on what was so during its *)
(* request. echo/index.ts:33-40 and 212-240.                               *)
FeedIsAllowed == [][part = "feed" => ShownWasAllowed]_all

(* Comments stand as they were told: no edit brings a removed comment's    *)
(* words back (Feed!RemovedTextIsGone), and a comment and its activity row *)
(* appear together or not at all (Feed!CommentsAreLogged).                 *)
(* activity.ts:110-131 and 176-181.                                        *)
CommentsStand == part = "feed" => RemovedTextIsGone /\ CommentsAreLogged

(* Relations!AnswersWereReadable, with Relations!TypeOK: a related page is *)
(* of rows the caller could read at some time of the call.                 *)
(* registry-runtime.ts:24-40, relational-enforcement.ts:55-98.             *)
RelatedWasReadable == part = "relations" => R!TypeOK /\ R!AnswersWereReadable

(* The audit names exactly the rows shown (Relations!AuditIsTheAnswer),    *)
(* and a call during which nothing changed answers the asked page of the   *)
(* readable rows, and their number (Relations!QuietAnswerIsExact).         *)
(* relational-enforcement.ts:69-80.                                        *)
RelatedIsExact == part = "relations" => R!AuditIsTheAnswer /\ R!QuietAnswerIsExact

(* A page at rest that shows its last load shows what is selected, with    *)
(* the mutations after which it loads again                                *)
(* (Screens!QuietScreenIsCurrent), the fields' panel shows its last answer *)
(* whatever the order (Screens!PanelIgnoresLateLoads), and no button has   *)
(* two calls out at once (Screens!OneClickOneCall), with Screens!TypeOK.   *)
(* ListPage.tsx:51-110, CustomFields.tsx:29-30, DefinedFields.tsx:4.       *)
ScreensAreCurrent ==
  part = "screens" => /\ S!TypeOK /\ S!QuietScreenIsCurrent
                      /\ S!PanelIgnoresLateLoads /\ S!OneClickOneCall

(* The install page measures: it asks for a restart exactly when the disk  *)
(* and the server differ (InstallPage!BannerIsTrue), and the effect it     *)
(* shows is its own operation's (InstallPage!EffectIsOwn).                 *)
(* install/page.tsx:12 and 210.                                            *)
InstallPageMeasures == part = "install" => I!BannerIsTrue /\ I!EffectIsOwn
=============================================================================
