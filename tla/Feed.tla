-------------------------------- MODULE Feed --------------------------------
(***************************************************************************)
(* The echo cube: the feed over the activity log and the comments on what  *)
(* it shows (core/src/cubes/echo, core/src/pg/activity.ts), for the rows   *)
(* of one cube.  One user walks down the feed page by page; others write   *)
(* rows, and add, edit and remove comments, and rights, the cube's switch  *)
(* and its declared entity change at any time between two statements.      *)
(*                                                                         *)
(* The id of an activity row is drawn at its INSERT and seen at the commit *)
(* of its transaction, so ids do not appear in order.                      *)
(*                                                                         *)
(* Bounds: MaxIds activity ids (MaxTalkIds beside comment calls),          *)
(* MaxChanges changes of the walker's rights or of the captured entity,    *)
(* and in one behaviour either one walk, or one comment call for each of   *)
(* Slots; the rows are there at first; other users than the walker         *)
(* moderate all along.                                                     *)
(***************************************************************************)
EXTENDS Integers, FiniteSets, FiniteSetsExt

CONSTANTS
  Rows,       \* of one cube
  Users,      \* the walker is one of them
  Entities,   \* types the cube may declare its rows to be
  Slots,      \* the comment calls of a behaviour
  Limit,      \* the length of a page of the feed
  MaxIds, MaxTalkIds, MaxChanges  \* bounds, see above

ASSUME FeedAssumption == MaxIds \in Nat /\ Limit \in Nat \ {0} /\ Users # {} /\ "off" \notin Entities

VARIABLES
  rows,      \* per row: "live" or "deleted"
  capture,   \* the entity the cube captures now, or "off"
  rights,    \* per user and row: the user's entity decision, see Allows
  capped,    \* the users who hold the permission of the cube's read route
  log,       \* per id: [st, row, type, op] of qwbe.activity; op is the state that an
             \* open transaction gives the row, "row" when committed, or "comment"
  comments,  \* per id of its activity row: the row of qwbe.comment, or none
  calls,     \* per slot: [at, op, user, id, row, type], a comment call
  walk,      \* [at, target, before, cap, type, scanned, verdicts, seen, repeats]
  changes,
  lasting,   \* ids visible to the walker at every moment of the walk
  met        \* what was true of a row at some moment of the present page

vars == <<rows, capture, rights, capped, log, comments, calls, walk, changes, lasting, met>>

Ids == 1..MaxIds
Ranks == {"none", "read", "edit", "moderate"}
Words(u) == [author |-> u, text |-> "words", gone |-> FALSE]
NoComment == [author |-> "", text |-> "", gone |-> FALSE]

(* The decision of permissions/foundation.ts: a moderator's comes from     *)
(* "superadmin" or "cube-admin" and allows everything.                     *)
Allows(u, r, action) ==
  rights[u][r] \in (IF action = "read" THEN {"read", "edit", "moderate"} ELSE {"edit", "moderate"})
Moderates(u, r) == rights[u][r] = "moderate"

Done == {i \in Ids : log[i].st = "done"}
Free == {i \in Ids : log[i].st = "free"}

Walker == CHOOSE u \in Users : TRUE

Init ==
  /\ rows = [r \in Rows |-> "live"]
  /\ capture \in Entities
  /\ \E own \in [Rows -> Ranks] :
       rights = [u \in Users |-> IF u = Walker THEN own ELSE [r \in Rows |-> "moderate"]]
  /\ capped = Users
  /\ \/ /\ log = [i \in Ids |-> [st |-> "free"]] /\ comments = [i \in Ids |-> NoComment]
     \/ \E r \in Rows :                    \* a comment from before
          /\ log = [i \in Ids |-> IF i = 1 THEN [st |-> "done", row |-> r, type |-> capture, op |-> "comment"]
                                   ELSE [st |-> "free"]]
          /\ comments = [i \in Ids |-> IF i = 1 THEN Words(Walker) ELSE NoComment]
  /\ calls = [s \in Slots |-> [at |-> "idle"]]
  /\ walk = [at |-> "idle"]
  /\ changes = 0 /\ lasting = {} /\ met = {}

(***************************************************************************)
(* Writers of rows: the store's transaction draws the next id at its       *)
(* INSERT into qwbe.activity and shows row and record at its commit.       *)
(***************************************************************************)
Draw(r, type, op) ==
  /\ Free # {}
  /\ (\A s \in Slots : calls[s].at = "idle") \/ Min(Free) <= MaxTalkIds
  /\ log' = [log EXCEPT ![Min(Free)] = [st |-> "open", row |-> r, type |-> type, op |-> op]]

Touch(r, op) ==
  /\ capture # "off" /\ ~\E i \in Ids : log[i].st = "open" /\ log[i].row = r /\ log[i].op # "comment"
  /\ rows[r] = "live"
  /\ Draw(r, capture, op)
  /\ UNCHANGED <<rows, capture, rights, capped, comments, calls, walk, changes>>

Commit(i) ==
  /\ log[i].st = "open" /\ log[i].op # "comment"
  /\ log' = [log EXCEPT ![i].st = "done", ![i].op = "row"]
  /\ rows' = [rows EXCEPT ![log[i].row] = log[i].op]
  /\ UNCHANGED <<capture, rights, capped, comments, calls, walk, changes>>

(* A transaction that fails leaves a gap in the ids.                       *)
Abort(i) ==
  /\ log[i].st = "open"
  /\ log' = [log EXCEPT ![i] = [st |-> "void"]]
  /\ calls' = [s \in Slots |-> IF calls[s].at = "insert" /\ calls[s].id = i THEN [at |-> "ended"]
                               ELSE calls[s]]
  /\ UNCHANGED <<rows, capture, rights, capped, comments, walk, changes>>

Change ==
  /\ changes < MaxChanges /\ changes' = changes + 1
  /\ \/ \E r \in Rows, k \in Ranks :
          rights' = [rights EXCEPT ![Walker][r] = k] /\ UNCHANGED <<capture, capped>>
     \/ \E c \in Entities \cup {"off"} : capture' = c /\ UNCHANGED <<rights, capped>>
     \/ capped' = capped \ {Walker} /\ UNCHANGED <<rights, capture>>
  /\ UNCHANGED <<rows, log, comments, calls, walk>>

(***************************************************************************)
(* Comments.  Every call finds its gates one after the other, with awaits  *)
(* between them, and then makes one write.                                 *)
(***************************************************************************)
(* gatedTarget without history: captured, a read route, a summary.         *)
Gate(u, r) == capture # "off" /\ u \in capped /\ rows[r] = "live" /\ Allows(u, r, "read")

To(s, stage) == calls' = [calls EXCEPT ![s].at = stage]
End(s) == calls' = [calls EXCEPT ![s] = [at |-> "ended"]]
Rest == UNCHANGED <<rows, capture, rights, capped, walk, changes>>

Ask(s) ==
  /\ calls[s].at = "idle" /\ walk.at = "idle" /\ \A i \in Ids : i > MaxTalkIds => i \in Free
  /\ \E u \in Users :
       \/ \E r \in Rows : calls' = [calls EXCEPT ![s] = [at |-> "gate", op |-> "add", user |-> u, row |-> r]]
       \/ \E op \in {"edit", "remove"}, i \in Done :       \* byId, and the check of deletedAt
            /\ log[i].op = "comment" /\ ~comments[i].gone
            /\ calls' = [calls EXCEPT ![s] = [at |-> "gate", op |-> op, user |-> u, id |-> i,
                                              row |-> log[i].row, type |-> log[i].type]]
  /\ Rest /\ UNCHANGED <<log, comments>>

Gated(s) ==
  LET c == calls[s]
  IN /\ c.at = "gate"
     /\ IF ~Gate(c.user, c.row) \/ (c.op # "add" /\ c.type # capture) THEN End(s)
        ELSE IF c.op = "add"
             THEN calls' = [calls EXCEPT ![s] = [at |-> "decide", op |-> "add", user |-> c.user,
                                                 row |-> c.row, type |-> capture]]
             ELSE To(s, IF c.op = "edit" THEN "decide" ELSE "moderator")
     /\ Rest /\ UNCHANGED <<log, comments>>

(* deleteComment asks for the "delete" decision first, then as the author. *)
Moderator(s) ==
  /\ calls[s].at = "moderator"
  /\ To(s, IF Moderates(calls[s].user, calls[s].row) THEN "wipe" ELSE "decide")
  /\ Rest /\ UNCHANGED <<log, comments>>

Decide(s) ==
  LET c == calls[s]
      mine == c.op = "add" \/ comments[c.id].author = c.user
  IN /\ c.at = "decide"
     /\ IF Allows(c.user, c.row, "edit") /\ mine THEN To(s, "write") ELSE End(s)
     /\ Rest /\ UNCHANGED <<log, comments>>

(* An add keeps the id it drew.                                            *)
Insert(s, i) ==
  calls' = [calls EXCEPT ![s] = [at |-> "insert", op |-> "add", user |-> calls[s].user,
                                 row |-> calls[s].row, type |-> calls[s].type, id |-> i]]

(* comments.add: the comment and its activity row in one transaction.      *)
AddCommitsAtOnce(s) ==                     (* Mutant: the comment commits first. *)
  LET c == calls[s]
  IN /\ \/ /\ c.at = "write" /\ c.op = "add" /\ Draw(c.row, c.type, "comment")
           /\ comments' = [comments EXCEPT ![Min(Free)] = Words(c.user)]
           /\ Insert(s, Min(Free))
        \/ /\ c.at = "insert" /\ log' = [log EXCEPT ![c.id].st = "done"] /\ UNCHANGED comments /\ End(s)
     /\ Rest
Add(s) ==
  LET c == calls[s]
  IN /\ \/ /\ c.at = "write" /\ c.op = "add" /\ Draw(c.row, c.type, "comment") /\ UNCHANGED comments
           /\ Insert(s, Min(Free))
        \/ /\ c.at = "insert" /\ log' = [log EXCEPT ![c.id].st = "done"] /\ End(s)
           /\ comments' = [comments EXCEPT ![c.id] = Words(c.user)]
     /\ Rest

(* The UPDATEs pin the row in their WHERE: not deleted, and the author's   *)
(* own unless a moderator removes it.                                      *)
PinnedByAuthor(u, i) == comments[i].author = u          (* Mutant: the deleted too. *)
Pinned(u, i) == comments[i].author = u /\ ~comments[i].gone

Edit(s) ==
  LET c == calls[s]
  IN /\ c.at = "write" /\ c.op = "edit"
     /\ IF Pinned(c.user, c.id)
        THEN comments' = [comments EXCEPT ![c.id].text = "new words"] /\ End(s)
        ELSE UNCHANGED comments /\ End(s)
     /\ Rest /\ UNCHANGED log

Remove(s) ==
  LET c == calls[s]
  IN /\ c.at = "wipe" \/ (c.at = "write" /\ c.op = "remove")
     /\ IF IF c.at = "wipe" THEN ~comments[c.id].gone ELSE Pinned(c.user, c.id)
        THEN /\ comments' = [comments EXCEPT ![c.id] = [author |-> @.author, text |-> "", gone |-> TRUE]]
             /\ End(s)
        ELSE UNCHANGED comments /\ End(s)
     /\ Rest /\ UNCHANGED log

(***************************************************************************)
(* The walk: pages of Limit activity rows, newest first.  `target` is a    *)
(* row for the feed of one target, "all" for the general feed.             *)
(***************************************************************************)
Page(target, type, before) ==
  LET fits == {i \in Done : i < before /\ (target = "all" \/ (log[i].row = target /\ log[i].type = type))}
  IN {i \in fits : Cardinality({j \in fits : j > i}) < Limit}

(* What the user is told of a target: its summary, or its history if it is *)
(* deleted now and the user moderates it.                                  *)
Target(u, r) == \/ rows[r] = "live" /\ Allows(u, r, "read")
                \/ rows[r] = "deleted" /\ Moderates(u, r)

Start(target) ==
  /\ walk.at = "idle" /\ \A s \in Slots : calls[s].at = "idle"
  /\ walk' = [at |-> "ask", target |-> target, before |-> MaxIds + 1, seen |-> {},
              repeats |-> FALSE, verdicts |-> <<>>]
  /\ UNCHANGED <<rows, capture, rights, capped, log, comments, calls, changes>>

(* A request: the general feed scans first; the feed of a target passes    *)
(* the gate first, once for the page.                                      *)
KeptVerdicts == walk.verdicts              (* Mutant: verdicts outlive the request. *)
NoVerdicts == <<>>

Scan ==
  LET t == walk.target
      page == Page(t, capture, walk.before)
  IN /\ walk.at = "ask"
     /\ walk' = IF t # "all" /\ ~(capture # "off" /\ Walker \in capped /\ Target(Walker, t))
                THEN [walk EXCEPT !.at = "refused"]
                ELSE [at |-> "judge", target |-> t, before |-> walk.before, seen |-> walk.seen,
                      repeats |-> walk.repeats, scanned |-> page, type |-> capture,
                      cap |-> Walker \in capped,
                      verdicts |-> IF t = "all" THEN NoVerdicts ELSE [r \in {t} |-> TRUE]]
     /\ UNCHANGED <<rows, capture, rights, capped, log, comments, calls, changes>>

(* The general feed asks for each distinct target that passed the first    *)
(* two gates, one call after the other: first its row, then the decision.  *)
Asked(i) == walk.type # "off" /\ log[i].type = walk.type /\ walk.cap
Told(r) == [q \in DOMAIN walk.verdicts \cup {r} |-> IF q = r THEN Target(Walker, r) ELSE walk.verdicts[q]]
Judge(i) ==
  /\ walk.at = "judge" /\ i \in walk.scanned /\ Asked(i) /\ log[i].row \notin DOMAIN walk.verdicts
  /\ walk' = [walk EXCEPT !.verdicts = Told(log[i].row)]
  /\ UNCHANGED <<rows, capture, rights, capped, log, comments, calls, changes>>

(* visiblePage: the rows that pass, and the cursor: the last row scanned.  *)
Shown == {i \in walk.scanned : Asked(i) /\ walk.verdicts[log[i].row]}

CursorOfShown == Shown                     (* Mutant: the last row shown. *)
CursorOf == walk.scanned

Answer ==
  /\ walk.at = "judge" /\ \A i \in walk.scanned : Asked(i) => log[i].row \in DOMAIN walk.verdicts
  /\ walk' = [walk EXCEPT !.at = IF CursorOf = {} THEN "ended" ELSE "ask",
                          !.before = IF CursorOf = {} THEN @ ELSE Min(CursorOf),
                          !.seen = @ \cup Shown,
                          !.repeats = @ \/ Shown \cap walk.seen # {}]
  /\ UNCHANGED <<rows, capture, rights, capped, log, comments, calls, changes>>

(***************************************************************************)
(* Two histories follow every step: which records stay visible through the *)
(* whole walk, and which facts held at some moment of the present page.    *)
(***************************************************************************)
Facts == {<<rows[r], r>> : r \in Rows} \cup {<<rights[Walker][r], r>> : r \in Rows}
Visible == {i \in Done : log[i].type = capture /\ Walker \in capped /\ Target(Walker, log[i].row)}

Track == /\ lasting' = IF walk'.at = "idle" THEN {} ELSE IF walk.at = "idle" THEN Visible' ELSE lasting \cap Visible'
         /\ met' = IF walk'.at \in {"idle", "ask"} THEN {} ELSE met \cup Facts \cup Facts'

Next ==
  /\ walk.at \notin {"ended", "refused"}
  /\ \/ \E r \in Rows, op \in {"live", "deleted"} : Touch(r, op)
     \/ \E i \in Ids : Commit(i) \/ Abort(i) \/ Judge(i)
     \/ Change
     \/ \E s \in Slots : Ask(s) \/ Gated(s) \/ Moderator(s) \/ Decide(s) \/ Add(s) \/ Edit(s) \/ Remove(s)
     \/ \E t \in Rows \cup {"all"} : Start(t)
     \/ Scan \/ Answer
  /\ Track

Spec == Init /\ [][Next]_vars

(***************************************************************************)
(* Properties.                                                             *)
(***************************************************************************)
(* A walk to the end shows every record that was committed when it began   *)
(* and stayed visible to the walker, though pages of hidden rows lie       *)
(* between and lower ids are committed meanwhile; and none twice           *)
(* (feed.ts:28-29 and 75-86, activity.ts:153-171, rows.ts:48).             *)
WalkSeesAll ==
  /\ walk.at = "ended" =>
       \A i \in lasting : walk.target \in {"all", log[i].row} => i \in walk.seen
  /\ walk.at # "idle" => ~walk.repeats

(* What a page shows of a target, its history included, rests on what was  *)
(* so during that request: the row was live and readable, or it was        *)
(* deleted and the user its moderator (echo/index.ts:33-40 and 212-240).   *)
ShownWasAllowed ==
  Answer => \A i \in Shown :
    LET r == log[i].row
    IN \/ <<"live", r>> \in met /\ \E k \in {"read", "edit", "moderate"} : <<k, r>> \in met
       \/ <<"deleted", r>> \in met /\ <<"moderate", r>> \in met

(* The text of a removed comment is gone for good: an edit that passed its *)
(* checks before a moderator removed it does not bring words back          *)
(* (activity.ts:110-131).                                                  *)
RemovedTextIsGone == \A i \in Ids : comments[i].gone => comments[i].text = ""

(* A comment and its activity row appear together or not at all, whatever  *)
(* aborts (activity.ts:176-181).                                           *)
CommentsAreLogged == \A i \in Ids : comments[i] # NoComment <=> log[i].st = "done" /\ log[i].op = "comment"
=============================================================================
