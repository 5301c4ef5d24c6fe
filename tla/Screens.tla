------------------------------ MODULE Screens -------------------------------
(***************************************************************************)
(* The pages of the web front end that load what they show and send        *)
(* mutations (web/app, web/components).  A page is a React component: an   *)
(* effect asks for what its selection names and shows the answer when it   *)
(* comes, in whatever order answers come; a click sends a call and marks   *)
(* something busy; a call that is done has the page load again.  How each  *)
(* page does these is a row of Pages.                                      *)
(***************************************************************************)
EXTENDS Integers, FiniteSets

CONSTANTS
  Selections, \* what a page can be asked to show: a row, a tab, an offset, a cube
  Items,      \* what its buttons act on
  First,      \* the selection a page opens with
  None,       \* nothing
  MaxLoads,   \* bound on the loads of a page
  MaxClicks   \* bound on the clicks on it

VARIABLES
  page,    \* which page it is
  sel,     \* what it is asked to show
  loads,   \* the loads in flight
  asked,   \* how many loads were asked for
  shown,   \* the answer it shows
  slot,    \* the item it marks busy
  jobs,    \* the mutations in flight
  clicks,  \* how many were sent
  data,    \* the server's rows: the number of mutations applied
  owed,    \* history: data as left by the last mutation that has the page
           \* load again
  failed,  \* history: a load or a mutation failed
  moved,   \* history: the selection changed under a mutation, or was
           \* still loading under one whose answer is shown
  crossed  \* history: mutations of two items overlapped

screen == <<page, sel, loads, asked, shown, slot, jobs, clicks, data>>
history == <<owed, failed, moved, crossed>>
vars == <<screen, history>>

-----------------------------------------------------------------------------
(* selects: its selection can change, and every change loads; guards: an   *)
(* answer to a selection that was left is dropped; waits: its buttons are  *)
(* there once something is shown; marks: which of them a click disables;   *)
(* reloads: what its mutations do when they are done (finally: a failed    *)
(* one too); clears: a failed load empties the page, or leaves what it     *)
(* showed.  Of DetailPage it is the open tab of linked rows that is shown. *)
(* What a load is made of is read at several times, and counts from the    *)
(* first.                                                                  *)

ListPage == [selects |-> TRUE, guards |-> FALSE, waits |-> TRUE, marks |-> "item", reloads |-> {"effect"}, clears |-> TRUE]
DetailPage == [selects |-> TRUE, guards |-> FALSE, waits |-> TRUE, marks |-> "never", reloads |-> {"never"}, clears |-> TRUE]
CustomFields == [selects |-> TRUE, guards |-> TRUE, waits |-> TRUE, marks |-> "all", reloads |-> {"answer"}, clears |-> TRUE]

(* Assigning an administrator and creating a group load the page again;    *)
(* adding a member only clears its input, although the audit table below   *)
(* would now show one row more.                                            *)
PermissionsPage == [selects |-> TRUE, guards |-> FALSE, waits |-> FALSE, marks |-> "none", reloads |-> {"then", "never"}, clears |-> FALSE]
DefinedFields == [selects |-> FALSE, guards |-> FALSE, waits |-> TRUE, marks |-> "item", reloads |-> {"await"}, clears |-> TRUE]
AddFieldForm == [selects |-> FALSE, guards |-> FALSE, waits |-> FALSE, marks |-> "all", reloads |-> {"await"}, clears |-> TRUE]
Settings == [selects |-> FALSE, guards |-> FALSE, waits |-> TRUE, marks |-> "item", reloads |-> {"await"}, clears |-> FALSE]
Shell == [selects |-> TRUE, guards |-> FALSE, waits |-> TRUE, marks |-> "never", reloads |-> {"never"}, clears |-> FALSE]
Terminal == [selects |-> FALSE, guards |-> FALSE, waits |-> FALSE, marks |-> "all", reloads |-> {"finally"}, clears |-> FALSE]
CubeAgent == [selects |-> TRUE, guards |-> FALSE, waits |-> TRUE, marks |-> "none", reloads |-> {"then"}, clears |-> TRUE]

Pages == {ListPage, DetailPage, CustomFields, PermissionsPage, DefinedFields,
          AddFieldForm, Settings, Shell, Terminal, CubeAgent}

Reloads == {"effect", "then", "finally", "await", "answer", "never"}
Load == [id : Nat, sel : Selections, at : Nat \cup {None}]
Job == [id : Nat, item : Items, does : Reloads, sel : Selections, stage : {"sent", "applied", "reload"}, load : Nat]
Answer == [id : Nat, sel : Selections, at : Nat]

Init ==
  /\ page \in Pages
  /\ sel = First
  /\ loads = {[id |-> 1, sel |-> First, at |-> None]}
  /\ asked = 1
  /\ shown = None /\ slot = None
  /\ jobs = {} /\ clicks = 0 /\ data = 0
  /\ owed = 0 /\ failed = FALSE /\ moved = FALSE /\ crossed = FALSE

-----------------------------------------------------------------------------

Ask(s) ==
  /\ asked < MaxLoads
  /\ asked' = asked + 1
  /\ loads' = loads \cup {[id |-> asked + 1, sel |-> s, at |-> None]}

(* Another offset, view, tab, row, cube or path: the effect runs again.    *)
Select(s) ==
  /\ page.selects /\ s # sel
  /\ sel' = s
  /\ Ask(s)
  /\ moved' = (moved \/ jobs # {})
  /\ UNCHANGED <<page, shown, slot, jobs, clicks, data, owed, failed, crossed>>

(* The server answers a load; the answer is under way.                     *)
Read(l) ==
  /\ l.at = None
  /\ loads' = (loads \ {l}) \cup {[l EXCEPT !.at = data]}
  /\ UNCHANGED <<page, sel, asked, shown, slot, jobs, clicks, data, history>>

(* A mutation that awaits its reload ends with it, failed or not.          *)
Settle(l) ==
  LET awaiting == {j \in jobs : j.stage = "reload" /\ j.load = l.id}
  IN  /\ jobs' = jobs \ awaiting
      /\ slot' = IF awaiting # {} THEN None ELSE slot
      /\ loads' = loads \ {l}

(* Mutant: the panel's effect has no clean-up.                             *)
WantedAlways(l) == TRUE

(* The clean-up of an effect cancels its load when it runs again.          *)
Wanted(l) == page.guards => l.id = asked

Show(l) ==
  /\ l.at # None
  /\ Settle(l)
  /\ shown' = IF Wanted(l) THEN [id |-> l.id, sel |-> l.sel, at |-> l.at] ELSE shown
  /\ UNCHANGED <<page, sel, asked, clicks, data, owed, failed, moved, crossed>>

FailLoad(l) ==
  /\ Settle(l)
  /\ shown' = IF page.clears /\ Wanted(l) THEN None ELSE shown
  /\ failed' = TRUE
  /\ UNCHANGED <<page, sel, asked, clicks, data, owed, moved, crossed>>

-----------------------------------------------------------------------------

(* Mutant: nothing is disabled while a call is out.                        *)
EnabledAlways(i) == (page.waits => shown # None) /\ page.marks # "never"

(* A button is there as soon as something is shown: also what was loaded   *)
(* for the selection before, with whose name the call is then made.        *)
(* It is enabled unless its own item, or any, is marked busy.              *)
Enabled(i) ==
  /\ page.waits => shown # None
  /\ \/ page.marks = "none"
     \/ page.marks = "item" /\ slot # i
     \/ page.marks = "all" /\ slot = None

Crossing(j) == crossed \/ \E k \in jobs : k.item # j.item

Click(i) ==
  /\ Enabled(i) /\ clicks < MaxClicks
  /\ \E does \in page.reloads :
       LET j == [id |-> clicks + 1, item |-> i, does |-> does, sel |-> sel, stage |-> "sent", load |-> 0]
       IN  /\ jobs' = jobs \cup {j} /\ crossed' = Crossing(j)
           /\ moved' = (moved \/ (does = "answer" /\ loads # {}))
  /\ clicks' = clicks + 1
  /\ slot' = IF page.marks = "none" THEN slot ELSE i
  /\ UNCHANGED <<page, sel, loads, asked, shown, data, owed, failed>>

Owed(j) == IF j.does = "never" THEN owed ELSE data + 1

(* Mutant: a call whose answer is slow is sent again.                      *)
ApplyAgain(j) ==
  /\ j.stage = "sent"
  /\ data' = data + 1 /\ owed' = Owed(j)
  /\ UNCHANGED <<page, sel, loads, asked, shown, slot, jobs, clicks, failed, moved, crossed>>

Apply(j) ==
  /\ j.stage = "sent"
  /\ jobs' = (jobs \ {j}) \cup {[j EXCEPT !.stage = "applied"]}
  /\ data' = data + 1 /\ owed' = Owed(j)
  /\ UNCHANGED <<page, sel, loads, asked, shown, slot, clicks, failed, moved, crossed>>

(* Mutant: a mutation that is done leaves the page as it was.              *)
DoneOnly(j) ==
  /\ j.stage = "applied"
  /\ jobs' = jobs \ {j} /\ slot' = None
  /\ UNCHANGED <<page, sel, loads, asked, shown, clicks, data, history>>

(* effect: a version the effect depends on is bumped; then: a load of what *)
(* was selected at the click; await: the same, and busy until it ends;     *)
(* answer: the answer itself is what the page shows next; never: nothing.  *)
Done(j) ==
  /\ j.stage = "applied"
  /\ \/ /\ \/ j.does = "effect" /\ Ask(sel) /\ UNCHANGED shown
           \/ j.does \in {"then", "finally"} /\ Ask(j.sel) /\ UNCHANGED shown
           \/ /\ j.does = "answer" /\ shown' = [id |-> asked, sel |-> j.sel, at |-> data]
              /\ UNCHANGED <<loads, asked>>
           \/ j.does = "never" /\ UNCHANGED <<loads, asked, shown>>
        /\ jobs' = jobs \ {j} /\ slot' = None
     \/ /\ j.does = "await" /\ Ask(j.sel)
        /\ jobs' = (jobs \ {j}) \cup {[j EXCEPT !.stage = "reload", !.load = asked + 1]}
        /\ UNCHANGED <<slot, shown>>
  /\ UNCHANGED <<page, sel, clicks, data, history>>

(* Refused, or its answer lost: the message is shown.                      *)
FailJob(j) ==
  /\ j.stage \in {"sent", "applied"}
  /\ jobs' = jobs \ {j} /\ slot' = None
  /\ failed' = TRUE
  /\ IF j.does = "finally" THEN Ask(j.sel) ELSE UNCHANGED <<loads, asked>>
  /\ UNCHANGED <<page, sel, shown, clicks, data, owed, moved, crossed>>

Next ==
  \/ \E s \in Selections : Select(s)
  \/ \E l \in loads : Read(l) \/ Show(l) \/ FailLoad(l)
  \/ \E i \in Items : Click(i)
  \/ \E j \in jobs : Apply(j) \/ Done(j) \/ FailJob(j)

-----------------------------------------------------------------------------

(* The state has its type.                                                 *)
TypeOK ==
  /\ page \in Pages /\ sel \in Selections
  /\ loads \subseteq Load /\ asked \in 1..MaxLoads
  /\ shown \in Answer \cup {None}
  /\ slot \in Items \cup {None}
  /\ jobs \subseteq Job /\ clicks \in 0..MaxClicks /\ data \in 0..MaxClicks /\ owed \in 0..data

Quiet == loads = {} /\ jobs = {} /\ ~ failed

(* When every call is answered, a page that shows the answer to the last   *)
(* load it asked for shows what is selected, with every mutation of its    *)
(* own that has it load again -- on all pages but that of the permissions, *)
(* every one.  It shows no more than that: most effects have no clean-up,  *)
(* and an older answer that came last stays.  A selection that changed     *)
(* under a mutation is exempt: no mutation checks what is selected by the  *)
(* time its answer comes.  ListPage.tsx:51-92 and 100-110.                 *)
QuietScreenIsCurrent ==
  Quiet /\ ~ moved =>
    shown # None /\ (shown.id = asked => shown.sel = sel /\ shown.at >= owed)

(* CustomFields.tsx:29, "guards against a late response for a previous     *)
(* row": loads alone never leave the panel with another row's fields, and  *)
(* of the row's own it shows what the last load or save answered.          *)
PanelIgnoresLateLoads ==
  page.guards /\ Quiet /\ ~ moved =>
    shown # None /\ shown.id = asked /\ shown.sel = sel /\ shown.at = data

(* DefinedFields.tsx:4, "a double-click cannot send a second DELETE": two  *)
(* calls for one item are never out at once, as long as no other item's    *)
(* call ran beside them -- the one mark a page has is then overwritten.    *)
OneClickOneCall ==
  page.marks # "none" /\ ~ crossed =>
    \A j, k \in jobs : j.item = k.item => j = k
=============================================================================
