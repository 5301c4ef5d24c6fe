----------------------------- MODULE Relations ------------------------------
(***************************************************************************)
(* The registry between cubes, as the pages of linked rows use it: cube    *)
(* "from" holds rows that point at entities of cube "to" (a link of a      *)
(* space).  An item page shows the entity a row points at, and how many    *)
(* rows point at an entity; a group page lists those rows.                 *)
(*                                                                         *)
(* A call reads the permissions, then the cube's rows, and writes one row  *)
(* of the audit; permissions, rows and switches change in between.  The    *)
(* entities of "to" are of the identity directory, readable by everybody.  *)
(* What a verdict takes to be visible is Visibility's.                     *)
(***************************************************************************)
EXTENDS Integers, FiniteSets

CONSTANTS Rows,        \* rows of "from": numbers, in the order of their pages
          Targets,     \* entities of "to"
          Users,
          Pages,       \* [offset, limit] a group page may be asked for
          MaxLimit,    \* the cap of a page
          MaxChanges,  \* bound: changes besides the calls
          None

VARIABLES on,       \* which of the two cubes are enabled
          value,    \* row |-> what it points at; None when it is deleted
          admins,   \* the users whose verdict is "all"
          may,      \* user |-> the rows shared with that user
          kind,     \* how the cube's search treats the ids it is given
          call,     \* user |-> the call in progress or answered
          could,    \* history: user |-> rows it could read since its last call began
          quiet,    \* history: user |-> nothing changed since its last call began
          changes

vars == <<on, value, admins, may, kind, call, could, quiet, changes>>

Idle == [at |-> "idle"]
LinkLive == on["from"] /\ on["to"]

Readable(u) == IF u \in admins THEN Rows ELSE may[u]
CouldNow(u) == {r \in Readable(u) : value[r] # None}

(* A list is a set of rows, in the order of their numbers: the rows of one *)
(* page, and of how many.                                                  *)
Cut(n, low, high) == IF n < low THEN low ELSE IF n > high THEN high ELSE n
PointingAt(t, ids) == {r \in ids : value[r] = t}
Place(r, list) == Cardinality({q \in list : q <= r})
PageOf(list, page) == {r \in list : Place(r, list) - page.offset \in 1 .. page.limit}
Capped(page) == [offset |-> Cut(page.offset, 0, page.offset), limit |-> Cut(page.limit, 1, MaxLimit)]

(* A cube's search: it filters by the ids itself ("careful", as the core   *)
(* cubes do), hands them to the store, for which none means no filter      *)
(* ("plain"), or was written before there were any ("ignores").            *)
Search(t, page, ids) ==
  LET list == IF kind = "ignores" \/ (kind = "plain" /\ ids = {}) THEN PointingAt(t, Rows) ELSE PointingAt(t, ids)
  IN [rows |-> PageOf(list, page), total |-> Cardinality(list)]

----------------------------------------------------------------------------
Init ==
  /\ on = [c \in {"from", "to"} |-> TRUE]
  /\ value \in [Rows -> Targets]
  /\ admins \in SUBSET Users /\ may \in [Users -> SUBSET Rows]
  /\ kind \in {"careful", "plain", "ignores"}
  /\ call = [u \in Users |-> Idle]
  /\ could = [u \in Users |-> {}] /\ quiet = [u \in Users |-> TRUE] /\ changes = 0

Open(u) == call[u].at \notin {"idle", "done"}

Goes(u, c) ==
  /\ call' = [call EXCEPT ![u] = c]
  /\ UNCHANGED <<on, value, admins, may, kind, could, quiet, changes>>

Begin(u, c) ==
  /\ call[u].at = "idle"
  /\ call' = [call EXCEPT ![u] = c]
  /\ could' = [could EXCEPT ![u] = CouldNow(u)] /\ quiet' = [quiet EXCEPT ![u] = TRUE]
  /\ UNCHANGED <<on, value, admins, may, kind, changes>>

Answer(u, rows, total, parent, audit) ==
  Goes(u, [at |-> "done", asked |-> call[u], rows |-> rows, total |-> total, parent |-> parent, audit |-> audit])

(* links.group: a page of the rows that point at t; links.for of t: how    *)
(* many there are.  The link is of the spaces, live in this moment.        *)
Group(u, t, page) == LinkLive /\ Begin(u, [at |-> "search", target |-> t, page |-> Capped(page)])
Counts(u, t) == LinkLive /\ Begin(u, [at |-> "search", target |-> t, page |-> [offset |-> 0, limit |-> 1]])

(* links.for of a row: first the field it points with.                     *)
Item(u, r) == LinkLive /\ Begin(u, [at |-> "field", row |-> r])

(* Mutant: an actor who sees nothing is let through to the search.         *)
NeverEmpty(visible) == FALSE

(* Empty ids mean "no filter" to the store.                                *)
SeesNothing(visible) == visible = {}

(* The registry finds the cube among the enabled ones, and the verdict on  *)
(* the whole list comes first.                                             *)
Verdict(u) ==
  /\ call[u].at = "search"
  /\ IF ~on["from"] THEN Answer(u, {}, 0, None, None)
     ELSE IF SeesNothing(Readable(u)) THEN Answer(u, {}, 0, None, {})
     ELSE Goes(u, [at |-> "found", target |-> call[u].target, page |-> call[u].page, visible |-> Readable(u)])

(* Mutant: the page is what the cube found.                                *)
AllFound(rows, visible) == rows

(* A row outside what the actor may see is dropped.                        *)
Kept(rows, visible) == rows \cap visible

(* Mutant: the rows are written to the audit before they are dropped.      *)
AuditFound(found, kept) == found

AuditedRows(found, kept) == kept

(* The cube is asked for the page; the count is published only if the cube *)
(* counted nothing that was dropped.                                       *)
Found(u) ==
  /\ call[u].at = "found"
  /\ LET c == call[u]
         found == Search(c.target, c.page, c.visible)
         kept == Kept(found.rows, c.visible)
     IN Answer(u, kept, IF kept = found.rows THEN found.total ELSE c.page.offset + Cardinality(kept),
               None, AuditedRows(found.rows, kept))

(* A field of a row is told to whoever may read the row.                   *)
ReadAllowed(u, r) == r \in Readable(u)

MayReadField(u) ==
  /\ call[u].at = "field"
  /\ IF on["from"] /\ ReadAllowed(u, call[u].row) THEN Goes(u, [call[u] EXCEPT !.at = "value"])
     ELSE Answer(u, {}, 0, None, None)

(* The value, and with it the summary of what it names, which is public.   *)
ReadField(u) ==
  /\ call[u].at = "value"
  /\ Answer(u, {}, 0, IF on["to"] THEN value[call[u].row] ELSE None, None)

Finish(u) == call[u].at = "done" /\ Goes(u, Idle)

(* What else happens while calls are open.  A deletion is final.           *)
Changed ==
  /\ changes < MaxChanges /\ changes' = changes + 1 /\ UNCHANGED <<admins, kind, call>>
  /\ quiet' = [u \in Users |-> quiet[u] /\ call[u].at = "idle"]
  /\ could' = [u \in Users |-> could[u] \cup IF Open(u) THEN CouldNow(u)' ELSE {}]

Switch(c) == on' = [on EXCEPT ![c] = ~@] /\ UNCHANGED <<value, may>> /\ Changed
Share(u, r) ==
  /\ may' = [may EXCEPT ![u] = IF r \in @ THEN @ \ {r} ELSE @ \cup {r}]
  /\ UNCHANGED <<on, value>> /\ Changed
Relink(r, t) == value[r] \notin {None, t} /\ value' = [value EXCEPT ![r] = t] /\ UNCHANGED <<on, may>> /\ Changed

Next ==
  \/ \E u \in Users : Verdict(u) \/ Found(u) \/ MayReadField(u) \/ ReadField(u) \/ Finish(u)
  \/ \E u \in Users, t \in Targets : Counts(u, t) \/ \E p \in Pages : Group(u, t, p)
  \/ \E u \in Users, r \in Rows : Item(u, r) \/ Share(u, r)
  \/ \E c \in {"from", "to"} : Switch(c)
  \/ \E r \in Rows, t \in Targets \cup {None} : Relink(r, t)

Spec == Init /\ [][Next]_vars

----------------------------------------------------------------------------
Answered(u) == call[u].at = "done"
IsList(u) == call[u].asked.at \in {"search", "found"}

(* The variables stay in their types.                                      *)
TypeOK ==
  /\ may \in [Users -> SUBSET Rows] /\ changes \in 0 .. MaxChanges
  /\ \A u \in Users : call[u].at \in {"idle", "search", "found", "field", "value", "done"}
  /\ \A u \in Users : Answered(u) => call[u].rows \subseteq Rows /\ call[u].total >= Cardinality(call[u].rows)

(* Whatever a related page shows, a row, what a row points at, or a count, *)
(* is of rows the caller could read at some time during the call; a count  *)
(* only if the cube filters by the ids it is given (registry-runtime.ts:   *)
(* 24-40, relational-enforcement.ts:55-98).                                *)
AnswersWereReadable ==
  \A u \in Users : Answered(u) =>
    LET c == call[u]
    IN /\ c.rows \subseteq could[u]
       /\ kind # "ignores" => c.total <= Cardinality(could[u])
       /\ c.parent # None => c.asked.row \in could[u]

(* The audit of a list says which rows the caller was shown: all of them   *)
(* and no other (relational-enforcement.ts:78).                            *)
AuditIsTheAnswer ==
  \A u \in Users : Answered(u) /\ call[u].audit # None => call[u].audit = call[u].rows

(* A call during which nothing changed shows exactly the asked page of the *)
(* rows the caller may read, and their number, when the cube filters by    *)
(* the ids (relational-enforcement.ts:69-80).                              *)
QuietAnswerIsExact ==
  \A u \in Users : Answered(u) /\ quiet[u] /\ IsList(u) /\ kind # "ignores" =>
    LET list == PointingAt(call[u].asked.target, Readable(u))
    IN call[u].rows = PageOf(list, call[u].asked.page) /\ call[u].total = Cardinality(list)
=============================================================================
