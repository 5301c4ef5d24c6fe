---------------------------- MODULE CustomFields ----------------------------
(***************************************************************************)
(* Custom fields: definitions in the customfields cube's table, values in  *)
(* the `custom` object of a target cube's rows (core/src/custom-values.ts, *)
(* custom-fold.ts, pg/rows.ts mergeCustom, pg/custom-rows.ts and the       *)
(* handlers in core/src/cubes/customfields).                               *)
(*                                                                         *)
(* One target cube with one table.  A type of field is the set of values   *)
(* it accepts.  Every call makes several store calls: a write reads the    *)
(* definitions, then inserts, or selects its row and later writes it back  *)
(* whole; the report reads definitions, then rows a page at a time.        *)
(***************************************************************************)
EXTENDS Integers, Sequences, FiniteSets

CONSTANTS
  Callers,   \* requests in flight, over all instances of the API
  Fields,    \* names of custom fields
  Options,   \* the sets of values a definition may accept
  Blank,     \* "", null or absent: no value
  Payloads,  \* undeclared keys of a request: [flat, nested |-> values by name]
  MaxKeys,   \* MAX_CUSTOM_KEYS: keys in one custom object
  PageSize,  \* PAGE: rows of one step of the report
  MaxDefs, MaxRows, MaxAsked  \* bounds: definitions, rows, calls begun

VARIABLES
  defs,   \* [name, accepts, required, live], with history: saw, ever, back
  items,  \* the target rows: [custom, deleted], with history: firm
  serving, \* each caller's call
  served  \* calls begun

vars == <<defs, items, serving, served>>

Empty == [n \in {} |-> Blank]
NoPut == [flat |-> Empty, nested |-> Empty]
Idle == [op |-> "none", at |-> "idle", id |-> 0, put |-> NoPut, read |-> {}, own |-> 0,
         saw |-> 0, firm |-> {}, found |-> {}, stood |-> {}, offset |-> 0,
         shrunk |-> FALSE, active |-> {}]

Definition(d) == [name |-> d.name, accepts |-> d.accepts, required |-> d.required]
NamesOf(ds) == {d.name : d \in ds}

(* One object's keys over those of another.                                *)
Over(new, old) ==
  [n \in (DOMAIN new) \cup (DOMAIN old) |-> IF n \in DOMAIN new THEN new[n] ELSE old[n]]

(* definitionsFor: the definitions of the cube that are not deleted.       *)
DefinitionsFor(table) == {Definition(table[i]) : i \in {j \in DOMAIN table : table[j].live}}

(* orphanValues: the values no active definition names.                    *)
OrphanValues(ds, rows) ==
  {o \in (DOMAIN rows) \X Fields : o[2] \in DOMAIN rows[o[1]].custom /\ o[2] \notin NamesOf(ds)}

-----------------------------------------------------------------------------
(* The fold.                                                               *)

(* checkCustomValue.                                                       *)
CheckCustomValue(d, v) == IF v = Blank THEN ~d.required ELSE v \in d.accepts

(* checkCustomObject; the cap in bytes goes the same way.                  *)
CheckCustomObject(custom) == Cardinality(DOMAIN custom) <= MaxKeys

(* byName: when two active definitions share a name the later in the list  *)
(* decides, and which that is depends on positions an update may change.   *)
ByName(ds) == {one \in SUBSET ds : /\ NamesOf(one) = NamesOf(ds)
                                   /\ Cardinality(one) = Cardinality(NamesOf(ds))}

Accept(one, values) ==
  \A n \in DOMAIN values : \E d \in one : d.name = n /\ CheckCustomValue(d, values[n])

(* Keys beside the declared ones win over those of an explicit `custom`.   *)
Custom(put) == Over(put.flat, put.nested)

(* Mutant: an explicit `custom` object is taken as it is.                  *)
FoldsFlatOnly(ds, one, put, create) ==
  /\ Accept(one, put.flat)
  /\ create => \A d \in ds : d.required
       => d.name \in DOMAIN Custom(put) /\ Custom(put)[d.name] # Blank
  /\ CheckCustomObject(Custom(put))

(* foldCustom, when the cube has definitions.                              *)
FoldCustom(ds, one, put, create) ==
  /\ Accept(one, put.nested)
  /\ Accept(one, put.flat)
  /\ create => \A d \in ds : d.required
       => d.name \in DOMAIN Custom(put) /\ Custom(put)[d.name] # Blank
  /\ CheckCustomObject(Custom(put))

(* With no definitions undeclared keys are stripped.                       *)
Folded(ds, put) == IF ds = {} THEN Empty ELSE Custom(put)

-----------------------------------------------------------------------------
(* History.                                                                *)

(* The names with one active definition, which requires a value.           *)
Firm(table) ==
  {n \in Fields : \E i \in DOMAIN table : /\ table[i].live /\ table[i].required /\ table[i].name = n
                                          /\ \A j \in (DOMAIN table) \ {i} : table[j].live => table[j].name # n}

Shrinks(rows) == \E r \in DOMAIN items : items[r].custom # Empty /\ rows[r].custom = Empty

(* What a call in flight has lived through once the tables are these.      *)
Seen(q, table, rows) ==
  IF q.at \in {"idle", "done"} THEN q
  ELSE [q EXCEPT !.firm = @ \cap Firm(table),
                 !.stood = @ \cap OrphanValues(DefinitionsFor(table), rows),
                 !.active = @ \cup NamesOf(DefinitionsFor(table)),
                 !.shrunk = @ \/ Shrinks(rows)]

Witness(c, table, rows) == [b \in Callers |-> IF b = c THEN Idle ELSE Seen(serving[b], table, rows)]

StoreDefs(c, table) ==
  /\ defs' = table
  /\ items' = [r \in DOMAIN items |-> [items[r] EXCEPT !.firm = @ \cap Firm(table)]]
  /\ serving' = Witness(c, table, items)
  /\ UNCHANGED served

StoreItems(c, rows) ==
  /\ items' = rows
  /\ serving' = Witness(c, defs, rows)
  /\ UNCHANGED <<defs, served>>

-----------------------------------------------------------------------------

(* Nothing yet, or one definition and as many rows as there may be, each   *)
(* with a value of it.                                                     *)
InitFields ==
  /\ \/ defs = <<>> /\ items = <<>> /\ served = 0
     \/ \E n \in Fields, accepts \in Options : \E v \in accepts :
          /\ defs = <<[name |-> n, accepts |-> accepts, required |-> FALSE, live |-> TRUE,
                      saw |-> 0, back |-> FALSE, ever |-> accepts \cup {Blank}]>>
          /\ items = [r \in 1..MaxRows |-> [custom |-> [m \in {n} |-> v], deleted |-> FALSE, firm |-> {}]]
          /\ served = 1
  /\ serving = [c \in Callers |-> Idle]

Ask(c, call) ==
  /\ serving[c].at = "idle"
  /\ served < MaxAsked
  /\ served' = served + 1
  /\ serving' = [serving EXCEPT ![c] = call]
  /\ UNCHANGED <<defs, items>>

Step(c, at, call) ==
  /\ serving[c].at = at
  /\ serving' = [serving EXCEPT ![c] = call]
  /\ UNCHANGED <<defs, items, served>>

(* A request that is refused, whose store call fails, or whose process     *)
(* dies leaves nothing behind; an answered one makes room for another.     *)
End(c) ==
  /\ serving[c].at # "idle"
  /\ serving' = [serving EXCEPT ![c] = Idle]
  /\ UNCHANGED <<defs, items, served>>

(* Mutant: define does not look whether the name is taken.                 *)
DefineUnchecked(c) ==
  \E n \in Fields, accepts \in Options, required \in BOOLEAN :
    Ask(c, [Idle EXCEPT !.op = "define", !.at = "insert", !.saw = Len(defs),
            !.put = [name |-> n, accepts |-> accepts, required |-> required]])

(* define: the name is free among the definitions it reads ...             *)
Define(c) ==
  \E n \in Fields, accepts \in Options, required \in BOOLEAN :
    /\ n \notin NamesOf(DefinitionsFor(defs))
    /\ Ask(c, [Idle EXCEPT !.op = "define", !.at = "insert", !.saw = Len(defs),
               !.put = [name |-> n, accepts |-> accepts, required |-> required]])

(* ... and is inserted by another store call.                              *)
InsertDefinition(c) ==
  LET d == serving[c].put IN
  /\ serving[c].at = "insert"
  /\ Len(defs) < MaxDefs
  /\ StoreDefs(c, Append(defs, [name |-> d.name, accepts |-> d.accepts, required |-> d.required,
                                live |-> TRUE, saw |-> serving[c].saw, back |-> FALSE,
                                ever |-> d.accepts \cup (IF d.required THEN {} ELSE {Blank})]))

(* update and remove find the definition by id ...                         *)
Edit(c) ==
  \E i \in DOMAIN defs :
    /\ defs[i].live
    /\ \/ Ask(c, [Idle EXCEPT !.op = "remove", !.at = "select", !.id = i])
       \/ \E accepts \in Options, required \in BOOLEAN :
            Ask(c, [Idle EXCEPT !.op = "update", !.at = "select", !.id = i,
                    !.put = [accepts |-> accepts, required |-> required]])

(* ... store.update selects its row ...                                    *)
SelectDefinition(c) ==
  Step(c, "select", [serving[c] EXCEPT !.at = "edit", !.own = defs[serving[c].id]])

(* ... and writes back what it selected, merged with the patch: a removal  *)
(* or another update in between is undone.                                 *)
EditDefinition(c) ==
  LET q == serving[c]
      after == IF q.op = "remove" THEN [q.own EXCEPT !.live = FALSE]
               ELSE [q.own EXCEPT !.accepts = q.put.accepts, !.required = q.put.required] IN
  /\ q.at = "edit"
  /\ StoreDefs(c, [defs EXCEPT ![q.id] =
       [after EXCEPT !.back = defs[q.id].back \/ (after.live /\ ~defs[q.id].live),
                     !.ever = defs[q.id].ever \cup after.accepts
                              \cup (IF after.required THEN {} ELSE {Blank})]])

-----------------------------------------------------------------------------
(* Writes of the target cube's own API.                                    *)

(* POST, PATCH or PUT, and DELETE, which carries no payload.               *)
Write(c) ==
  \/ \E put \in Payloads : Ask(c, [Idle EXCEPT !.op = "create", !.at = "defs", !.put = put])
  \/ \E r \in DOMAIN items :
       /\ ~items[r].deleted
       /\ \/ \E put \in Payloads : Ask(c, [Idle EXCEPT !.op = "patch", !.at = "defs", !.id = r, !.put = put])
          \/ Ask(c, [Idle EXCEPT !.op = "delete", !.at = "row", !.id = r])

(* Mutant: a read of the definitions that fails counts as none.            *)
ReadDefsOrNone(c) ==
  /\ serving[c].at = "defs"
  /\ \E ds \in {DefinitionsFor(defs), {}} :
       Step(c, "defs", [serving[c] EXCEPT !.at = "read", !.read = ds, !.firm = Firm(defs)])

(* The request's own read of the definitions.                              *)
ReadDefs(c) ==
  Step(c, "defs", [serving[c] EXCEPT !.at = "read", !.read = DefinitionsFor(defs), !.firm = Firm(defs)])

(* The fold lets a POST pass, and the handler inserts the row.             *)
Create(c) ==
  LET q == serving[c] IN
  /\ q.at = "read" /\ q.op = "create"
  /\ Len(items) < MaxRows
  /\ \E one \in ByName(q.read) : q.read # {} => FoldCustom(q.read, one, q.put, TRUE)
  /\ StoreItems(c, Append(items, [custom |-> Folded(q.read, q.put), deleted |-> FALSE, firm |-> q.firm]))

(* The fold lets a PATCH pass.                                             *)
Pass(c) ==
  LET q == serving[c] IN
  /\ q.op = "patch"
  /\ \E one \in ByName(q.read) : q.read # {} => FoldCustom(q.read, one, q.put, FALSE)
  /\ Step(c, "read", [q EXCEPT !.at = "row"])

(* store.update selects the row, by then perhaps deleted.                  *)
SelectRow(c) == Step(c, "row", [serving[c] EXCEPT !.at = "merge", !.own = items[serving[c].id]])

(* Mutant: only what the request carries is held to the caps.              *)
MergeUncapped(old, new) == {IF new = Empty THEN old ELSE Over(new, old)}

(* mergeCustom: the keys of the patch over those of the row, unless that   *)
(* is over the caps.                                                       *)
MergeCustom(old, new) ==
  {m \in {IF new = Empty THEN old ELSE Over(new, old)} :
     old # Empty /\ new # Empty => CheckCustomObject(m)}

(* store.update writes the row back.                                       *)
Update(c) ==
  LET q == serving[c]
      new == IF q.op = "patch" THEN Folded(q.read, q.put) ELSE Empty IN
  /\ q.at = "merge"
  /\ \E custom \in MergeCustom(q.own.custom, new) :
       StoreItems(c, [items EXCEPT ![q.id].custom = custom,
                                   ![q.id].deleted = q.own.deleted \/ q.op = "delete"])

-----------------------------------------------------------------------------
(* Reading.                                                                *)

(* valuesFor and setValues, which may also refuse the values it is given   *)
(* and stores nothing either way; orphans.                                 *)
Look(c) ==
  \/ \E r \in DOMAIN items :
       Ask(c, [Idle EXCEPT !.op = "form", !.at = "defs", !.id = r, !.active = NamesOf(DefinitionsFor(defs))])
  \/ Ask(c, [Idle EXCEPT !.op = "report", !.at = "defs", !.stood = OrphanValues(DefinitionsFor(defs), items)])

(* customRowById: the one row's custom object, deleted or not.             *)
CustomRowById(r) == items[r].custom

(* Mutant: the form shows every key of the row.                            *)
RowFieldsByKey(c) ==
  LET custom == CustomRowById(serving[c].id) IN
  /\ serving[c].op = "form"
  /\ Step(c, "read", [serving[c] EXCEPT !.at = "done", !.found = {<<n, custom[n]>> : n \in DOMAIN custom}])

(* rowFields: the definitions read before, each with the row's value.      *)
RowFields(c) ==
  LET custom == CustomRowById(serving[c].id) IN
  /\ serving[c].op = "form"
  /\ Step(c, "read", [serving[c] EXCEPT !.at = "done",
       !.found = {<<n, IF n \in DOMAIN custom THEN custom[n] ELSE Blank>> : n \in NamesOf(serving[c].read)}])

(* body ? 'custom', deleted rows too; oldest first.                        *)
WithCustom(rows) == {r \in DOMAIN rows : rows[r].custom # Empty}
Place(r, rows) == Cardinality({q \in WithCustom(rows) : q <= r})

(* Mutant: a page that is just full is taken for the last.                 *)
FullPageEnds(n) == n <= PageSize

(* rows.length < PAGE.                                                     *)
LastPage(n) == n < PageSize

(* customRows: one page of the walk, by OFFSET over the rows as they are.  *)
PageFrom(offset, rows) ==
  {r \in WithCustom(rows) : Place(r, rows) > offset /\ Place(r, rows) <= offset + PageSize}

CustomRows(c) ==
  LET q == serving[c]
      page == PageFrom(q.offset, items) IN
  /\ q.op = "report"
  /\ Step(c, "read",
       [q EXCEPT !.found = @ \cup {o \in OrphanValues(q.read, items) : o[1] \in page},
                 !.offset = @ + PageSize,
                 !.at = IF LastPage(Cardinality(page)) THEN "done" ELSE "read"])

NextFields ==
  \E c \in Callers :
    \/ Define(c) \/ InsertDefinition(c) \/ Edit(c) \/ SelectDefinition(c) \/ EditDefinition(c)
    \/ Write(c) \/ ReadDefs(c) \/ Create(c) \/ Pass(c) \/ SelectRow(c) \/ Update(c)
    \/ Look(c) \/ RowFields(c) \/ CustomRows(c) \/ End(c)

SpecFields == InitFields /\ [][NextFields]_vars

-----------------------------------------------------------------------------

(* custom-values.ts:35-40, rows.ts:230-233: no sequence of patches, however *)
(* they interleave, walks a row past the caps.                             *)
CapsHold == \A r \in DOMAIN items : CheckCustomObject(items[r].custom)

(* schema.ts:173-179: every value in a row was accepted by a definition of *)
(* its name as that definition once stood, whatever became of it since.    *)
ValuesWereAccepted ==
  \A r \in DOMAIN items : \A n \in DOMAIN items[r].custom :
    \E i \in DOMAIN defs : defs[i].name = n /\ items[r].custom[n] \in defs[i].ever

(* custom-values.ts:169-181: a field required by its one definition from   *)
(* the read of the POST that made the row until now has a value in it.     *)
RequiredStay ==
  \A r \in DOMAIN items : \A n \in items[r].firm :
    n \in DOMAIN items[r].custom /\ items[r].custom[n] # Blank

(* handlers.ts:76-79: two active definitions share a name only if one was  *)
(* inserted while the call of the other was past its check, or if an       *)
(* update that overlapped a removal brought one back.                      *)
TwinsHaveACause ==
  \A j \in DOMAIN defs : \A i \in 1..(j - 1) :
    defs[i].live /\ defs[j].live /\ defs[i].name = defs[j].name
      => defs[j].saw < i \/ defs[i].back \/ defs[j].back

(* values.ts:95-106, custom-rows.ts:7-9: a value without a definition all  *)
(* through the report is in it, on live and deleted rows, whatever other   *)
(* rows are written between its pages; unless meanwhile a lost update took *)
(* a row's whole custom object away, which shifts the pages.               *)
ReportIsComplete ==
  \A c \in Callers : LET q == serving[c] IN
    q.op = "report" /\ q.at = "done" /\ ~q.shrunk => q.stood \subseteq q.found

(* values.ts:29-39: a form never shows a value left in its row by a        *)
(* removed field: each field in it was active at some time of the call.    *)
FormsHideOrphans ==
  \A c \in Callers : LET q == serving[c] IN
    q.op = "form" /\ q.at = "done" => {shown[1] : shown \in q.found} \subseteq q.active
=============================================================================
