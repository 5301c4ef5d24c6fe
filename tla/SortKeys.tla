------------------------------ MODULE SortKeys ------------------------------
(***************************************************************************)
(* The order of a list (core/src/kernel/sort-key.ts): the store keeps, in  *)
(* every row, keys derived from its sortable fields by the release that    *)
(* wrote it, and a page is ordered by those keys.  A process brings the    *)
(* keys of a table up to its own release before its first call there, in   *)
(* chunks that commit one by one, beside processes of another release.     *)
(*                                                                         *)
(*   rekey:   SELECT a chunk -> UPDATE the stale ones whose body stands    *)
(*   update:  SELECT row     -> UPDATE the whole row with its keys         *)
(*   batch:   raw statement  -> rekey of the rows it names -> COMMIT       *)
(*   page:    COUNT          -> SELECT ... ORDER BY key, id                *)
(*                                                                         *)
(* One table, one sortable field `rank`; `rest` is the rest of a body.  An *)
(* UPDATE is one step with its COMMIT, for nothing but its row's lock is   *)
(* between them.                                                           *)
(***************************************************************************)
EXTENDS Integers, Sequences, FiniteSets, SequencesExt

CONSTANTS
  Ids,          \* the ids of rows: numbers, in their order
  Procs,        \* the server processes over the database; one that
                \* restarts is another, since its first call scans anew
  Old,          \* those that run the older release
  Calls,        \* writing requests: each is made once
  Ranks,        \* the values of `rank`
  Rests,        \* the values of `rest`
  NoVal,        \* no value: a body without `rank`
  None,         \* no row; a page size nobody asked for
  Chunk,        \* REKEY_CHUNK
  MaxLimit,     \* MAX_LIMIT
  DefaultLimit, \* DEFAULT_LIMIT
  Asks          \* what readers ask for: records of size, by, ids, descending

VARIABLES
  table,    \* the committed rows
  scan,     \* each process's rekey of the table
  writes,   \* what each call does
  list,     \* a reader who goes through a list page by page
  behind    \* history: the rows another hand wrote after a process's scan had passed them

sortVars == <<table, scan, writes, list, behind>>

-----------------------------------------------------------------------------

(* The SORT_KEY_VERSION a process runs.                                    *)
Releases == {1, 2}
Release(p) == IF p \in Old THEN 1 ELSE 2

(* What sortKey made of a value in one release and makes in the other: a   *)
(* new release may well fold values into another order.                    *)
SortKey(v, x) == IF v = 1 THEN x ELSE 100 - x

NoKeys == [v |-> 0, k |-> 0]

Body == [rank : Ranks \cup {NoVal}, rest : Rests]

(* What a table keeps of a row.                                            *)
Row == [body : Body, keys : [v : {0} \cup Releases, k : Int]]

(* What an update or a raw statement sets: one field.                      *)
Patch == [field : {"rank"}, value : Ranks \cup {NoVal}] \cup [field : {"rest"}, value : Rests]
Patched(body, patch) == [body EXCEPT ![patch.field] = patch.value]

(* sortKeysFor: nothing when the body carries none of the fields.          *)
KeysFor(v, body) == IF body.rank = NoVal THEN NoKeys ELSE [v |-> v, k |-> SortKey(v, body.rank)]

(* withSortKeys: every write of the store computes them from scratch.      *)
Keyed(v, body) == [body |-> body, keys |-> KeysFor(v, body)]

Present == {r \in Ids : table[r] # None}

-----------------------------------------------------------------------------
(* Who is behind.  A write of row r by release v leaves behind every       *)
(* process that has passed r and would have keyed it otherwise.  A raw     *)
(* statement that names no row leaves behind who has passed r if it        *)
(* changes the rank, and who is about to write r's key if it does not.     *)

BehindWrite(r, v) ==
  [p \in Procs |->
     IF Release(p) = v THEN behind[p] \ {r}
     ELSE IF r \in scan[p].passed THEN behind[p] \cup {r} ELSE behind[p]]

BehindRaw(r, changed) ==
  [p \in Procs |->
     IF r \in (IF changed THEN scan[p].passed ELSE {s.row : s \in scan[p].stale})
     THEN behind[p] \cup {r} ELSE behind[p]]

-----------------------------------------------------------------------------

NoScan == [stage |-> "walking", after |-> 0, stale |-> {}, last |-> FALSE, passed |-> {}]
NoWrite == [stage |-> "idle", proc |-> None, row |-> None, body |-> None, named |-> FALSE]

Ready(p) == scan[p].stage = "done"

(* A batch that has written keeps the row's lock until it commits.         *)
Locked(r) == \E c \in Calls : writes[c].stage = "batched" /\ writes[c].row = r

(* A walk through the list that meets a write is no longer quiet.          *)
Finished == [stage |-> "over"]
Reading == list.stage \notin {"idle", "over"}
Touched == IF list.stage = "read" THEN Finished ELSE IF Reading THEN [list EXCEPT !.quiet = FALSE] ELSE list

(* rekey, the SELECT: the next chunk by id, of the rows that carry the     *)
(* field or keys, and what of it is stale.                                 *)
ReadChunk(p) ==
  LET found == {r \in Present : r > scan[p].after /\ (table[r].body.rank # NoVal \/ table[r].keys # NoKeys)}
      got == {r \in found : Cardinality({q \in found : q < r}) < Chunk}
      fresh == {r \in got : table[r].keys = KeysFor(Release(p), table[r].body)}
      last == Cardinality(got) < Chunk
      end == IF got = {} THEN scan[p].after ELSE CHOOSE r \in got : \A q \in got : q <= r
  IN /\ scan[p].stage = "walking"
     /\ scan' = [scan EXCEPT ![p] =
          [stage |-> IF got # fresh THEN "writing" ELSE IF last THEN "done" ELSE "walking",
           after |-> end,
           stale |-> {[row |-> r, body |-> table[r].body] : r \in got \ fresh},
           last |-> last,
           passed |-> IF last THEN Ids ELSE {r \in Ids : r <= end}]]
     /\ UNCHANGED <<table, writes, list, behind>>

(* Mutant: the UPDATE matches the id alone.                                *)
MatchedById(p) == {s \in scan[p].stale : TRUE}

(* rekey, the UPDATE: a row changed since the SELECT no longer has the     *)
(* hash of the body that was keyed.                                        *)
Matched(p) == {s \in scan[p].stale : table[s.row].body = s.body}

WriteStale(p) ==
  LET hit == {s.row : s \in Matched(p)}
      keyed == [r \in hit |-> KeysFor(Release(p), (CHOOSE s \in scan[p].stale : s.row = r).body)]
  IN /\ scan[p].stage = "writing"
     /\ \A s \in scan[p].stale : ~ Locked(s.row)
     /\ table' = [r \in Ids |-> IF r \in hit THEN [table[r] EXCEPT !.keys = keyed[r]] ELSE table[r]]
     /\ behind' = [q \in Procs |->
          IF Release(q) = Release(p) THEN behind[q] \ hit ELSE behind[q] \cup (hit \cap scan[q].passed)]
     /\ scan' = [scan EXCEPT ![p].stage = IF scan[p].last THEN "done" ELSE "walking", ![p].stale = {}]
     /\ list' = IF hit = {} THEN list ELSE Touched
     /\ UNCHANGED writes

-----------------------------------------------------------------------------
(* Requests that write.  A process's first call on a table waits for the   *)
(* rekey of it.                                                            *)

Over(c) == [writes EXCEPT ![c] = [NoWrite EXCEPT !.stage = "over"]]

Put(r, v, row) ==
  /\ table' = [table EXCEPT ![r] = row]
  /\ behind' = BehindWrite(r, v)
  /\ list' = Touched
  /\ UNCHANGED scan

Insert(c, p, r, body) ==
  /\ writes[c].stage = "idle" /\ Ready(p)
  /\ table[r] = None
  /\ writes' = Over(c)
  /\ Put(r, Release(p), Keyed(Release(p), body))

(* update: the SELECT, and the body that the patch makes of it.            *)
Lookup(c, p, r, patch) ==
  /\ writes[c].stage = "idle" /\ Ready(p)
  /\ table[r] # None
  /\ writes' = [writes EXCEPT ![c] =
       [stage |-> "read", proc |-> p, row |-> r, body |-> Patched(table[r].body, patch), named |-> TRUE]]
  /\ UNCHANGED <<table, scan, list, behind>>

(* update: the UPDATE, of the whole body.                                  *)
Write(c) ==
  LET w == writes[c]
  IN /\ w.stage = "read" /\ ~ Locked(w.row)
     /\ writes' = Over(c)
     /\ Put(w.row, Release(w.proc), Keyed(Release(w.proc), w.body))

(* batch: a raw statement patches the row as it is now; it may or may not  *)
(* name the row to be keyed again.                                         *)
Statement(c, p, r, patch, named) ==
  /\ writes[c].stage = "idle" /\ Ready(p)
  /\ table[r] # None /\ ~ Locked(r)
  /\ writes' = [writes EXCEPT ![c] =
       [stage |-> "batched", proc |-> p, row |-> r, body |-> Patched(table[r].body, patch), named |-> named]]
  /\ UNCHANGED <<table, scan, list, behind>>

(* Mutant: the batch keys nothing again.                                   *)
RekeyNothing(w) == [table[w.row] EXCEPT !.body = w.body]

(* rekeyTargets: the rows the statements name, and no others.              *)
Rekeyed(w) ==
  IF w.named THEN Keyed(Release(w.proc), w.body) ELSE [table[w.row] EXCEPT !.body = w.body]

(* batch: the rekey of the named rows, in the same transaction.            *)
CommitBatch(c) ==
  LET w == writes[c]
  IN /\ w.stage = "batched"
     /\ table' = [table EXCEPT ![w.row] = Rekeyed(w)]
     /\ behind' = IF w.named THEN BehindWrite(w.row, Release(w.proc))
                  ELSE BehindRaw(w.row, w.body.rank # table[w.row].body.rank)
     /\ writes' = Over(c)
     /\ list' = Touched
     /\ UNCHANGED scan

(* A transaction that fails leaves nothing.                                *)
Abort(c) ==
  /\ writes[c].stage \in {"read", "batched"}
  /\ writes' = Over(c)
  /\ UNCHANGED <<table, scan, list, behind>>

-----------------------------------------------------------------------------
(* A reader goes through a list, by page numbers or by offsets, with the   *)
(* page size it likes; or asks for a batch of ids.                         *)

Least(m, n) == IF m <= n THEN m ELSE n
Most(m, n) == IF m >= n THEN m ELSE n

(* listPageRequest: a batch of ids is as long as it is, unless a size was  *)
(* asked.                                                                  *)
SizeAsked(ask) ==
  IF ask.size # None THEN ask.size
  ELSE IF ask.ids # {} THEN Least(MaxLimit, Cardinality(ask.ids)) ELSE DefaultLimit

(* pageRequest: every size is brought between 1 and MAX_LIMIT.             *)
Limit(ask) == Least(MaxLimit, Most(1, SizeAsked(ask)))

(* Mutant: the offset of a page follows from the size that was asked.      *)
OffsetOfAsked(ask, n, shown) ==
  IF ask.by = "page" THEN (n - 1) * (IF ask.size = None THEN Limit(ask) ELSE Most(1, ask.size)) ELSE Len(shown)

(* The offset of page n follows from the capped size.                      *)
Offset(ask, n, shown) == IF ask.by = "page" THEN (n - 1) * Limit(ask) ELSE Len(shown)

(* An empty `ids` is no filter.                                            *)
Matching(ask) == IF ask.ids = {} THEN Present ELSE ask.ids \cap Present

(* Mutant: rows without the field come last in both directions.            *)
NullsLast(a, b, descending) ==
  LET low == IF descending THEN b ELSE a
      high == IF descending THEN a ELSE b
      ka == table[a].keys  kb == table[b].keys
  IN \/ ka # NoKeys /\ kb = NoKeys
     \/ /\ (ka = NoKeys) = (kb = NoKeys)
        /\ (table[low].keys.k < table[high].keys.k \/ (ka.k = kb.k /\ low < high))

(* ORDER BY the stored key, whatever release made it, then by id; a row    *)
(* without a key sits below every key.                                     *)
Before(a, b, descending) ==
  LET low == IF descending THEN b ELSE a
      high == IF descending THEN a ELSE b
      kl == table[low].keys  kh == table[high].keys
  IN \/ kl = NoKeys /\ kh # NoKeys
     \/ /\ (kl = NoKeys) = (kh = NoKeys)
        /\ (kl.k < kh.k \/ (kl.k = kh.k /\ low < high))

Place(r, S, descending) == Cardinality({q \in S : q = r \/ Before(q, r, descending)})
Sorted(S, descending) == [i \in 1..Cardinality(S) |-> CHOOSE r \in S : Place(r, S, descending) = i]

Ask(p, ask) ==
  /\ list.stage = "idle" /\ Ready(p)
  /\ list' = [stage |-> "counting", proc |-> p, ask |-> ask, n |-> 1, total |-> 0,
              shown |-> <<>>, quiet |-> TRUE]
  /\ UNCHANGED <<table, scan, writes, behind>>

(* page: COUNT and SELECT are two statements, and see two states.          *)
Count ==
  /\ list.stage = "counting"
  /\ list' = [list EXCEPT !.stage = "selecting", !.total = Cardinality(Matching(list.ask))]
  /\ UNCHANGED <<table, scan, writes, behind>>

Select ==
  LET ask == list.ask
      from == Offset(ask, list.n, list.shown)
      rows == SubSeq(Sorted(Matching(ask), ask.descending), from + 1,
                     Least(from + Limit(ask), Cardinality(Matching(ask))))
      shown == list.shown \o rows
  IN /\ list.stage = "selecting"
     /\ list' = [list EXCEPT !.shown = shown, !.n = @ + 1,
          !.stage = IF rows = <<>> \/ Len(shown) >= list.total THEN "read" ELSE "counting"]
     /\ UNCHANGED <<table, scan, writes, behind>>

-----------------------------------------------------------------------------

(* The rows there are at first: of a time without keys, or of release 1.   *)
FirstRows ==
  LET bodies == {b \in Body : b.rest = CHOOSE rest \in Rests : TRUE}
  IN [body : bodies, keys : {NoKeys}] \cup {Keyed(1, b) : b \in bodies}

Init ==
  /\ table \in [Ids -> {None} \cup FirstRows]
  /\ scan = [p \in Procs |-> NoScan]
  /\ writes = [c \in Calls |-> NoWrite]
  /\ list = [stage |-> "idle"]
  /\ behind = [p \in Procs |-> {}]

Next ==
  \/ \E p \in Procs : ReadChunk(p) \/ WriteStale(p)
  \/ \E c \in Calls, p \in Procs, r \in Ids :
       \/ \E body \in Body : Insert(c, p, r, body)
       \/ \E patch \in Patch : Lookup(c, p, r, patch) \/ \E named \in BOOLEAN : Statement(c, p, r, patch, named)
  \/ \E c \in Calls : Write(c) \/ CommitBatch(c) \/ Abort(c)
  \/ \E p \in Procs, ask \in Asks : Ask(p, ask)
  \/ Count
  \/ Select

Spec == Init /\ [][Next]_sortVars

-----------------------------------------------------------------------------

(* The state has its type.                                                 *)
TypeOK ==
  /\ \A r \in Present : table[r].body \in Body /\ table[r].keys.v \in {0} \cup Releases
  /\ \A p \in Procs : /\ scan[p].stage \in {"walking", "writing", "done"}
                      /\ {s.row : s \in scan[p].stale} \subseteq scan[p].passed \cap Present
                      /\ behind[p] \subseteq scan[p].passed
  /\ \A c \in Calls : writes[c].stage \in {"idle", "read", "batched", "over"}
  /\ list.stage \in {"idle", "counting", "selecting", "read", "over"}

(* A process whose rekey has passed a row finds its own keys there, except *)
(* where another release wrote the row afterwards, or a raw batch that     *)
(* named nothing changed its rank, or changed the rest of it between the   *)
(* SELECT and the UPDATE of its chunk (batch.ts:54-56, setup.ts:236): no   *)
(* chunk, however old when it is written, puts a key beside a body it was  *)
(* not computed from.                                                      *)
KeysAreCurrent ==
  \A p \in Procs : Ready(p) =>
    \A r \in Present \ behind[p] : table[r].keys = KeysFor(Release(p), table[r].body)

(* Going through a list that nobody writes shows every row that matches    *)
(* once and only once, whatever page size was asked (list.ts:14, rows.ts:  *)
(* 122, pagination.ts:130): ties, rows without the field, keys of two      *)
(* releases and sizes over the cap included.                               *)
WalkIsExact ==
  list.stage = "read" /\ list.quiet =>
    /\ ToSet(list.shown) = Matching(list.ask)
    /\ Len(list.shown) = Cardinality(Matching(list.ask))

(* And where nothing is behind, the rows come in the order this release    *)
(* gives their values, those without one first ascending and last          *)
(* descending (sort-key.ts:1-5).                                           *)
WalkIsInOrder ==
  list.stage = "read" /\ list.quiet /\ behind[list.proc] = {} =>
    \A i, j \in DOMAIN list.shown : i < j =>
      LET a == table[list.shown[IF list.ask.descending THEN j ELSE i]].body.rank
          b == table[list.shown[IF list.ask.descending THEN i ELSE j]].body.rank
      IN a = NoVal \/ (b # NoVal /\ SortKey(Release(list.proc), a) <= SortKey(Release(list.proc), b))
=============================================================================
