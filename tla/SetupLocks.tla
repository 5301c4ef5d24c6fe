----------------------------- MODULE SetupLocks -----------------------------
(***************************************************************************)
(* What the processes of one installation do before a cube's first row:    *)
(* the kernel's migrations at boot (core/src/pg/db.ts), then, on the first *)
(* touch of a cube, its schema and role, its table and, for the one cube   *)
(* that reads the activity log, two more grants                            *)
(* (core/src/pg/setup.ts).                                                 *)
(*                                                                         *)
(* Every process keeps a memo of what it set up; a memo entry holds the    *)
(* lookup in flight, which all callers of that moment share.  Lookups run  *)
(* on pooled connections and take advisory locks.  Of two transactions     *)
(* that write one catalog row the second waits for the first, and fails    *)
(* when that commits ("duplicate key", "tuple concurrently updated").  The *)
(* rows of one transaction are written at one point of it.                 *)
(*                                                                         *)
(* Bounds: one table without lookup indexes for each schema, every caller  *)
(* calls once, MaxFaults crashes and lost connections.                     *)
(***************************************************************************)
EXTENDS Integers, FiniteSets, Sequences

CONSTANTS
  Procs, Schemas,
  Reader,             \* the schema whose cube declares readsActivity
  Bursts,             \* sets of calls, records [proc, schema, kind]; kind is "row"
                      \* or "feed"; a behaviour is of one of them
  Pool,               \* connections of a process (10 in the code)
  Files,              \* number of kernel migration files
  MaxFaults

VARIABLES
  boot,               \* per process: [at, file, lock], where runMigrations stands
  memo,               \* per process and key: "none", "flight" or "done"
  look,               \* per process and key: [at, locks], the lookup in flight
  made,               \* what is committed: keys and migration files
  runs,               \* per file: how often its text was committed
  calls,              \* per caller: [at, passed, waits], passed = keys it was given
  clashes,            \* kinds of {the transaction that failed, the one it lost to}
  faults

vars == <<boot, memo, look, made, runs, calls, clashes, faults>>

Keys == {<<o, s>> : o \in {"schema", "table"}, s \in Schemas} \cup {<<"reader", Reader>>}
File(i) == <<"file", i>>
Callers == DOMAIN calls
role == <<"role">>

(* The transactions that write catalog rows.                               *)
Works == Procs \X (Keys \cup {File(i) : i \in 1..Files})

Stage(w) == IF w[2][1] # "file" THEN look[w[1]][w[2]].at
            ELSE IF boot[w[1]].file = w[2][2] THEN boot[w[1]].at ELSE "idle"

(* IF NOT EXISTS writes nothing for an object that is there; a GRANT on    *)
(* qwbe.activity rewrites that table's catalog row every time.             *)
Writes(w) == ({w[2]} \ made) \cup (IF w[2][1] \in {"schema", "reader"} THEN {<<"acl">>} ELSE {})

Rivals(w, stage) == {v \in Works \ {w} : Stage(v) = stage /\ Writes(v) \cap Writes(w) # {}}

(* The advisory locks of a lookup, in the order it takes them.             *)
SchemaLockOnly(k) ==                       (* Mutant: no lock for all role DDL. *)
  CASE k[1] = "schema" -> <<k>>
    [] k[1] = "reader" -> <<>>
    [] OTHER           -> <<<<"table", k[2]>>>>
OtherOrder(k) ==                           (* Mutant: a table takes both, reversed. *)
  CASE k[1] = "schema" -> <<k, role>>
    [] k[1] = "reader" -> <<>>
    [] OTHER           -> <<role, <<"schema", k[2]>>>>
LocksOf(k) ==
  CASE k[1] = "schema" -> <<k, role>>
    [] k[1] = "reader" -> <<>>
    [] OTHER           -> <<<<"table", k[2]>>>>

Holds(p, k, l) == \E i \in 1..look[p][k].locks : LocksOf(k)[i] = l

(* Connections a process has out: the reserved one of its boot and one for *)
(* each file, lookup and row call in its transaction.                      *)
Held(p) == (IF boot[p].at \in {"locking", "probe", "wrote", "blocked"} THEN 1 ELSE 0)
           + Cardinality({w \in Works : w[1] = p /\ Stage(w) \in {"tx", "wrote", "blocked"}})
           + Cardinality({c \in Callers : c.proc = p /\ calls[c].at = "row"})

idle == [at |-> "idle", locks |-> 0]

Init ==
  /\ boot = [p \in Procs |-> [at |-> "down", file |-> 1, lock |-> FALSE]]
  /\ memo = [p \in Procs |-> [k \in Keys |-> "none"]]
  /\ look = [p \in Procs |-> [k \in Keys |-> idle]]
  /\ made = {} /\ runs = [i \in 1..Files |-> 0]
  /\ \E burst \in Bursts :
       calls = [c \in burst |-> [at |-> "idle", passed |-> 0, waits |-> FALSE]]
  /\ clashes = {} /\ faults = 0

(***************************************************************************)
(* What the end of one transaction does to the others.                     *)
(***************************************************************************)
(* A failed lookup leaves the memo at once and fails all who wait for it,  *)
(* the reader's lookup that asked for its schema among them; a failed file *)
(* ends the boot.                                                          *)
Failing(W) == W \cup {w \in Works : /\ w[2][1] = "reader" /\ Stage(w) = "joined"
                                    /\ <<w[1], <<"schema", Reader>>>> \in W}

Asks(c) == IF c.kind = "row" THEN <<<<"schema", c.schema>>, <<"table", c.schema>>>>
           ELSE <<<<"reader", c.schema>>, <<"schema", c.schema>>>>

Fail(F, boot0, memo0, look0) ==
  /\ boot' = [p \in Procs |-> IF \E i \in 1..Files : <<p, File(i)>> \in F
                              THEN [boot0[p] EXCEPT !.at = "failed", !.lock = FALSE] ELSE boot0[p]]
  /\ memo' = [p \in Procs |-> [k \in Keys |-> IF <<p, k>> \in F THEN "none" ELSE memo0[p][k]]]
  /\ look' = [p \in Procs |-> [k \in Keys |-> IF <<p, k>> \in F THEN idle ELSE look0[p][k]]]
  /\ calls' = [c \in Callers |->
                 IF calls[c].waits /\ <<c.proc, Asks(c)[calls[c].passed + 1]>> \in F
                 THEN [calls[c] EXCEPT !.at = "failed", !.waits = FALSE] ELSE calls[c]]

(* A commit fails every transaction blocked on a row it wrote.             *)
Losers(w) == Failing(Rivals(w, "blocked"))
Clashing(w) == clashes \cup {{w[2][1], v[2][1]} : v \in Rivals(w, "blocked")}

(* A transaction reaches its DDL: it writes, or waits for another's end.   *)
Reached(w) == IF Rivals(w, "wrote") = {} THEN "wrote" ELSE "blocked"

(***************************************************************************)
(* runMigrations: a session lock on a reserved connection, then for each   *)
(* file a probe and one transaction of its text and its record.            *)
(***************************************************************************)
NoLock(p) == TRUE                          (* Mutant: no lock around the loop. *)
LockFree(p) == \A r \in Procs \ {p} : ~boot[r].lock

Migrate(p) ==
  LET b == boot[p]
      w == <<p, File(b.file)>>
      Becomes(x) == boot' = [boot EXCEPT ![p] = x]
  IN /\ \/ b.at = "down" /\ Becomes([b EXCEPT !.at = "locking"])
        \/ b.at = "locking" /\ LockFree(p) /\ Becomes([b EXCEPT !.at = "probe", !.lock = TRUE])
        \/ b.at = "probe" /\ File(b.file) \in made /\ Becomes([b EXCEPT !.file = @ + 1])
        \/ b.at = "probe" /\ b.file > Files /\ Becomes([b EXCEPT !.at = "up", !.lock = FALSE])
        \/ /\ b.at = "probe" /\ b.file <= Files /\ File(b.file) \notin made /\ Held(p) < Pool
           /\ Becomes([b EXCEPT !.at = Reached(w)])
        \/ b.at = "blocked" /\ Rivals(w, "wrote") = {} /\ Becomes([b EXCEPT !.at = "wrote"])
     /\ UNCHANGED <<memo, look, made, runs, calls, clashes, faults>>

RecordAfter(p) ==                          (* Mutant: the record is a statement of its own. *)
  LET w == <<p, File(boot[p].file)>>
  IN /\ UNCHANGED <<clashes, faults, memo, look, calls>>
     /\ \/ /\ boot[p].at = "wrote" /\ runs' = [runs EXCEPT ![boot[p].file] = @ + 1]
           /\ boot' = [boot EXCEPT ![p].at = "record"] /\ UNCHANGED made
        \/ /\ boot[p].at = "record" /\ made' = made \cup {w[2]}
           /\ boot' = [boot EXCEPT ![p].at = "probe"] /\ UNCHANGED runs
CommitFile(p) ==
  LET w == <<p, File(boot[p].file)>>
  IN /\ boot[p].at = "wrote"
     /\ made' = made \cup {w[2]} /\ runs' = [runs EXCEPT ![boot[p].file] = @ + 1]
     /\ Fail(Losers(w), [boot EXCEPT ![p].at = "probe"], memo, look)
     /\ clashes' = Clashing(w) /\ UNCHANGED faults

(***************************************************************************)
(* A call: it asks for its keys in order, each from the memo, and runs its *)
(* own transaction after the last (onTable in store.ts, asReader in        *)
(* activity.ts).                                                           *)
(***************************************************************************)
Call(c) ==
  /\ boot[c.proc].at = "up" /\ calls[c].at = "idle"
  /\ calls' = [calls EXCEPT ![c].at = "asks"]
  /\ UNCHANGED <<boot, memo, look, made, runs, clashes, faults>>

DoneAtStart == "done"                      (* Mutant: the memo does not hold the flight. *)
InFlight == "flight"

Get(c) ==
  LET p == c.proc
      n == calls[c].passed
      k == Asks(c)[n + 1]
  IN /\ calls[c].at = "asks" /\ n < Len(Asks(c))
     /\ \/ /\ memo[p][k] = "none" /\ ~calls[c].waits
           /\ memo' = [memo EXCEPT ![p][k] = InFlight]
           /\ look' = [look EXCEPT ![p][k].at = "asked"]
           /\ calls' = [calls EXCEPT ![c].waits = TRUE]
        \/ /\ memo[p][k] = "flight" /\ ~calls[c].waits
           /\ calls' = [calls EXCEPT ![c].waits = TRUE] /\ UNCHANGED <<memo, look>>
        \/ /\ memo[p][k] = "done"
           /\ calls' = [calls EXCEPT ![c].passed = n + 1, ![c].waits = FALSE] /\ UNCHANGED <<memo, look>>
     /\ UNCHANGED <<boot, made, runs, clashes, faults>>

Row(c) ==
  /\ \/ /\ calls[c].at = "asks" /\ calls[c].passed = Len(Asks(c)) /\ Held(c.proc) < Pool
        /\ calls' = [calls EXCEPT ![c].at = "row"]
     \/ calls[c].at = "row" /\ calls' = [calls EXCEPT ![c].at = "ended"]
  /\ UNCHANGED <<boot, memo, look, made, runs, clashes, faults>>

(* A lookup takes a connection; the reader's first asks for its schema.    *)
Begin(p, k) ==
  LET s == <<"schema", Reader>>
  IN /\ \/ /\ look[p][k].at = "asked" /\ k[1] = "reader" /\ memo[p][s] # "done"
           /\ memo' = [memo EXCEPT ![p][s] = "flight"]
           /\ look' = [look EXCEPT ![p][k].at = "joined",
                                   ![p][s].at = IF memo[p][s] = "none" THEN "asked" ELSE @]
        \/ /\ look[p][k].at \in {"asked", "joined"} /\ (k[1] = "reader" => memo[p][s] = "done")
           /\ Held(p) < Pool
           /\ look' = [look EXCEPT ![p][k].at = "tx"] /\ UNCHANGED memo
     /\ UNCHANGED <<boot, made, runs, calls, clashes, faults>>

Lock(p, k) ==
  LET n == look[p][k].locks
  IN /\ look[p][k].at = "tx" /\ n < Len(LocksOf(k))
     /\ \A r \in Procs, h \in Keys : ~Holds(r, h, LocksOf(k)[n + 1])
     /\ look' = [look EXCEPT ![p][k].locks = n + 1]
     /\ UNCHANGED <<boot, memo, made, runs, calls, clashes, faults>>

Write(p, k) ==
  /\ \/ look[p][k].at = "tx" /\ look[p][k].locks = Len(LocksOf(k))
     \/ look[p][k].at = "blocked" /\ Rivals(<<p, k>>, "wrote") = {}
  /\ look' = [look EXCEPT ![p][k].at = Reached(<<p, k>>)]
  /\ UNCHANGED <<boot, memo, made, runs, calls, clashes, faults>>

(* The commit (of the reader: the end of its two GRANTs, outside any       *)
(* transaction) fills the memo, for the callers of that moment and later.  *)
Commit(p, k) ==
  /\ look[p][k].at = "wrote"
  /\ made' = made \cup {k}
  /\ Fail(Losers(<<p, k>>), boot, [memo EXCEPT ![p][k] = "done"], [look EXCEPT ![p][k] = idle])
  /\ clashes' = Clashing(<<p, k>>) /\ UNCHANGED <<runs, faults>>

(***************************************************************************)
(* Faults: a process dies, or one connection does; Postgres rolls back and *)
(* frees the locks.  A migration loop that loses the reserved connection   *)
(* does not notice and goes on over the pool.                              *)
(***************************************************************************)
Crash(p) ==
  /\ boot' = [boot EXCEPT ![p] = [at |-> "down", file |-> 1, lock |-> FALSE]]
  /\ memo' = [memo EXCEPT ![p] = [k \in Keys |-> "none"]]
  /\ look' = [look EXCEPT ![p] = [k \in Keys |-> idle]]
  /\ calls' = [c \in Callers |-> IF c.proc = p /\ calls[c].at \notin {"idle", "ended", "failed"}
                                 THEN [calls[c] EXCEPT !.at = "failed", !.waits = FALSE] ELSE calls[c]]
  /\ UNCHANGED <<made, runs, clashes>>

LoseLock(p) ==
  /\ boot[p].lock /\ boot' = [boot EXCEPT ![p].lock = FALSE]
  /\ UNCHANGED <<memo, look, made, runs, calls, clashes>>

LoseLookup(p, k) ==
  /\ look[p][k].at \in {"tx", "wrote", "blocked"}
  /\ Fail(Failing({<<p, k>>}), boot, memo, look)
  /\ UNCHANGED <<made, runs, clashes>>

Fault == /\ faults < MaxFaults /\ faults' = faults + 1
         /\ \E p \in Procs : Crash(p) \/ LoseLock(p) \/ \E k \in Keys : LoseLookup(p, k)

Lookup(p, k) == Begin(p, k) \/ Lock(p, k) \/ Write(p, k) \/ Commit(p, k)
Boot(p) == Migrate(p) \/ CommitFile(p)
Caller(c) == Get(c) \/ Row(c)

Next == \/ \E p \in Procs : Boot(p)
        \/ \E c \in Callers : Call(c) \/ Caller(c)
        \/ \E p \in Procs, k \in Keys : Lookup(p, k)
        \/ Fault

(* Node runs every ready fiber and Postgres grants a free lock: no step    *)
(* that stays possible is put off for ever.                                *)
Fairness == /\ \A p \in Procs : WF_vars(Boot(p)) /\ \A k \in Keys : WF_vars(Lookup(p, k))
            /\ \A c \in UNION Bursts : WF_vars(c \in Callers /\ Caller(c))

Spec == Init /\ [][Next]_vars /\ Fairness

(***************************************************************************)
(* Properties.                                                             *)
(***************************************************************************)
(* A call's own transaction finds everything it asked for: the schema with *)
(* its role, the table, the reader's grants (setup.ts:58-63 and            *)
(* 172-190; a callers' burst shares one DDL run).                          *)
RowsFindTheirTable ==
  \A c \in Callers : calls[c].at \in {"row", "ended"} => \A i \in DOMAIN Asks(c) : Asks(c)[i] \in made

(* Of the first touches of one or two processes none fails another by its  *)
(* DDL (setup.ts:72-76 and 88-95), but for the reader's GRANTs, which run  *)
(* under none of the locks (setup.ts:176-190): without that reader and     *)
(* without faults no call fails.                                           *)
OnlyTheReaderClashes ==
  /\ \A pair \in clashes : "reader" \in pair \/ pair = {"file"}
  /\ (\E c \in Callers : calls[c].at = "failed") => clashes # {} \/ faults > 0

(* Two processes that boot over one database: neither dies on a file that  *)
(* the other applies (db.ts:88-96).                                        *)
BootsDoNotCollide == \A p \in Procs : boot[p].at = "failed" => faults > 0

(* Whatever crashes, and even when the session lock is lost with its       *)
(* connection, no migration's text is committed twice, and the files are   *)
(* applied in order (db.ts:66-70 and 97-118).                              *)
FilesRunOnce == \A i \in 1..Files : /\ runs[i] <= 1
                                    /\ File(i) \in made => \A j \in 1..i : File(j) \in made

(* Every call comes to an end: no cycle of calls that wait for locks, for  *)
(* connections and for each other's lookups (setup.ts:93-95).              *)
Pending(c) == c \in Callers /\ calls[c].at \in {"asks", "row"}
EveryCallEnds == \A c \in UNION Bursts : Pending(c) ~> ~Pending(c)

=============================================================================
