------------------------------ MODULE MCStore -------------------------------
(***************************************************************************)
(* The store of a cube for TLC: the rows of RowStore, and the setup of     *)
(* SetupLocks that its first calls wait for.  `part` says which of the two *)
(* a behaviour is of: the rows stay as they begin while it is of the       *)
(* setup, whose variables keep a dummy while it is of the rows.            *)
(***************************************************************************)
EXTENDS MCRowStore

CONSTANTS Schemas, Reader, Bursts, Procs, Pool, Files, MaxFaults, \* of SetupLocks
          sa, sb                                                  \* two schemas, for the run

VARIABLES part, boot, memo, look, made, runs, calls, clashes, faults

Touch(p, s, k) == [proc |-> p, schema |-> s, kind |-> k]

(* First touches that can meet: of a feed and a row, of two schemas, and   *)
(* of one schema by two processes.                                         *)
MCBursts == {{Touch(1, sa, "feed"), Touch(2, sa, "row")},
             {Touch(1, sa, "row"), Touch(1, sb, "row"), Touch(2, sa, "row")}}

L == INSTANCE SetupLocks

ASSUME SetupAssumption ==
  /\ Reader \in Schemas /\ Files \in Nat
  /\ \A burst \in Bursts : burst \subseteq
       [proc : Procs, schema : Schemas, kind : {"row"}] \cup [proc : Procs, schema : {Reader}, kind : {"feed"}]

setup == <<boot, memo, look, made, runs, calls, clashes, faults>>
all == <<part, vars, setup>>

InitStore ==
  /\ Init
  /\ \/ /\ part = "rows"
        /\ boot = 0 /\ memo = 0 /\ look = 0 /\ made = 0 /\ runs = 0 /\ calls = <<>> /\ clashes = 0 /\ faults = 0
     \/ part = "setup" /\ L!Init

OfRows(act) == part = "rows" /\ act /\ UNCHANGED <<part, setup>>
OfSetup(act) == part = "setup" /\ act /\ UNCHANGED <<part, vars>>

SpecStore ==
  /\ InitStore /\ [][OfRows(Next) \/ OfSetup(L!Next)]_all
  /\ \A t \in Txs : WF_all(OfRows(Step(t)))
  /\ \A p \in Procs : WF_all(OfSetup(L!Boot(p))) /\ \A k \in L!Keys : WF_all(OfSetup(L!Lookup(p, k)))
  /\ \A c \in UNION Bursts : WF_all(OfSetup(c \in L!Callers /\ L!Caller(c)))

(* First touches stand: a call's own transaction finds the schema, the     *)
(* table and the grants it asked the setup for                             *)
(* (SetupLocks!RowsFindTheirTable), and no call fails over another's DDL,  *)
(* but for the activity reader's GRANTs, which run under no lock           *)
(* (SetupLocks!OnlyTheReaderClashes). setup.ts:58-95 and 172-190.          *)
FirstTouchesStand == part = "setup" => L!RowsFindTheirTable /\ L!OnlyTheReaderClashes

(* Processes that boot over one database do not fail each other            *)
(* (SetupLocks!BootsDoNotCollide), and whatever crashes, no migration is   *)
(* committed twice and the files go in order (SetupLocks!FilesRunOnce).    *)
(* db.ts:66-118.                                                           *)
MigrationsStand == part = "setup" => L!BootsDoNotCollide /\ L!FilesRunOnce

(* Nobody waits for ever: a request on a row ends                          *)
(* (RowStore!EveryRequestEnds), and so does a call that waits for a setup  *)
(* under way, for its locks and for a connection of the pool               *)
(* (SetupLocks!EveryCallEnds). rows.ts:88-110, setup.ts:52-201.            *)
RequestsEnd == EveryRequestEnds /\ L!EveryCallEnds
=============================================================================
