------------------------------ MODULE Accounts ------------------------------
(***************************************************************************)
(* The account cube (core/src/cubes/account): the seed that the first use  *)
(* runs, the check of a password, and the creation of an account.  Every   *)
(* statement that other calls may fall between is an action:               *)
(*                                                                         *)
(*   seed:    COUNT -> hash, createdAt -> COMMIT -> print -> the reader    *)
(*   verify:  seed -> the oldest row of the name -> the key derivation     *)
(*                                                                         *)
(* Nothing keeps user names unique.  A password is named by the call that  *)
(* chose or generated it.                                                  *)
(***************************************************************************)
EXTENDS Integers, FiniteSets

CONSTANTS
  Calls, \* calls that use the accounts: each runs once
  None   \* no account, no call

VARIABLES
  accounts,   \* the committed rows of the accounts table
  legacy,     \* some rows have a hash of the prototype's form
  known,      \* the passwords somebody knows: configured, printed or chosen
  configured, \* the environment sets both passwords
  clock,      \* the last createdAt drawn
  stage,      \* where each call is
  name,       \* the user name it logs in under
  row         \* the row it found or is about to insert

vars == <<accounts, legacy, known, configured, clock, stage, name, row>>

-----------------------------------------------------------------------------

Names == {"admin", "reader"}
Secrets == {"configured", "prototype"} \cup Calls
Row == [name : Names, secret : Secrets, at : Nat, by : Calls \cup {None}]

Over == {"idle", "answered", "refused", "dead"}
Stages == Over \cup {"seed", "hash", "admin", "print", "reader", "readerRow",
                     "find", "derive", "upgrade", "create"}

Running == {c \in Calls : stage[c] \notin Over}

Of(who) == {a \in accounts : a.name = who}

(* Mutant: the newest account of a name answers for it.                    *)
Newest(who) ==
  IF Of(who) = {} THEN None ELSE CHOOSE a \in Of(who) : \A b \in Of(who) : b.at <= a.at

(* store.first on the name: live rows, oldest first.                       *)
Holder(who) ==
  IF Of(who) = {} THEN None ELSE CHOOSE a \in Of(who) : \A b \in Of(who) : a.at <= b.at

(* An empty table, or one that the prototype filled.                       *)
Init ==
  /\ accounts \in {{}, {[name |-> "admin", secret |-> "prototype", at |-> 0, by |-> None]}}
  /\ legacy = accounts
  /\ known = {"configured", "prototype"}
  /\ configured \in BOOLEAN
  /\ clock = 0
  /\ stage = [c \in Calls |-> "idle"]
  /\ name = [c \in Calls |-> None]
  /\ row = [c \in Calls |-> None]

Go(c, next) == stage' = [stage EXCEPT ![c] = next] /\ UNCHANGED configured

(* createdAt is taken in the insert's transaction, before the row is seen. *)
Stamp(c, who, secret) ==
  /\ clock' = clock + 1
  /\ row' = [row EXCEPT ![c] = [name |-> who, secret |-> secret, at |-> clock + 1, by |-> c]]

Commit(c) == accounts' = accounts \cup {row[c]}

-----------------------------------------------------------------------------

(* verify and resolveUsername: the seed comes first.                       *)
Login(c, who) ==
  /\ stage[c] = "idle"
  /\ Go(c, "seed")
  /\ name' = [name EXCEPT ![c] = who]
  /\ UNCHANGED <<accounts, legacy, known, clock, row>>

(* POST /account by an administrator: no seed, and no look for an account  *)
(* of that name.                                                           *)
Create(c, who) ==
  /\ stage[c] = "idle" /\ Of("admin") # {}
  /\ Go(c, "create")
  /\ Stamp(c, who, c)
  /\ UNCHANGED <<accounts, legacy, known, name>>

(* COUNT: any account at all ends the seed.                                *)
SeedCount(c) ==
  /\ stage[c] = "seed"
  /\ Go(c, IF accounts = {} THEN "hash" ELSE "find")
  /\ UNCHANGED <<accounts, legacy, known, clock, name, row>>

(* The configured password, or else a random one, is hashed.               *)
SeedHash(c) ==
  /\ stage[c] = "hash"
  /\ Go(c, "admin")
  /\ Stamp(c, "admin", IF configured THEN "configured" ELSE c)
  /\ UNCHANGED <<accounts, legacy, known, name>>

SeedAdmin(c) ==
  /\ stage[c] = "admin"
  /\ Commit(c)
  /\ Go(c, "print")
  /\ UNCHANGED <<legacy, known, clock, name, row>>

(* Mutant: the line is logged only with the password of the reader.        *)
SeedPrintReader(c) ==
  /\ stage[c] = "print"
  /\ known' = known \cup (IF configured THEN {row[c].secret} ELSE {})
  /\ Go(c, "reader")
  /\ UNCHANGED <<accounts, legacy, clock, name, row>>

(* A generated password is printed, this once.                             *)
SeedPrint(c) ==
  /\ stage[c] = "print"
  /\ known' = known \cup {row[c].secret}
  /\ Go(c, "reader")
  /\ UNCHANGED <<accounts, legacy, clock, name, row>>

(* The reader account, when its password is configured.                    *)
SeedReader(c) ==
  /\ stage[c] = "reader"
  /\ \/ configured /\ Go(c, "readerRow") /\ Stamp(c, "reader", "configured")
     \/ ~ configured /\ Go(c, "find") /\ UNCHANGED <<clock, row>>
  /\ UNCHANGED <<accounts, legacy, known, name>>

SeedReaderRow(c) ==
  /\ stage[c] = "readerRow"
  /\ Commit(c)
  /\ Go(c, "find")
  /\ UNCHANGED <<legacy, known, clock, name, row>>

Find(c) ==
  /\ stage[c] = "find"
  /\ row' = [row EXCEPT ![c] = Holder(name[c])]
  /\ Go(c, "derive")
  /\ UNCHANGED <<accounts, legacy, known, clock, name>>

(* The password is right or wrong; an unknown name pays for a derivation   *)
(* too and is refused the same way.                                        *)
Derive(c) ==
  /\ stage[c] = "derive"
  /\ \/ Go(c, "refused")
     \/ row[c] # None /\ Go(c, IF row[c] \in legacy THEN "upgrade" ELSE "answered")
  /\ UNCHANGED <<accounts, legacy, known, clock, name, row>>

(* A hash of the old form is replaced by one of the same password.         *)
Upgrade(c) ==
  /\ stage[c] = "upgrade"
  /\ legacy' = legacy \ {row[c]}
  /\ Go(c, "answered")
  /\ UNCHANGED <<accounts, known, clock, name, row>>

CreateRow(c) ==
  /\ stage[c] = "create"
  /\ Commit(c)
  /\ known' = known \cup {row[c].secret}
  /\ Go(c, "answered")
  /\ UNCHANGED <<legacy, clock, name, row>>

(* The process dies or the store fails under the seed; elsewhere it would  *)
(* leave what a refusal or an answer that is lost leaves.                  *)
Die(c) ==
  /\ stage[c] \in {"hash", "admin", "print", "reader", "readerRow"}
  /\ Go(c, "dead")
  /\ UNCHANGED <<accounts, legacy, known, clock, name, row>>

Next ==
  \E c \in Calls :
    \/ \E who \in Names : Login(c, who) \/ Create(c, who)
    \/ SeedCount(c) \/ SeedHash(c) \/ SeedAdmin(c) \/ SeedPrint(c)
    \/ SeedReader(c) \/ SeedReaderRow(c)
    \/ Find(c) \/ Derive(c) \/ Upgrade(c)
    \/ CreateRow(c) \/ Die(c)

-----------------------------------------------------------------------------

(* The state has its type.                                                 *)
TypeOK ==
  /\ accounts \subseteq Row /\ legacy \subseteq accounts
  /\ known \subseteq Secrets
  /\ configured \in BOOLEAN /\ clock \in Nat
  /\ stage \in [Calls -> Stages]
  /\ name \in [Calls -> Names \cup {None}]
  /\ row \in [Calls -> Row \cup {None}]

Inserting == {"admin", "readerRow", "create"}

(* index.ts:73 indexes the name but nothing keeps it unique.  Whoever adds *)
(* a second account of a name still never becomes the one who logs in      *)
(* under it, unless that insert was under way when the first committed.    *)
NameKeepsItsHolder ==
  \A who \in Names : Holder(who) # None /\ Holder(who)' # Holder(who) =>
    \E c \in Calls : stage[c] \in Inserting /\ row[c] = Holder(who)' /\ row[c].at < Holder(who).at

(* "without it the operator has no way in on first boot" (index.ts:96):    *)
(* however many first calls seed at once, and whichever of them die, the   *)
(* password that opens the admin account was configured, chosen or printed *)
(* -- unless the seed that wrote the account died before the line.         *)
OperatorGetsIn ==
  Running = {} /\ accounts # {} =>
    /\ Holder("admin") # None
    /\ Holder("admin").secret \in known \/ stage[Holder("admin").by] = "dead"
=============================================================================
