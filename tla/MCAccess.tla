------------------------------ MODULE MCAccess ------------------------------
(***************************************************************************)
(* Accounts and Sessions for TLC, side by side: `part` says which of the   *)
(* two a behaviour is of, and the other one's variables keep a dummy.      *)
(* They share the names of what both have: clock and stage.                *)
(***************************************************************************)
EXTENDS Sessions, TLC

CONSTANT AccountCalls \* the calls of Accounts

VARIABLES part, accounts, legacy, known, configured, name, row

A == INSTANCE Accounts WITH Calls <- AccountCalls

ASSUME AccountsAssumption == None \notin AccountCalls /\ None \notin A!Row

accountsOnly == <<accounts, legacy, known, configured, name, row>>
sessionsOnly == <<sessions, capable, stored, kind, browser, token, account, todo, answer, before>>
all == <<part, clock, stage, accountsOnly, sessionsOnly>>

InitAccess ==
  \/ /\ part = "accounts" /\ A!Init
     /\ sessions = 0 /\ capable = 0 /\ stored = 0 /\ kind = 0 /\ browser = 0 /\ token = 0
     /\ account = 0 /\ todo = 0 /\ answer = 0 /\ before = 0
  \/ /\ part = "sessions" /\ Init
     /\ accounts = 0 /\ legacy = 0 /\ known = 0 /\ configured = 0 /\ name = 0 /\ row = 0

NextAccess ==
  \/ part = "accounts" /\ A!Next /\ UNCHANGED <<part, sessionsOnly>>
  \/ part = "sessions" /\ Next /\ UNCHANGED <<part, accountsOnly>>

Spec == InitAccess /\ [][NextAccess]_all

SymCalls == Permutations(Calls)

(* However many first calls seed an empty database at once, and whichever  *)
(* of them die, the password that opens the admin account was configured,  *)
(* chosen or printed, unless the seed that wrote it died before its line   *)
(* (Accounts!OperatorGetsIn, with Accounts!TypeOK). account/index.ts:96.   *)
SeedLetsOperatorIn == part = "accounts" => A!TypeOK /\ A!OperatorGetsIn

(* Accounts!NameKeepsItsHolder: who adds a second account of a name never  *)
(* becomes the one who logs in under it, unless the inserts overlapped.    *)
(* account/index.ts:73.                                                    *)
NamesStay == [][part = "accounts" => A!NameKeepsItsHolder]_all

(* A session is admitted for what it is: a call that is let in carries a   *)
(* session that had not ended when it was sent, with a right its account   *)
(* held since (Sessions!EndedStaysOut), and only that session's own logout *)
(* or end gets its token refused (Sessions!LiveSessionGetsIn), with        *)
(* Sessions!TypeOK. auth/index.ts:136-151 and 231-235.                     *)
SessionsDecide == part = "sessions" => TypeOK /\ EndedStaysOut /\ LiveSessionGetsIn

(* Sessions!BrowserKeepsLiveSession: a browser loses a session that is     *)
(* still good only to a sign-out, to the login that replaces it, or to the *)
(* late refusal of another token's call. api.ts:103.                       *)
BrowserKeeps == [][part = "sessions" => BrowserKeepsLiveSession]_all
=============================================================================
