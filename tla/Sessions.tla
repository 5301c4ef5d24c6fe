------------------------------ MODULE Sessions ------------------------------
(***************************************************************************)
(* Sessions on both sides: the auth cube (core/src/cubes/auth/index.ts)    *)
(* that issues and validates tokens, and the browser's half of them        *)
(* (web/lib/session.ts, web/lib/api.ts), where every tab of a browser      *)
(* shares one stored token.  A call is a sequence of store operations with *)
(* nothing held between them; its answer may be late, or never arrive.     *)
(*                                                                         *)
(*   login:  verify -> list, drop expired ones one by one -> insert        *)
(*   other:  session row -> expiry -> account, capabilities -> handler     *)
(*                                                                         *)
(* A token is named by the login that drew it.                             *)
(***************************************************************************)
EXTENDS Integers, FiniteSets

CONSTANTS
  Calls,    \* HTTP calls: each is made once
  Browsers, \* browsers, each with one stored session
  Accounts, \* the accounts that log in
  TTL,      \* how long a session lives
  MaxTime,  \* bound on the clock
  None      \* no token, no account

ASSUME BoundsAssumption == TTL \in Nat /\ MaxTime \in Nat

VARIABLES
  clock,    \* the time, the same on both sides
  sessions, \* the session rows by token; None before the insert
  capable,  \* the accounts with a runtime grant of the route's permission
  stored,   \* what each browser has stored
  stage,    \* where each call is
  kind,     \* what it asks for
  browser,  \* the browser it was made from
  token,    \* the token it carries, or the one its login issues
  account,  \* a login: who; another call: whose session it found
  todo,     \* a login: the expired rows it has still to delete
  answer,   \* the status of its answer
  before    \* history: what stood when the call was sent: [live, capable]

vars == <<clock, sessions, capable, stored, stage, kind, browser, token, account, todo, answer, before>>
request == <<kind, browser>>

-----------------------------------------------------------------------------

Session == [account : Accounts, expires : Nat, deleted : BOOLEAN]

ASSUME NoneAssumption == None \notin Calls \cup Accounts \cup Session \cup {"login", "use", "logout"}

Stages == {"idle", "verified", "dropping", "sent", "found", "admitted", "answering", "over"}

Issued == {t \in Calls : sessions[t] # None}
Live(t) == t \in Issued /\ ~ sessions[t].deleted
Expired(t) == t \in Issued /\ sessions[t].expires <= clock
Good(t) == Live(t) /\ ~ Expired(t)

Init ==
  /\ clock = 0
  /\ sessions = [c \in Calls |-> None]
  /\ capable = {}
  /\ stored = [b \in Browsers |-> None]
  /\ stage = [c \in Calls |-> "idle"]
  /\ kind = [c \in Calls |-> None]
  /\ browser = [c \in Calls |-> None]
  /\ token = [c \in Calls |-> None]
  /\ account = [c \in Calls |-> None]
  /\ todo = [c \in Calls |-> {}]
  /\ answer = [c \in Calls |-> 0]
  /\ before = [c \in Calls |-> [live |-> {}, capable |-> {}]]

Go(c, next) == stage' = [stage EXCEPT ![c] = next]
Answer(c, status) == Go(c, "answering") /\ answer' = [answer EXCEPT ![c] = status]
Make(c, what, b) ==
  /\ stage[c] = "idle"
  /\ kind' = [kind EXCEPT ![c] = what]
  /\ browser' = [browser EXCEPT ![c] = b]

-----------------------------------------------------------------------------
(* The server.                                                             *)

(* POST /auth/login: credentials.verify gives an identity, or nothing.     *)
Login(c, b, who) ==
  /\ Make(c, "login", b)
  /\ \/ Go(c, "verified") /\ account' = [account EXCEPT ![c] = who] /\ UNCHANGED answer
     \/ Answer(c, 401) /\ UNCHANGED account
  /\ UNCHANGED <<clock, sessions, capable, stored, token, todo, before>>

(* dropExpiredSessions: the clock, then every live row.                    *)
ListExpired(c) ==
  /\ stage[c] = "verified"
  /\ todo' = [todo EXCEPT ![c] = {t \in Issued : Live(t) /\ Expired(t)}]
  /\ Go(c, "dropping")
  /\ UNCHANGED <<clock, sessions, capable, stored, request, token, account, answer, before>>

DropExpired(c, t) ==
  /\ stage[c] = "dropping" /\ t \in todo[c]
  /\ sessions' = [sessions EXCEPT ![t].deleted = TRUE]
  /\ todo' = [todo EXCEPT ![c] = @ \ {t}]
  /\ UNCHANGED <<clock, capable, stored, stage, request, token, account, answer, before>>

(* Mutant: the row is written without its end.                             *)
IssueEndless(c) ==
  /\ stage[c] = "dropping" /\ todo[c] = {}
  /\ sessions' = [sessions EXCEPT ![c] =
                    [account |-> account[c], expires |-> None, deleted |-> FALSE]]
  /\ token' = [token EXCEPT ![c] = c]
  /\ Answer(c, 200)
  /\ UNCHANGED <<clock, capable, stored, request, account, todo, before>>

(* A fresh token, whose row names the account and its end.                 *)
Issue(c) ==
  /\ stage[c] = "dropping" /\ todo[c] = {}
  /\ sessions' = [sessions EXCEPT ![c] =
                    [account |-> account[c], expires |-> clock + TTL, deleted |-> FALSE]]
  /\ token' = [token EXCEPT ![c] = c]
  /\ Answer(c, 200)
  /\ UNCHANGED <<clock, capable, stored, request, account, todo, before>>

(* Mutant: the row is found by token, deleted or not.                      *)
LookupDeleted(c) ==
  /\ stage[c] = "sent"
  /\ IF token[c] \notin Issued \/ Expired(token[c])
     THEN Answer(c, 401) /\ UNCHANGED account
     ELSE /\ Go(c, "found")
          /\ account' = [account EXCEPT ![c] = sessions[token[c]].account]
          /\ UNCHANGED answer
  /\ UNCHANGED <<clock, sessions, capable, stored, request, token, todo, before>>

(* bearer: no token, unknown token, expired token; or the account.         *)
Lookup(c) ==
  /\ stage[c] = "sent"
  /\ IF ~ Good(token[c])
     THEN Answer(c, 401) /\ UNCHANGED account
     ELSE /\ Go(c, "found")
          /\ account' = [account EXCEPT ![c] = sessions[token[c]].account]
          /\ UNCHANGED answer
  /\ UNCHANGED <<clock, sessions, capable, stored, request, token, todo, before>>

(* requirePermission; null, for logout, is decided by the session alone.   *)
Permitted(c) == kind[c] = "logout" \/ account[c] \in capable

(* The account's roles and its runtime grants, read for this call, and the *)
(* permission of the route.                                                *)
Gate(c) ==
  /\ stage[c] = "found"
  /\ IF Permitted(c)
     THEN Go(c, "admitted") /\ UNCHANGED answer
     ELSE Answer(c, 403)
  /\ UNCHANGED <<clock, sessions, capable, stored, request, token, account, todo, before>>

Handle(c) ==
  /\ stage[c] = "admitted" /\ kind[c] = "use"
  /\ Answer(c, 200)
  /\ UNCHANGED <<clock, sessions, capable, stored, request, token, account, todo, before>>

(* Mutant: logging out the account, everywhere.                            *)
LogoutEverywhere(c) ==
  /\ stage[c] = "admitted" /\ kind[c] = "logout"
  /\ sessions' = [t \in Calls |-> IF t \in Issued /\ sessions[t].account = account[c]
                                    THEN [sessions[t] EXCEPT !.deleted = TRUE] ELSE sessions[t]]
  /\ Answer(c, 200)
  /\ UNCHANGED <<clock, capable, stored, request, token, account, todo, before>>

(* Exactly the session the call came with.                                 *)
Logout(c) ==
  /\ stage[c] = "admitted" /\ kind[c] = "logout"
  /\ sessions' = [sessions EXCEPT ![token[c]].deleted = TRUE]
  /\ Answer(c, 200)
  /\ UNCHANGED <<clock, capable, stored, request, token, account, todo, before>>

-----------------------------------------------------------------------------
(* The browser.                                                            *)

(* session.read: an expired token is the same as no token.                 *)
Read(b) == IF stored[b] = None \/ Expired(stored[b]) THEN None ELSE stored[b]

(* request: the header is read, and the call leaves.                       *)
Send(c, what, b) ==
  /\ Make(c, what, b)
  /\ stored' = [stored EXCEPT ![b] = Read(b)]
  /\ token' = [token EXCEPT ![c] = Read(b)]
  /\ before' = [before EXCEPT ![c] = [live |-> {t \in Issued : Good(t)}, capable |-> capable]]
  /\ Go(c, "sent")
  /\ UNCHANGED <<clock, sessions, capable, account, todo, answer>>

(* Mutant: every refusal ends the browser's session.                       *)
StoredAfterRefusal(c) ==
  CASE kind[c] = "login"  -> IF answer[c] = 200 THEN token[c] ELSE stored[browser[c]]
    [] kind[c] = "logout" -> None
    [] kind[c] = "use" -> IF answer[c] # 200 THEN None ELSE stored[browser[c]]

(* A login stores its token; a sign-out clears the browser whatever it was *)
(* answered; a 401 of any other call ends the session, a 403 does not.     *)
StoredAfter(c) ==
  CASE kind[c] = "login"  -> IF answer[c] = 200 THEN token[c] ELSE stored[browser[c]]
    [] kind[c] = "logout" -> None
    [] kind[c] = "use" -> IF answer[c] = 401 THEN None ELSE stored[browser[c]]

Receive(c) ==
  /\ stage[c] = "answering"
  /\ stored' = [stored EXCEPT ![browser[c]] = StoredAfter(c)]
  /\ Go(c, "over")
  /\ UNCHANGED <<clock, sessions, capable, request, token, account, todo, answer, before>>

(* The request or its answer is lost, or the server dies under it: the     *)
(* sign-out clears the browser all the same.                               *)
Lose(c) ==
  /\ stage[c] \notin {"idle", "over"}
  /\ stored' = [stored EXCEPT ![browser[c]] = IF kind[c] = "logout" THEN None ELSE @]
  /\ answer' = [answer EXCEPT ![c] = 0]
  /\ Go(c, "over")
  /\ UNCHANGED <<clock, sessions, capable, request, token, account, todo, before>>

-----------------------------------------------------------------------------

(* grantCapability and revokeCapabilityGrant of the permissions cube.      *)
Regrant(who) ==
  /\ capable' = IF who \in capable THEN capable \ {who} ELSE capable \cup {who}
  /\ before' = [c \in Calls |-> [before[c] EXCEPT !.capable = @ \cup capable']]
  /\ UNCHANGED <<clock, sessions, stored, stage, request, token, account, todo, answer>>

Tick ==
  /\ clock < MaxTime
  /\ clock' = clock + 1
  /\ UNCHANGED <<sessions, capable, stored, stage, request, token, account, todo, answer, before>>

Next ==
  \/ \E c \in Calls :
       \/ \E b \in Browsers :
            (\E who \in Accounts : Login(c, b, who)) \/ Send(c, "use", b) \/ Send(c, "logout", b)
       \/ ListExpired(c) \/ \E t \in Calls : DropExpired(c, t)
       \/ Issue(c)
       \/ Lookup(c) \/ Gate(c) \/ Handle(c) \/ Logout(c)
       \/ Receive(c) \/ Lose(c)
  \/ \E who \in Accounts : Regrant(who)
  \/ Tick

-----------------------------------------------------------------------------

(* The state has its type.                                                 *)
TypeOK ==
  /\ clock \in 0..MaxTime
  /\ sessions \in [Calls -> Session \cup {None}]
  /\ capable \subseteq Accounts
  /\ stored \in [Browsers -> Calls \cup {None}]
  /\ stage \in [Calls -> Stages]
  /\ kind \in [Calls -> {None, "login", "use", "logout"}] /\ browser \in [Calls -> Browsers \cup {None}]
  /\ token \in [Calls -> Calls \cup {None}]
  /\ account \in [Calls -> Accounts \cup {None}]
  /\ todo \in [Calls -> SUBSET Issued]
  /\ answer \in [Calls -> {0, 200, 401, 403}]

(* auth/index.ts:151, "a revoke is effective on the next request of ANY    *)
(* session", and :136-142: a call that is admitted carries a session that  *)
(* was neither logged out nor over when the call was sent, and the right   *)
(* it needs was held at some time since, by the account that logged in.    *)
EndedStaysOut ==
  \A c \in Calls : stage[c] = "admitted" =>
    /\ token[c] \in before[c].live
    /\ kind[c] = "use" => account[token[c]] \in before[c].capable

(* auth/index.ts:231-235, "a second device keeps its session": nothing but *)
(* the logout of that very session, or its end, gets a token refused,      *)
(* whoever else logs in (and cleans up) or out.                            *)
LiveSessionGetsIn ==
  \A c \in Calls : kind[c] # "login" /\ answer[c] = 401 /\ token[c] # None =>
    \/ Expired(token[c])
    \/ \E d \in Calls : kind[d] = "logout" /\ token[d] = token[c]

(* api.ts:103, "a 401 means the token died": a browser loses a session     *)
(* that is still good only to a sign-out, to a login that replaces it, or  *)
(* to the late refusal of a call that carried another token than the one   *)
(* stored by now.                                                          *)
BrowserKeepsLiveSession ==
  \A b \in Browsers : Good(stored[b]) /\ stored'[b] = None =>
    \E c \in Calls : browser[c] = b /\ stage[c] # "over" /\ stage'[c] = "over"
                     /\ (kind[c] = "logout" \/ token[c] # stored[b])
=============================================================================
