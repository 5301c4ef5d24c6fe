---------------------------- MODULE MCAccess_proofs ----------------------------
(***************************************************************************)
(* Proofs about Sessions and Accounts, for any number of calls, browsers   *)
(* and accounts, each by an invariant that holds while its part runs.      *)
(***************************************************************************)
EXTENDS MCAccess, WellFoundedInduction, TLAPS

-----------------------------------------------------------------------------
(* Sessions.                                                               *)

SessionsTyped ==
  TypeOK /\ before \in [Calls -> [live : SUBSET Calls, capable : SUBSET Accounts]]

(* What each kind of call can be at, and whose row a session is.           *)
CallsInv ==
  \A c \in Calls :
    /\ stage[c] = "idle" => kind[c] = None /\ answer[c] = 0
    /\ stage[c] # "idle" => browser[c] \in Browsers
    /\ stage[c] \in {"idle", "verified", "dropping"} => sessions[c] = None
    /\ stage[c] \in {"verified", "dropping"} => kind[c] = "login" /\ account[c] \in Accounts
    /\ stage[c] \in {"sent", "found", "admitted"} => kind[c] \in {"use", "logout"} /\ answer[c] = 0
    /\ stage[c] = "answering" => kind[c] \in {"login", "use", "logout"}
    /\ kind[c] = "login" /\ answer[c] = 200 => token[c] # None
    /\ sessions[c] # None => kind[c] = "login" /\ sessions[c].account = account[c]

(* Every token that is stored or carried was issued, and what a login      *)
(* drops has ended.                                                        *)
TokensInv ==
  /\ \A b \in Browsers : stored[b] # None => stored[b] \in Issued
  /\ \A c \in Calls : token[c] # None => token[c] \in Issued
  /\ \A c \in Calls : \A t \in todo[c] : Expired(t)

(* What a call was admitted for, it had when it was sent: a session that   *)
(* is good now has been good since it was issued, and a right that is held *)
(* now was written down when it was given.                                 *)
JudgedInv ==
  \A c \in Calls :
    /\ stage[c] = "sent" /\ Good(token[c]) => token[c] \in before[c].live
    /\ stage[c] \in {"found", "admitted"} => /\ token[c] \in Issued \cap before[c].live
                                             /\ account[c] = sessions[token[c]].account
    /\ stage[c] \in {"sent", "found", "admitted"} => capable \subseteq before[c].capable
    /\ stage[c] = "admitted" /\ kind[c] = "use" => account[c] \in before[c].capable
    /\ kind[c] # "login" /\ answer[c] = 401 => ~ Good(token[c])

(* A session that was deleted had ended, or was logged out.                *)
EndedInv ==
  \A t \in Issued : sessions[t].deleted =>
    Expired(t) \/ \E d \in Calls : kind[d] = "logout" /\ token[d] = t

SessionsInv == SessionsTyped /\ CallsInv /\ TokensInv /\ JudgedInv /\ EndedInv

LEMMA NoneIsNone ==
  /\ None \notin Calls /\ None \notin Accounts /\ None \notin Session
  /\ None # "login" /\ None # "use" /\ None # "logout"
BY NoneAssumption

LEMMA SessionsInit == Init => SessionsInv
  BY BoundsAssumption, NoneIsNone
  DEF Init, SessionsInv, SessionsTyped, TypeOK, CallsInv, TokensInv, JudgedInv, EndedInv, Good, Live,
      Expired, Issued, Stages

(* A session row that is deleted keeps its account and its end.            *)
LEMMA DeletedRow ==
  ASSUME NEW x \in Session
  PROVE  LET y == [x EXCEPT !.deleted = TRUE]
         IN y \in Session /\ y.deleted /\ y.account = x.account /\ y.expires = x.expires
BY DEF Session

LEMMA EndOne ==
  ASSUME SessionsTyped, NEW t \in Issued, UNCHANGED clock,
         sessions' = [sessions EXCEPT ![t].deleted = TRUE]
  PROVE  /\ sessions' \in [Calls -> Session \cup {None}]
         /\ Issued' = Issued
         /\ \A u \in Calls : sessions[u] = None <=> sessions'[u] = None
         /\ \A u \in Issued : /\ sessions'[u].account = sessions[u].account
                             /\ sessions'[u].deleted => sessions[u].deleted \/ u = t
         /\ \A u : Good(u)' => Good(u)
         /\ ~ Good(t)'
         /\ \A u : Expired(u)' <=> Expired(u)
<1>1. t \in Calls /\ sessions[t] \in Session /\ sessions'[t] = [sessions[t] EXCEPT !.deleted = TRUE]
      /\ \A u \in Calls : u # t => sessions'[u] = sessions[u]
  BY DEF SessionsTyped, TypeOK, Issued
<1>2. /\ sessions'[t] \in Session /\ sessions'[t].deleted
      /\ sessions'[t].account = sessions[t].account /\ sessions'[t].expires = sessions[t].expires
  BY <1>1, DeletedRow
<1>3. sessions'[t] # None /\ sessions[t] # None
  BY <1>1, <1>2, NoneIsNone
<1>4. sessions' \in [Calls -> Session \cup {None}]
  BY <1>1, <1>2 DEF SessionsTyped, TypeOK
<1>5. Issued' = Issued
  BY <1>1, <1>3 DEF Issued
<1> QED
  BY <1>1, <1>2, <1>3, <1>4, <1>5 DEF Good, Live, Expired

LEMMA EndedStays ==
  ASSUME EndedInv, UNCHANGED <<clock, sessions>>,
         \A d \in Calls : kind[d] = "logout" => kind'[d] = "logout" /\ token'[d] = token[d]
  PROVE  EndedInv'
<1>1. Issued' = Issued /\ \A t \in Issued : sessions'[t] = sessions[t] /\ (Expired(t) => Expired(t)')
  BY DEF Issued, Expired
<1> SUFFICES ASSUME NEW t \in Issued, sessions[t].deleted, ~ Expired(t)
             PROVE  \E d \in Calls : kind'[d] = "logout" /\ token'[d] = t
  BY <1>1 DEF EndedInv
<1>2. PICK d \in Calls : kind[d] = "logout" /\ token[d] = t
  BY DEF EndedInv
<1> QED
  BY <1>2

LEMMA Widened ==
  ASSUME NEW r \in [live : SUBSET Calls, capable : SUBSET Accounts], NEW X
  PROVE  [r EXCEPT !.capable = @ \cup X] = [live |-> r.live, capable |-> r.capable \cup X]
OBVIOUS

LEMMA TypedStays ==
  ASSUME SessionsTyped, UNCHANGED <<clock, sessions, capable, stored, kind, browser, token, todo, before>>,
         NEW c \in Calls, NEW next \in Stages, NEW who \in Accounts \cup {None}, NEW status \in {0, 200, 401, 403},
         stage' = [stage EXCEPT ![c] = next],
         account' = account \/ account' = [account EXCEPT ![c] = who],
         answer' = answer \/ answer' = [answer EXCEPT ![c] = status]
  PROVE  SessionsTyped'
<1>1. stage' \in [Calls -> Stages]
  BY DEF SessionsTyped, TypeOK
<1>2. account' \in [Calls -> Accounts \cup {None}]
  BY DEF SessionsTyped, TypeOK
<1>3. answer' \in [Calls -> {0, 200, 401, 403}]
  BY DEF SessionsTyped, TypeOK
<1>4. Issued' = Issued
  BY DEF Issued
<1> QED
  BY <1>1, <1>2, <1>3, <1>4 DEF SessionsTyped, TypeOK

LEMMA SessionsStep ==
  ASSUME SessionsInv, Next
  PROVE  SessionsInv'
<1> USE BoundsAssumption, NoneIsNone
    DEF SessionsInv, SessionsTyped, TypeOK, Good, Live, Expired, Issued, Stages, Session, Go, request
<1>1. ASSUME NEW c \in Calls, NEW b \in Browsers, NEW who \in Accounts, Login(c, b, who)
      PROVE  SessionsInv'
  <2>0. sessions' = sessions /\ clock' = clock /\ Issued' = Issued /\ todo' = todo
    BY <1>1 DEF Login, Make, Answer
  <2>e. \A t : (Good(t)' <=> Good(t)) /\ (Expired(t)' <=> Expired(t))
    BY <2>0
  <2> HIDE DEF Good, Live, Expired, Issued, Session
  <2>1. SessionsTyped'
    <3>1. CASE stage' = [stage EXCEPT ![c] = "verified"]
      BY <1>1, <2>0, <2>e, <3>1 DEF Login, Make, Answer, CallsInv, TokensInv
    <3>2. CASE stage' = [stage EXCEPT ![c] = "answering"]
      BY <1>1, <2>0, <2>e, <3>2 DEF Login, Make, Answer, CallsInv, TokensInv
    <3> QED
      BY <1>1, <2>0, <2>e, <3>1, <3>2 DEF Login, Make, Answer, CallsInv
  <2>2. CallsInv'
    BY <1>1, <2>0, <2>e DEF Login, Make, Answer, CallsInv
  <2>3. TokensInv'
    <3>1. CASE stage' = [stage EXCEPT ![c] = "verified"]
      BY <1>1, <2>0, <2>e, <3>1 DEF Login, Make, Answer, CallsInv, TokensInv
    <3>2. CASE stage' = [stage EXCEPT ![c] = "answering"]
      BY <1>1, <2>0, <2>e, <3>2 DEF Login, Make, Answer, CallsInv, TokensInv
    <3> QED
      BY <1>1, <2>0, <2>e, <3>1, <3>2 DEF Login, Make, Answer, CallsInv
  <2>4. JudgedInv'
    <3>1. CASE stage' = [stage EXCEPT ![c] = "verified"]
      BY <1>1, <2>0, <2>e, <3>1 DEF Login, Make, Answer, CallsInv, TokensInv, JudgedInv
    <3>2. CASE stage' = [stage EXCEPT ![c] = "answering"]
      BY <1>1, <2>0, <2>e, <3>2 DEF Login, Make, Answer, CallsInv, TokensInv, JudgedInv
    <3> QED
      BY <1>1, <2>0, <2>e, <3>1, <3>2 DEF Login, Make, Answer, CallsInv
  <2>5. EndedInv'
    <3>1. \A d \in Calls : kind[d] = "logout" => kind'[d] = "logout" /\ token'[d] = token[d]
      BY <1>1 DEF Login, Make, CallsInv
    <3> QED
      BY <2>0, <3>1, EndedStays
  <2> QED
    BY <2>1, <2>2, <2>3, <2>4, <2>5
<1>2. ASSUME NEW c \in Calls, NEW b \in Browsers, NEW what \in {"use", "logout"}, Send(c, what, b)
      PROVE  SessionsInv'
  <2>0. sessions' = sessions /\ clock' = clock /\ Issued' = Issued /\ todo' = todo
    BY <1>2 DEF Send, Make, Read
  <2>e. \A t : (Good(t)' <=> Good(t)) /\ (Expired(t)' <=> Expired(t))
    BY <2>0
  <2> HIDE DEF Good, Live, Expired, Issued, Session
  <2>1. SessionsTyped'
    <3>1. Read(b) \in Calls \cup {None}
      BY DEF Read
    <3>2. {t \in Issued : Good(t)} \subseteq Calls
      BY DEF Issued
    <3>3. before' \in [Calls -> [live : SUBSET Calls, capable : SUBSET Accounts]]
      BY <1>2, <3>2 DEF Send
    <3> QED
      BY <1>2, <2>0, <3>1, <3>3 DEF Send, Make
  <2>2. CallsInv'
    BY <1>2, <2>0, <2>e DEF Send, Make, Read, CallsInv
  <2>3. TokensInv'
    <3>1. CASE stored[b] = None \/ Expired(stored[b])
      BY <1>2, <2>0, <2>e, <3>1 DEF Send, Make, Read, CallsInv, TokensInv
    <3>2. CASE ~ (stored[b] = None \/ Expired(stored[b]))
      BY <1>2, <2>0, <2>e, <3>2 DEF Send, Make, Read, CallsInv, TokensInv
    <3> QED
      BY <1>2, <2>0, <2>e, <3>1, <3>2 DEF Send, Make, Read, CallsInv
  <2>4. JudgedInv'
    <3>1. \A d \in Calls : d # c => stage'[d] = stage[d] /\ token'[d] = token[d] /\ before'[d] = before[d]
                                   /\ kind'[d] = kind[d]
      BY <1>2 DEF Send, Make
    <3>2. stage'[c] = "sent" /\ token'[c] = Read(b) /\ answer' = answer /\ answer[c] = 0
      BY <1>2 DEF Send, Make, CallsInv
    <3>3. before'[c] = [live |-> {t \in Issued : Good(t)}, capable |-> capable]
      BY <1>2 DEF Send
    <3>4. \A t : Good(t) => t \in Issued
      BY DEF Good, Live
    <3>5. account' = account /\ capable' = capable /\ sessions' = sessions
      BY <1>2 DEF Send
    <3> QED
      BY <2>0, <2>e, <3>1, <3>2, <3>3, <3>4, <3>5 DEF JudgedInv
  <2>5. EndedInv'
    <3>1. \A d \in Calls : kind[d] = "logout" => kind'[d] = "logout" /\ token'[d] = token[d]
      BY <1>2 DEF Send, Make, CallsInv
    <3> QED
      BY <2>0, <3>1, EndedStays
  <2> QED
    BY <2>1, <2>2, <2>3, <2>4, <2>5
<1>3. ASSUME NEW c \in Calls, ListExpired(c)
      PROVE  SessionsInv'
  BY <1>3 DEF ListExpired, CallsInv, TokensInv, JudgedInv, EndedInv
<1>4. ASSUME NEW c \in Calls, NEW t \in Calls, DropExpired(c, t)
      PROVE  SessionsInv'
  <2> HIDE DEF Good, Live, Expired, Issued, Session
  <2>0. t \in Issued /\ UNCHANGED clock /\ sessions' = [sessions EXCEPT ![t].deleted = TRUE]
    BY <1>4 DEF DropExpired, CallsInv, TokensInv, JudgedInv
  <2>e. /\ sessions' \in [Calls -> Session \cup {None}]
        /\ Issued' = Issued
        /\ \A u \in Calls : sessions[u] = None <=> sessions'[u] = None
        /\ \A u \in Issued : /\ sessions'[u].account = sessions[u].account
                            /\ sessions'[u].deleted => sessions[u].deleted \/ u = t
        /\ \A u : Good(u)' => Good(u)
        /\ \A u : Expired(u)' <=> Expired(u)
    BY <2>0, EndOne
  <2>1. SessionsTyped'
    BY <1>4, <2>0, <2>e DEF DropExpired, CallsInv, TokensInv
  <2>2. CallsInv'
    BY <1>4, <2>0, <2>e DEF DropExpired, CallsInv, Issued
  <2>3. TokensInv'
    BY <1>4, <2>0, <2>e DEF DropExpired, CallsInv, TokensInv
  <2>4. JudgedInv'
    BY <1>4, <2>0, <2>e DEF DropExpired, CallsInv, TokensInv, JudgedInv
  <2>5. EndedInv'
    BY <1>4, <2>0, <2>e DEF DropExpired, CallsInv, TokensInv, EndedInv
  <2> QED
    BY <2>1, <2>2, <2>3, <2>4, <2>5
<1>5. ASSUME NEW c \in Calls, Issue(c)
      PROVE  SessionsInv'
  <2>1. SessionsTyped'
    BY <1>5 DEF Issue, Answer, CallsInv, TokensInv
  <2>2. CallsInv'
    <3>1. sessions'[c].account = account[c] /\ account' = account
      BY <1>5 DEF Issue
    <3> HIDE DEF Session
    <3>2. \A d \in Calls : d # c => sessions'[d] = sessions[d] /\ stage'[d] = stage[d] /\ token'[d] = token[d]
                                   /\ answer'[d] = answer[d]
      BY <1>5 DEF Issue, Answer
    <3>3. stage'[c] = "answering" /\ token'[c] = c
      BY <1>5 DEF Issue, Answer
    <3>4. kind' = kind /\ browser' = browser /\ kind[c] = "login" /\ answer'[c] = 200 /\ browser[c] \in Browsers
      BY <1>5 DEF Issue, Answer, CallsInv
    <3>5. ASSUME NEW d \in Calls, d # c
          PROVE  /\ stage'[d] = "idle" => kind'[d] = None /\ answer'[d] = 0
                 /\ stage'[d] # "idle" => browser'[d] \in Browsers
                 /\ stage'[d] \in {"idle", "verified", "dropping"} => sessions'[d] = None
                 /\ stage'[d] \in {"verified", "dropping"} => kind'[d] = "login" /\ account'[d] \in Accounts
                 /\ stage'[d] \in {"sent", "found", "admitted"} => kind'[d] \in {"use", "logout"} /\ answer'[d] = 0
                 /\ stage'[d] = "answering" => kind'[d] \in {"login", "use", "logout"}
                 /\ kind'[d] = "login" /\ answer'[d] = 200 => token'[d] # None
                 /\ sessions'[d] # None => kind'[d] = "login" /\ sessions'[d].account = account'[d]
      BY <3>1, <3>2, <3>4, <3>5 DEF CallsInv
    <3> HIDE DEF TypeOK, Stages
    <3> QED
      BY <3>1, <3>3, <3>4, <3>5 DEF CallsInv
  <2>3. TokensInv'
    <3>0. sessions[c] = None /\ clock' = clock /\ \A t \in Calls : t # c => sessions'[t] = sessions[t]
      BY <1>5 DEF Issue, CallsInv
    <3>1. \A t \in Issued : t \in Issued' /\ t # c /\ sessions'[t] = sessions[t] /\ (Expired(t) => Expired(t)')
      <4>1. ASSUME NEW t \in Issued
            PROVE  t \in Calls /\ t # c /\ sessions'[t] = sessions[t]
        BY <3>0, <4>1
      <4> QED
        BY <3>0, <4>1
    <3>2. c \in Issued'
      <4>1. account[c] \in Accounts /\ clock + TTL \in Nat
        BY <1>5 DEF Issue, CallsInv
      <4>2. sessions'[c] \in Session
        BY <1>5, <4>1 DEF Issue
      <4> HIDE DEF Session
      <4> QED
        BY <4>2
    <3>3. stored' = stored /\ token' = [token EXCEPT ![c] = c] /\ todo' = todo
      BY <1>5 DEF Issue
    <3>4. \A d \in Calls : todo[d] \subseteq Issued
      BY DEF SessionsTyped, TypeOK
    <3>5. token \in [Calls -> Calls \cup {None}]
      OBVIOUS
    <3> HIDE DEF Issued, Expired
    <3> QED
      BY <3>1, <3>2, <3>3, <3>4, <3>5 DEF TokensInv
  <2>4. JudgedInv'
    BY <1>5 DEF Issue, Answer, CallsInv, TokensInv, JudgedInv
  <2>5. EndedInv'
    BY <1>5 DEF Issue, Answer, CallsInv, TokensInv, EndedInv
  <2> QED
    BY <2>1, <2>2, <2>3, <2>4, <2>5
<1>6. ASSUME NEW c \in Calls, Lookup(c)
      PROVE  SessionsInv'
  <2>0. sessions' = sessions /\ clock' = clock /\ Issued' = Issued /\ todo' = todo
    BY <1>6 DEF Lookup, Answer
  <2>e. \A t : (Good(t)' <=> Good(t)) /\ (Expired(t)' <=> Expired(t))
    BY <2>0
  <2> HIDE DEF Good, Live, Expired, Issued, Session
  <2>1. SessionsTyped'
    <3>1. CASE Good(token[c])
      <4>1. token[c] \in Calls /\ sessions[token[c]] \in Session
        BY <3>1 DEF Good, Live, Issued
      <4>2. sessions[token[c]].account \in Accounts
        BY <4>1 DEF Session
      <4>3. stage' = [stage EXCEPT ![c] = "found"] /\ account' = [account EXCEPT ![c] = sessions[token[c]].account]
            /\ UNCHANGED answer
        BY <1>6, <3>1 DEF Lookup
      <4>4. UNCHANGED <<clock, sessions, capable, stored, kind, browser, token, todo, before>>
        BY <1>6 DEF Lookup
      <4>5. "found" \in Stages
        OBVIOUS
      <4> HIDE DEF SessionsInv, SessionsTyped, TypeOK, Stages
      <4>6. SessionsTyped
        BY DEF SessionsInv
      <4> QED
        BY <4>2, <4>3, <4>4, <4>5, <4>6, TypedStays
    <3>2. CASE ~ Good(token[c])
      <4>1. stage' = [stage EXCEPT ![c] = "answering"] /\ answer' = [answer EXCEPT ![c] = 401] /\ UNCHANGED account
        BY <1>6, <3>2 DEF Lookup, Answer
      <4>2. UNCHANGED <<clock, sessions, capable, stored, kind, browser, token, todo, before>>
        BY <1>6 DEF Lookup
      <4>3. "answering" \in Stages /\ None \in Accounts \cup {None}
        OBVIOUS
      <4> HIDE DEF SessionsInv, SessionsTyped, TypeOK, Stages
      <4>4. SessionsTyped
        BY DEF SessionsInv
      <4> QED
        BY <4>1, <4>2, <4>3, <4>4, TypedStays
    <3> QED
      BY <3>1, <3>2
  <2>2. CallsInv'
    BY <1>6, <2>0, <2>e DEF Lookup, Answer, CallsInv
  <2>3. TokensInv'
    <3>1. CASE Good(token[c])
      BY <1>6, <2>0, <2>e, <3>1 DEF Lookup, Answer, CallsInv, TokensInv
    <3>2. CASE ~ Good(token[c])
      BY <1>6, <2>0, <2>e, <3>2 DEF Lookup, Answer, CallsInv, TokensInv
    <3> QED
      BY <1>6, <2>0, <2>e, <3>1, <3>2 DEF Lookup, Answer, CallsInv
  <2>4. JudgedInv'
    <3>1. CASE Good(token[c])
      BY <1>6, <2>0, <2>e, <3>1 DEF Lookup, Answer, CallsInv, TokensInv, JudgedInv
    <3>2. CASE ~ Good(token[c])
      BY <1>6, <2>0, <2>e, <3>2 DEF Lookup, Answer, CallsInv, TokensInv, JudgedInv
    <3> QED
      BY <1>6, <2>0, <2>e, <3>1, <3>2 DEF Lookup, Answer, CallsInv
  <2>5. EndedInv'
    BY <1>6, <2>0, <2>e DEF Lookup, Answer, CallsInv, TokensInv, EndedInv
  <2> QED
    BY <2>1, <2>2, <2>3, <2>4, <2>5
<1>7. ASSUME NEW c \in Calls, Gate(c)
      PROVE  SessionsInv'
  <2>0. sessions' = sessions /\ clock' = clock /\ Issued' = Issued /\ todo' = todo
    BY <1>7 DEF Gate, Permitted, Answer
  <2>e. \A t : (Good(t)' <=> Good(t)) /\ (Expired(t)' <=> Expired(t))
    BY <2>0
  <2> HIDE DEF Good, Live, Expired, Issued, Session
  <2>1. SessionsTyped'
    <3>1. CASE Permitted(c)
      <4>1. stage' = [stage EXCEPT ![c] = "admitted"] /\ UNCHANGED <<account, answer>>
        BY <1>7, <3>1 DEF Gate
      <4>2. UNCHANGED <<clock, sessions, capable, stored, kind, browser, token, todo, before>>
        BY <1>7 DEF Gate
      <4>3. "admitted" \in Stages
        OBVIOUS
      <4> HIDE DEF SessionsInv, SessionsTyped, TypeOK, Stages
      <4>4. SessionsTyped
        BY DEF SessionsInv
      <4> QED
        BY <4>1, <4>2, <4>3, <4>4, TypedStays
    <3>2. CASE ~ Permitted(c)
      <4>1. stage' = [stage EXCEPT ![c] = "answering"] /\ answer' = [answer EXCEPT ![c] = 403] /\ UNCHANGED account
        BY <1>7, <3>2 DEF Gate, Answer
      <4>2. UNCHANGED <<clock, sessions, capable, stored, kind, browser, token, todo, before>>
        BY <1>7 DEF Gate
      <4>3. "answering" \in Stages /\ None \in Accounts \cup {None}
        OBVIOUS
      <4> HIDE DEF SessionsInv, SessionsTyped, TypeOK, Stages
      <4>4. SessionsTyped
        BY DEF SessionsInv
      <4> QED
        BY <4>1, <4>2, <4>3, <4>4, TypedStays
    <3> QED
      BY <3>1, <3>2
  <2>2. CallsInv'
    BY <1>7, <2>0, <2>e DEF Gate, Permitted, Answer, CallsInv
  <2>3. TokensInv'
    <3>1. CASE Permitted(c)
      BY <1>7, <2>0, <2>e, <3>1 DEF Gate, Permitted, Answer, CallsInv, TokensInv
    <3>2. CASE ~ Permitted(c)
      BY <1>7, <2>0, <2>e, <3>2 DEF Gate, Permitted, Answer, CallsInv, TokensInv
    <3> QED
      BY <1>7, <2>0, <2>e, <3>1, <3>2 DEF Gate, Permitted, Answer, CallsInv
  <2>4. JudgedInv'
    <3>1. CASE Permitted(c)
      BY <1>7, <2>0, <2>e, <3>1 DEF Gate, Permitted, Answer, CallsInv, TokensInv, JudgedInv
    <3>2. CASE ~ Permitted(c)
      BY <1>7, <2>0, <2>e, <3>2 DEF Gate, Permitted, Answer, CallsInv, TokensInv, JudgedInv
    <3> QED
      BY <1>7, <2>0, <2>e, <3>1, <3>2 DEF Gate, Permitted, Answer, CallsInv
  <2>5. EndedInv'
    BY <1>7, <2>0, <2>e DEF Gate, Permitted, Answer, CallsInv, TokensInv, EndedInv
  <2> QED
    BY <2>1, <2>2, <2>3, <2>4, <2>5
<1>8. ASSUME NEW c \in Calls, Handle(c)
      PROVE  SessionsInv'
  BY <1>8 DEF Handle, Answer, CallsInv, TokensInv, JudgedInv, EndedInv
<1>9. ASSUME NEW c \in Calls, Logout(c)
      PROVE  SessionsInv'
  <2> HIDE DEF Good, Live, Expired, Issued, Session
  <2>0. token[c] \in Issued /\ UNCHANGED clock /\ sessions' = [sessions EXCEPT ![token[c]].deleted = TRUE]
    BY <1>9 DEF Logout, Answer, CallsInv, TokensInv, JudgedInv
  <2>e. /\ sessions' \in [Calls -> Session \cup {None}]
        /\ Issued' = Issued
        /\ \A u \in Calls : sessions[u] = None <=> sessions'[u] = None
        /\ \A u \in Issued : /\ sessions'[u].account = sessions[u].account
                            /\ sessions'[u].deleted => sessions[u].deleted \/ u = token[c]
        /\ \A u : Good(u)' => Good(u)
        /\ \A u : Expired(u)' <=> Expired(u)
    BY <2>0, EndOne
  <2>1. SessionsTyped'
    BY <1>9, <2>0, <2>e DEF Logout, Answer, CallsInv, TokensInv
  <2>2. CallsInv'
    BY <1>9, <2>0, <2>e DEF Logout, Answer, CallsInv, Issued
  <2>3. TokensInv'
    BY <1>9, <2>0, <2>e DEF Logout, Answer, CallsInv, TokensInv
  <2>4. JudgedInv'
    BY <1>9, <2>0, <2>e DEF Logout, Answer, CallsInv, TokensInv, JudgedInv
  <2>5. EndedInv'
    BY <1>9, <2>0, <2>e DEF Logout, Answer, CallsInv, TokensInv, EndedInv
  <2> QED
    BY <2>1, <2>2, <2>3, <2>4, <2>5
<1>10. ASSUME NEW c \in Calls, Receive(c)
       PROVE  SessionsInv'
  <2>0. sessions' = sessions /\ clock' = clock /\ Issued' = Issued /\ todo' = todo
    BY <1>10 DEF Receive, StoredAfter
  <2>e. \A t : (Good(t)' <=> Good(t)) /\ (Expired(t)' <=> Expired(t))
    BY <2>0
  <2> HIDE DEF Good, Live, Expired, Issued, Session
  <2>1. SessionsTyped'
    <3>1. CASE kind[c] = "login"
      BY <1>10, <2>0, <2>e, <3>1 DEF Receive, StoredAfter, CallsInv, TokensInv
    <3>2. CASE kind[c] = "logout"
      BY <1>10, <2>0, <2>e, <3>2 DEF Receive, StoredAfter, CallsInv, TokensInv
    <3>3. CASE kind[c] = "use"
      BY <1>10, <2>0, <2>e, <3>3 DEF Receive, StoredAfter, CallsInv, TokensInv
    <3> QED
      BY <1>10, <2>0, <2>e, <3>1, <3>2, <3>3 DEF Receive, StoredAfter, CallsInv
  <2>2. CallsInv'
    BY <1>10, <2>0, <2>e DEF Receive, StoredAfter, CallsInv
  <2>3. TokensInv'
    <3>1. CASE kind[c] = "login"
      BY <1>10, <2>0, <2>e, <3>1 DEF Receive, StoredAfter, CallsInv, TokensInv
    <3>2. CASE kind[c] = "logout"
      BY <1>10, <2>0, <2>e, <3>2 DEF Receive, StoredAfter, CallsInv, TokensInv
    <3>3. CASE kind[c] = "use"
      BY <1>10, <2>0, <2>e, <3>3 DEF Receive, StoredAfter, CallsInv, TokensInv
    <3> QED
      BY <1>10, <2>0, <2>e, <3>1, <3>2, <3>3 DEF Receive, StoredAfter, CallsInv
  <2>4. JudgedInv'
    <3>1. CASE kind[c] = "login"
      BY <1>10, <2>0, <2>e, <3>1 DEF Receive, StoredAfter, CallsInv, TokensInv, JudgedInv
    <3>2. CASE kind[c] = "logout"
      BY <1>10, <2>0, <2>e, <3>2 DEF Receive, StoredAfter, CallsInv, TokensInv, JudgedInv
    <3>3. CASE kind[c] = "use"
      BY <1>10, <2>0, <2>e, <3>3 DEF Receive, StoredAfter, CallsInv, TokensInv, JudgedInv
    <3> QED
      BY <1>10, <2>0, <2>e, <3>1, <3>2, <3>3 DEF Receive, StoredAfter, CallsInv
  <2>5. EndedInv'
    BY <1>10, <2>0, <2>e DEF Receive, StoredAfter, CallsInv, TokensInv, EndedInv
  <2> QED
    BY <2>1, <2>2, <2>3, <2>4, <2>5
<1>11. ASSUME NEW c \in Calls, Lose(c)
       PROVE  SessionsInv'
  <2>0. sessions' = sessions /\ clock' = clock /\ Issued' = Issued /\ todo' = todo
    BY <1>11 DEF Lose
  <2>e. \A t : (Good(t)' <=> Good(t)) /\ (Expired(t)' <=> Expired(t))
    BY <2>0
  <2> HIDE DEF Good, Live, Expired, Issued, Session
  <2>1. SessionsTyped'
    <3>1. CASE kind[c] = "logout"
      BY <1>11, <2>0, <2>e, <3>1 DEF Lose, CallsInv, TokensInv
    <3>2. CASE kind[c] # "logout"
      BY <1>11, <2>0, <2>e, <3>2 DEF Lose, CallsInv, TokensInv
    <3> QED
      BY <1>11, <2>0, <2>e, <3>1, <3>2 DEF Lose, CallsInv
  <2>2. CallsInv'
    BY <1>11, <2>0, <2>e DEF Lose, CallsInv
  <2>3. TokensInv'
    <3>1. CASE kind[c] = "logout"
      BY <1>11, <2>0, <2>e, <3>1 DEF Lose, CallsInv, TokensInv
    <3>2. CASE kind[c] # "logout"
      BY <1>11, <2>0, <2>e, <3>2 DEF Lose, CallsInv, TokensInv
    <3> QED
      BY <1>11, <2>0, <2>e, <3>1, <3>2 DEF Lose, CallsInv
  <2>4. JudgedInv'
    <3>1. CASE kind[c] = "logout"
      BY <1>11, <2>0, <2>e, <3>1 DEF Lose, CallsInv, TokensInv, JudgedInv
    <3>2. CASE kind[c] # "logout"
      BY <1>11, <2>0, <2>e, <3>2 DEF Lose, CallsInv, TokensInv, JudgedInv
    <3> QED
      BY <1>11, <2>0, <2>e, <3>1, <3>2 DEF Lose, CallsInv
  <2>5. EndedInv'
    BY <1>11, <2>0, <2>e DEF Lose, CallsInv, TokensInv, EndedInv
  <2> QED
    BY <2>1, <2>2, <2>3, <2>4, <2>5
<1>12. ASSUME NEW who \in Accounts, Regrant(who)
       PROVE  SessionsInv'
  <2>0. capable' \subseteq Accounts
    BY <1>12 DEF Regrant
  <2>z. before' = [d \in Calls |-> [before[d] EXCEPT !.capable = @ \cup capable']]
    BY <1>12 DEF Regrant
  <2>a. \A d \in Calls : before'[d] = [live |-> before[d].live, capable |-> before[d].capable \cup capable']
    <3>1. \A d \in Calls : before[d] \in [live : SUBSET Calls, capable : SUBSET Accounts]
      OBVIOUS
    <3>2. \A d \in Calls : [before[d] EXCEPT !.capable = @ \cup capable']
                            = [live |-> before[d].live, capable |-> before[d].capable \cup capable']
      BY <3>1, Widened
    <3> HIDE DEF SessionsInv, SessionsTyped
    <3> QED
      BY <2>z, <3>2
  <2>b. before' \in [Calls -> [live : SUBSET Calls, capable : SUBSET Accounts]]
    <3>1. \A d \in Calls : [before[d] EXCEPT !.capable = @ \cup capable'] \in [live : SUBSET Calls, capable : SUBSET Accounts]
      BY <2>0
    <3> QED
      BY <2>z, <3>1
  <2>c. Issued' = Issued /\ \A t : (Good(t)' <=> Good(t)) /\ (Expired(t)' <=> Expired(t))
    BY <1>12 DEF Regrant
  <2> HIDE DEF Good, Live, Expired, Issued, Session
  <2>1. SessionsTyped'
    BY <1>12, <2>0, <2>b, <2>c DEF Regrant
  <2>2. CallsInv'
    BY <1>12 DEF Regrant, CallsInv
  <2>3. TokensInv'
    BY <1>12, <2>c DEF Regrant, TokensInv
  <2>4. JudgedInv'
    BY <1>12, <2>a, <2>c DEF Regrant, JudgedInv
  <2>5. EndedInv'
    <3>1. UNCHANGED <<clock, sessions>> /\ kind' = kind /\ token' = token
      BY <1>12 DEF Regrant
    <3> QED
      BY <3>1, EndedStays
  <2> QED
    BY <2>1, <2>2, <2>3, <2>4, <2>5
<1>13. CASE Tick
  BY <1>13 DEF Tick, CallsInv, TokensInv, JudgedInv, EndedInv
<1> QED
  BY <1>1, <1>2, <1>3, <1>4, <1>5, <1>6, <1>7, <1>8, <1>9, <1>10, <1>11, <1>12, <1>13 DEF Next

SessionsPart == part = "sessions" => SessionsInv

LEMMA SessionsPartHolds == Spec => []SessionsPart
<1>1. InitAccess => SessionsPart
  BY SessionsInit DEF InitAccess, SessionsPart
<1>2. SessionsPart /\ [NextAccess]_all => SessionsPart'
  <2> SUFFICES ASSUME SessionsPart, [NextAccess]_all, part' = "sessions" PROVE SessionsInv'
    BY DEF SessionsPart
  <2>1. CASE NextAccess
    <3>1. part = "sessions" /\ Next
      BY <2>1 DEF NextAccess
    <3> QED
      BY <3>1, SessionsStep DEF SessionsPart
  <2>2. CASE UNCHANGED all
    <3>1. part' = part
          /\ UNCHANGED <<clock, stage, sessions, capable, stored, kind, browser, token, account, todo, answer, before>>
      BY <2>2 DEF all, sessionsOnly
    <3> QED
      BY <3>1 DEF SessionsPart, SessionsInv, SessionsTyped, TypeOK, CallsInv, TokensInv, JudgedInv, EndedInv,
                  Good, Live, Expired, Issued
  <2> QED
    BY <2>1, <2>2
<1> QED
  BY <1>1, <1>2, PTL DEF Spec

(* A call that is let in carries a session that had not ended when it was  *)
(* sent, with a right its account held since; and only that session's own  *)
(* logout or end gets its token refused, whoever else logs in or out.      *)
THEOREM EndedSessionsStayOut == Spec => []SessionsDecide
<1>1. SessionsPart => SessionsDecide
  <2> SUFFICES ASSUME SessionsInv PROVE TypeOK /\ EndedStaysOut /\ LiveSessionGetsIn
    BY DEF SessionsDecide, SessionsPart
  <2>1. TypeOK
    BY DEF SessionsInv, SessionsTyped
  <2>2. EndedStaysOut
    <3> SUFFICES ASSUME NEW c \in Calls, stage[c] = "admitted"
                 PROVE  /\ token[c] \in before[c].live
                        /\ kind[c] = "use" => account[token[c]] \in before[c].capable
      BY DEF EndedStaysOut
    <3>1. /\ token[c] \in Issued \cap before[c].live /\ account[c] = sessions[token[c]].account
          /\ kind[c] = "use" => account[c] \in before[c].capable
      BY DEF SessionsInv, JudgedInv
    <3>2. sessions[token[c]].account = account[token[c]]
      BY <3>1 DEF SessionsInv, CallsInv, Issued
    <3> QED
      BY <3>1, <3>2
  <2>3. LiveSessionGetsIn
    BY DEF LiveSessionGetsIn, SessionsInv, JudgedInv, TokensInv, EndedInv, Good, Live
  <2> QED
    BY <2>1, <2>2, <2>3
<1> QED
  BY SessionsPartHolds, <1>1, PTL

(* A browser loses a session that is still good only to a sign-out, to the *)
(* login that replaces it, or to the late refusal of a call that carried   *)
(* another token.                                                          *)
THEOREM BrowsersKeepTheirSession == Spec => BrowserKeeps
<1>1. SessionsPart /\ [NextAccess]_all => [part = "sessions" => BrowserKeepsLiveSession]_all
  <2> SUFFICES ASSUME SessionsInv, Next, NEW b \in Browsers, Good(stored[b]), stored'[b] = None
               PROVE  \E c \in Calls : browser[c] = b /\ stage[c] # "over" /\ stage'[c] = "over"
                                       /\ (kind[c] = "logout" \/ token[c] # stored[b])
    BY DEF SessionsPart, NextAccess, BrowserKeepsLiveSession
  <2>1. stored \in [Browsers -> Calls \cup {None}] /\ stored[b] # None /\ ~ Expired(stored[b])
        /\ stage \in [Calls -> Stages]
    BY NoneIsNone DEF SessionsInv, SessionsTyped, TypeOK, Good, Live, Issued
  <2>2. ASSUME NEW c \in Calls, Receive(c)
        PROVE  browser[c] = b /\ stage[c] # "over" /\ stage'[c] = "over"
               /\ (kind[c] = "logout" \/ token[c] # stored[b])
    <3>1. browser[c] = b /\ StoredAfter(c) = None /\ stage[c] = "answering" /\ stage'[c] = "over"
      BY <2>1, <2>2 DEF Receive, Go
    <3>2. kind[c] \in {"login", "use", "logout"} /\ (kind[c] = "login" /\ answer[c] = 200 => token[c] # None)
      BY <3>1 DEF SessionsInv, CallsInv
    <3>3. kind[c] # "login"
      BY <2>1, <3>1, <3>2 DEF StoredAfter
    <3>4. kind[c] = "use" => answer[c] = 401
      BY <2>1, <3>1 DEF StoredAfter
    <3>5. kind[c] = "use" => ~ Good(token[c])
      BY <3>4 DEF SessionsInv, JudgedInv
    <3> QED
      BY <3>1, <3>2, <3>3, <3>5
  <2>3. ASSUME NEW c \in Calls, Lose(c)
        PROVE  browser[c] = b /\ stage[c] # "over" /\ stage'[c] = "over" /\ kind[c] = "logout"
    BY <2>1, <2>3 DEF Lose, Go
  <2>4. ASSUME NEW c \in Calls, NEW d \in Browsers, NEW what \in {"use", "logout"}, Send(c, what, d)
        PROVE  FALSE
    BY <2>1, <2>4 DEF Send, Read
  <2>5. \/ \E c \in Calls : Receive(c) \/ Lose(c)
        \/ \E c \in Calls, d \in Browsers, what \in {"use", "logout"} : Send(c, what, d)
    BY <2>1 DEF Next, Login, ListExpired, DropExpired, Issue, Lookup, Gate, Handle, Logout, Regrant, Tick
  <2> QED
    BY <2>2, <2>3, <2>4, <2>5
<1> QED
  BY SessionsPartHolds, <1>1, PTL DEF Spec, BrowserKeeps

-----------------------------------------------------------------------------
(* Accounts.                                                               *)

(* No two rows have one createdAt, and a row that is about to be inserted  *)
(* has another than those that are there.                                  *)
StampsInv ==
  /\ \A a \in accounts : a.at <= clock
  /\ \A a, b \in accounts : a.at = b.at => a = b
  /\ \A c \in AccountCalls :
       stage[c] \in A!Inserting =>
         /\ row[c] \in A!Row /\ row[c].by = c /\ row[c].at \in 1..clock
         /\ \A a \in accounts : a.at # row[c].at
  /\ \A c, d \in AccountCalls :
       stage[c] \in A!Inserting /\ stage[d] \in A!Inserting /\ row[c].at = row[d].at => c = d

(* Where there is an account there is an admin's; and a password that      *)
(* nobody knows is that of a seed which has still to print it, or died.    *)
SeedInv ==
  /\ accounts # {} => A!Of("admin") # {}
  /\ {"configured", "prototype"} \subseteq known
  /\ \A c \in AccountCalls :
       /\ stage[c] = "admin" => row[c].name = "admin"
       /\ stage[c] = "print" => row[c] \in accounts
       /\ stage[c] = "readerRow" => row[c].secret = "configured"
       /\ stage[c] \in {"print", "reader", "readerRow", "create"} => A!Of("admin") # {}
  /\ \A a \in accounts :
       \/ a.secret \in known
       \/ /\ a.by \in AccountCalls
          /\ \/ stage[a.by] = "dead"
             \/ stage[a.by] = "print" /\ row[a.by] = a

AccountsInv == A!TypeOK /\ StampsInv /\ SeedInv

LEMMA RowIsNotNone == None \notin A!Row /\ None \notin AccountCalls
  BY AccountsAssumption

LEMMA AccountsInit == A!Init => AccountsInv
<1> SUFFICES ASSUME A!Init PROVE AccountsInv
  OBVIOUS
<1> DEFINE first == [name |-> "admin", secret |-> "prototype", at |-> 0, by |-> None]
<1>1. first \in A!Row
  BY DEF A!Row, A!Names, A!Secrets
<1>2. A!TypeOK
  BY <1>1 DEF A!Init, A!TypeOK, A!Secrets, A!Stages, A!Over
<1>3. StampsInv
  BY DEF A!Init, StampsInv, A!Inserting
<1>4. SeedInv
  BY DEF A!Init, SeedInv, A!Of
<1> QED
  BY <1>2, <1>3, <1>4 DEF AccountsInv

(* A call draws a new createdAt for the row it is about to insert.         *)
LEMMA Stamped ==
  ASSUME AccountsInv, NEW c \in AccountCalls, NEW next \in A!Inserting,
         NEW who \in A!Names, NEW secret \in A!Secrets,
         A!Go(c, next), A!Stamp(c, who, secret), UNCHANGED <<accounts, legacy, known>>,
         name' \in [AccountCalls -> A!Names \cup {None}],
         stage[c] \notin {"print", "dead"},
         next = "admin" => who = "admin",
         next = "readerRow" => secret = "configured",
         next \in {"readerRow", "create"} => A!Of("admin") # {}
  PROVE  AccountsInv'
<1> DEFINE new == [name |-> who, secret |-> secret, at |-> clock + 1, by |-> c]
<1>1. clock \in Nat /\ clock' = clock + 1
  BY DEF A!Stamp, AccountsInv, A!TypeOK
<1>2. new \in A!Row
  BY <1>1 DEF A!Row
<1>3. stage' = [stage EXCEPT ![c] = next] /\ row' = [row EXCEPT ![c] = new] /\ configured' = configured
  BY DEF A!Go, A!Stamp
<1>4. A!TypeOK'
  BY <1>1, <1>2, <1>3 DEF AccountsInv, A!TypeOK, A!Inserting, A!Stages
<1>5. row'[c] = new /\ stage'[c] = next
      /\ \A d \in AccountCalls : d # c => row'[d] = row[d] /\ stage'[d] = stage[d]
  BY <1>3 DEF AccountsInv, A!TypeOK
<1> HIDE DEF new
<1>6. new.at = clock + 1 /\ new.by = c /\ new.name = who /\ new.secret = secret
  BY DEF new
<1>7. \A a \in accounts : a.at \in Nat
  BY DEF AccountsInv, A!TypeOK, A!Row
<1>8. StampsInv'
  BY <1>1, <1>2, <1>5, <1>6, <1>7 DEF AccountsInv, StampsInv
<1>9. A!Of("admin")' = A!Of("admin")
  BY DEF A!Of
<1>10. SeedInv'
  BY <1>5, <1>6, <1>9 DEF AccountsInv, SeedInv, A!Inserting
<1> QED
  BY <1>4, <1>8, <1>10 DEF AccountsInv

(* The row of a call that inserts is committed.                            *)
LEMMA Committed ==
  ASSUME AccountsInv, NEW c \in AccountCalls, NEW next \in A!Stages \ {"admin", "readerRow", "create"},
         stage[c] \in A!Inserting, A!Go(c, next), A!Commit(c), UNCHANGED <<legacy, clock, name, row>>,
         known' = known \/ known' = known \cup {row[c].secret},
         next = "print" => row[c].name = "admin",
         next # "print" => row[c].secret \in known' /\ A!Of("admin") # {},
         next # "reader"
  PROVE  AccountsInv'
<1>1. row[c] \in A!Row /\ accounts' = accounts \cup {row[c]} /\ row[c].secret \in A!Secrets
  BY DEF A!Commit, AccountsInv, StampsInv, A!Row
<1>2. A!TypeOK'
  BY <1>1 DEF A!Go, AccountsInv, A!TypeOK
<1>3. stage'[c] = next /\ \A d \in AccountCalls : d # c => stage'[d] = stage[d]
  BY DEF A!Go, AccountsInv, A!TypeOK
<1>4. StampsInv'
  BY <1>1, <1>3 DEF AccountsInv, StampsInv, A!Inserting
<1>5. A!Of("admin") \subseteq A!Of("admin")' /\ A!Of("admin")' # {}
  BY <1>1, <1>3 DEF A!Of
<1>6. SeedInv'
  BY <1>1, <1>3, <1>5 DEF AccountsInv, SeedInv, StampsInv, A!Inserting
<1> QED
  BY <1>2, <1>4, <1>6 DEF AccountsInv

(* A step that inserts nothing and draws nothing.                          *)
LEMMA Moved ==
  ASSUME AccountsInv, NEW c \in AccountCalls,
         NEW next \in A!Stages \ (A!Inserting \cup {"print"}),
         A!Go(c, next), UNCHANGED <<accounts, clock>>,
         legacy' \subseteq legacy,
         name' \in [AccountCalls -> A!Names \cup {None}],
         row' = row \/ ((\E r \in A!Row \cup {None} : row' = [row EXCEPT ![c] = r]) /\ stage[c] \notin {"print"}),
         known' = known \/ (stage[c] = "print" /\ known' = known \cup {row[c].secret}),
         stage[c] = "print" => next = "dead" \/ row[c].secret \in known',
         stage[c] = "dead" => next = "dead",
         next = "reader" => A!Of("admin") # {}
  PROVE  AccountsInv'
<1>1. stage'[c] = next /\ \A d \in AccountCalls : d # c => stage'[d] = stage[d] /\ row'[d] = row[d]
  BY DEF A!Go, AccountsInv, A!TypeOK
<1>2. stage[c] = "print" => row[c] \in A!Row /\ row[c].secret \in A!Secrets
  BY DEF AccountsInv, SeedInv, A!TypeOK, A!Row
<1>3. row' \in [AccountCalls -> A!Row \cup {None}]
  BY DEF AccountsInv, A!TypeOK
<1>4. A!TypeOK'
  BY <1>2, <1>3 DEF A!Go, AccountsInv, A!TypeOK
<1>5. StampsInv'
  BY <1>1 DEF AccountsInv, StampsInv, A!Inserting
<1>6. A!Of("admin")' = A!Of("admin")
  BY DEF A!Of
<1>7. SeedInv'
  BY <1>1, <1>6 DEF AccountsInv, SeedInv, A!Inserting
<1> QED
  BY <1>4, <1>5, <1>7 DEF AccountsInv

LEMMA Least ==
  ASSUME NEW T \in SUBSET Nat, T # {}
  PROVE  \E x \in T : \A y \in T : x <= y
<1> DEFINE R == OpToRel(<, Nat)
<1>1. \A x, y \in Nat : x < y => <<x, y>> \in R
  BY DEF OpToRel
<1>2. IsWellFoundedOn(R, Nat)
  BY NatLessThanWellFounded
<1> HIDE DEF R
<1>3. PICK x \in T : \A y \in T : ~ (<<y, x>> \in R)
  BY <1>2, WFMin
<1>4. \A y \in T : x <= y
  <2> TAKE y \in T
  <2>1. x \in Nat /\ y \in Nat
    OBVIOUS
  <2>2. ~ (y < x)
    BY <1>1, <1>3, <2>1
  <2> QED
    BY <2>1, <2>2
<1> QED
  BY <1>4

(* Of rows with createdAt there is an oldest.                              *)
LEMMA Oldest ==
  ASSUME NEW S, S # {}, \A a \in S : a.at \in Nat
  PROVE  \E a \in S : \A b \in S : a.at <= b.at
<1>1. PICK x \in {a.at : a \in S} : \A y \in {a.at : a \in S} : x <= y
  BY Least
<1> QED
  BY <1>1

LEMMA HolderIsOldest ==
  ASSUME AccountsInv, NEW who
  PROVE  /\ A!Of(who) = {} => A!Holder(who) = None
         /\ A!Of(who) # {} => /\ A!Holder(who) \in A!Of(who)
                              /\ \A b \in A!Of(who) : A!Holder(who).at <= b.at
<1>1. \A a \in A!Of(who) : a.at \in Nat
  BY DEF AccountsInv, A!TypeOK, A!Of, A!Row
<1>2. A!Of(who) # {} => \E a \in A!Of(who) : \A b \in A!Of(who) : a.at <= b.at
  BY <1>1, Oldest
<1> QED
  BY <1>2 DEF A!Holder

LEMMA AccountsStep ==
  ASSUME AccountsInv, A!Next
  PROVE  AccountsInv'
<1>0. /\ stage \in [AccountCalls -> A!Stages] /\ row \in [AccountCalls -> A!Row \cup {None}]
      /\ name \in [AccountCalls -> A!Names \cup {None}]
  BY DEF AccountsInv, A!TypeOK
<1>1. ASSUME NEW c \in AccountCalls, NEW who \in A!Names, A!Login(c, who)
      PROVE  AccountsInv'
  <2>1. name' \in [AccountCalls -> A!Names \cup {None}]
    BY <1>0, <1>1 DEF A!Login
  <2> QED
    BY <1>1, <2>1, Moved DEF A!Login, A!Stages, A!Inserting
<1>2. ASSUME NEW c \in AccountCalls, NEW who \in A!Names, A!Create(c, who)
      PROVE  AccountsInv'
  BY <1>0, <1>2, Stamped DEF A!Create, A!Inserting, A!Secrets
<1>3. ASSUME NEW c \in AccountCalls, A!SeedCount(c)
      PROVE  AccountsInv'
  BY <1>0, <1>3, Moved DEF A!SeedCount, A!Stages, A!Over, A!Inserting
<1>4. ASSUME NEW c \in AccountCalls, A!SeedHash(c)
      PROVE  AccountsInv'
  <2>1. "admin" \in A!Inserting /\ "admin" \in A!Names /\ (IF configured THEN "configured" ELSE c) \in A!Secrets
    BY DEF A!Inserting, A!Names, A!Secrets
  <2> QED
    BY <1>0, <1>4, <2>1, Stamped DEF A!SeedHash
<1>5. ASSUME NEW c \in AccountCalls, A!SeedAdmin(c)
      PROVE  AccountsInv'
  <2>1. row[c].name = "admin"
    BY <1>5 DEF A!SeedAdmin, AccountsInv, SeedInv
  <2> QED
    BY <1>5, <2>1, Committed DEF A!SeedAdmin, A!Inserting, A!Stages
<1>6. ASSUME NEW c \in AccountCalls, A!SeedPrint(c)
      PROVE  AccountsInv'
  <2>1. A!Of("admin") # {}
    BY <1>6 DEF A!SeedPrint, AccountsInv, SeedInv
  <2> QED
    BY <1>0, <1>6, <2>1, Moved DEF A!SeedPrint, A!Inserting, A!Stages
<1>7. ASSUME NEW c \in AccountCalls, A!SeedReader(c)
      PROVE  AccountsInv'
  <2>1. A!Of("admin") # {}
    BY <1>7 DEF A!SeedReader, AccountsInv, SeedInv
  <2>2. CASE A!Go(c, "readerRow")
    <3>1. stage'[c] = "readerRow"
      BY <1>0, <2>2 DEF A!Go
    <3>2. A!Stamp(c, "reader", "configured")
      BY <1>0, <1>7, <3>1 DEF A!SeedReader, A!Go
    <3> QED
      BY <1>0, <1>7, <2>1, <2>2, <3>2, Stamped DEF A!SeedReader, A!Inserting, A!Names, A!Secrets
  <2>3. CASE A!Go(c, "find") /\ UNCHANGED <<clock, row>>
    BY <1>0, <1>7, <2>3, Moved DEF A!SeedReader, A!Inserting, A!Stages
  <2> QED
    BY <1>7, <2>2, <2>3 DEF A!SeedReader
<1>8. ASSUME NEW c \in AccountCalls, A!SeedReaderRow(c)
      PROVE  AccountsInv'
  <2>1. A!Of("admin") # {} /\ row[c].secret \in known
    BY <1>8 DEF A!SeedReaderRow, AccountsInv, SeedInv
  <2> QED
    BY <1>8, <2>1, Committed DEF A!SeedReaderRow, A!Inserting, A!Stages
<1>9. ASSUME NEW c \in AccountCalls, A!Find(c)
      PROVE  AccountsInv'
  <2>1. A!Holder(name[c]) \in A!Row \cup {None}
    BY HolderIsOldest DEF AccountsInv, A!TypeOK, A!Of
  <2> QED
    BY <1>0, <1>9, <2>1, Moved DEF A!Find, A!Inserting, A!Stages
<1>10. ASSUME NEW c \in AccountCalls, A!Derive(c)
       PROVE  AccountsInv'
  BY <1>0, <1>10, Moved DEF A!Derive, A!Inserting, A!Stages, A!Over
<1>11. ASSUME NEW c \in AccountCalls, A!Upgrade(c)
       PROVE  AccountsInv'
  BY <1>0, <1>11, Moved DEF A!Upgrade, A!Inserting, A!Stages, A!Over
<1>12. ASSUME NEW c \in AccountCalls, A!CreateRow(c)
       PROVE  AccountsInv'
  <2>1. A!Of("admin") # {}
    BY <1>12 DEF A!CreateRow, AccountsInv, SeedInv
  <2> QED
    BY <1>12, <2>1, Committed DEF A!CreateRow, A!Inserting, A!Stages, A!Over
<1>13. ASSUME NEW c \in AccountCalls, A!Die(c)
       PROVE  AccountsInv'
  BY <1>0, <1>13, Moved DEF A!Die, A!Inserting, A!Stages, A!Over
<1> QED
  BY <1>1, <1>2, <1>3, <1>4, <1>5, <1>6, <1>7, <1>8, <1>9, <1>10, <1>11, <1>12, <1>13 DEF A!Next

AccountsPart == part = "accounts" => AccountsInv

LEMMA AccountsPartHolds == Spec => []AccountsPart
<1>1. InitAccess => AccountsPart
  BY AccountsInit DEF InitAccess, AccountsPart
<1>2. AccountsPart /\ [NextAccess]_all => AccountsPart'
  <2> SUFFICES ASSUME AccountsPart, [NextAccess]_all, part' = "accounts" PROVE AccountsInv'
    BY DEF AccountsPart
  <2>1. CASE NextAccess
    <3>1. part = "accounts" /\ A!Next
      BY <2>1 DEF NextAccess
    <3> QED
      BY <3>1, AccountsStep DEF AccountsPart
  <2>2. CASE UNCHANGED all
    <3>1. part' = part /\ UNCHANGED <<accounts, legacy, known, configured, clock, stage, name, row>>
      BY <2>2 DEF all, accountsOnly
    <3> QED
      BY <3>1 DEF AccountsPart, AccountsInv, A!TypeOK, StampsInv, SeedInv, A!Of
  <2> QED
    BY <2>1, <2>2
<1> QED
  BY <1>1, <1>2, PTL DEF Spec

(* However many first calls seed an empty database at once, and whichever  *)
(* of them die, the password of the admin account that answers was         *)
(* configured, chosen or printed, unless the seed that wrote it died       *)
(* before its line.                                                        *)
THEOREM OperatorsGetIn == Spec => []SeedLetsOperatorIn
<1>1. AccountsPart => SeedLetsOperatorIn
  <2> SUFFICES ASSUME AccountsInv PROVE A!TypeOK /\ A!OperatorGetsIn
    BY DEF SeedLetsOperatorIn, AccountsPart
  <2>1. A!OperatorGetsIn
    <3> SUFFICES ASSUME A!Running = {}, accounts # {}
                 PROVE  /\ A!Holder("admin") # None
                        /\ A!Holder("admin").secret \in known \/ stage[A!Holder("admin").by] = "dead"
      BY DEF A!OperatorGetsIn
    <3>1. A!Holder("admin") \in accounts
      BY HolderIsOldest DEF A!Of, AccountsInv, SeedInv
    <3>2. A!Holder("admin") # None
      BY <3>1, RowIsNotNone DEF AccountsInv, A!TypeOK
    <3>3. \A c \in AccountCalls : stage[c] # "print"
      BY DEF A!Running, A!Over
    <3> QED
      BY <3>1, <3>2, <3>3 DEF AccountsInv, SeedInv
  <2> QED
    BY <2>1 DEF AccountsInv
<1> QED
  BY AccountsPartHolds, <1>1, PTL

(* Whoever adds a second account of a name never becomes the one who logs  *)
(* in under it, unless that insert was under way when the first committed. *)
THEOREM NamesKeepTheirHolder == Spec => NamesStay
<1>1. AccountsPart /\ AccountsPart' /\ [NextAccess]_all => [part = "accounts" => A!NameKeepsItsHolder]_all
  <2> SUFFICES ASSUME AccountsInv, AccountsInv', A!Next,
                      NEW who \in A!Names, A!Holder(who) # None, A!Holder(who)' # A!Holder(who)
               PROVE  \E c \in AccountCalls : /\ stage[c] \in A!Inserting /\ row[c] = A!Holder(who)'
                                              /\ row[c].at < A!Holder(who).at
    BY DEF AccountsPart, NextAccess, A!NameKeepsItsHolder
  <2>1. A!Of(who) # {} /\ A!Holder(who) \in A!Of(who) /\ \A b \in A!Of(who) : A!Holder(who).at <= b.at
    BY HolderIsOldest
  <2>2. accounts' # accounts
    <3> SUFFICES ASSUME accounts' = accounts PROVE FALSE
      OBVIOUS
    <3>1. A!Of(who)' = A!Of(who)
      BY DEF A!Of
    <3> QED
      BY <3>1 DEF A!Holder
  <2>3. PICK c \in AccountCalls : stage[c] \in A!Inserting /\ accounts' = accounts \cup {row[c]}
    BY <2>2 DEF A!Next, A!Login, A!Create, A!SeedCount, A!SeedHash, A!SeedAdmin, A!SeedPrint, A!SeedReader,
                A!SeedReaderRow, A!Find, A!Derive, A!Upgrade, A!CreateRow, A!Die, A!Commit, A!Inserting
  <2>4. A!Of(who) \subseteq A!Of(who)' /\ A!Of(who)' \subseteq A!Of(who) \cup {row[c]}
    BY <2>3 DEF A!Of
  <2>5. A!Of(who)' # {} /\ \A a \in A!Of(who)' : a.at \in Nat
    BY <2>1, <2>4 DEF AccountsInv, A!TypeOK, A!Of, A!Row
  <2>6. \E a \in A!Of(who)' : \A b \in A!Of(who)' : a.at <= b.at
    BY <2>5, Oldest
  <2>7. A!Holder(who)' \in A!Of(who)' /\ \A b \in A!Of(who)' : A!Holder(who)'.at <= b.at
    BY <2>5, <2>6 DEF A!Holder
  <2>8. A!Holder(who)' \notin A!Of(who)
    <3> SUFFICES ASSUME A!Holder(who)' \in A!Of(who) PROVE FALSE
      OBVIOUS
    <3>1. A!Holder(who)'.at = A!Holder(who).at
      BY <2>1, <2>4, <2>5, <2>7
    <3> QED
      BY <2>1, <3>1 DEF AccountsInv, StampsInv, A!Of
  <2>9. A!Holder(who)' = row[c]
    BY <2>4, <2>7, <2>8
  <2>10. row[c].at # A!Holder(who).at
    BY <2>1, <2>3 DEF AccountsInv, StampsInv, A!Of
  <2> QED
    BY <2>1, <2>3, <2>4, <2>5, <2>7, <2>9, <2>10
<1> QED
  BY AccountsPartHolds, <1>1, PTL DEF Spec, NamesStay
=============================================================================
