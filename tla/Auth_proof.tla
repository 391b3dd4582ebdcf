----------------------------- MODULE Auth_proof -----------------------------
(***************************************************************************)
(* Proofs about Auth, for any number of requests, accounts, names, e-mail  *)
(* addresses and passwords.                                                *)
(***************************************************************************)
EXTENDS Auth, TLAPS

Requests ==
  [op : {"none", "register", "login", "logout", "change"}, user : User \cup {None},
   account : Account \cup {None}, password : Password \cup {Dummy, None},
   outdated : BOOLEAN, target : Request \cup {None}]

\* None is neither an account nor what a hash or a row is.
LEMMA NoneFacts ==
  /\ None \notin User /\ None \notin Account /\ None \notin Request
  /\ NoRequest \in Requests
<1>1. None \notin User /\ None \notin Account /\ None \notin Request
  BY AuthNoneAssumption
<1>2. NoRequest \in Requests
  BY DEF NoRequest, Requests
<1> QED
  BY <1>1, <1>2

\* What an arrival changes: the request itself, and no other.
LEMMA ArriveFacts ==
  ASSUME AuthInv, NEW r \in Request, NEW request, NEW next, Arrive(r, request, next)
  PROVE  /\ pc[r] = "idle" /\ pc'[r] = next
         /\ req'[r] = IF next = "ended" THEN NoRequest ELSE request
         /\ \A s \in Request : s # r => pc'[s] = pc[s] /\ req'[s] = req[s]
         /\ pc' = [pc EXCEPT ![r] = next]
         /\ session[r] = "none"
<1>1. pc \in [Request -> Phase] /\ req \in [Request -> Requests]
  BY DEF AuthInv, TypeOK, Requests
<1>2. session[r] # "none" => pc[r] = "ended"
  BY DEF AuthInv, RequestInv
<1>3. pc[r] = "idle" => req[r] = NoRequest
  BY DEF AuthInv, RequestInv
<1> QED
  BY <1>1, <1>2, <1>3 DEF Arrive

\* What a step of a request changes of pc and req.
LEMMA GotoFacts ==
  ASSUME AuthInv, NEW r \in Request, NEW from, NEW to, Goto(r, from, to)
  PROVE  /\ pc[r] = from /\ pc'[r] = to
         /\ req'[r] = IF to = "ended" /\ req[r].op # "login" THEN NoRequest ELSE req[r]
         /\ \A s \in Request : s # r => pc'[s] = pc[s] /\ req'[s] = req[s]
         /\ pc' = [pc EXCEPT ![r] = to]
<1>1. pc \in [Request -> Phase] /\ req \in [Request -> Requests]
  BY DEF AuthInv, TypeOK, Requests
<1> QED
  BY <1>1 DEF Goto

-----------------------------------------------------------------------------
(* Arrivals.                                                               *)

\* The arrival of a request other than a login disturbs nothing.
LEMMA ArrivalKeeps ==
  ASSUME AuthInv, NEW r \in Request, NEW request \in Requests, NEW next \in {"insert", "logout", "end", "ended"},
         Arrive(r, request, next),
         request.op # "login", request.outdated = FALSE,
         request.account # None => Exists(request.account),
         next = "insert" => /\ request.user \in User /\ request.password \in Password
                            /\ request.user.hash = HashPassword(request.password),
         next = "end" => request.op = "change" /\ request.account \in Account /\ request.password \in Password,
         next = "logout" => /\ request.op = "logout" /\ request.target \in Request
                            /\ session[request.target] # "none"
                            /\ req[request.target].account = request.account,
         UNCHANGED <<engine, users, session, ending, tokens, lastSet, overtaken>>
  PROVE  AuthInv'
<1> USE DEF AuthInv
<1> DEFINE a == IF next = "ended" THEN NoRequest ELSE request
<1>1. /\ pc[r] = "idle" /\ pc'[r] = next /\ req'[r] = a
      /\ \A s \in Request : s # r => pc'[s] = pc[s] /\ req'[s] = req[s]
      /\ session[r] = "none"
  BY ArriveFacts
<1>2. a \in Requests /\ a.outdated = FALSE /\ (a.account # None => Exists(a.account))
  BY NoneFacts DEF NoRequest
<1>3. TypeOK'
  <2>1. pc' \in [Request -> Phase] /\ req' \in [Request -> Requests]
    BY <1>1, <1>2 DEF Arrive, TypeOK, Requests, Phase, NoRequest
  <2> QED
    BY <2>1 DEF TypeOK, Requests, Exists
<1>4. RequestInv'
  <2> SUFFICES ASSUME NEW s \in Request PROVE RequestInv!(s)'
    BY DEF RequestInv
  <2>1. CASE s = r
    BY <2>1, <1>1, <1>2, NoneFacts DEF RequestInv, Exists, NoRequest
  <2>2. CASE s # r
    <3>1. pc'[s] = pc[s] /\ req'[s] = req[s] /\ session'[s] = session[s] /\ users' = users
      BY <2>2, <1>1
    <3>2. pc[s] = "logout" => req[s].target \in Request /\ req'[req[s].target] = req[req[s].target]
      BY <1>1 DEF RequestInv
    <3> QED
      BY <3>1, <3>2 DEF RequestInv, Exists
  <2> QED
    BY <2>1, <2>2
<1>5. OutdatedInv' /\ LoginInv'
  BY <1>1, <1>2 DEF OutdatedInv, LoginInv
<1>6. \A b : LoggingIn(b)' = LoggingIn(b) /\ ActiveSessions(b)' = ActiveSessions(b)
  BY <1>1 DEF LoggingIn, ActiveSessions, GetActiveSession
<1>7. ChangeInv'
  <2> SUFFICES ASSUME NEW s \in Request PROVE ChangeInv!(s)'
    BY DEF ChangeInv
  <2>1. ending[s] \subseteq Request /\ ending'[s] = ending[s] /\ overtaken' = overtaken
    BY DEF TypeOK
  <2>2. CASE s = r
    BY <2>1, <2>2, <1>1 DEF ChangeInv
  <2>3. CASE s # r
    <3>1. \A t \in ending[s] : session[t] # "none" => t # r /\ req'[t] = req[t] /\ session'[t] = session[t]
      BY <2>1, <1>1
    <3> QED
      BY <2>1, <2>3, <3>1, <1>1, <1>6 DEF ChangeInv
  <2> QED
    BY <2>2, <2>3
<1>8. AccountsAreUnique'
  BY DEF AccountsAreUnique, Exists
<1>9. PasswordIsLastSet'
  <2>1. \A b \in Account : RehashedLate(b) => RehashedLate(b)'
    <3> SUFFICES ASSUME NEW b \in Account, RehashedLate(b) PROVE RehashedLate(b)'
      OBVIOUS
    <3>1. PICK s \in overtaken : req[s].account = b /\ req[s].outdated /\ req[s].password = users[b].hash.password
      BY DEF RehashedLate
    <3>2. s \in Request /\ s # r
      BY <3>1, <1>1 DEF TypeOK, RequestInv, NoRequest
    <3> QED
      BY <3>1, <3>2, <1>1 DEF RehashedLate
  <2> QED
    BY <2>1 DEF PasswordIsLastSet, Exists
<1>10. OldSessionsAreOver'
  BY <1>1 DEF OldSessionsAreOver
<1> QED
  BY <1>3, <1>4, <1>5, <1>7, <1>8, <1>9, <1>10

-----------------------------------------------------------------------------
(* Registration.                                                           *)

\* A late rehash stays one as long as the account's row stays as it is.
LEMMA RehashedLateStays ==
  ASSUME AuthInv, NEW r \in Request, NEW b \in Account, RehashedLate(b),
         \A s \in Request : req[s].outdated => req'[s] = req[s],
         overtaken \subseteq overtaken', users'[b] = users[b]
  PROVE  RehashedLate(b)'
<1>1. PICK s \in overtaken : req[s].account = b /\ req[s].outdated /\ req[s].password = users[b].hash.password
  BY DEF RehashedLate
<1>2. s \in Request
  BY DEF AuthInv, TypeOK
<1> QED
  BY <1>1, <1>2 DEF RehashedLate

\* An insert: a new account of a name and an address nobody has.
LEMMA InsertKeeps ==
  ASSUME AuthInv, NEW r \in Request, Insert(r)
  PROVE  AuthInv'
<1> USE DEF AuthInv
<1>1. /\ pc[r] = "insert" /\ pc'[r] = "ended" /\ pc' = [pc EXCEPT ![r] = "ended"]
      /\ \A s \in Request : s # r => pc'[s] = pc[s] /\ req'[s] = req[s]
      /\ req'[r] = IF req[r].op # "login" THEN NoRequest ELSE req[r]
      /\ UNCHANGED <<engine, session, ending, tokens, overtaken>>
  BY GotoFacts DEF Insert
<1>2. /\ req[r].user \in User /\ req[r].password \in Password
      /\ req[r].user.hash = HashPassword(req[r].password)
      /\ session[r] = "none" /\ ending[r] = {}
  BY <1>1 DEF RequestInv, ChangeInv, TypeOK
<1>3. users \in [Account -> User \cup {None}] /\ lastSet \in [Account -> Password \cup {None}]
  BY DEF TypeOK
<1>4. /\ users' \in [Account -> User \cup {None}] /\ lastSet' \in [Account -> Password \cup {None}]
      /\ \A a \in Account : Exists(a) => Exists(a)' /\ users'[a] = users[a] /\ lastSet'[a] = lastSet[a]
      /\ \A a \in Account :
           \/ users'[a] = users[a] /\ lastSet'[a] = lastSet[a]
           \/ /\ ~Exists(a) /\ Unique(req[r].user)
              /\ users'[a] = req[r].user /\ lastSet'[a] = req[r].password
      /\ \A a, b \in Account : ~Exists(a) /\ ~Exists(b) /\ Exists(a)' /\ Exists(b)' => a = b
  <2>1. CASE Unique(req[r].user)
    <3>1. PICK a \in Account : /\ ~Exists(a)
                              /\ users' = [users EXCEPT ![a] = req[r].user]
                              /\ lastSet' = [lastSet EXCEPT ![a] = req[r].password]
      BY <2>1 DEF Insert
    <3> QED
      BY <2>1, <3>1, <1>2, <1>3, NoneFacts DEF Exists
  <2>2. CASE ~Unique(req[r].user)
    <3>1. users' = users /\ lastSet' = lastSet
      BY <2>2 DEF Insert
    <3> QED
      BY <3>1, <1>3 DEF Exists
  <2> QED
    BY <2>1, <2>2
<1>5. \A s \in Request : req'[s] = req[s] \/ req'[s] = NoRequest
  BY <1>1
<1>6. \A s \in Request : req[s].account \in Account \cup {None} /\ req[s] \in Requests
  BY DEF TypeOK, Requests
<1>7. TypeOK'
  <2>1. pc' \in [Request -> Phase]
    BY <1>1 DEF TypeOK, Phase
  <2>2. req' \in [Request -> Requests]
    BY NoneFacts, <1>6 DEF TypeOK, Insert, Goto, Requests
  <2> QED
    BY <2>1, <2>2, <1>1, <1>4 DEF TypeOK, Requests
<1>8. RequestInv'
  <2> SUFFICES ASSUME NEW s \in Request PROVE RequestInv!(s)'
    BY DEF RequestInv
  <2>1. CASE s = r
    <3>1. req'[r].account # None => users'[req'[r].account] # None
      BY <1>1, <1>4, <1>6 DEF RequestInv, NoRequest, Exists
    <3>2. req'[r].outdated => req'[r].op = "login" /\ req'[r].account \in Account
      BY <1>1 DEF RequestInv, NoRequest
    <3>3. session'[r] = "none" /\ pc'[r] = "ended"
      BY <1>1, <1>2
    <3> QED
      BY <2>1, <3>1, <3>2, <3>3 DEF RequestInv, Exists
  <2>2. CASE s # r
    <3>1. pc'[s] = pc[s] /\ req'[s] = req[s] /\ session'[s] = session[s]
      BY <2>2, <1>1
    <3>2. pc[s] = "logout" => /\ req[s].target \in Request /\ req'[req[s].target] = req[req[s].target]
                              /\ session'[req[s].target] = session[req[s].target]
      BY <1>1, <1>2 DEF RequestInv
    <3>3. req[s].account # None => users'[req[s].account] # None
      BY <1>4, <1>6 DEF RequestInv, Exists
    <3> QED
      BY <3>1, <3>2, <3>3, <1>1 DEF RequestInv, Exists
  <2> QED
    BY <2>1, <2>2
<1>9. \A s \in Request : pc'[s] # "ended" \/ req'[s].outdated =>
        /\ req'[s] = req[s]
        /\ req[s].account # None =>
             /\ users'[req[s].account] = users[req[s].account]
             /\ lastSet'[req[s].account] = lastSet[req[s].account]
  BY <1>1, <1>4, <1>6 DEF RequestInv, NoRequest
<1>10. OutdatedInv'
  <2>1. \A s \in Request : req[s].outdated => req[s].account # None
    BY NoneFacts DEF RequestInv
  <2>2. \A s \in Request : req'[s].outdated =>
          /\ req'[s] = req[s] /\ req[s].outdated
          /\ users'[req[s].account] = users[req[s].account]
    BY <1>9, <2>1
  <2> QED
    BY <2>2 DEF OutdatedInv
<1>11. LoginInv'
  BY <1>1, <1>9, NoneFacts DEF LoginInv, RequestInv
<1>12. \A b : LoggingIn(b)' = LoggingIn(b) /\ ActiveSessions(b)' = ActiveSessions(b)
  BY <1>1, <1>2 DEF LoggingIn, ActiveSessions, GetActiveSession
<1>13. ChangeInv'
  <2> SUFFICES ASSUME NEW s \in Request PROVE ChangeInv!(s)'
    BY DEF ChangeInv
  <2>1. \A t \in ending[s] : t \in Request /\ (session[t] # "none" => t # r)
    BY <1>2 DEF TypeOK
  <2> QED
    BY <2>1, <1>1, <1>2, <1>12 DEF ChangeInv
<1>14. AccountsAreUnique'
  BY <1>4 DEF AccountsAreUnique, Unique, Exists
<1>15. PasswordIsLastSet'
  <2> SUFFICES ASSUME NEW a \in Account, Exists(a)' PROVE users'[a].hash.password = lastSet'[a] \/ RehashedLate(a)'
    BY DEF PasswordIsLastSet
  <2>1. CASE Exists(a)
    <3>1. \A s \in Request : req[s].outdated => req'[s] = req[s]
      BY <1>1 DEF RequestInv
    <3> QED
      BY <2>1, <3>1, <1>1, <1>4, RehashedLateStays DEF PasswordIsLastSet
  <2>2. CASE ~Exists(a)
    BY <2>2, <1>2, <1>4 DEF HashPassword, Exists
  <2> QED
    BY <2>1, <2>2
<1>16. OldSessionsAreOver'
  <2> SUFFICES ASSUME NEW t \in Request, session[t] = "active" PROVE OldSessionsAreOver!(t)'
    BY <1>1 DEF OldSessionsAreOver
  <2>1. t # r /\ req[t].account \in Account /\ Exists(req[t].account)
    BY <1>2, NoneFacts DEF RequestInv
  <2> QED
    BY <2>1, <1>1, <1>4 DEF OldSessionsAreOver
<1> QED
  BY <1>7, <1>8, <1>10, <1>11, <1>13, <1>14, <1>15, <1>16

-----------------------------------------------------------------------------
(* Login.                                                                  *)

\* A login comes in: what it has read is what the account's row holds.
LEMMA LoginKeeps ==
  ASSUME AuthInv, NEW r \in Request, NEW n \in Name, NEW p \in Password \cup {Dummy}, Login(r, n, p)
  PROVE  AuthInv'
<1> USE DEF AuthInv
<1> DEFINE found == {a \in Account : Exists(a) /\ users[a].name = n}
           request(a) == [NoRequest EXCEPT !.op = "login", !.account = a, !.password = p,
                                           !.outdated = NeedsRehash(StoredHash(a))]
<1>1. PICK a \in (IF found = {} THEN {None} ELSE found) :
        /\ Arrive(r, request(a), AfterVerify(a, p))
        /\ overtaken' = IF ChangeInFlight(a) THEN overtaken \cup {r} ELSE overtaken
        /\ UNCHANGED <<engine, users, session, ending, tokens, lastSet>>
  BY DEF Login
<1> DEFINE next == AfterVerify(a, p)
<1>2. /\ pc[r] = "idle" /\ pc'[r] = next /\ pc' = [pc EXCEPT ![r] = next]
      /\ req'[r] = IF next = "ended" THEN NoRequest ELSE request(a)
      /\ \A s \in Request : s # r => pc'[s] = pc[s] /\ req'[s] = req[s]
      /\ session[r] = "none" /\ req[r] = NoRequest /\ ending[r] = {}
  BY <1>1, ArriveFacts DEF RequestInv, ChangeInv
<1>3. users \in [Account -> User \cup {None}]
  BY DEF TypeOK
<1>4. next \in {"ended", "rehash", "open"}
  BY DEF AfterVerify
<1>5. ASSUME next # "ended"
      PROVE  /\ a \in Account /\ Exists(a) /\ p = users[a].hash.password
             /\ req'[r] = request(a) /\ request(a) \in Requests
             /\ request(a).op = "login" /\ request(a).account = a /\ request(a).password = p
             /\ request(a).outdated = users[a].hash.outdated
             /\ next = "rehash" => request(a).outdated
  <2>1. a # None /\ VerifyPassword(p, StoredHash(a))
    BY <1>5 DEF AfterVerify
  <2>2. a \in Account /\ Exists(a)
    BY <2>1
  <2>3. users[a] \in User /\ StoredHash(a) = users[a].hash /\ users[a].hash \in Hash
    BY <2>1, <2>2, <1>3 DEF StoredHash, Exists, User
  <2>4. users[a].hash.outdated \in BOOLEAN
    BY <2>3 DEF Hash
  <2>5. request(a) \in Requests
    BY <2>2, <2>3, <2>4 DEF Requests, NoRequest, NeedsRehash
  <2>6. next = "rehash" => request(a).outdated
    BY DEF AfterVerify, NoRequest
  <2> QED
    BY <1>2, <1>5, <2>1, <2>2, <2>3, <2>5, <2>6 DEF VerifyPassword, NeedsRehash, NoRequest
<1>6. req'[r] \in Requests
  BY <1>2, <1>5, NoneFacts
<1>7. TypeOK'
  <2>1. pc' \in [Request -> Phase]
    BY <1>2, <1>4 DEF TypeOK, Phase
  <2>2. req' \in [Request -> Requests]
    BY <1>1, <1>2, <1>5, NoneFacts DEF TypeOK, Arrive, Requests
  <2> QED
    BY <2>1, <2>2, <1>1 DEF TypeOK, Requests, Exists
<1>8. RequestInv'
  <2> SUFFICES ASSUME NEW s \in Request PROVE RequestInv!(s)'
    BY DEF RequestInv
  <2>1. CASE s = r /\ next # "ended"
    BY <2>1, <1>1, <1>2, <1>4, <1>5 DEF RequestInv, Exists
  <2>2. CASE s = r /\ next = "ended"
    BY <2>2, <1>1, <1>2 DEF RequestInv, NoRequest
  <2>3. CASE s # r
    <3>1. pc'[s] = pc[s] /\ req'[s] = req[s] /\ session'[s] = session[s] /\ users' = users
      BY <2>3, <1>1, <1>2
    <3>2. pc[s] = "logout" => req[s].target \in Request /\ req'[req[s].target] = req[req[s].target]
      BY <1>2 DEF RequestInv
    <3> QED
      BY <3>1, <3>2, <1>1 DEF RequestInv, Exists
  <2> QED
    BY <2>1, <2>2, <2>3
<1>9. \A s \in Request : req'[s].outdated =>
        \/ s # r /\ req'[s] = req[s] /\ req[s].outdated
        \/ /\ s = r /\ req'[r].account = a /\ req'[r].password = users[a].hash.password
           /\ users[a].hash.outdated
  <2>1. CASE next = "ended"
    BY <2>1, <1>2 DEF NoRequest
  <2>2. CASE next # "ended"
    BY <2>2, <1>2, <1>5
  <2> QED
    BY <2>1, <2>2
<1>10. OutdatedInv'
  <2> SUFFICES ASSUME NEW s \in Request, req'[s].outdated
               PROVE  /\ users[req'[s].account].hash.outdated =>
                           req'[s].password = users[req'[s].account].hash.password
                      /\ \A t \in Request : req'[t].outdated /\ req'[t].account = req'[s].account =>
                           req'[t].password = req'[s].password
    BY <1>1 DEF OutdatedInv
  <2> QED
    BY <1>9 DEF OutdatedInv
<1>11. LoginInv'
  <2> SUFFICES ASSUME NEW s \in Request, pc'[s] \in {"rehash", "open"}
               PROVE  \/ req'[s].password = lastSet[req'[s].account]
                      \/ s \in overtaken'
                      \/ users[req'[s].account].hash.password # lastSet[req'[s].account]
    BY <1>1 DEF LoginInv
  <2>1. CASE s = r
    BY <2>1, <1>2, <1>5
  <2>2. CASE s # r
    BY <2>2, <1>1, <1>2 DEF LoginInv
  <2> QED
    BY <2>1, <2>2
<1>12. ChangeInv'
  <2> SUFFICES ASSUME NEW s \in Request PROVE ChangeInv!(s)'
    BY DEF ChangeInv
  <2>1. \A t \in ending[s] : t \in Request /\ (session[t] # "none" => t # r)
    BY <1>2 DEF TypeOK
  <2>2. pc'[s] = "change" => pc[s] = "change" /\ req'[s] = req[s]
    BY <1>2, <1>4
  <2>4. ASSUME pc[s] = "change", req'[s] = req[s] PROVE LoggingIn(req[s].account)' \subseteq overtaken'
    <3> SUFFICES ASSUME NEW t \in Request, pc'[t] \in {"rehash", "open"}, req'[t].account = req[s].account
                 PROVE  t \in overtaken'
      BY <2>4 DEF LoggingIn
    <3>1. CASE t = r
      <4>1. a = req[s].account
        BY <3>1, <1>2, <1>5
      <4> QED
        BY <3>1, <4>1, <2>4, <1>1 DEF ChangeInFlight
    <3>2. CASE t # r
      BY <3>2, <2>4, <1>1, <1>2 DEF ChangeInv, LoggingIn
    <3> QED
      BY <3>1, <3>2
  <2>5. CASE pc'[s] # "change"
    BY <2>5, <1>1, <1>2 DEF ChangeInv
  <2>6. CASE pc'[s] = "change"
    <3>1. ActiveSessions(req[s].account)' \subseteq ending[s] \cup overtaken
      BY <2>2, <2>6, <1>1, <1>2 DEF ActiveSessions, GetActiveSession, ChangeInv
    <3>2. \A t \in ending[s] : session[t] # "none" /\ req'[t].account = req[s].account
      BY <2>1, <2>2, <2>6, <1>2 DEF ChangeInv
    <3> QED
      BY <2>2, <2>4, <2>6, <3>1, <3>2, <1>1
  <2> QED
    BY <2>5, <2>6
<1>13. AccountsAreUnique'
  BY <1>1 DEF AccountsAreUnique, Exists
<1>14. PasswordIsLastSet'
  <2>1. \A s \in Request : req[s].outdated => req'[s] = req[s]
    BY <1>2 DEF NoRequest
  <2>2. \A b \in Account : RehashedLate(b) => RehashedLate(b)'
    BY <2>1, <1>1, RehashedLateStays
  <2> QED
    BY <2>2, <1>1 DEF PasswordIsLastSet, Exists
<1>15. OldSessionsAreOver'
  BY <1>1, <1>2 DEF OldSessionsAreOver
<1> QED
  BY <1>7, <1>8, <1>10, <1>11, <1>12, <1>13, <1>14, <1>15

\* The rehash: who has read an outdated hash has verified the one password it
\* can be of, so that no other excuse than a late rehash is needed.
LEMMA RehashKeeps ==
  ASSUME AuthInv, NEW r \in Request, Rehash(r)
  PROVE  AuthInv'
<1> USE DEF AuthInv
<1> DEFINE a == req[r].account
<1>1. /\ pc[r] = "rehash" /\ pc'[r] = "open" /\ pc' = [pc EXCEPT ![r] = "open"]
      /\ \A s \in Request : s # r => pc'[s] = pc[s]
      /\ UNCHANGED <<req, engine, session, ending, tokens, lastSet, overtaken>>
  <2>1. /\ pc[r] = "rehash" /\ pc'[r] = "open" /\ pc' = [pc EXCEPT ![r] = "open"]
        /\ \A s \in Request : s # r => pc'[s] = pc[s]
    BY GotoFacts DEF Rehash
  <2>2. req' = req
    BY DEF Rehash, Goto
  <2> QED
    BY <2>1, <2>2 DEF Rehash
<1>2. /\ req[r].op = "login" /\ a \in Account /\ Exists(a) /\ req[r].outdated
      /\ session[r] = "none" /\ ending[r] = {}
  BY <1>1, NoneFacts DEF RequestInv, ChangeInv
<1>3. /\ users \in [Account -> User \cup {None}] /\ users[a] \in User
      /\ req[r].password \in Password \cup {Dummy, None}
  BY <1>2 DEF TypeOK, Exists
<1>4. req[r].password \in Password \cup {Dummy}
  BY <1>1 DEF RequestInv
<1>5. /\ users'[a] = [users[a] EXCEPT !.hash = HashPassword(req[r].password)]
      /\ users'[a] \in User /\ users'[a].hash.password = req[r].password /\ ~users'[a].hash.outdated
      /\ users'[a].name = users[a].name /\ users'[a].email = users[a].email
      /\ \A b \in Account : b # a => users'[b] = users[b]
      /\ users' \in [Account -> User \cup {None}]
  BY <1>2, <1>3, <1>4 DEF Rehash, HashPassword, User, Hash
<1>6. \A b \in Account : Exists(b)' = Exists(b)
  BY <1>2, <1>5, NoneFacts DEF Exists
<1>7. TypeOK'
  BY <1>1, <1>5, <1>6 DEF TypeOK, Phase
<1>8. \A s \in Request : req[s] \in Requests
  BY DEF TypeOK, Requests
<1>9. RequestInv'
  <2> SUFFICES ASSUME NEW s \in Request PROVE RequestInv!(s)'
    BY DEF RequestInv
  <2>1. req[s].account # None => Exists(req[s].account)'
    BY <1>1, <1>6, <1>8 DEF RequestInv, Requests, Exists
  <2> QED
    BY <2>1, <1>1, <1>2 DEF RequestInv
<1>10. \A s \in Request : req[s].outdated /\ req[s].account = a => req[s].password = req[r].password
  BY <1>2 DEF OutdatedInv
<1>11. OutdatedInv'
  <2> SUFFICES ASSUME NEW s \in Request, req[s].outdated
               PROVE  users'[req[s].account].hash.outdated =>
                        req[s].password = users'[req[s].account].hash.password
    BY <1>1 DEF OutdatedInv
  <2>1. req[s].account \in Account
    BY DEF RequestInv
  <2> QED
    BY <2>1, <1>5, <1>10 DEF OutdatedInv
<1>12. \A b \in Account : Exists(b) /\ users[b].hash.password # lastSet[b] =>
         users'[b].hash.password = users[b].hash.password
  <2> SUFFICES ASSUME users[a].hash.password # lastSet[a]
               PROVE  req[r].password = users[a].hash.password
    BY <1>5
  <2>1. RehashedLate(a)
    BY <1>2 DEF PasswordIsLastSet
  <2>2. PICK s \in overtaken : req[s].account = a /\ req[s].outdated /\ req[s].password = users[a].hash.password
    BY <2>1 DEF RehashedLate
  <2> QED
    BY <2>2, <1>10 DEF TypeOK
<1>13. \A s \in Request :
         req[s].op = "login" /\ req[s].account \in Account
           /\ users[req[s].account].hash.password # lastSet[req[s].account] =>
         users'[req[s].account].hash.password # lastSet[req[s].account]
  BY <1>12, NoneFacts DEF RequestInv
<1>14. LoginInv'
  <2> SUFFICES ASSUME NEW s \in Request, pc[s] \in {"rehash", "open"}
               PROVE  \/ req[s].password = lastSet[req[s].account]
                      \/ s \in overtaken
                      \/ users'[req[s].account].hash.password # lastSet[req[s].account]
    BY <1>1 DEF LoginInv
  <2> QED
    BY <1>13 DEF LoginInv, RequestInv
<1>15. ChangeInv'
  <2>1. \A b : LoggingIn(b)' = LoggingIn(b) /\ ActiveSessions(b)' = ActiveSessions(b)
    BY <1>1 DEF LoggingIn, ActiveSessions, GetActiveSession
  <2> QED
    BY <2>1, <1>1, <1>2 DEF ChangeInv
<1>16. AccountsAreUnique'
  <2>1. \A b \in Account : Exists(b) => users'[b].name = users[b].name /\ users'[b].email = users[b].email
    BY <1>5
  <2> QED
    BY <2>1, <1>6 DEF AccountsAreUnique
<1>17. PasswordIsLastSet'
  <2> SUFFICES ASSUME NEW b \in Account, Exists(b), users'[b].hash.password # lastSet[b]
               PROVE  RehashedLate(b)'
    BY <1>1, <1>6 DEF PasswordIsLastSet
  <2>1. CASE users'[b].hash.password = users[b].hash.password
    <3>1. PICK s \in overtaken : req[s].account = b /\ req[s].outdated /\ req[s].password = users[b].hash.password
      BY <2>1 DEF PasswordIsLastSet, RehashedLate
    <3> QED
      BY <2>1, <3>1, <1>1 DEF RehashedLate
  <2>2. CASE users'[b].hash.password # users[b].hash.password
    <3>1. b = a /\ users[a].hash.password = lastSet[a] /\ req[r].password # lastSet[a]
      BY <2>2, <1>5, <1>12
    <3>2. r \in overtaken
      BY <3>1, <1>1 DEF LoginInv
    <3> QED
      BY <3>1, <3>2, <1>1, <1>2, <1>5 DEF RehashedLate
  <2> QED
    BY <2>1, <2>2
<1>18. OldSessionsAreOver'
  <2> SUFFICES ASSUME NEW t \in Request, session[t] = "active"
               PROVE  \/ req[t].password = lastSet[req[t].account]
                      \/ t \in overtaken
                      \/ users'[req[t].account].hash.password # lastSet[req[t].account]
    BY <1>1 DEF OldSessionsAreOver
  <2> QED
    BY <1>13 DEF OldSessionsAreOver, RequestInv
<1> QED
  BY <1>7, <1>9, <1>11, <1>14, <1>15, <1>16, <1>17, <1>18

\* The session opens; the login's excuses become the session's.
LEMMA OpenKeeps ==
  ASSUME AuthInv, NEW r \in Request, OpenSession(r)
  PROVE  AuthInv'
<1> USE DEF AuthInv
<1>1. /\ pc[r] = "open" /\ req[r].op = "login" /\ req[r].account \in Account
      /\ Exists(req[r].account)
  BY GotoFacts, NoneFacts DEF OpenSession, RequestInv
<1>2. /\ pc'[r] = "ended" /\ pc' = [pc EXCEPT ![r] = "ended"] /\ req' = req
      /\ \A s \in Request : s # r => pc'[s] = pc[s]
      /\ UNCHANGED <<engine, users, ending, lastSet, overtaken>>
      /\ tokens' = tokens \cup {req[r].account}
  <2>1. /\ pc'[r] = "ended" /\ pc' = [pc EXCEPT ![r] = "ended"]
        /\ \A s \in Request : s # r => pc'[s] = pc[s]
    BY GotoFacts DEF OpenSession
  <2>2. req' = req
    BY <1>1 DEF OpenSession, Goto
  <2> QED
    BY <2>1, <2>2 DEF OpenSession
<1>3. /\ session' = [session EXCEPT ![r] = "active"] /\ session'[r] = "active"
      /\ \A s \in Request : s # r => session'[s] = session[s]
      /\ session[r] = "none" /\ ending[r] = {}
  BY <1>1 DEF OpenSession, TypeOK, RequestInv, ChangeInv
<1>4. TypeOK'
  BY <1>1, <1>2, <1>3 DEF TypeOK, Phase, Exists
<1>5. RequestInv'
  <2> SUFFICES ASSUME NEW s \in Request PROVE RequestInv!(s)'
    BY DEF RequestInv
  <2>1. pc[s] = "logout" => session'[req[s].target] # "none"
    BY <1>3 DEF RequestInv
  <2> QED
    BY <2>1, <1>1, <1>2, <1>3 DEF RequestInv, Exists
<1>6. OutdatedInv' /\ LoginInv'
  BY <1>2 DEF OutdatedInv, LoginInv
<1>7. ChangeInv'
  <2> SUFFICES ASSUME NEW s \in Request PROVE ChangeInv!(s)'
    BY DEF ChangeInv
  <2>1. CASE pc[s] # "change"
    BY <2>1, <1>2 DEF ChangeInv
  <2>2. CASE pc[s] = "change"
    <3>1. LoggingIn(req[s].account)' \subseteq LoggingIn(req[s].account)
      BY <1>2 DEF LoggingIn
    <3>2. ActiveSessions(req[s].account)' \subseteq ActiveSessions(req[s].account) \cup LoggingIn(req[s].account)
      BY <1>1, <1>2, <1>3 DEF ActiveSessions, GetActiveSession, LoggingIn
    <3>3. \A t \in ending[s] : session'[t] # "none"
      BY <2>2, <1>3 DEF ChangeInv, TypeOK
    <3>4. /\ LoggingIn(req[s].account) \subseteq overtaken
          /\ ActiveSessions(req[s].account) \subseteq ending[s] \cup overtaken
          /\ \A t \in ending[s] : req[t].account = req[s].account
      BY <2>2 DEF ChangeInv
    <3>5. pc'[s] = "change"
      BY <2>2, <1>1, <1>2
    <3> QED
      BY <3>1, <3>2, <3>3, <3>4, <3>5, <1>2
  <2> QED
    BY <2>1, <2>2
<1>8. AccountsAreUnique' /\ PasswordIsLastSet'
  BY <1>2 DEF AccountsAreUnique, PasswordIsLastSet, RehashedLate, Exists
<1>9. OldSessionsAreOver'
  <2> SUFFICES ASSUME NEW t \in Request, session'[t] = "active"
               PROVE  \/ req[t].password = lastSet[req[t].account]
                      \/ t \in overtaken
                      \/ users[req[t].account].hash.password # lastSet[req[t].account]
    BY <1>2 DEF OldSessionsAreOver
  <2>1. CASE t = r
    BY <2>1, <1>1 DEF LoginInv
  <2>2. CASE t # r
    BY <2>2, <1>3 DEF OldSessionsAreOver
  <2> QED
    BY <2>1, <2>2
<1> QED
  BY <1>4, <1>5, <1>6, <1>7, <1>8, <1>9

-----------------------------------------------------------------------------
(* Logout, change of password, failure.                                    *)

\* A request that is no login leaves, and nothing but its own record and
\* sessions that are over by its step change.
LEMMA LeavingKeeps ==
  ASSUME AuthInv, NEW r \in Request, NEW from, Goto(r, from, "ended"), from \notin {"idle", "ended"},
         session' \in [Request -> {"none", "active", "ended"}],
         \A t \in Request : session'[t] = session[t] \/ (session[t] # "none" /\ session'[t] = "ended"),
         ending' = [ending EXCEPT ![r] = {}],
         UNCHANGED <<engine, users, tokens, lastSet, overtaken>>
  PROVE  AuthInv'
<1> USE DEF AuthInv
<1>1. /\ pc[r] = from /\ pc'[r] = "ended" /\ pc' = [pc EXCEPT ![r] = "ended"]
      /\ \A s \in Request : s # r => pc'[s] = pc[s] /\ req'[s] = req[s]
      /\ req'[r] = IF req[r].op # "login" THEN NoRequest ELSE req[r]
  BY GotoFacts
<1>2. /\ session[r] = "none" /\ session'[r] = "none"
      /\ \A t \in Request : session'[t] = "none" <=> session[t] = "none"
      /\ \A t \in Request : session'[t] = "active" => session[t] = "active"
      /\ \A t \in Request : session[t] # "none" => t # r /\ req'[t] = req[t]
  BY <1>1 DEF RequestInv
<1>3. TypeOK'
  <2>1. req' \in [Request -> Requests]
    BY NoneFacts DEF TypeOK, Goto, Requests
  <2>2. pc' \in [Request -> Phase] /\ ending' \in [Request -> SUBSET Request]
    BY <1>1 DEF TypeOK, Phase
  <2> QED
    BY <2>1, <2>2 DEF TypeOK, Requests, Exists
<1>4. RequestInv'
  <2> SUFFICES ASSUME NEW s \in Request PROVE RequestInv!(s)'
    BY DEF RequestInv
  <2>1. CASE s = r
    BY <2>1, <1>1, <1>2 DEF RequestInv, NoRequest, Exists
  <2>2. CASE s # r
    <3>1. pc'[s] = pc[s] /\ req'[s] = req[s] /\ users' = users
      BY <2>2, <1>1
    <3>2. pc[s] = "logout" => /\ req[s].target \in Request /\ req'[req[s].target] = req[req[s].target]
                              /\ session'[req[s].target] # "none"
      BY <1>2 DEF RequestInv
    <3> QED
      BY <3>1, <3>2, <1>2 DEF RequestInv, Exists
  <2> QED
    BY <2>1, <2>2
<1>5. \A s \in Request : req[s].outdated => req'[s] = req[s]
  BY <1>1 DEF RequestInv
<1>6. \A s \in Request : req'[s].outdated => req'[s] = req[s]
  BY <1>1 DEF NoRequest
<1>7. OutdatedInv'
  BY <1>6 DEF OutdatedInv
<1>8. LoginInv'
  BY <1>1 DEF LoginInv
<1>9. ChangeInv'
  <2> SUFFICES ASSUME NEW s \in Request PROVE ChangeInv!(s)'
    BY DEF ChangeInv
  <2>1. CASE s = r
    BY <2>1, <1>1 DEF ChangeInv, TypeOK
  <2>2. CASE s # r
    <3>1. pc'[s] = pc[s] /\ req'[s] = req[s] /\ ending'[s] = ending[s] /\ ending[s] \subseteq Request
      BY <2>2, <1>1 DEF TypeOK
    <3>2. /\ LoggingIn(req[s].account)' \subseteq LoggingIn(req[s].account)
          /\ ActiveSessions(req[s].account)' \subseteq ActiveSessions(req[s].account)
      BY <3>1, <1>1, <1>2 DEF LoggingIn, ActiveSessions, GetActiveSession
    <3> QED
      BY <3>1, <3>2, <1>2 DEF ChangeInv
  <2> QED
    BY <2>1, <2>2
<1>10. AccountsAreUnique'
  BY DEF AccountsAreUnique, Exists
<1>11. PasswordIsLastSet'
  BY <1>5, RehashedLateStays DEF PasswordIsLastSet, Exists
<1>12. OldSessionsAreOver'
  BY <1>2 DEF OldSessionsAreOver
<1> QED
  BY <1>3, <1>4, <1>7, <1>8, <1>9, <1>10, <1>11, <1>12

LEMMA LogoutCommitKeeps ==
  ASSUME AuthInv, NEW r \in Request, LogoutCommit(r)
  PROVE  AuthInv'
<1>1. /\ Goto(r, "logout", "ended") /\ pc[r] = "logout"
      /\ session' = [session EXCEPT ![req[r].target] = "ended"]
  BY DEF LogoutCommit, Goto
<1>2. req[r].target \in Request /\ session[req[r].target] # "none"
  BY <1>1 DEF AuthInv, RequestInv
<1>3. session \in [Request -> {"none", "active", "ended"}]
  BY DEF AuthInv, TypeOK
<1>4. ending' = ending /\ ending[r] = {} /\ ending \in [Request -> SUBSET Request]
  BY <1>1 DEF LogoutCommit, AuthInv, ChangeInv, TypeOK
<1>5. ending' = [ending EXCEPT ![r] = {}]
  BY <1>4
<1>6. /\ session' \in [Request -> {"none", "active", "ended"}]
      /\ \A t \in Request : session'[t] = session[t] \/ (session[t] # "none" /\ session'[t] = "ended")
  BY <1>1, <1>2, <1>3
<1>7. UNCHANGED <<engine, users, tokens, lastSet, overtaken>>
  BY DEF LogoutCommit
<1> QED
  BY <1>1, <1>5, <1>6, <1>7, LeavingKeeps

LEMMA FailsKeeps ==
  ASSUME AuthInv, NEW r \in Request, Fails(r)
  PROVE  AuthInv'
<1>1. /\ Goto(r, pc[r], "ended") /\ pc[r] \notin {"idle", "ended"}
      /\ ending' = [ending EXCEPT ![r] = {}] /\ session' = session
      /\ UNCHANGED <<engine, users, tokens, lastSet, overtaken>>
  BY DEF Fails
<1>2. session' \in [Request -> {"none", "active", "ended"}]
  BY <1>1 DEF AuthInv, TypeOK
<1> QED
  BY <1>1, <1>2, LeavingKeeps

\* The sessions there are will be ended, and whoever is logging in is overtaken.
LEMMA EndSessionsKeeps ==
  ASSUME AuthInv, NEW r \in Request, EndSessions(r)
  PROVE  AuthInv'
<1> USE DEF AuthInv
<1> DEFINE a == req[r].account
<1>1. pc[r] = "end" /\ req[r].op = "change" /\ a \in Account /\ session[r] = "none"
  BY GotoFacts DEF EndSessions, RequestInv
<1>2. /\ pc'[r] = "change" /\ pc' = [pc EXCEPT ![r] = "change"] /\ req' = req
      /\ \A s \in Request : s # r => pc'[s] = pc[s]
  <2>1. /\ pc'[r] = "change" /\ pc' = [pc EXCEPT ![r] = "change"]
        /\ \A s \in Request : s # r => pc'[s] = pc[s]
    BY GotoFacts DEF EndSessions
  <2>2. req' = req
    BY DEF EndSessions, Goto
  <2> QED
    BY <2>1, <2>2
<1>3. /\ ending' = [ending EXCEPT ![r] = ActiveSessions(a)] /\ ending'[r] = ActiveSessions(a)
      /\ \A s \in Request : s # r => ending'[s] = ending[s]
      /\ overtaken' = overtaken \cup LoggingIn(a)
      /\ UNCHANGED <<engine, users, session, tokens, lastSet>>
  BY DEF EndSessions, TypeOK
<1>4. ActiveSessions(a) \subseteq Request /\ LoggingIn(a) \subseteq Request
  BY DEF ActiveSessions, GetActiveSession, LoggingIn
<1>5. TypeOK'
  BY <1>2, <1>3, <1>4 DEF TypeOK, Phase, Exists
<1>6. RequestInv'
  BY <1>1, <1>2, <1>3 DEF RequestInv, Exists
<1>7. OutdatedInv' /\ LoginInv'
  BY <1>2, <1>3 DEF OutdatedInv, LoginInv
<1>8. \A b : LoggingIn(b)' = LoggingIn(b) /\ ActiveSessions(b)' = ActiveSessions(b)
  BY <1>1, <1>2, <1>3 DEF LoggingIn, ActiveSessions, GetActiveSession
<1>9. \A t \in ActiveSessions(a) : session[t] # "none" /\ req[t].account = a
  BY DEF ActiveSessions, GetActiveSession
<1>10. ChangeInv'
  <2> SUFFICES ASSUME NEW s \in Request PROVE ChangeInv!(s)'
    BY DEF ChangeInv
  <2>1. CASE s = r
    BY <2>1, <1>2, <1>3, <1>8, <1>9
  <2>2. CASE s # r
    BY <2>2, <1>2, <1>3, <1>8 DEF ChangeInv
  <2> QED
    BY <2>1, <2>2
<1>11. AccountsAreUnique' /\ OldSessionsAreOver'
  BY <1>2, <1>3 DEF AccountsAreUnique, OldSessionsAreOver, Exists
<1>12. PasswordIsLastSet'
  BY <1>2, <1>3, RehashedLateStays DEF PasswordIsLastSet, Exists
<1> QED
  BY <1>5, <1>6, <1>7, <1>10, <1>11, <1>12

\* The new password is the last one set; the sessions that stay active, and the
\* logins still to open one, overlap the change.
LEMMA ChangeCommitKeeps ==
  ASSUME AuthInv, NEW r \in Request, ChangeCommit(r)
  PROVE  AuthInv'
<1> USE DEF AuthInv
<1> DEFINE a == req[r].account
<1>1. /\ pc[r] = "change" /\ req[r].op = "change" /\ a \in Account /\ Exists(a)
      /\ req[r].password \in Password /\ session[r] = "none" /\ ~req[r].outdated
  BY GotoFacts, NoneFacts DEF ChangeCommit, RequestInv
<1>2. /\ pc'[r] = "ended" /\ pc' = [pc EXCEPT ![r] = "ended"] /\ req'[r] = NoRequest
      /\ \A s \in Request : s # r => pc'[s] = pc[s] /\ req'[s] = req[s]
  BY <1>1, GotoFacts DEF ChangeCommit
<1>3. UNCHANGED <<engine, tokens, overtaken>> /\ ending' = [ending EXCEPT ![r] = {}]
  BY DEF ChangeCommit
<1>4. users \in [Account -> User \cup {None}] /\ users[a] \in User /\ lastSet \in [Account -> Password \cup {None}]
  BY <1>1 DEF TypeOK, Exists
<1>5. /\ users'[a].hash.password = req[r].password /\ lastSet'[a] = req[r].password
      /\ ~users'[a].hash.outdated /\ users'[a] \in User
      /\ users'[a].name = users[a].name /\ users'[a].email = users[a].email
      /\ \A b \in Account : b # a => users'[b] = users[b] /\ lastSet'[b] = lastSet[b]
      /\ users' \in [Account -> User \cup {None}] /\ lastSet' \in [Account -> Password \cup {None}]
  BY <1>1, <1>4 DEF ChangeCommit, HashPassword, User, Hash
<1>6. \A b \in Account : Exists(b)' = Exists(b)
  BY <1>1, <1>5, NoneFacts DEF Exists
<1>7. /\ session' \in [Request -> {"none", "active", "ended"}]
      /\ \A t \in Request : session'[t] = IF t \in ending[r] THEN "ended" ELSE session[t]
      /\ \A t \in Request : session'[t] # "none" <=> session[t] # "none"
      /\ \A t \in Request : session[t] # "none" => t # r /\ req'[t] = req[t]
  <2>1. \A t \in ending[r] : session[t] # "none"
    BY <1>1 DEF ChangeInv
  <2>2. \A t \in Request : session'[t] = IF t \in ending[r] THEN "ended" ELSE session[t]
    BY DEF ChangeCommit
  <2>3. session' \in [Request -> {"none", "active", "ended"}]
    BY <2>2 DEF ChangeCommit, TypeOK
  <2> QED
    BY <2>1, <2>2, <2>3, <1>1, <1>2
<1>8. TypeOK'
  <2>1. req' \in [Request -> Requests]
    BY NoneFacts DEF TypeOK, ChangeCommit, Goto, Requests
  <2>2. pc' \in [Request -> Phase] /\ ending' \in [Request -> SUBSET Request]
    BY <1>2, <1>3 DEF TypeOK, Phase
  <2> QED
    BY <2>1, <2>2, <1>3, <1>5, <1>6, <1>7 DEF TypeOK, Requests
<1>9. \A s \in Request : req[s].account \in Account \cup {None}
  BY DEF TypeOK
<1>10. RequestInv'
  <2> SUFFICES ASSUME NEW s \in Request PROVE RequestInv!(s)'
    BY DEF RequestInv
  <2>1. CASE s = r
    BY <2>1, <1>1, <1>2, <1>7 DEF RequestInv, NoRequest
  <2>2. CASE s # r
    <3>1. pc'[s] = pc[s] /\ req'[s] = req[s]
      BY <2>2, <1>2
    <3>2. pc[s] = "logout" => /\ req[s].target \in Request /\ req'[req[s].target] = req[req[s].target]
                              /\ session'[req[s].target] # "none"
      BY <1>7 DEF RequestInv
    <3>3. req[s].account # None => users'[req[s].account] # None
      BY <1>6, <1>9 DEF RequestInv, Exists
    <3> QED
      BY <3>1, <3>2, <3>3, <1>7 DEF RequestInv, Exists
  <2> QED
    BY <2>1, <2>2
<1>11. \A s \in Request : req[s].outdated => s # r /\ req'[s] = req[s]
  BY <1>1, <1>2
<1>12. \A s \in Request : req'[s].outdated => s # r /\ req'[s] = req[s] /\ req[s].account \in Account
  BY <1>2 DEF NoRequest, RequestInv
<1>13. OutdatedInv'
  BY <1>5, <1>12 DEF OutdatedInv
<1>14. LoginInv'
  <2> SUFFICES ASSUME NEW s \in Request, pc'[s] \in {"rehash", "open"}, s \notin overtaken
               PROVE  \/ req[s].password = lastSet'[req[s].account]
                      \/ users'[req[s].account].hash.password # lastSet'[req[s].account]
    BY <1>2, <1>3 DEF LoginInv
  <2>1. s # r /\ pc[s] \in {"rehash", "open"} /\ req[s].account \in Account
    BY <1>2 DEF RequestInv
  <2>2. req[s].account # a
    BY <2>1, <1>1 DEF ChangeInv, LoggingIn
  <2> QED
    BY <2>1, <2>2, <1>5 DEF LoginInv
<1>15. ChangeInv'
  <2> SUFFICES ASSUME NEW s \in Request PROVE ChangeInv!(s)'
    BY DEF ChangeInv
  <2>1. CASE s = r
    BY <2>1, <1>2, <1>3 DEF ChangeInv, TypeOK
  <2>2. CASE s # r
    <3>1. pc'[s] = pc[s] /\ req'[s] = req[s] /\ ending'[s] = ending[s] /\ ending[s] \subseteq Request
      BY <2>2, <1>2, <1>3 DEF TypeOK
    <3>2. /\ LoggingIn(req[s].account)' \subseteq LoggingIn(req[s].account)
          /\ ActiveSessions(req[s].account)' \subseteq ActiveSessions(req[s].account)
      <4>1. \A t \in Request : session'[t] = "active" => session[t] = "active"
        BY <1>7
      <4> QED
        BY <4>1, <3>1, <1>2, <1>7 DEF LoggingIn, ActiveSessions, GetActiveSession
    <3> QED
      BY <3>1, <3>2, <1>3, <1>7 DEF ChangeInv
  <2> QED
    BY <2>1, <2>2
<1>16. AccountsAreUnique'
  <2>1. \A b \in Account : Exists(b) => users'[b].name = users[b].name /\ users'[b].email = users[b].email
    BY <1>5
  <2> QED
    BY <2>1, <1>6 DEF AccountsAreUnique
<1>17. PasswordIsLastSet'
  <2> SUFFICES ASSUME NEW b \in Account, Exists(b), b # a
               PROVE  users'[b].hash.password = lastSet'[b] \/ RehashedLate(b)'
    BY <1>5, <1>6 DEF PasswordIsLastSet
  <2> QED
    BY <1>3, <1>5, <1>11, RehashedLateStays DEF PasswordIsLastSet
<1>18. OldSessionsAreOver'
  <2> SUFFICES ASSUME NEW t \in Request, session'[t] = "active", t \notin overtaken
               PROVE  \/ req[t].password = lastSet'[req[t].account]
                      \/ users'[req[t].account].hash.password # lastSet'[req[t].account]
    BY <1>3, <1>7 DEF OldSessionsAreOver
  <2>1. session[t] = "active" /\ t \notin ending[r] /\ req[t].account \in Account
    BY <1>7 DEF RequestInv
  <2>2. req[t].account # a
    BY <2>1, <1>1 DEF ChangeInv, ActiveSessions, GetActiveSession
  <2> QED
    BY <2>1, <2>2, <1>5 DEF OldSessionsAreOver
<1> QED
  BY <1>8, <1>10, <1>13, <1>14, <1>15, <1>16, <1>17, <1>18

-----------------------------------------------------------------------------
(* The theorems.                                                           *)

LEMMA AuthStarts ==
  ASSUME Init
  PROVE  AuthInv
<1>1. TypeOK
  <2>1. \A a \in Account : Exists(a) => users[a].hash.password \in Password
    BY DEF Init, Exists, User, Hash
  <2> QED
    BY <2>1, NoneFacts, AuthEngineAssumption DEF Init, TypeOK, Phase, Requests
<1>2. RequestInv
  BY DEF Init, RequestInv, NoRequest
<1>3. OutdatedInv /\ LoginInv /\ ChangeInv
  BY DEF Init, OutdatedInv, LoginInv, ChangeInv, NoRequest
<1>4. AccountsAreUnique
  BY DEF Init, AccountsAreUnique
<1>5. PasswordIsLastSet /\ OldSessionsAreOver
  BY DEF Init, PasswordIsLastSet, OldSessionsAreOver
<1> QED
  BY <1>1, <1>2, <1>3, <1>4, <1>5 DEF AuthInv

LEMMA AuthStep ==
  ASSUME AuthInv, [Next]_vars
  PROVE  AuthInv'
<1>1. CASE UNCHANGED vars
  BY <1>1 DEF vars, AuthInv, TypeOK, RequestInv, OutdatedInv, LoginInv, ChangeInv, AccountsAreUnique,
              PasswordIsLastSet, OldSessionsAreOver, Exists, RehashedLate, LoggingIn, ActiveSessions, GetActiveSession
<1>2. ASSUME NEW r \in Request, NEW n \in Name, NEW e \in Email, NEW p \in Password, Register(r, n, e, p)
      PROVE  AuthInv'
  <2> DEFINE request == [NoRequest EXCEPT !.op = "register", !.password = p,
                           !.user = [name |-> n, email |-> e, hash |-> HashPassword(p)]]
  <2>1. /\ request \in Requests /\ request.op # "login" /\ request.outdated = FALSE
        /\ request.account = None /\ request.user \in User /\ request.password \in Password
        /\ request.user.hash = HashPassword(request.password)
    BY DEF NoRequest, Requests, User, Hash, HashPassword
  <2>2. /\ Arrive(r, request, "ended") \/ Arrive(r, request, "insert")
        /\ UNCHANGED <<engine, users, session, ending, tokens, lastSet, overtaken>>
    BY <1>2 DEF Register
  <2> QED
    BY <2>1, <2>2, ArrivalKeeps
<1>3. ASSUME NEW r \in Request, NEW a \in Account, NEW t \in Request, Logout(r, a, t)
      PROVE  AuthInv'
  <2> DEFINE request == [NoRequest EXCEPT !.op = "logout", !.account = a, !.target = t]
  <2>1. /\ request \in Requests /\ request.op = "logout" /\ request.outdated = FALSE
        /\ request.account = a /\ request.target = t
    BY DEF NoRequest, Requests
  <2>2. /\ \/ Arrive(r, request, "ended")
           \/ Arrive(r, request, "logout") /\ req[t].account = a
        /\ Exists(a) /\ session[t] # "none"
        /\ UNCHANGED <<engine, users, session, ending, tokens, lastSet, overtaken>>
    BY <1>3 DEF Logout, GetCurrentUser, GetActiveSession, AuthInv, TypeOK
  <2> QED
    BY <2>1, <2>2, ArrivalKeeps
<1>4. ASSUME NEW r \in Request, NEW a \in Account, NEW old \in Password, NEW new \in Password,
             ChangePassword(r, a, old, new)
      PROVE  AuthInv'
  <2> DEFINE request == [NoRequest EXCEPT !.op = "change", !.account = a, !.password = new]
  <2>1. /\ request \in Requests /\ request.op = "change" /\ request.outdated = FALSE
        /\ request.account = a /\ request.password = new
    BY DEF NoRequest, Requests
  <2>2. /\ Arrive(r, request, "ended") \/ Arrive(r, request, "end")
        /\ Exists(a)
        /\ UNCHANGED <<engine, users, session, ending, tokens, lastSet, overtaken>>
    BY <1>4 DEF ChangePassword, GetCurrentUser, AuthInv, TypeOK
  <2> QED
    BY <2>1, <2>2, ArrivalKeeps
<1> QED
  BY <1>1, <1>2, <1>3, <1>4, LoginKeeps, InsertKeeps, RehashKeeps, OpenKeeps, LogoutCommitKeeps,
     EndSessionsKeeps, ChangeCommitKeeps, FailsKeeps DEF Next

\* The invariant that carries the others, for any number of requests.
THEOREM AuthInvariant == Spec => []AuthInv
<1>1. Init => AuthInv
  BY AuthStarts
<1>2. AuthInv /\ [Next]_vars => AuthInv'
  BY AuthStep
<1> QED
  BY <1>1, <1>2, PTL DEF Spec

\* Every variable of Auth keeps its type.
THEOREM AuthTypeCorrect == Spec => []TypeOK
<1>1. AuthInv => TypeOK
  BY DEF AuthInv
<1> QED
  BY <1>1, AuthInvariant, PTL

\* Names and e-mail addresses belong to one account, however registrations
\* overlap. (register, models.User)
THEOREM NamesAndAddressesAreUnique == Spec => []AccountsAreUnique
<1>1. AuthInv => AccountsAreUnique
  BY DEF AuthInv
<1> QED
  BY <1>1, AuthInvariant, PTL

\* An account opens to the password set last, or to the one that a login read
\* before the change and rehashed after it. (login, change_password)
THEOREM PasswordsAreLastSet == Spec => []PasswordIsLastSet
<1>1. AuthInv => PasswordIsLastSet
  BY DEF AuthInv
<1> QED
  BY <1>1, AuthInvariant, PTL

\* No session outlives a change of password but by the overlaps named.
\* (change_password)
THEOREM OldSessionsEnd == Spec => []OldSessionsAreOver
<1>1. AuthInv => OldSessionsAreOver
  BY DEF AuthInv
<1> QED
  BY <1>1, AuthInvariant, PTL

\* What a step may do to a session that is there.
LEMMA SessionStep ==
  ASSUME AuthInv, [Next]_vars, NEW t \in Request
  PROVE  /\ session[t] = "ended" => session'[t] = "ended"
         /\ session[t] = "active" /\ session'[t] # "active" =>
              \E r \in Request :
                /\ pc[r] # "ended" /\ pc'[r] = "ended" /\ req[r].account = req[t].account
                /\ req[r].op = "change" \/ (req[r].op = "logout" /\ req[r].target = t)
<1> USE DEF AuthInv
<1>1. ASSUME NEW r \in Request, OpenSession(r)
      PROVE  session[t] # "none" => session'[t] = session[t]
  <2>1. session[r] = "none"
    BY <1>1, GotoFacts DEF OpenSession, RequestInv
  <2> QED
    BY <1>1, <2>1 DEF OpenSession, TypeOK
<1>2. ASSUME NEW r \in Request, LogoutCommit(r), session[t] # "none", session'[t] # session[t]
      PROVE  /\ session'[t] = "ended"
             /\ pc[r] = "logout" /\ pc'[r] = "ended" /\ req[r].account = req[t].account
             /\ req[r].op = "logout" /\ req[r].target = t
  <2>1. pc[r] = "logout" /\ pc'[r] = "ended"
    BY <1>2, GotoFacts DEF LogoutCommit
  <2>2. req[r].target = t /\ session'[t] = "ended"
    BY <1>2 DEF LogoutCommit, TypeOK
  <2> QED
    BY <2>1, <2>2 DEF RequestInv
<1>3. ASSUME NEW r \in Request, ChangeCommit(r), session[t] # "none", session'[t] # session[t]
      PROVE  /\ session'[t] = "ended"
             /\ pc[r] = "change" /\ pc'[r] = "ended" /\ req[r].account = req[t].account
             /\ req[r].op = "change"
  <2>1. pc[r] = "change" /\ pc'[r] = "ended"
    BY <1>3, GotoFacts DEF ChangeCommit
  <2>2. t \in ending[r] /\ session'[t] = "ended"
    BY <1>3 DEF ChangeCommit
  <2> QED
    BY <2>1, <2>2 DEF RequestInv, ChangeInv
<1>4. \/ session' = session
      \/ \E r \in Request : OpenSession(r) \/ LogoutCommit(r) \/ ChangeCommit(r)
  BY DEF Next, vars, Register, Login, Logout, ChangePassword, Insert, Rehash, EndSessions, Fails
<1> QED
  BY <1>1, <1>2, <1>3, <1>4 DEF TypeOK

\* A session ends by its own user's logout or change of password only, and
\* never comes back. (logout, change_password)
THEOREM OwnersEndSessions == Spec => SessionsEndByOwner
<1>1. AuthInv /\ [Next]_vars =>
        [\A t \in Request :
           /\ session[t] = "ended" => session'[t] = "ended"
           /\ session[t] = "active" /\ session'[t] # "active" =>
                \E r \in Request :
                  /\ pc[r] # "ended" /\ pc'[r] = "ended" /\ req[r].account = req[t].account
                  /\ req[r].op = "change" \/ (req[r].op = "logout" /\ req[r].target = t)]_vars
  BY SessionStep
<1> QED
  BY <1>1, AuthInvariant, PTL DEF Spec, SessionsEndByOwner
=============================================================================
