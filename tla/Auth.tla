------------------------------- MODULE Auth -------------------------------
(***************************************************************************)
(* The /auth API of routers/auth.py: register, login with its transparent  *)
(* rehash, logout and change of password, the handlers of several requests *)
(* interleaving at their database statements.                              *)
(*                                                                         *)
(* A handler's select sees what is committed.  A handler that writes by    *)
(* its commit only does so in one step; change_password alone writes and   *)
(* commits in two.  A hash is the password it was made from and whether    *)
(* its cost parameters are out of date; a token nobody was given is never  *)
(* presented.                                                              *)
(***************************************************************************)
EXTENDS Integers

CONSTANTS
  Request,   \* requests, numbered in the order they arrive
  Account,   \* users.id
  Name, Email, Password,
  Dummy,     \* the password behind DUMMY_HASH, too short for an account
  None,      \* an absent row or field
  Engines    \* the databases considered (DATABASE_URL), as in AuditChain

Hash == [password : Password \cup {Dummy}, outdated : BOOLEAN]
User == [name : Name, email : Email, hash : Hash]

ASSUME RequestAssumption == Request \subseteq Int
ASSUME AuthNoneAssumption == None \notin User \cup Request \cup Account
ASSUME AuthEngineAssumption == Engines \subseteq {"sqlite", "concurrent"}

VARIABLES
  engine,    \* the database of this behaviour
  users,     \* the rows of users, by id
  session,   \* session[r]: "none", or is_active of the session login r opened
  pc, req,   \* where request r stands; what it asks for and has read
  ending,    \* ending[r]: sessions whose UPDATE r has made and not committed
  \* history
  tokens,    \* the accounts of which somebody holds an access token
  lastSet,   \* the password that each account's owner set last
  overtaken  \* the logins during which the account's password was changed

vars == <<engine, users, session, pc, req, ending, tokens, lastSet, overtaken>>

Phase == {"idle", "insert", "rehash", "open", "end", "change", "logout", "ended"}

\* The fields a kind of request leaves out are None.
NoRequest == [op |-> "none", user |-> None, account |-> None, password |-> None,
              outdated |-> FALSE, target |-> None]

Exists(a) == users[a] # None

\* Accounts made and access tokens issued before this process started, perhaps
\* with other cost parameters than it has.
Init ==
  /\ engine \in Engines
  /\ users \in [Account -> User \cup {None}]
  /\ \A a, b \in Account : Exists(a) /\ Exists(b) /\ a # b =>
       users[a].name # users[b].name /\ users[a].email # users[b].email
  /\ \A a \in Account : Exists(a) => users[a].hash.password # Dummy
  /\ session = [r \in Request |-> "none"]
  /\ pc = [r \in Request |-> "idle"]
  /\ req = [r \in Request |-> NoRequest]
  /\ ending = [r \in Request |-> {}]
  /\ tokens = {a \in Account : Exists(a)}
  /\ lastSet = [a \in Account |-> IF Exists(a) THEN users[a].hash.password ELSE None]
  /\ overtaken = {}

Arrive(r, request, next) ==
  /\ pc[r] = "idle" /\ \A s \in Request : s < r => pc[s] # "idle"
  /\ pc' = [pc EXCEPT ![r] = next]
  /\ req' = IF next = "ended" THEN req ELSE [req EXCEPT ![r] = request]

\* What a login asked for is remembered: its session refers to it.
Goto(r, from, to) ==
  /\ pc[r] = from
  /\ pc' = [pc EXCEPT ![r] = to]
  /\ req' = IF to = "ended" /\ req[r].op # "login" THEN [req EXCEPT ![r] = NoRequest] ELSE req

\* A password change between its two writes holds SQLite's write lock, and
\* elsewhere the rows it has written.
MayWrite == engine = "sqlite" => \A s \in Request : pc[s] # "change"
RowLocked(t) == \E s \in Request : t \in ending[s]

-----------------------------------------------------------------------------
(* dependencies.py: a token that decodes, and the row of its user.         *)

GetCurrentUser(a) == a \in tokens /\ Exists(a)

-----------------------------------------------------------------------------
(* crypto/password.py.                                                     *)

HashPassword(p) == [password |-> p, outdated |-> FALSE]
VerifyPassword(p, hash) == p = hash.password
NeedsRehash(hash) == hash.outdated
DummyHash == HashPassword(Dummy)

-----------------------------------------------------------------------------
(* POST /auth/register.                                                    *)

\* The two uniqueness checks: no account is removed or renamed, so that what
\* the second finds free was free at the first.
Register(r, n, e, p) ==
  /\ Arrive(r, [NoRequest EXCEPT !.op = "register", !.password = p,
                                 !.user = [name |-> n, email |-> e, hash |-> HashPassword(p)]],
            IF \E a \in Account : Exists(a) /\ (users[a].name = n \/ users[a].email = e)
            THEN "ended" ELSE "insert")
  /\ UNCHANGED <<engine, users, session, ending, tokens, lastSet, overtaken>>

\* Slip: users.email has no unique constraint.
Unique_NameOnly(user) == \A a \in Account : Exists(a) => users[a].name # user.name

\* The unique constraints of the table.
Unique(user) ==
  \A a \in Account : Exists(a) => users[a].name # user.name /\ users[a].email # user.email

\* A row the constraints refuse is an error 500.
Insert(r) ==
  /\ Goto(r, "insert", "ended") /\ MayWrite
  /\ IF Unique(req[r].user)
     THEN \E a \in Account :
            /\ ~Exists(a)
            /\ users' = [users EXCEPT ![a] = req[r].user]
            /\ lastSet' = [lastSet EXCEPT ![a] = req[r].password]
     ELSE UNCHANGED <<users, lastSet>>
  /\ UNCHANGED <<engine, session, ending, tokens, overtaken>>

-----------------------------------------------------------------------------
(* POST /auth/login.                                                       *)

StoredHash(a) == IF a = None THEN DummyHash ELSE users[a].hash

\* Slip: DUMMY_HASH is taken for an account's.
AfterVerify_AnyHash(a, p) ==
  IF ~VerifyPassword(p, StoredHash(a)) THEN "ended"
  ELSE IF NeedsRehash(StoredHash(a)) THEN "rehash" ELSE "open"

\* Slip: the hash is renewed before a wrong password is rejected.
AfterVerify_RehashFirst(a, p) ==
  IF a = None THEN "ended"
  ELSE IF NeedsRehash(StoredHash(a)) THEN "rehash"
  ELSE IF VerifyPassword(p, StoredHash(a)) THEN "open" ELSE "ended"

\* Without a user the password is verified against DUMMY_HASH, and refused.
AfterVerify(a, p) ==
  IF a = None \/ ~VerifyPassword(p, StoredHash(a)) THEN "ended"
  ELSE IF NeedsRehash(StoredHash(a)) THEN "rehash" ELSE "open"

ChangeInFlight(a) == \E s \in Request : pc[s] = "change" /\ req[s].account = a

\* The user is read, and the password verified against that reading.
Login(r, n, p) ==
  LET found == {a \in Account : Exists(a) /\ users[a].name = n}
  IN  \E a \in IF found = {} THEN {None} ELSE found :
        /\ Arrive(r, [NoRequest EXCEPT !.op = "login", !.account = a, !.password = p,
                                       !.outdated = NeedsRehash(StoredHash(a))],
                  AfterVerify(a, p))
        /\ overtaken' = IF ChangeInFlight(a) THEN overtaken \cup {r} ELSE overtaken
        /\ UNCHANGED <<engine, users, session, ending, tokens, lastSet>>

\* The UPDATE names the row by its id and does not look at the hash it replaces.
Rehash(r) ==
  /\ Goto(r, "rehash", "open") /\ MayWrite
  /\ users' = [users EXCEPT ![req[r].account].hash = HashPassword(req[r].password)]
  /\ UNCHANGED <<engine, session, ending, tokens, lastSet, overtaken>>

OpenSession(r) ==
  /\ Goto(r, "open", "ended") /\ MayWrite
  /\ session' = [session EXCEPT ![r] = "active"]
  /\ tokens' = tokens \cup {req[r].account}
  /\ UNCHANGED <<engine, users, ending, lastSet, overtaken>>

-----------------------------------------------------------------------------
(* POST /auth/logout.                                                      *)

\* The session that login t opened, if it is still a's.
GetActiveSession(a, t) == session[t] = "active" /\ req[t].account = a

\* Slip: whoever presents a refresh token ends its session.
Logout_Anybody(r, a, t) ==
  /\ GetCurrentUser(a) /\ session[t] # "none"
  /\ Arrive(r, [NoRequest EXCEPT !.op = "logout", !.account = a, !.target = t],
            IF session[t] = "active" THEN "logout" ELSE "ended")
  /\ UNCHANGED <<engine, users, session, ending, tokens, lastSet, overtaken>>

\* With an access token of account a and the refresh token of login t.
Logout(r, a, t) ==
  /\ GetCurrentUser(a) /\ session[t] # "none"
  /\ Arrive(r, [NoRequest EXCEPT !.op = "logout", !.account = a, !.target = t],
            IF GetActiveSession(a, t) THEN "logout" ELSE "ended")
  /\ UNCHANGED <<engine, users, session, ending, tokens, lastSet, overtaken>>

LogoutCommit(r) ==
  /\ Goto(r, "logout", "ended") /\ MayWrite /\ ~RowLocked(req[r].target)
  /\ session' = [session EXCEPT ![req[r].target] = "ended"]
  /\ UNCHANGED <<engine, users, ending, tokens, lastSet, overtaken>>

-----------------------------------------------------------------------------
(* PUT /auth/password.                                                     *)

\* Both passwords are verified against the hash get_current_user has loaded.
ChangePassword(r, a, old, new) ==
  /\ GetCurrentUser(a)
  /\ Arrive(r, [NoRequest EXCEPT !.op = "change", !.account = a, !.password = new],
            IF VerifyPassword(old, users[a].hash) /\ ~VerifyPassword(new, users[a].hash)
            THEN "end" ELSE "ended")
  /\ UNCHANGED <<engine, users, session, ending, tokens, lastSet, overtaken>>

ActiveSessions(a) == {t \in Request : GetActiveSession(a, t)}
LoggingIn(a) == {s \in Request : pc[s] \in {"rehash", "open"} /\ req[s].account = a}

\* The bulk UPDATE of the sessions is executed first: with autoflush off, the
\* new hash is written by the commit.
EndSessions(r) ==
  /\ Goto(r, "end", "change") /\ MayWrite
  /\ \A t \in ActiveSessions(req[r].account) : ~RowLocked(t)
  /\ ending' = [ending EXCEPT ![r] = ActiveSessions(req[r].account)]
  /\ overtaken' = overtaken \cup LoggingIn(req[r].account)
  /\ UNCHANGED <<engine, users, session, tokens, lastSet>>

\* Slip: the sessions' UPDATE is left out of the transaction.
ChangeCommit_KeepsSessions(r) ==
  /\ Goto(r, "change", "ended")
  /\ users' = [users EXCEPT ![req[r].account].hash = HashPassword(req[r].password)]
  /\ lastSet' = [lastSet EXCEPT ![req[r].account] = req[r].password]
  /\ ending' = [ending EXCEPT ![r] = {}]
  /\ UNCHANGED <<engine, session, tokens, overtaken>>

\* The new hash and the ended sessions become visible together.
ChangeCommit(r) ==
  /\ Goto(r, "change", "ended")
  /\ users' = [users EXCEPT ![req[r].account].hash = HashPassword(req[r].password)]
  /\ lastSet' = [lastSet EXCEPT ![req[r].account] = req[r].password]
  /\ session' = [t \in Request |-> IF t \in ending[r] THEN "ended" ELSE session[t]]
  /\ ending' = [ending EXCEPT ![r] = {}]
  /\ UNCHANGED <<engine, tokens, overtaken>>

\* An exception, the write lock's timeout, or the end of the process.
Fails(r) ==
  /\ pc[r] \notin {"idle", "ended"} /\ Goto(r, pc[r], "ended")
  /\ ending' = [ending EXCEPT ![r] = {}]
  /\ UNCHANGED <<engine, users, session, tokens, lastSet, overtaken>>

Next ==
  \E r \in Request :
    \/ \E n \in Name, e \in Email, p \in Password : Register(r, n, e, p)
    \/ \E n \in Name, p \in Password \cup {Dummy} : Login(r, n, p)
    \/ \E a \in Account, t \in Request : Logout(r, a, t)
    \/ \E a \in Account, old, new \in Password : ChangePassword(r, a, old, new)
    \/ Insert(r) \/ Rehash(r) \/ OpenSession(r) \/ LogoutCommit(r)
    \/ EndSessions(r) \/ ChangeCommit(r) \/ Fails(r)

Spec == Init /\ [][Next]_vars

-----------------------------------------------------------------------------
TypeOK ==
  /\ engine \in {"sqlite", "concurrent"}
  /\ users \in [Account -> User \cup {None}]
  /\ session \in [Request -> {"none", "active", "ended"}]
  /\ pc \in [Request -> Phase]
  /\ req \in [Request -> [op : {"none", "register", "login", "logout", "change"},
                          user : User \cup {None}, account : Account \cup {None},
                          password : Password \cup {Dummy, None}, outdated : BOOLEAN,
                          target : Request \cup {None}]]
  /\ ending \in [Request -> SUBSET Request]
  /\ tokens \subseteq {a \in Account : Exists(a)}
  /\ lastSet \in [Account -> Password \cup {None}]
  /\ overtaken \subseteq Request

\* Two accounts share neither name nor e-mail address, although registrations
\* overlap between their checks and their inserts. (register, models.User)
AccountsAreUnique ==
  \A a, b \in Account :
    Exists(a) /\ Exists(b) /\ (users[a].name = users[b].name \/ users[a].email = users[b].email)
      => a = b

\* A login that overlapped a change of password and rehashed what it had read
\* before: the one way for an account to get a password back.
RehashedLate(a) ==
  \E r \in overtaken : /\ req[r].account = a /\ req[r].outdated
                       /\ req[r].password = users[a].hash.password

\* An account opens to the password its owner set last, except where a rehash
\* overtook its change. (login, change_password)
PasswordIsLastSet ==
  \A a \in Account : Exists(a) => users[a].hash.password = lastSet[a] \/ RehashedLate(a)

\* A session in use was opened with the password set last, unless the change
\* overlapped the login, or a late rehash has brought the old one back.
\* (change_password: all active sessions are invalidated)
OldSessionsAreOver ==
  \A t \in Request :
    session[t] = "active" =>
      \/ req[t].password = lastSet[req[t].account]
      \/ t \in overtaken
      \/ users[req[t].account].hash.password # lastSet[req[t].account]

\* A session ends by a logout or a password change of its own user, and never
\* becomes active again. (logout: ownership; change_password: where user_id)
SessionsEndByOwner ==
  [][\A t \in Request :
       /\ session[t] = "ended" => session'[t] = "ended"
       /\ session[t] = "active" /\ session'[t] # "active" =>
            \E r \in Request :
              /\ pc[r] # "ended" /\ pc'[r] = "ended" /\ req[r].account = req[t].account
              /\ req[r].op = "change" \/ (req[r].op = "logout" /\ req[r].target = t)]_vars

-----------------------------------------------------------------------------
(* What makes the invariants inductive.                                    *)

\* A request in flight is of the kind its handler made it.
RequestInv ==
  \A r \in Request :
    /\ pc[r] = "idle" => req[r] = NoRequest
    /\ pc[r] = "insert" => /\ req[r].user \in User /\ req[r].password \in Password
                           /\ req[r].user.hash = HashPassword(req[r].password)
    /\ pc[r] \in {"rehash", "open"} => /\ req[r].op = "login" /\ req[r].account \in Account
                                       /\ req[r].password \in Password \cup {Dummy}
    /\ pc[r] = "rehash" => req[r].outdated
    /\ pc[r] \in {"end", "change"} =>
         req[r].op = "change" /\ req[r].account \in Account /\ req[r].password \in Password
    /\ pc[r] = "logout" =>
         /\ req[r].op = "logout" /\ req[r].target \in Request
         /\ session[req[r].target] # "none"
         /\ req[req[r].target].account = req[r].account
    /\ req[r].outdated => req[r].op = "login" /\ req[r].account \in Account
    /\ req[r].account # None => Exists(req[r].account)
    /\ session[r] # "none" => pc[r] = "ended" /\ req[r].op = "login" /\ req[r].account \in Account

\* Only the hashes there were at the start are out of date, so that all who
\* read one verified the same password.
OutdatedInv ==
  \A r \in Request :
    req[r].outdated =>
      /\ users[req[r].account].hash.outdated =>
           req[r].password = users[req[r].account].hash.password
      /\ \A s \in Request : req[s].outdated /\ req[s].account = req[r].account =>
           req[s].password = req[r].password

\* A login that will open a session has the excuses of OldSessionsAreOver.
LoginInv ==
  \A r \in Request :
    pc[r] \in {"rehash", "open"} =>
      \/ req[r].password = lastSet[req[r].account]
      \/ r \in overtaken
      \/ users[req[r].account].hash.password # lastSet[req[r].account]

\* What a change of password has not ended when it commits overlaps it.
ChangeInv ==
  \A r \in Request :
    /\ pc[r] # "change" => ending[r] = {}
    /\ pc[r] = "change" =>
         /\ LoggingIn(req[r].account) \subseteq overtaken
         /\ ActiveSessions(req[r].account) \subseteq ending[r] \cup overtaken
         /\ \A t \in ending[r] : session[t] # "none" /\ req[t].account = req[r].account

AuthInv ==
  /\ TypeOK /\ RequestInv /\ OutdatedInv /\ LoginInv /\ ChangeInv
  /\ AccountsAreUnique /\ PasswordIsLastSet /\ OldSessionsAreOver

-----------------------------------------------------------------------------
\* "The caller must log in again with the new password to obtain fresh tokens"
\* (change_password's docstring): an account opens to the password set last.
ChangedPasswordStays ==
  \A a \in Account : Exists(a) => users[a].hash.password = lastSet[a]
=============================================================================
