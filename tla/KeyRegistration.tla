-------------------------- MODULE KeyRegistration --------------------------
(***************************************************************************)
(* How one user's public key gets from POST /auth/register or POST         *)
(* /users/keys into the database and, by a background thread, into the     *)
(* KeyRegistry contract (routers/auth.py, routers/users.py,                *)
(* blockchain/registry.py), composed with module KeyRegistry.              *)
(*                                                                         *)
(* An Upload is one request with the thread it starts and the transaction  *)
(* that thread sends.  The wallet gives each broadcast a nonce of its own  *)
(* (NonceWallet), and nonces follow the order of the broadcasts until a    *)
(* dropped transaction, a lost answer or a restart has upset the allocator *)
(* (NonceQueue).                                                           *)
(***************************************************************************)
EXTENDS Integers, Sequences, SequencesExt

CONSTANTS
  Upload,       \* requests that carry a public key, numbered as they arrive
  NoUpload,     \* a null eth_key_tx
  Key, ZeroKey, \* X25519 public keys; bytes32(0)
  NoKey,        \* a null public_key
  User,         \* keccak256(username)
  Server,       \* the wallet's account, which deployed the contract
  MaxVersion,   \* the contract's largest version
  MaxRestarts,  \* bound: restarts of the server process
  Weather       \* the circumstances considered, some of:
                \*   "calm": a request comes after the previous one's thread
                \*     ended, nothing fails, every node is up to date
                \*   "busy": the same, but requests overlap
                \*   "faulty": calls fail, nodes lag, transactions are dropped,
                \*     the process restarts, and requests overlap

ASSUME UploadAssumption == /\ Upload \subseteq Nat /\ NoUpload \notin Upload
                           /\ NoKey \notin Key /\ ZeroKey \notin Key
ASSUME BoundAssumption == /\ MaxVersion \in Nat \ {0} /\ MaxRestarts \in Nat
                          /\ Weather \subseteq {"calm", "busy", "faulty"}

VARIABLES
  weather,      \* the circumstances of this behaviour
  \* the user's row
  exists,       \* the account has been created
  publicKey,    \* users.public_key
  ethKeyTx,     \* users.eth_key_tx: the upload whose transaction it names
  \* the requests and their threads
  pc, upKey,    \* where upload u stands; its body.public_key, later the key
                \* its thread is given
  loaded,       \* loaded[u]: public_key as u's session loaded it
  fn,           \* fn[u]: the contract function chosen
  restarts,
  \* the contract and the way to it
  registrar, keys, log,
  seen,         \* the version a node that is behind still answers
  pool,         \* broadcast transactions, in nonce order
  tangled,      \* nonces may no longer follow the order of the broadcasts
  executed,     \* the transactions executed, in order
  reverted,     \* the transactions mined and reverted
  served        \* history: the keys public_key has held

row == <<exists, publicKey, ethKeyTx, served>>
local == <<weather, upKey, loaded, fn, restarts>>
contract == <<registrar, keys, log>>
chain == <<contract, seen, executed, reverted>>
vars == <<row, pc, local, chain, pool, tangled>>

R == INSTANCE KeyRegistry
       WITH Identity <- {User}, Account <- {Server}, Deployer <- Server

Terminal == {"done", "failed", "killed"}
Phase == {"idle", "loaded", "registered", "thread", "send", "wait", "persist"} \cup Terminal

Init ==
  /\ weather \in Weather
  /\ exists = FALSE /\ publicKey = NoKey /\ ethKeyTx = NoUpload /\ served = {}
  /\ pc = [u \in Upload |-> "idle"]
  /\ upKey = [u \in Upload |-> NoKey]
  /\ loaded = [u \in Upload |-> NoKey]
  /\ fn = [u \in Upload |-> "none"]
  /\ restarts = 0
  /\ R!Init
  /\ seen = 0 /\ pool = <<>> /\ tangled = FALSE /\ executed = <<>> /\ reverted = {}

Goto(u, from, to) ==
  /\ pc[u] = from
  /\ pc' = [pc EXCEPT ![u] = to]

Arrives(u) ==
  /\ \A v \in Upload : v < u => pc[v] # "idle"
  /\ weather = "calm" => \A v \in Upload : pc[v] \in {"idle"} \cup Terminal

-----------------------------------------------------------------------------
(* The requests.                                                           *)

\* register: the row is inserted with the key ...
Register(u, k) ==
  /\ ~exists /\ Arrives(u)
  /\ Goto(u, "idle", "registered")
  /\ upKey' = [upKey EXCEPT ![u] = k]
  /\ exists' = TRUE /\ publicKey' = k /\ served' = served \cup {k}
  /\ UNCHANGED <<weather, ethKeyTx, loaded, fn, restarts, chain, pool, tangled>>

\* ... and the thread started with the key the refresh finds in the row.
StartThread(u) ==
  /\ Goto(u, "registered", "thread")
  /\ upKey' = [upKey EXCEPT ![u] = publicKey]
  /\ UNCHANGED <<weather, row, loaded, fn, restarts, chain, pool, tangled>>

\* register without a key (the command line client): no thread.
RegisterKeyless ==
  /\ ~exists
  /\ exists' = TRUE
  /\ UNCHANGED <<publicKey, ethKeyTx, served, pc, local, chain, pool, tangled>>

\* upload_public_key: get_current_user loads the row into the session ...
LoadUser(u, k) ==
  /\ exists /\ Arrives(u)
  /\ Goto(u, "idle", "loaded")
  /\ upKey' = [upKey EXCEPT ![u] = k]
  /\ loaded' = [loaded EXCEPT ![u] = publicKey]
  /\ UNCHANGED <<weather, row, fn, restarts, chain, pool, tangled>>

\* Slip: the thread starts, the commit is forgotten.
Commit_Forgotten(u) ==
  /\ Goto(u, "loaded", "thread")
  /\ UNCHANGED <<row, local, chain, pool, tangled>>

\* ... commit writes the attribute only if it differs from what was loaded,
\* and the thread starts.
Commit(u) ==
  /\ Goto(u, "loaded", "thread")
  /\ publicKey' = IF upKey[u] = loaded[u] THEN publicKey ELSE upKey[u]
  /\ served' = served \cup {publicKey'}
  /\ loaded' = [loaded EXCEPT ![u] = NoKey]
  /\ UNCHANGED <<weather, exists, ethKeyTx, upKey, fn, restarts, chain, pool, tangled>>

-----------------------------------------------------------------------------
(* submit_key_registration_background.                                     *)

\* Slip: rotateKey is never chosen.
ChooseCall_NoRotate(u) ==
  /\ Goto(u, "thread", "send")
  /\ fn' = [fn EXCEPT ![u] = "registerKey"]
  /\ UNCHANGED <<weather, row, upKey, loaded, restarts, chain, pool, tangled>>

\* register_or_rotate_key reads the version and picks the call.
ChooseCall(u) ==
  /\ Goto(u, "thread", "send")
  /\ \E v \in {keys[User].version} \cup (IF weather = "faulty" THEN {seen} ELSE {}) :
       fn' = [fn EXCEPT ![u] = IF v = 0 THEN "registerKey" ELSE "rotateKey"]
  /\ UNCHANGED <<weather, row, upKey, loaded, restarts, chain, pool, tangled>>

\* A broadcast takes the next nonce, or, once tangled, any free one.
Enqueue(u) ==
  \E i \in IF tangled THEN 1 .. Len(pool) + 1 ELSE {Len(pool) + 1} : pool' = InsertAt(pool, i, u)

\* Slip: a send is repeated until its receipt is there.
Broadcast_Retries(u) ==
  /\ \/ Goto(u, "send", "wait")
     \/ Goto(u, "wait", "wait") /\ Len(pool) < 2
  /\ Enqueue(u)
  /\ UNCHANGED <<row, local, chain, tangled>>

\* _send, up to the end of its with block.
Broadcast(u) ==
  /\ Goto(u, "send", "wait")
  /\ Enqueue(u)
  /\ UNCHANGED <<row, local, chain, tangled>>

\* A transaction the node accepted although the thread saw an exception.
AnswerLost(u) ==
  /\ weather = "faulty"
  /\ Goto(u, "send", "failed")
  /\ Enqueue(u)
  /\ tangled' = TRUE
  /\ UNCHANGED <<row, local, chain>>

\* The refresh, getKey, the send or the final commit raises, or the receipt does
\* not come within 120 s: the upload ends there.
ThreadFails(u) ==
  /\ weather = "faulty"
  /\ pc[u] \in {"registered", "thread", "send", "wait", "persist"}
  /\ pc' = [pc EXCEPT ![u] = "failed"]
  /\ UNCHANGED <<row, local, chain, pool, tangled>>

\* Slip: a receipt is taken for success, whatever its status.
GetReceipt_AnyStatus(u) ==
  /\ u \in Range(executed) \cup reverted
  /\ Goto(u, "wait", "persist")
  /\ UNCHANGED <<row, local, chain, pool, tangled>>

\* wait_for_transaction_receipt and the check of its status.
GetReceipt(u) ==
  /\ \/ u \in Range(executed) /\ Goto(u, "wait", "persist")
     \/ u \in reverted /\ Goto(u, "wait", "failed")
  /\ UNCHANGED <<row, local, chain, pool, tangled>>

\* Slips: the key is stored for the hash; the first hash stays.
Persist_Key(u) ==
  /\ Goto(u, "persist", "done")
  /\ ethKeyTx' = upKey[u]
  /\ UNCHANGED <<exists, publicKey, served, local, chain, pool, tangled>>

Persist_FirstOnly(u) ==
  /\ Goto(u, "persist", "done")
  /\ ethKeyTx' = IF ethKeyTx = NoUpload THEN u ELSE ethKeyTx
  /\ UNCHANGED <<exists, publicKey, served, local, chain, pool, tangled>>

\* user.eth_key_tx = tx_hash, in a session of the thread's own.
Persist(u) ==
  /\ Goto(u, "persist", "done")
  /\ ethKeyTx' = u
  /\ UNCHANGED <<exists, publicKey, served, local, chain, pool, tangled>>

-----------------------------------------------------------------------------
(* The network and the process.                                            *)

Execute(u) ==
  \/ fn[u] = "registerKey" /\ R!RegisterKey(Server, User, upKey[u])
  \/ fn[u] = "rotateKey" /\ R!RotateKey(Server, User, upKey[u])

\* The transaction with the lowest nonce is mined: executed or reverted.
Mine ==
  /\ pool # <<>>
  /\ pool' = Tail(pool)
  /\ \/ /\ Execute(Head(pool))
        /\ executed' = Append(executed, Head(pool))
        /\ UNCHANGED reverted
     \/ /\ ~R!Callable(fn[Head(pool)], User, upKey[Head(pool)])
        /\ reverted' = reverted \cup {Head(pool)}
        /\ UNCHANGED <<contract, executed>>
  /\ UNCHANGED <<row, pc, local, seen, tangled>>

CatchUp ==
  /\ weather = "faulty" /\ seen # keys[User].version
  /\ seen' = keys[User].version
  /\ UNCHANGED <<row, pc, local, contract, executed, reverted, pool, tangled>>

Drop ==
  /\ weather = "faulty"
  /\ \E i \in 1 .. Len(pool) : pool' = RemoveAt(pool, i)
  /\ tangled' = TRUE
  /\ UNCHANGED <<row, pc, local, chain>>

Restart ==
  /\ weather = "faulty" /\ restarts < MaxRestarts
  /\ restarts' = restarts + 1
  /\ pc' = [u \in Upload |-> IF pc[u] \in {"idle"} \cup Terminal THEN pc[u] ELSE "killed"]
  /\ tangled' = TRUE
  /\ UNCHANGED <<weather, row, upKey, loaded, fn, chain, pool>>

ThreadStep(u) ==
  \/ StartThread(u) \/ Commit(u) \/ ChooseCall(u) \/ Broadcast(u) \/ AnswerLost(u)
  \/ ThreadFails(u) \/ GetReceipt(u) \/ Persist(u)

Next ==
  \/ \E u \in Upload : \/ \E k \in Key : Register(u, k) \/ LoadUser(u, k)
                       \/ ThreadStep(u)
  \/ RegisterKeyless \/ Mine \/ CatchUp \/ Drop \/ Restart

Spec == Init /\ [][Next]_vars

\* A started request and its thread keep running, and what is broadcast is
\* mined in the end.
FairSpec == Spec /\ WF_vars(Mine) /\ \A u \in Upload : WF_vars(ThreadStep(u))

-----------------------------------------------------------------------------
TypeOK ==
  /\ weather \in Weather
  /\ exists \in BOOLEAN
  /\ publicKey \in Key \cup {NoKey}
  /\ served \subseteq Key
  /\ ethKeyTx \in Upload \cup {NoUpload}
  /\ pc \in [Upload -> Phase]
  /\ upKey \in [Upload -> Key \cup {NoKey}]
  /\ loaded \in [Upload -> Key \cup {NoKey}]
  /\ fn \in [Upload -> {"none", "registerKey", "rotateKey"}]
  /\ restarts \in 0 .. MaxRestarts
  /\ seen \in 0 .. MaxVersion
  /\ pool \in Seq(Upload)
  /\ tangled \in BOOLEAN
  /\ executed \in Seq(Upload)
  /\ reverted \subseteq Upload
  /\ R!TypeOK

Latest == executed[Len(executed)]

Quiescent == pool = <<>> /\ \A u \in Upload : pc[u] \in {"idle"} \cup Terminal

\* The transaction users.eth_key_tx names is one the contract executed, never
\* one that reverted, was dropped or is still pending, whatever fails and
\* however uploads overlap. (registry.py, _send and the background thread)
EthKeyTxIsOnChain == ethKeyTx # NoUpload => ethKeyTx \in Range(executed)

\* One upload adds at most one version: no failure makes a thread send twice,
\* and the i-th event of the user's log is the i-th transaction executed.
\* (registry.py, register_or_rotate_key)
OneVersionPerUpload ==
  /\ IsInjective(executed)
  /\ Len(log) = Len(executed)
  /\ \A i \in 1 .. Len(log) : log[i] = R!Registered(User, upKey[executed[i]], i)

\* Every key in the contract's log was served by GET /users/{username} first:
\* a thread carries a key to the chain only after the database held it, also
\* where the commit had nothing to write. (users.py, upload_public_key)
RegisteredWasServed == \A i \in 1 .. Len(log) : log[i].key \in served

\* Uploads that do not overlap leave the database and the contract in
\* agreement: the served key is the on-chain one, unrevoked, and eth_key_tx
\* names the transaction that put it there. (registry.py, users.py)
SequentialUploadsConverge ==
  weather = "calm" /\ Quiescent /\ publicKey # NoKey =>
    /\ keys[User].key = publicKey /\ ~keys[User].revoked
    /\ ethKeyTx = Latest

\* In calm weather a key served is in the end the one on chain, or is replaced
\* before that. (registry.py: the thread every upload starts)
RegistryCatchesUp ==
  \A k \in Key :
    weather = "calm" /\ publicKey = k ~> publicKey # k \/ keys[User].key = k

\* "a key uploaded either way ends up in KeyRegistry" (auth.py:186-188).
UploadEndsUpInRegistry ==
  Quiescent => \A u \in Upload :
    pc[u] \in Terminal => \E i \in 1 .. Len(log) : log[i].key = upKey[u]

\* The wallet keeps the order NonceQueue promises: until a drop, a lost answer or
\* a restart, what is broadcast first is mined first. (_send_lock.py)
Queue == INSTANCE NonceQueue
           WITH Sender <- Upload, mined <- Range(executed) \cup reverted, upset <- tangled

UsesQueue == Queue!Spec

\* The contract meets no transaction but those its own module describes.
\* (KeyRegistry.sol; registry.py, register_or_rotate_key)
UsesContract == R!Spec
=============================================================================
