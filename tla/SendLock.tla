------------------------------ MODULE SendLock ------------------------------
(***************************************************************************)
(* The wallet shared by every contract write of the server: SEND_LOCK and  *)
(* the nonce allocator of backend/blockchain/_send_lock.py, and the send   *)
(* shape its three callers follow (record_message_digest, post_receipt,    *)
(* registry._send).                                                        *)
(*                                                                         *)
(* A Sender is one background thread, which performs exactly one contract  *)
(* write and ends: it also names the transaction it broadcasts.  A Backend *)
(* is one node behind the load-balanced RPC URL, with a mempool and a head *)
(* of its own.  Time is a tick, longer than the propagation window and     *)
(* than one RPC call, of which TTL make up CACHE_TTL_SECONDS.              *)
(***************************************************************************)
EXTENDS Integers, FiniteSets

CONSTANTS
  Sender,          \* background threads, one contract write each
  Backend,         \* nodes answering for the RPC endpoint
  NoSender,        \* SEND_LOCK is free
  TTL,             \* ticks in CACHE_TTL_SECONDS
  MaxNonce,        \* bound: nonces above it are never counted
  MaxRestarts,     \* bound: restarts of the server process
  AnswersGetLost   \* may a broadcast be accepted and its answer lost?

ASSUME SenderAssumption == NoSender \notin Sender
ASSUME BoundAssumption ==
  /\ TTL \in Nat \ {0}
  /\ MaxNonce \in Nat
  /\ MaxRestarts \in Nat
  /\ AnswersGetLost \in BOOLEAN

VARIABLES
  \* the process
  pc,         \* pc[t]: where thread t stands in its send
  lock,       \* the thread holding SEND_LOCK, or NoSender
  nextNonce,  \* _next_nonce[address][0], 0 when there is no entry
  age,        \* ticks since the entry's stamp, counted up to TTL + 1
  chainRead,  \* allocate_nonce's local `chain`
  nonce,      \* the sender's local `nonce`
  epoch,      \* which process this is: the restarts so far
  epochOf,    \* epochOf[t]: the process that broadcast t
  \* the network
  pool,       \* pool[b]: the transactions pending at backend b
  head,       \* head[b]: the wallet's mined count at backend b
  chainNonce, \* the wallet's mined count
  mined,      \* the transactions mined
  sent,       \* the transactions some backend accepted
  acked,      \* ... and whose send_raw_transaction returned
  dropped     \* the transactions evicted from every mempool, never mined

process == <<pc, lock, nextNonce, age, chainRead, nonce, epoch>>
network == <<pool, head, chainNonce, mined, dropped>>
vars == <<process, epochOf, network, sent, acked>>

Phase == {"start", "allocate", "choose", "build", "advance", "release", "wait",
          "receipt", "timedout", "failed", "killed"}
Critical == {"allocate", "choose", "build", "advance", "release"}
Terminal == {"receipt", "timedout", "failed", "killed"}

NonceRange == 0 .. MaxNonce
Larger(m, n) == IF m >= n THEN m ELSE n

-----------------------------------------------------------------------------
(* A node's answers.                                                       *)

\* The "pending" transaction count given the mined count and the held nonces:
\* the first nonce from the mined count on that no pending transaction has.
PendingCounts(from, held) ==
  {n \in NonceRange : /\ n >= from
                      /\ n \notin held
                      /\ \A m \in NonceRange : from <= m /\ m < n => m \in held}

Held(b) == {nonce[t] : t \in pool[b]}

\* A node takes a transaction unless its nonce is mined ("nonce too low") or
\* held by another one ("replacement transaction underpriced").
Accepts(b, n) == head[b] <= n /\ n \notin Held(b)

Knows(b, n) == n < head[b] \/ n \in Held(b)

Live(t) == t \in sent \ dropped

\* Every backend has caught up: heads, and every pending nonce.
Propagated ==
  /\ \A b \in Backend : head[b] = chainNonce
  /\ \A t \in Sender : Live(t) => \A b \in Backend : Knows(b, nonce[t])

-----------------------------------------------------------------------------
Init ==
  /\ pc = [t \in Sender |-> "start"]
  /\ lock = NoSender
  /\ nextNonce = 0
  /\ age = 0
  /\ chainRead = [t \in Sender |-> 0]
  /\ nonce = [t \in Sender |-> 0]
  /\ epoch = 0
  /\ epochOf = [t \in Sender |-> 0]
  /\ pool = [b \in Backend |-> {}]
  /\ head = [b \in Backend |-> 0]
  /\ chainNonce = 0
  /\ mined = {}
  /\ sent = {}
  /\ acked = {}
  /\ dropped = {}

Goto(t, from, to) ==
  /\ pc[t] = from
  /\ pc' = [pc EXCEPT ![t] = to]

-----------------------------------------------------------------------------
(* The thread: with SEND_LOCK: allocate, build, sign, broadcast, advance.  *)

\* Slip: the with block is left out.
Acquire_NoLock(t) ==
  /\ Goto(t, "start", "allocate")
  /\ lock' = t
  /\ UNCHANGED <<nextNonce, age, chainRead, nonce, epoch, epochOf, network, sent, acked>>

\* with SEND_LOCK:
Acquire(t) ==
  /\ lock = NoSender
  /\ Goto(t, "start", "allocate")
  /\ lock' = t
  /\ UNCHANGED <<nextNonce, age, chainRead, nonce, epoch, epochOf, network, sent, acked>>

\* allocate_nonce, first half: the RPC that reads the pending count.
ReadPending(t, b) ==
  /\ Goto(t, "allocate", "choose")
  /\ \E n \in PendingCounts(head[b], Held(b)) : chainRead' = [chainRead EXCEPT ![t] = n]
  /\ UNCHANGED <<lock, nextNonce, age, nonce, epoch, epochOf, network, sent, acked>>

\* allocate_nonce, second half: an entry past its TTL is deleted and the
\* chain believed, else the larger of the two wins.  No entry is 0, which
\* never wins over the chain.
Expired == age > TTL

\* Slip: the cache is never consulted.
Allocated_ChainOnly(t) == chainRead[t]

Allocated(t) == IF Expired THEN chainRead[t] ELSE Larger(chainRead[t], nextNonce)

ChooseNonce(t) ==
  /\ Goto(t, "choose", "build")
  /\ nonce' = [nonce EXCEPT ![t] = Allocated(t)]
  /\ nextNonce' = IF Expired THEN 0 ELSE nextNonce
  /\ age' = IF Expired THEN 0 ELSE age
  /\ UNCHANGED <<lock, chainRead, epoch, epochOf, network, sent, acked>>

\* Slip: acquire() and release() without a finally.
SendFails_KeepsLock(t) ==
  /\ pc[t] \in {"allocate", "build"}
  /\ pc' = [pc EXCEPT ![t] = "failed"]
  /\ UNCHANGED <<lock, nextNonce, age, chainRead, nonce, epoch, epochOf, network, sent, acked>>

\* An exception on the way to an accepted broadcast (an RPC error, a
\* build_transaction refusal) leaves the with block: the lock is released.
SendFails(t) ==
  /\ pc[t] \in {"allocate", "build"}
  /\ pc' = [pc EXCEPT ![t] = "failed"]
  /\ lock' = NoSender
  /\ UNCHANGED <<nextNonce, age, chainRead, nonce, epoch, epochOf, network, sent, acked>>

\* send_raw_transaction refused by the node: "the nonce was not consumed and
\* the cache must not move".
BroadcastRejected(t, b) ==
  /\ ~Accepts(b, nonce[t])
  /\ Goto(t, "build", "failed")
  /\ lock' = NoSender
  /\ UNCHANGED <<nextNonce, age, chainRead, nonce, epoch, epochOf, network, sent, acked>>

Deliver(t, b) ==
  /\ Accepts(b, nonce[t])
  /\ pool' = [pool EXCEPT ![b] = @ \cup {t}]
  /\ sent' = sent \cup {t}
  /\ epochOf' = [epochOf EXCEPT ![t] = epoch]
  /\ UNCHANGED <<nextNonce, age, chainRead, nonce, epoch, head, chainNonce, mined, dropped>>

\* Slip: the lock covers the broadcast but not advance_nonce.
Broadcast_ThenUnlock(t, b) ==
  /\ Goto(t, "build", "advance")
  /\ Deliver(t, b)
  /\ acked' = acked \cup {t}
  /\ lock' = NoSender

Broadcast(t, b) ==
  /\ Goto(t, "build", "advance")
  /\ Deliver(t, b)
  /\ acked' = acked \cup {t}
  /\ UNCHANGED lock

\* The node took the transaction but the HTTP answer never arrived: the
\* thread sees an exception like any other and advance_nonce does not run.
AnswerLost(t, b) ==
  /\ AnswersGetLost
  /\ Goto(t, "build", "failed")
  /\ Deliver(t, b)
  /\ lock' = NoSender
  /\ UNCHANGED acked

\* Slip: the count goes down.
Advance_Down(t) ==
  /\ Goto(t, "advance", "release")
  /\ nextNonce' = nonce[t] - 1
  /\ age' = 0
  /\ UNCHANGED <<lock, chainRead, nonce, epoch, epochOf, network, sent, acked>>

\* advance_nonce: (used + 1, now).
Advance(t) ==
  /\ Goto(t, "advance", "release")
  /\ nextNonce' = nonce[t] + 1
  /\ age' = 0
  /\ UNCHANGED <<lock, chainRead, nonce, epoch, epochOf, network, sent, acked>>

\* The end of the with block.
Release(t) ==
  /\ Goto(t, "release", "wait")
  /\ lock' = NoSender
  /\ UNCHANGED <<nextNonce, age, chainRead, nonce, epoch, epochOf, network, sent, acked>>

\* wait_for_transaction_receipt(tx_hash, timeout=120), outside the lock.
GetReceipt(t) ==
  /\ t \in mined
  /\ Goto(t, "wait", "receipt")
  /\ UNCHANGED <<lock, nextNonce, age, chainRead, nonce, epoch, epochOf, network, sent, acked>>

WaitTimesOut(t) ==
  /\ Goto(t, "wait", "timedout")
  /\ UNCHANGED <<lock, nextNonce, age, chainRead, nonce, epoch, epochOf, network, sent, acked>>

\* The server process dies and comes back: module state starts afresh and
\* the daemon threads in flight are gone.
Restart ==
  /\ epoch < MaxRestarts
  /\ epoch' = epoch + 1
  /\ pc' = [t \in Sender |-> IF pc[t] \in {"start"} \cup Terminal THEN pc[t] ELSE "killed"]
  /\ lock' = NoSender
  /\ nextNonce' = 0
  /\ age' = 0
  /\ UNCHANGED <<chainRead, nonce, epochOf, network, sent, acked>>

-----------------------------------------------------------------------------
(* The network.                                                            *)

Gossip(t, b) ==
  /\ Live(t) /\ t \notin mined
  /\ \E c \in Backend : t \in pool[c]
  /\ Accepts(b, nonce[t])
  /\ pool' = [pool EXCEPT ![b] = @ \cup {t}]
  /\ UNCHANGED <<process, epochOf, head, chainNonce, mined, dropped, sent, acked>>

Mine(t) ==
  /\ t \notin mined
  /\ \E b \in Backend : t \in pool[b]
  /\ nonce[t] = chainNonce
  /\ mined' = mined \cup {t}
  /\ chainNonce' = chainNonce + 1
  /\ UNCHANGED <<process, epochOf, pool, head, dropped, sent, acked>>

\* Backend b learns the chain's head and forgets what the head has passed.
SyncHead(b) ==
  /\ head[b] # chainNonce
  /\ head' = [head EXCEPT ![b] = chainNonce]
  /\ pool' = [pool EXCEPT ![b] = {t \in @ : nonce[t] >= chainNonce}]
  /\ UNCHANGED <<process, epochOf, chainNonce, mined, dropped, sent, acked>>

\* Assumed of the network: a transaction is evicted everywhere at once.  A node that
\* alone forgets one, for longer than a tick, is not considered.
Drop(t) ==
  /\ t \notin mined
  /\ \E b \in Backend : t \in pool[b]
  /\ pool' = [b \in Backend |-> pool[b] \ {t}]
  /\ dropped' = dropped \cup {t}
  /\ UNCHANGED <<process, epochOf, head, chainNonce, mined, sent, acked>>

\* A tick outlasts the propagation window and any one RPC call.
Tick ==
  /\ Propagated
  /\ \A t \in Sender : pc[t] # "choose"
  /\ age' = IF nextNonce # 0 /\ age <= TTL THEN age + 1 ELSE age
  /\ UNCHANGED <<pc, lock, nextNonce, chainRead, nonce, epoch, epochOf, network, sent, acked>>

-----------------------------------------------------------------------------
ThreadStep(t) ==
  \/ Acquire(t) \/ ChooseNonce(t) \/ SendFails(t) \/ Advance(t) \/ Release(t)
  \/ GetReceipt(t) \/ WaitTimesOut(t)
  \/ \E b \in Backend : \/ ReadPending(t, b) \/ Broadcast(t, b)
                        \/ BroadcastRejected(t, b) \/ AnswerLost(t, b)

NetworkStep ==
  \/ \E t \in Sender : Mine(t) \/ Drop(t) \/ \E b \in Backend : Gossip(t, b)
  \/ \E b \in Backend : SyncHead(b)

Next ==
  \/ \E t \in Sender : ThreadStep(t)
  \/ NetworkStep
  \/ Restart
  \/ Tick

Spec == Init /\ [][Next]_vars

\* Every RPC call returns or raises (the provider has a request timeout) and
\* a runnable thread is scheduled.  Nothing is assumed of the lock's order.
FairSpec == Spec /\ \A t \in Sender : WF_vars(ThreadStep(t))

-----------------------------------------------------------------------------
TypeOK ==
  /\ pc \in [Sender -> Phase]
  /\ lock \in Sender \cup {NoSender}
  /\ nextNonce \in Nat
  /\ age \in 0 .. TTL + 1
  /\ chainRead \in [Sender -> Nat]
  /\ nonce \in [Sender -> Nat]
  /\ epoch \in Nat
  /\ epochOf \in [Sender -> Nat]
  /\ pool \in [Backend -> SUBSET Sender]
  /\ head \in [Backend -> Nat]
  /\ chainNonce \in Nat
  /\ mined \in SUBSET Sender
  /\ sent \in SUBSET Sender
  /\ acked \in SUBSET Sender
  /\ dropped \in SUBSET Sender

\* A nonce some broadcast this process never heard of may hold: the answer
\* was lost, or another incarnation of the process sent it.
Excused(n, e) == \E u \in sent : nonce[u] = n /\ (u \notin acked \/ epochOf[u] # e)

\* Two live transactions one process broadcast and saw accepted never share
\* a nonce, so neither can replace or shut out the other, whatever stale
\* count a backend answered and whenever the cache expired; the exception is
\* a nonce already contested by a broadcast the process knows nothing of.
\* (_send_lock.py: both races of its header.)
NoClash ==
  \A s, t \in acked :
    /\ s # t /\ Live(s) /\ Live(t)
    /\ epochOf[s] = epochOf[t] /\ nonce[s] = nonce[t]
    => Excused(nonce[s], epochOf[s])

\* The allocator does not hand out a nonce a live broadcast of this process
\* holds: "a stale backend that has not yet seen our previous broadcast
\* cannot hand back an already-used nonce" (_send_lock.py:67-70).
NeverHandsBackUsedNonce ==
  \A s \in acked, t \in Sender :
    pc[t] = "build" /\ Live(s) /\ epochOf[s] = epoch => nonce[s] # nonce[t]

\* Every thread's write ends: no failure path keeps SEND_LOCK, so no sender
\* waits on it for ever. (the with blocks of contract.py, receipts.py and
\* registry.py)
EverySendEnds == \A t \in Sender : <>(pc[t] \in Terminal)

-----------------------------------------------------------------------------
(* The strengthening under which NoClash is inductive.                     *)

\* SEND_LOCK is held by exactly the thread inside the with block.
LockInv == \A t \in Sender : pc[t] \in Critical <=> lock = t

\* What is on the network was broadcast by a thread now past its send, by no
\* later process than this one; heads lag behind the chain.
SentInv ==
  /\ acked \subseteq sent
  /\ dropped \subseteq sent
  /\ \A b \in Backend : pool[b] \subseteq sent \ dropped
  /\ \A b \in Backend : head[b] <= chainNonce
  /\ \A t \in Sender : epochOf[t] <= epoch
  /\ \A t \in sent : pc[t] \in {"advance", "release", "wait"} \cup Terminal
  /\ \A t \in Sender : pc[t] = "advance" => t \in acked /\ epochOf[t] = epoch

Accounted(t) == t \in acked /\ epochOf[t] = epoch /\ Live(t) /\ pc[t] # "advance"

Settled(t) ==
  \/ \A b \in Backend : Knows(b, nonce[t])
  \/ Excused(nonce[t], epoch)

\* Every live broadcast of this process lies below the cache's entry or is
\* known to every backend, and after a tick it is the latter.
CacheCovers ==
  \A t \in Sender : Accounted(t) => \/ Settled(t)
                                    \/ age = 0 /\ nonce[t] < nextNonce

\* Between its choice and its broadcast a thread's nonce is not below the
\* entry, which only that thread could have moved.
ChoiceInv ==
  \A t \in Sender : pc[t] \in {"build", "advance"} => nonce[t] >= nextNonce

IInv == TypeOK /\ LockInv /\ SentInv /\ CacheCovers /\ ChoiceInv /\ NoClash

\* The allocator implements NonceWallet when the process neither restarts nor
\* loses the answer to an accepted broadcast: every broadcast it saw accepted
\* holds a nonce of its own until it is dropped. (_send_lock.py)
Wallet == INSTANCE NonceWallet
            WITH held <- [t \in Sender |-> IF t \in acked /\ Live(t) THEN nonce[t] ELSE -1]

ImplementsWallet == Wallet!Spec

\* No restart, no lost answer and no drop so far.
Tranquil == epoch = 0 /\ dropped = {} /\ sent = acked

\* So far neither race of the header has shown: whichever node answers, it finds
\* the nonce of no broadcast too low or taken. (_send_lock.py:4-5, "Two distinct
\* races both manifest as a rejected broadcast")
NeverRejected ==
  Tranquil => \A t \in Sender, b \in Backend : pc[t] = "build" => Accepts(b, nonce[t])

\* The accepted transactions above the mined count, by nonce.
At(n) == {t \in acked : nonce[t] = n}
Nth(n) == IF At(n) = {} THEN NoSender ELSE CHOOSE t \in At(n) : TRUE
Queued ==
  IF Tranquil
  THEN [i \in 1 .. Cardinality(acked) - chainNonce |-> Nth(chainNonce + i - 1)]
  ELSE <<>>

\* Until then it implements NonceQueue as well, whatever the backends answer:
\* the nonces leave no gap, so what was broadcast first is mined first, and no
\* transaction is refused or passed over. (_send_lock.py, on which the order of
\* contract.py's, receipts.py's and registry.py's writes rests)
Queue == INSTANCE NonceQueue WITH pool <- Queued, upset <- ~Tranquil

ImplementsQueue == Queue!Spec
=============================================================================
