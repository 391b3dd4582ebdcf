--------------------------- MODULE SendLock_proof ---------------------------
(***************************************************************************)
(* The inductive invariant IInv of SendLock, step by step, for any set of  *)
(* senders and backends, any TTL and any number of restarts.               *)
(*                                                                         *)
(* The second part is about order.  Count is how many nonces are taken as  *)
(* long as nothing has upset the allocator; NoncesInv says that they are   *)
(* those below Count and the mined ones the first of them, NextNonceInv    *)
(* what the cache and the thread inside the lock know of Count.            *)
(***************************************************************************)
EXTENDS SendLock, SequenceTheorems, FiniteSetTheorems, TLAPS

\* The initial state satisfies the strengthening.
LEMMA InitIInv == Init => IInv
BY SenderAssumption, BoundAssumption
   DEF Init, IInv, TypeOK, Phase, LockInv, Critical, SentInv, Terminal, CacheCovers,
       Accounted, Live, ChoiceInv, NoClash

\* Every action keeps every variable in its type.
LEMMA TypeStep == TypeOK /\ [Next]_vars => TypeOK'
<1> SUFFICES ASSUME TypeOK, [Next]_vars PROVE TypeOK'
  OBVIOUS
<1> USE SenderAssumption, BoundAssumption DEF TypeOK, Phase, Terminal, Goto, network, process
<1>1. ASSUME NEW t \in Sender, Acquire(t) PROVE TypeOK'
  BY <1>1 DEF Acquire
<1>2. ASSUME NEW t \in Sender, NEW b \in Backend, ReadPending(t, b) PROVE TypeOK'
  BY <1>2 DEF ReadPending, PendingCounts, NonceRange
<1>3. ASSUME NEW t \in Sender, ChooseNonce(t) PROVE TypeOK'
  BY <1>3 DEF ChooseNonce, Allocated, Larger, Expired
<1>4. ASSUME NEW t \in Sender, SendFails(t) PROVE TypeOK'
  BY <1>4 DEF SendFails
<1>5. ASSUME NEW t \in Sender, NEW b \in Backend, BroadcastRejected(t, b) PROVE TypeOK'
  BY <1>5 DEF BroadcastRejected
<1>6. ASSUME NEW t \in Sender, NEW b \in Backend, Broadcast(t, b) PROVE TypeOK'
  BY <1>6 DEF Broadcast, Deliver
<1>7. ASSUME NEW t \in Sender, NEW b \in Backend, AnswerLost(t, b) PROVE TypeOK'
  BY <1>7 DEF AnswerLost, Deliver
<1>8. ASSUME NEW t \in Sender, Advance(t) PROVE TypeOK'
  BY <1>8 DEF Advance
<1>9. ASSUME NEW t \in Sender, Release(t) PROVE TypeOK'
  BY <1>9 DEF Release
<1>10. ASSUME NEW t \in Sender, GetReceipt(t) \/ WaitTimesOut(t) PROVE TypeOK'
  BY <1>10 DEF GetReceipt, WaitTimesOut
<1>11. ASSUME Restart PROVE TypeOK'
  BY <1>11 DEF Restart
<1>12. ASSUME NEW t \in Sender, NEW b \in Backend, Gossip(t, b) PROVE TypeOK'
  BY <1>12 DEF Gossip
<1>13. ASSUME NEW t \in Sender, Mine(t) PROVE TypeOK'
  BY <1>13 DEF Mine
<1>14. ASSUME NEW t \in Sender, Drop(t) PROVE TypeOK'
  BY <1>14 DEF Drop
<1>15. ASSUME NEW b \in Backend, SyncHead(b) PROVE TypeOK'
  BY <1>15 DEF SyncHead
<1>16. ASSUME Tick PROVE TypeOK'
  BY <1>16 DEF Tick
<1>17. CASE UNCHANGED vars
  BY <1>17 DEF vars
<1> QED
  BY <1>1, <1>2, <1>3, <1>4, <1>5, <1>6, <1>7, <1>8, <1>9, <1>10, <1>11, <1>12,
     <1>13, <1>14, <1>15, <1>16, <1>17 DEF Next, ThreadStep, NetworkStep

\* Type correctness of the send path. (_send_lock.py and its three callers)
THEOREM TypeCorrect == Spec => []TypeOK
<1>1. Init => TypeOK
  BY InitIInv DEF IInv
<1> QED
  BY <1>1, TypeStep, PTL DEF Spec

-----------------------------------------------------------------------------
\* SEND_LOCK stays with exactly the thread inside its with block.
LEMMA LockStep == TypeOK /\ LockInv /\ [Next]_vars => LockInv'
<1> SUFFICES ASSUME TypeOK, LockInv, [Next]_vars PROVE LockInv'
  OBVIOUS
<1> USE SenderAssumption DEF TypeOK, Phase, Terminal, Critical, LockInv, Goto, network, process
<1>1. ASSUME NEW t \in Sender, Acquire(t) PROVE LockInv'
  BY <1>1 DEF Acquire
<1>2. ASSUME NEW t \in Sender, NEW b \in Backend, ReadPending(t, b) PROVE LockInv'
  BY <1>2 DEF ReadPending
<1>3. ASSUME NEW t \in Sender, ChooseNonce(t) PROVE LockInv'
  BY <1>3 DEF ChooseNonce
<1>4. ASSUME NEW t \in Sender, SendFails(t) PROVE LockInv'
  BY <1>4 DEF SendFails
<1>5. ASSUME NEW t \in Sender, NEW b \in Backend, BroadcastRejected(t, b) PROVE LockInv'
  BY <1>5 DEF BroadcastRejected
<1>6. ASSUME NEW t \in Sender, NEW b \in Backend, Broadcast(t, b) PROVE LockInv'
  BY <1>6 DEF Broadcast
<1>7. ASSUME NEW t \in Sender, NEW b \in Backend, AnswerLost(t, b) PROVE LockInv'
  BY <1>7 DEF AnswerLost
<1>8. ASSUME NEW t \in Sender, Advance(t) PROVE LockInv'
  BY <1>8 DEF Advance
<1>9. ASSUME NEW t \in Sender, Release(t) PROVE LockInv'
  BY <1>9 DEF Release
<1>10. ASSUME NEW t \in Sender, GetReceipt(t) PROVE LockInv'
  BY <1>10 DEF GetReceipt
<1>11. ASSUME NEW t \in Sender, WaitTimesOut(t) PROVE LockInv'
  BY <1>11 DEF WaitTimesOut
<1>12. ASSUME Restart PROVE LockInv'
  BY <1>12 DEF Restart
<1>13. ASSUME NEW t \in Sender, NEW b \in Backend, Gossip(t, b) PROVE LockInv'
  BY <1>13 DEF Gossip
<1>14. ASSUME NEW t \in Sender, Mine(t) PROVE LockInv'
  BY <1>14 DEF Mine
<1>15. ASSUME NEW t \in Sender, Drop(t) PROVE LockInv'
  BY <1>15 DEF Drop
<1>16. ASSUME NEW b \in Backend, SyncHead(b) PROVE LockInv'
  BY <1>16 DEF SyncHead
<1>17. ASSUME Tick PROVE LockInv'
  BY <1>17 DEF Tick
<1>18. CASE UNCHANGED vars
  BY <1>18 DEF vars
<1> QED
  BY <1>1, <1>2, <1>3, <1>4, <1>5, <1>6, <1>7, <1>8, <1>9, <1>10, <1>11, <1>12, <1>13, <1>14, <1>15, <1>16, <1>17, <1>18 DEF Next, ThreadStep, NetworkStep

\* Only a thread past its broadcast has a transaction on the network.
LEMMA SentStep == TypeOK /\ SentInv /\ [Next]_vars => SentInv'
<1> SUFFICES ASSUME TypeOK, SentInv, [Next]_vars PROVE SentInv'
  OBVIOUS
<1> USE DEF TypeOK, Phase, Terminal, SentInv, Goto, network, process
<1>1. ASSUME NEW t \in Sender, Acquire(t) PROVE SentInv'
  BY <1>1 DEF Acquire
<1>2. ASSUME NEW t \in Sender, NEW b \in Backend, ReadPending(t, b) PROVE SentInv'
  BY <1>2 DEF ReadPending
<1>3. ASSUME NEW t \in Sender, ChooseNonce(t) PROVE SentInv'
  BY <1>3 DEF ChooseNonce
<1>4. ASSUME NEW t \in Sender, SendFails(t) PROVE SentInv'
  BY <1>4 DEF SendFails
<1>5. ASSUME NEW t \in Sender, NEW b \in Backend, BroadcastRejected(t, b) PROVE SentInv'
  BY <1>5 DEF BroadcastRejected
<1>6. ASSUME NEW t \in Sender, NEW b \in Backend, Broadcast(t, b) PROVE SentInv'
  BY <1>6 DEF Broadcast, Deliver
<1>7. ASSUME NEW t \in Sender, NEW b \in Backend, AnswerLost(t, b) PROVE SentInv'
  BY <1>7 DEF AnswerLost, Deliver
<1>8. ASSUME NEW t \in Sender, Advance(t) PROVE SentInv'
  BY <1>8 DEF Advance
<1>9. ASSUME NEW t \in Sender, Release(t) PROVE SentInv'
  BY <1>9 DEF Release
<1>10. ASSUME NEW t \in Sender, GetReceipt(t) PROVE SentInv'
  BY <1>10 DEF GetReceipt
<1>11. ASSUME NEW t \in Sender, WaitTimesOut(t) PROVE SentInv'
  BY <1>11 DEF WaitTimesOut
<1>12. ASSUME Restart PROVE SentInv'
  BY <1>12 DEF Restart
<1>13. ASSUME NEW t \in Sender, NEW b \in Backend, Gossip(t, b) PROVE SentInv'
  BY <1>13 DEF Gossip
<1>14. ASSUME NEW t \in Sender, Mine(t) PROVE SentInv'
  BY <1>14 DEF Mine
<1>15. ASSUME NEW t \in Sender, Drop(t) PROVE SentInv'
  BY <1>15 DEF Drop
<1>16. ASSUME NEW b \in Backend, SyncHead(b) PROVE SentInv'
  BY <1>16 DEF SyncHead
<1>17. ASSUME Tick PROVE SentInv'
  BY <1>17 DEF Tick
<1>18. CASE UNCHANGED vars
  BY <1>18 DEF vars
<1> QED
  BY <1>1, <1>2, <1>3, <1>4, <1>5, <1>6, <1>7, <1>8, <1>9, <1>10, <1>11, <1>12, <1>13, <1>14, <1>15, <1>16, <1>17, <1>18 DEF Next, ThreadStep, NetworkStep

\* The chosen nonce never falls below the entry: the entry moves only under
\* the lock, by the thread that chose.
LEMMA ChoiceStep == TypeOK /\ LockInv /\ ChoiceInv /\ [Next]_vars => ChoiceInv'
<1> SUFFICES ASSUME TypeOK, LockInv, ChoiceInv, [Next]_vars PROVE ChoiceInv'
  OBVIOUS
<1> USE DEF TypeOK, Phase, Terminal, Critical, LockInv, ChoiceInv, Goto, network, process
<1>1. ASSUME NEW t \in Sender, Acquire(t) PROVE ChoiceInv'
  BY <1>1 DEF Acquire
<1>2. ASSUME NEW t \in Sender, NEW b \in Backend, ReadPending(t, b) PROVE ChoiceInv'
  BY <1>2 DEF ReadPending
<1>3. ASSUME NEW t \in Sender, ChooseNonce(t) PROVE ChoiceInv'
  BY <1>3 DEF ChooseNonce, Allocated, Larger, Expired
<1>4. ASSUME NEW t \in Sender, SendFails(t) PROVE ChoiceInv'
  BY <1>4 DEF SendFails
<1>5. ASSUME NEW t \in Sender, NEW b \in Backend, BroadcastRejected(t, b) PROVE ChoiceInv'
  BY <1>5 DEF BroadcastRejected
<1>6. ASSUME NEW t \in Sender, NEW b \in Backend, Broadcast(t, b) PROVE ChoiceInv'
  BY <1>6 DEF Broadcast, Deliver
<1>7. ASSUME NEW t \in Sender, NEW b \in Backend, AnswerLost(t, b) PROVE ChoiceInv'
  BY <1>7 DEF AnswerLost, Deliver
<1>8. ASSUME NEW t \in Sender, Advance(t) PROVE ChoiceInv'
  BY <1>8 DEF Advance
<1>9. ASSUME NEW t \in Sender, Release(t) PROVE ChoiceInv'
  BY <1>9 DEF Release
<1>10. ASSUME NEW t \in Sender, GetReceipt(t) PROVE ChoiceInv'
  BY <1>10 DEF GetReceipt
<1>11. ASSUME NEW t \in Sender, WaitTimesOut(t) PROVE ChoiceInv'
  BY <1>11 DEF WaitTimesOut
<1>12. ASSUME Restart PROVE ChoiceInv'
  BY <1>12 DEF Restart
<1>13. ASSUME NEW t \in Sender, NEW b \in Backend, Gossip(t, b) PROVE ChoiceInv'
  BY <1>13 DEF Gossip
<1>14. ASSUME NEW t \in Sender, Mine(t) PROVE ChoiceInv'
  BY <1>14 DEF Mine
<1>15. ASSUME NEW t \in Sender, Drop(t) PROVE ChoiceInv'
  BY <1>15 DEF Drop
<1>16. ASSUME NEW b \in Backend, SyncHead(b) PROVE ChoiceInv'
  BY <1>16 DEF SyncHead
<1>17. ASSUME Tick PROVE ChoiceInv'
  BY <1>17 DEF Tick
<1>18. CASE UNCHANGED vars
  BY <1>18 DEF vars
<1> QED
  BY <1>1, <1>2, <1>3, <1>4, <1>5, <1>6, <1>7, <1>8, <1>9, <1>10, <1>11, <1>12, <1>13, <1>14, <1>15, <1>16, <1>17, <1>18 DEF Next, ThreadStep, NetworkStep

-----------------------------------------------------------------------------
\* A nonce contested by a broadcast the process does not know of stays so.
LEMMA ExcusedStable ==
  ASSUME TypeOK, SentInv, [Next]_vars, NEW n, NEW e, Excused(n, e)
  PROVE  Excused(n, e)'
<1> USE DEF TypeOK, Phase, Terminal, SentInv, Excused, Goto, network, process
<1>1. PICK u \in sent : nonce[u] = n /\ (u \notin acked \/ epochOf[u] # e)
  OBVIOUS
<1>2. u \in Sender /\ pc[u] \in {"advance", "release", "wait"} \cup Terminal
  OBVIOUS
<1>3. ASSUME NEW t \in Sender, ThreadStep(t)
      PROVE  u \in sent' /\ nonce'[u] = nonce[u] /\ epochOf'[u] = epochOf[u]
             /\ (u \in acked' => u \in acked)
  <2>1. CASE \E b \in Backend : Broadcast(t, b) \/ AnswerLost(t, b)
    BY <1>2, <2>1 DEF Broadcast, AnswerLost, Deliver
  <2>2. CASE ChooseNonce(t)
    BY <1>2, <2>2 DEF ChooseNonce
  <2> QED
    BY <1>3, <2>1, <2>2
       DEF ThreadStep, Acquire, ReadPending, SendFails, BroadcastRejected, Advance, Release,
           GetReceipt, WaitTimesOut
<1>4. ASSUME NetworkStep \/ Restart \/ Tick \/ UNCHANGED vars
      PROVE  sent' = sent /\ nonce' = nonce /\ epochOf' = epochOf /\ acked' = acked
  BY <1>4 DEF NetworkStep, Mine, Drop, Gossip, SyncHead, Restart, Tick, vars
<1> QED
  BY <1>1, <1>3, <1>4 DEF Next

\* A backend that knows a nonce goes on knowing it, unless a transaction with
\* that nonce is dropped.
LEMMA KnowsStable ==
  ASSUME TypeOK, SentInv, [Next]_vars, NEW b \in Backend, NEW n \in Nat, Knows(b, n),
         \A t \in Sender : nonce[t] = n => ~Drop(t)
  PROVE  Knows(b, n)'
<1> USE DEF TypeOK, Phase, Terminal, SentInv, Knows, Held, Goto, network, process
<1>1. ASSUME NEW t \in Sender, ThreadStep(t) PROVE Knows(b, n)'
  <2>1. CASE \E c \in Backend : Broadcast(t, c) \/ AnswerLost(t, c)
    BY <2>1 DEF Broadcast, AnswerLost, Deliver
  <2>2. CASE ChooseNonce(t)
    <3>1. t \notin pool[b]
      BY <2>2 DEF ChooseNonce
    <3> QED
      BY <2>2, <3>1 DEF ChooseNonce
  <2> QED
    BY <1>1, <2>1, <2>2
       DEF ThreadStep, Acquire, ReadPending, SendFails, BroadcastRejected, Advance, Release,
           GetReceipt, WaitTimesOut
<1>2. ASSUME NEW t \in Sender, NEW c \in Backend, Gossip(t, c) PROVE Knows(b, n)'
  BY <1>2 DEF Gossip
<1>3. ASSUME NEW t \in Sender, Mine(t) PROVE Knows(b, n)'
  BY <1>3 DEF Mine
<1>4. ASSUME NEW t \in Sender, Drop(t) PROVE Knows(b, n)'
  BY <1>4 DEF Drop
<1>5. ASSUME NEW c \in Backend, SyncHead(c) PROVE Knows(b, n)'
  BY <1>5 DEF SyncHead
<1>6. ASSUME Restart \/ Tick \/ UNCHANGED vars PROVE Knows(b, n)'
  BY <1>6 DEF Restart, Tick, vars
<1> QED
  BY <1>1, <1>2, <1>3, <1>4, <1>5, <1>6 DEF Next, NetworkStep

\* What covers a live broadcast goes on covering it.
LEMMA CoversStep == IInv /\ [Next]_vars => CacheCovers'
<1> SUFFICES ASSUME IInv, [Next]_vars, NEW t \in Sender, Accounted(t)'
             PROVE  Settled(t)' \/ (age' = 0 /\ nonce'[t] < nextNonce')
  BY DEF CacheCovers
<1>1. TypeOK' /\ SentInv'
  BY TypeStep, SentStep DEF IInv
<1>2. epoch' = epoch
  <2>1. CASE Restart
    BY <2>1 DEF IInv, TypeOK, SentInv, Restart, Accounted
  <2> QED
    BY <2>1 DEF Next, ThreadStep, NetworkStep, Acquire, ReadPending, ChooseNonce, SendFails,
         BroadcastRejected, Broadcast, AnswerLost, Deliver, Advance, Release, GetReceipt,
         WaitTimesOut, Mine, Drop, Gossip, SyncHead, Tick, vars, network, process
<1>3. t \in acked' /\ t \notin dropped' /\ epochOf'[t] = epoch /\ pc'[t] # "advance"
  BY <1>2 DEF Accounted, Live
<1>4. CASE Advance(t)
  BY <1>4 DEF Advance, IInv, TypeOK
<1>5. CASE ~Advance(t)
  <2>1. Accounted(t) /\ nonce'[t] = nonce[t]
    <3>1. CASE \E u \in Sender : ThreadStep(u)
      <4>1. PICK u \in Sender : ThreadStep(u)
        BY <3>1
      <4>2. CASE \E b \in Backend : Broadcast(u, b) \/ AnswerLost(u, b)
        BY <1>3, <4>2 DEF Broadcast, AnswerLost, Deliver, Goto, IInv, TypeOK, Phase, SentInv, Terminal,
             Accounted, Live
      <4>3. CASE ChooseNonce(u)
        BY <1>3, <4>3 DEF ChooseNonce, Goto, IInv, TypeOK, Phase, SentInv, Terminal, Accounted,
             Live, network
      <4>4. CASE Advance(u)
        BY <1>3, <1>5, <4>4 DEF Advance, Goto, IInv, TypeOK, SentInv, Accounted, Live, network
      <4> QED
        BY <1>3, <1>5, <4>1, <4>2, <4>3, <4>4
           DEF ThreadStep, Acquire, ReadPending, SendFails, BroadcastRejected, Release, GetReceipt,
               WaitTimesOut, Goto, IInv, TypeOK, Phase, SentInv, Terminal, Accounted, Live, network
    <3>2. CASE Restart
      BY <1>2, <3>2 DEF Restart, IInv, TypeOK
    <3>3. CASE NetworkStep \/ Tick \/ UNCHANGED vars
      BY <1>3, <3>3 DEF NetworkStep, Mine, Drop, Gossip, SyncHead, Tick, vars, network, process,
           IInv, TypeOK, SentInv, Accounted, Live
    <3> QED
      BY <3>1, <3>2, <3>3 DEF Next
  <2>2. CASE Excused(nonce[t], epoch)
    BY <1>2, <2>1, <2>2, ExcusedStable DEF IInv, Settled
  <2>3. CASE \A b \in Backend : Knows(b, nonce[t])
    <3>1. CASE \E u \in Sender : nonce[u] = nonce[t] /\ Drop(u)
      <4>1. PICK u \in Sender : nonce[u] = nonce[t] /\ Drop(u)
        BY <3>1
      <4>2. u # t /\ u \in sent /\ u \notin dropped
        BY <1>3, <4>1 DEF Drop, IInv, SentInv, TypeOK
      <4>3. Excused(nonce[t], epoch)
        <5>1. CASE u \in acked /\ epochOf[u] = epoch
          BY <2>1, <4>1, <4>2, <5>1 DEF IInv, NoClash, Accounted, Live
        <5>2. CASE ~(u \in acked /\ epochOf[u] = epoch)
          BY <4>1, <4>2, <5>2 DEF Excused
        <5> QED
          BY <5>1, <5>2
      <4> QED
        BY <1>2, <2>1, <4>3, ExcusedStable DEF IInv, Settled
    <3>2. CASE \A u \in Sender : nonce[u] = nonce[t] => ~Drop(u)
      <4>1. nonce[t] \in Nat
        BY DEF IInv, TypeOK
      <4>2. \A b \in Backend : Knows(b, nonce[t])'
        BY <2>1, <2>3, <3>2, <4>1, KnowsStable DEF IInv, Knows, Held
      <4> QED
        BY <2>1, <4>2 DEF Settled, Knows, Held
    <3> QED
      BY <3>1, <3>2
  <2>4. CASE ~Settled(t)
    <3>1. age = 0 /\ nonce[t] < nextNonce
      BY <2>1, <2>4 DEF IInv, CacheCovers
    <3>2. CASE \E u \in Sender : Advance(u)
      BY <2>1, <3>1, <3>2 DEF Advance, Goto, IInv, TypeOK, ChoiceInv
    <3>3. CASE \E u \in Sender : ChooseNonce(u)
      BY <2>1, <3>1, <3>3, BoundAssumption DEF ChooseNonce, Expired, IInv, TypeOK
    <3>4. CASE Tick
      BY <2>1, <2>4, <3>4 DEF Tick, Propagated, Settled, Accounted
    <3>5. CASE Restart
      BY <1>2, <3>5 DEF Restart, IInv, TypeOK
    <3>6. CASE UNCHANGED <<age, nextNonce>>
      BY <2>1, <3>1, <3>6
    <3> QED
      BY <3>2, <3>3, <3>4, <3>5, <3>6
         DEF Next, ThreadStep, NetworkStep, Acquire, ReadPending, SendFails, BroadcastRejected,
             Broadcast, AnswerLost, Deliver, Release, GetReceipt, WaitTimesOut, Mine, Drop, Gossip,
             SyncHead, vars, process
  <2> QED
    BY <2>2, <2>3, <2>4 DEF Settled
<1> QED
  BY <1>4, <1>5

\* A broadcast accepted with a nonce the process already has in flight can
\* only meet a contested one.
LEMMA ClashStep == IInv /\ [Next]_vars => NoClash'
<1> SUFFICES ASSUME IInv, [Next]_vars PROVE NoClash'
  OBVIOUS
<1> USE DEF IInv, TypeOK, SentInv
<1>0. \A n, e : Excused(n, e) =>
        \E u \in sent' : nonce'[u] = n /\ (u \notin acked' \/ epochOf'[u] # e)
  BY ExcusedStable DEF Excused
<1>1. ASSUME NEW s \in acked, NEW t \in acked, s # t, Live(s)', Live(t)',
             epochOf'[s] = epochOf'[t], nonce'[s] = nonce'[t]
      PROVE  Excused(nonce[s], epochOf[s])' /\ nonce'[s] = nonce[s] /\ epochOf'[s] = epochOf[s]
  <2>1. /\ nonce'[s] = nonce[s] /\ nonce'[t] = nonce[t]
        /\ epochOf'[s] = epochOf[s] /\ epochOf'[t] = epochOf[t]
        /\ Live(s) /\ Live(t)
    <3>1. ASSUME NEW u \in Sender, ThreadStep(u)
          PROVE  /\ nonce'[s] = nonce[s] /\ nonce'[t] = nonce[t]
                 /\ epochOf'[s] = epochOf[s] /\ epochOf'[t] = epochOf[t]
                 /\ dropped' = dropped
      <4>1. CASE \E b \in Backend : Broadcast(u, b) \/ AnswerLost(u, b)
        BY <4>1 DEF Broadcast, AnswerLost, Deliver, Goto, Phase, Terminal
      <4>2. CASE ChooseNonce(u)
        BY <4>2 DEF ChooseNonce, Goto, Phase, Terminal, network
      <4> QED
        BY <3>1, <4>1, <4>2
           DEF ThreadStep, Acquire, ReadPending, SendFails, BroadcastRejected, Advance, Release,
               GetReceipt, WaitTimesOut, network
    <3>2. ASSUME NetworkStep \/ Restart \/ Tick \/ UNCHANGED vars
          PROVE  nonce' = nonce /\ epochOf' = epochOf /\ dropped \subseteq dropped'
      BY <3>2 DEF NetworkStep, Mine, Drop, Gossip, SyncHead, Restart, Tick, vars, network, process
    <3> QED
      BY <1>1, <3>1, <3>2 DEF Next, Live
  <2>2. Excused(nonce[s], epochOf[s])
    BY <1>1, <2>1 DEF NoClash
  <2>3. \E u \in sent' : nonce'[u] = nonce[s] /\ (u \notin acked' \/ epochOf'[u] # epochOf[s])
    BY <1>0, <2>2
  <2> QED
    BY <2>1, <2>3 DEF Excused
<1>2. ASSUME NEW u \in Sender, NEW b \in Backend, Broadcast(u, b),
             NEW t \in acked, Live(t), epochOf[t] = epoch, nonce[t] = nonce[u]
      PROVE  Excused(nonce[t], epoch)
  <2>1. Accounted(t)
    BY <1>2 DEF Accounted, Broadcast, Goto, LockInv, Critical
  <2>2. ~Knows(b, nonce[t])
    BY <1>2 DEF Broadcast, Deliver, Accepts, Knows
  <2>3. ~(nonce[t] < nextNonce)
    BY <1>2 DEF Broadcast, Goto, ChoiceInv
  <2> QED
    BY <2>1, <2>2, <2>3 DEF CacheCovers, Settled
<1>3. ASSUME NEW u \in Sender, NEW b \in Backend, Broadcast(u, b),
             NEW t \in acked, Live(t)', epochOf'[u] = epochOf'[t], nonce'[u] = nonce'[t]
      PROVE  Excused(nonce[t], epochOf[t])' /\ Excused(nonce[u], epochOf[u])'
  <2>1. /\ u \notin sent /\ u # t /\ epochOf'[u] = epoch /\ epochOf'[t] = epochOf[t]
        /\ nonce' = nonce /\ Live(t)
    BY <1>3 DEF Broadcast, Deliver, Goto, Live, Phase, Terminal
  <2>2. Excused(nonce[t], epoch)
    BY <1>2, <1>3, <2>1
  <2>3. \E v \in sent' : nonce'[v] = nonce[t] /\ (v \notin acked' \/ epochOf'[v] # epoch)
    BY <1>0, <2>2
  <2>4. epochOf[t] = epoch /\ nonce[u] = nonce[t]
    BY <1>3, <2>1
  <2> QED
    BY <2>1, <2>3, <2>4 DEF Excused
<1>4. ASSUME NEW s \in acked', s \notin acked
      PROVE  \E b \in Backend : Broadcast(s, b) /\ acked' = acked \cup {s}
  BY <1>4 DEF Next, ThreadStep, NetworkStep, Acquire, ReadPending, ChooseNonce, SendFails,
       BroadcastRejected, Broadcast, AnswerLost, Deliver, Advance, Release, GetReceipt,
       WaitTimesOut, Mine, Drop, Gossip, SyncHead, Restart, Tick, vars, network, process
<1>5. ASSUME NEW s \in acked', NEW t \in acked', s # t, Live(s)', Live(t)',
             epochOf'[s] = epochOf'[t], nonce'[s] = nonce'[t]
      PROVE  Excused(nonce[s], epochOf[s])'
  <2>1. CASE s \in acked /\ t \in acked
    BY <1>1, <1>5, <2>1 DEF Excused
  <2>2. CASE s \notin acked
    <3>1. t \in acked
      BY <1>4, <1>5, <2>2
    <3>2. PICK b \in Backend : Broadcast(s, b)
      BY <1>4, <2>2
    <3>3. s \in Sender
      BY TypeStep
    <3>4. Excused(nonce[t], epochOf[t])' /\ Excused(nonce[s], epochOf[s])'
      BY <1>3, <1>5, <3>1, <3>2, <3>3
    <3> QED
      BY <3>4
  <2>3. CASE t \notin acked
    <3>1. s \in acked
      BY <1>4, <1>5, <2>3
    <3>2. PICK b \in Backend : Broadcast(t, b)
      BY <1>4, <2>3
    <3>3. t \in Sender
      BY TypeStep
    <3>4. Excused(nonce[s], epochOf[s])' /\ Excused(nonce[t], epochOf[t])'
      BY <1>3, <1>5, <3>1, <3>2, <3>3
    <3> QED
      BY <3>4
  <2> QED
    BY <2>1, <2>2, <2>3
<1> QED
  BY <1>5 DEF NoClash, Excused

-----------------------------------------------------------------------------
\* The strengthening holds in every reachable state.
THEOREM InductiveInvariant == Spec => []IInv
<1>1. IInv /\ [Next]_vars => IInv'
  BY TypeStep, LockStep, SentStep, ChoiceStep, CoversStep, ClashStep DEF IInv
<1> QED
  BY InitIInv, <1>1, PTL DEF Spec

\* Two live broadcasts one process saw accepted never share a nonce, but for
\* one contested from outside the process: for any number of threads and
\* backends, any staleness, drops, expiries and restarts. (_send_lock.py)
THEOREM NoncesNeverClash == Spec => []NoClash
<1>1. IInv => NoClash
  BY DEF IInv
<1> QED
  BY InductiveInvariant, <1>1, PTL

-----------------------------------------------------------------------------
\* With no restart and no lost answer, the process knows every broadcast.
KnowsAll == epoch = 0 /\ sent = acked

LEMMA KnowsAllStep ==
  ASSUME MaxRestarts = 0, AnswersGetLost = FALSE
  PROVE  TypeOK /\ KnowsAll /\ [Next]_vars => KnowsAll'
<1> SUFFICES ASSUME TypeOK, KnowsAll, [Next]_vars PROVE KnowsAll'
  OBVIOUS
<1>1. ASSUME NEW t \in Sender, NEW b \in Backend, Broadcast(t, b) PROVE KnowsAll'
  BY <1>1 DEF Broadcast, Deliver, KnowsAll
<1>2. ASSUME NEW t \in Sender, NEW b \in Backend, AnswerLost(t, b) PROVE KnowsAll'
  BY <1>2 DEF AnswerLost
<1>3. CASE Restart
  BY <1>3 DEF Restart, KnowsAll
<1>4. CASE UNCHANGED <<epoch, sent, acked>>
  BY <1>4 DEF KnowsAll
<1> QED
  BY <1>1, <1>2, <1>3, <1>4
     DEF Next, ThreadStep, NetworkStep, Acquire, ReadPending, ChooseNonce, SendFails,
         BroadcastRejected, Advance, Release, GetReceipt, WaitTimesOut, Mine, Drop, Gossip,
         SyncHead, Tick, vars, network, process

\* The nonces held, as NonceWallet sees them.
Held0 == [t \in Sender |-> IF t \in acked /\ Live(t) THEN nonce[t] ELSE -1]

\* A step that neither broadcasts nor drops moves no held nonce.
LEMMA WalletStutter ==
  ASSUME IInv, [Next]_vars, UNCHANGED <<acked, sent, dropped>>
  PROVE  UNCHANGED Held0
<1> USE DEF IInv, TypeOK, Phase, SentInv, Terminal, Live
<1>1. \A t \in acked : nonce'[t] = nonce[t]
  <2>1. CASE \E u \in Sender : ChooseNonce(u)
    BY <2>1 DEF ChooseNonce, Goto
  <2>2. CASE UNCHANGED nonce
    BY <2>2
  <2> QED
    BY <2>1, <2>2 DEF Next, ThreadStep, NetworkStep, Acquire, ReadPending, SendFails,
       BroadcastRejected, Broadcast, AnswerLost, Deliver, Advance, Release, GetReceipt,
       WaitTimesOut, Mine, Drop, Gossip, SyncHead, Restart, Tick, vars, network, process
<1> QED
  BY <1>1 DEF Held0

LEMMA WalletStep ==
  ASSUME AnswersGetLost = FALSE, IInv, KnowsAll, IInv', KnowsAll', [Next]_vars
  PROVE  [Wallet!Next]_Held0
<1> USE DEF Held0, Wallet!Next, Wallet!Issue, Wallet!Lose, Wallet!NoNonce
<1>1. ASSUME NEW t \in Sender, NEW b \in Backend, Broadcast(t, b) PROVE Wallet!Next
  <2>1. /\ t \notin sent /\ t \in acked' /\ Live(t)' /\ nonce' = nonce /\ dropped' = dropped
        /\ acked' = acked \cup {t} /\ sent' = sent \cup {t}
    BY <1>1 DEF Broadcast, Deliver, Goto, IInv, TypeOK, Phase, SentInv, Terminal, Live
  <2>2. \A u \in Sender : u \in acked /\ Live(u) => nonce[u] # nonce[t]
    <3> SUFFICES ASSUME NEW u \in acked, Live(u), nonce[u] = nonce[t] PROVE FALSE
      OBVIOUS
    <3>1. u # t /\ Live(u)' /\ u \in acked'
      BY <2>1 DEF IInv, SentInv, Live
    <3>2. epochOf'[u] = 0 /\ epochOf'[t] = 0
      BY <2>1, <3>1 DEF IInv, TypeOK, SentInv, KnowsAll
    <3>3. nonce'[u] = nonce'[t]
      BY <2>1
    <3>4. Excused(nonce[u], epochOf[u])'
      BY <2>1, <3>1, <3>2, <3>3 DEF IInv, NoClash
    <3> QED
      BY <3>2, <3>4 DEF Excused, KnowsAll, IInv, TypeOK, SentInv
  <2>3. nonce[t] \in Nat
    BY DEF IInv, TypeOK
  <2>4. Held0' = [Held0 EXCEPT ![t] = nonce[t]] /\ Held0[t] = -1
    BY <2>1 DEF IInv, SentInv, Live
  <2>5. nonce[t] \notin {Held0[u] : u \in Sender}
    BY <2>2, <2>3
  <2>6. Held0'[t] = nonce[t]
    BY <2>4
  <2> QED
    BY <2>3, <2>4, <2>5, <2>6
<1>2. ASSUME NEW t \in Sender, Drop(t) PROVE Wallet!Next
  <2>1. /\ t \in acked /\ Live(t) /\ ~Live(t)' /\ nonce' = nonce /\ acked' = acked
        /\ sent' = sent /\ dropped' = dropped \cup {t}
    BY <1>2 DEF Drop, IInv, SentInv, KnowsAll, Live, process
  <2>2. Held0' = [Held0 EXCEPT ![t] = -1]
    BY <2>1 DEF Live
  <2>3. Held0[t] # -1
    BY <2>1 DEF IInv, TypeOK
  <2> QED
    BY <2>2, <2>3
<1>3. CASE UNCHANGED <<acked, sent, dropped>>
  BY <1>3, WalletStutter
<1> QED
  BY <1>1, <1>2, <1>3
     DEF Next, ThreadStep, NetworkStep, Acquire, ReadPending, ChooseNonce, SendFails,
         BroadcastRejected, AnswerLost, Advance, Release, GetReceipt, WaitTimesOut, Mine,
         Gossip, SyncHead, Restart, Tick, vars, network, process

\* While the process does not restart and no accepted broadcast's answer is
\* lost, the allocator implements NonceWallet: an accepted transaction holds
\* a nonce of its own until it is dropped. (_send_lock.py)
THEOREM Refinement ==
  ASSUME MaxRestarts = 0, AnswersGetLost = FALSE
  PROVE  Spec => ImplementsWallet
<1>1. Init => Wallet!Init /\ KnowsAll
  BY DEF Init, Wallet!Init, Wallet!NoNonce, KnowsAll
<1>2. IInv /\ KnowsAll /\ [Next]_vars => KnowsAll'
  BY KnowsAllStep DEF IInv
<1>3. IInv /\ KnowsAll /\ IInv' /\ KnowsAll' /\ [Next]_vars => [Wallet!Next]_Held0
  BY WalletStep
<1>4. Spec => []IInv
  BY InductiveInvariant
<1> QED
  BY <1>1, <1>2, <1>3, <1>4, PTL DEF Spec, ImplementsWallet, Wallet!Spec, Held0

-----------------------------------------------------------------------------
(* The order of the broadcasts.                                            *)

Count == Cardinality(acked)

\* Until something is dropped or lost or the process restarts, the nonces of the
\* accepted broadcasts are 0 .. Count - 1 and the mined ones the first of them.
NoncesInv ==
  /\ \A s, t \in acked : nonce[s] = nonce[t] => s = t
  /\ \A t \in acked : nonce[t] < Count
  /\ \A n \in Nat : n < Count => \E t \in acked : nonce[t] = n
  /\ chainNonce <= Count
  /\ mined = {t \in acked : nonce[t] < chainNonce}

\* And the next one is Count: the entry says so unless there is none, and where it
\* is not consulted the backends do.
NextNonceInv ==
  /\ (\A t \in Sender : pc[t] # "advance") => nextNonce \in {0, Count}
  /\ \A t \in Sender : pc[t] = "advance" => nonce[t] + 1 = Count /\ nextNonce \in {0, nonce[t]}
  /\ \A t \in Sender : pc[t] = "choose" =>
       /\ chainRead[t] <= Count
       /\ Expired \/ nextNonce = 0 => chainRead[t] = Count
  /\ \A t \in Sender : pc[t] = "build" => nonce[t] = Count

OrderInv == IsFiniteSet(acked) /\ (Tranquil => NoncesInv /\ NextNonceInv)

\* An eventful past stays one.
LEMMA TranquilBefore ==
  ASSUME TypeOK, SentInv, [Next]_vars, Tranquil'
  PROVE  Tranquil
<1> USE DEF TypeOK, SentInv, Tranquil, Goto, network, process, Phase, Terminal
<1>1. ASSUME NEW t \in Sender, NEW b \in Backend, Broadcast(t, b) PROVE Tranquil
  <2>1. t \notin sent /\ sent' = sent \cup {t} /\ acked' = acked \cup {t} /\ acked \subseteq sent
        /\ epoch' = epoch /\ dropped' = dropped
    BY <1>1 DEF Broadcast, Deliver
  <2>2. sent' = acked' /\ epoch' = 0 /\ dropped' = {}
    OBVIOUS
  <2>3. sent = acked /\ epoch = 0 /\ dropped = {}
    <3> HIDE DEF TypeOK, SentInv, Tranquil
    <3> QED BY <2>1, <2>2, Zenon
  <2> QED BY <2>3
<1>2. ASSUME NEW t \in Sender, NEW b \in Backend, AnswerLost(t, b) PROVE Tranquil
  <2>1. t \notin sent /\ sent' = sent \cup {t} /\ acked' = acked /\ acked \subseteq sent
    BY <1>2 DEF AnswerLost, Deliver
  <2> QED BY <2>1
<1>3. CASE Restart
  BY <1>3 DEF Restart
<1>4. ASSUME NEW t \in Sender, Drop(t) PROVE Tranquil
  BY <1>4 DEF Drop
<1>5. CASE UNCHANGED <<epoch, dropped, sent, acked>>
  BY <1>5
<1> QED
  BY <1>1, <1>2, <1>3, <1>4, <1>5
     DEF Next, ThreadStep, NetworkStep, Acquire, ReadPending, ChooseNonce, SendFails,
         BroadcastRejected, Advance, Release, GetReceipt, WaitTimesOut, Mine, Gossip, SyncHead,
         Tick, vars

\* The accepted broadcasts stay finitely many.
LEMMA FiniteStep ==
  ASSUME TypeOK, IsFiniteSet(acked), [Next]_vars
  PROVE  IsFiniteSet(acked')
<1>1. ASSUME NEW t \in Sender, NEW b \in Backend, Broadcast(t, b) PROVE IsFiniteSet(acked')
  <2>1. acked' = acked \cup {t}
    BY <1>1 DEF Broadcast
  <2>2. IsFiniteSet(acked \cup {t})
    BY FS_AddElement
  <2> QED BY <2>1, <2>2
<1>2. CASE UNCHANGED acked
  BY <1>2
<1> QED
  BY <1>1, <1>2
     DEF Next, ThreadStep, NetworkStep, Acquire, ReadPending, ChooseNonce, SendFails,
         BroadcastRejected, AnswerLost, Deliver, Advance, Release, GetReceipt, WaitTimesOut, Mine,
         Drop, Gossip, SyncHead, Restart, Tick, vars, process, network

\* In a tranquil state every broadcast is accounted for, so where the entry is not
\* consulted every backend knows them all.
LEMMA AllKnown ==
  ASSUME IInv, Tranquil, Expired \/ nextNonce = 0, NEW b \in Backend,
         \A u \in Sender : pc[u] # "advance", NEW t \in acked
  PROVE  Knows(b, nonce[t])
<1>1. t \in Sender /\ nonce[t] \in Nat /\ epochOf[t] = epoch /\ Accounted(t)
  BY DEF IInv, TypeOK, SentInv, Tranquil, Accounted, Live
<1>2. ~Excused(nonce[t], epoch)
  BY DEF IInv, TypeOK, SentInv, Tranquil, Excused
<1>3. ~(age = 0 /\ nonce[t] < nextNonce)
  BY <1>1, BoundAssumption DEF Expired, IInv, TypeOK
<1> QED
  BY <1>1, <1>2, <1>3 DEF IInv, CacheCovers, Settled

\* A pending count is never above Count, and is Count where all is known.
LEMMA PendingIs ==
  ASSUME IInv, OrderInv, Tranquil, NEW b \in Backend, NEW n \in PendingCounts(head[b], Held(b))
  PROVE  /\ n \in Nat /\ n <= Count
         /\ (\A t \in acked : Knows(b, nonce[t])) => n = Count
<1>1. /\ n \in Nat /\ n <= MaxNonce /\ n >= head[b] /\ n \notin Held(b)
      /\ \A m \in Nat : m <= MaxNonce /\ head[b] <= m /\ m < n => m \in Held(b)
  BY BoundAssumption DEF PendingCounts, NonceRange
<1>2. Count \in Nat
  BY FS_CardinalityType DEF Count, OrderInv
<1>3. head[b] \in Nat /\ chainNonce \in Nat /\ head[b] <= chainNonce /\ chainNonce <= Count
  BY DEF IInv, TypeOK, SentInv, OrderInv, NoncesInv
<1>4. Count \notin Held(b)
  <2>1. pool[b] \subseteq acked
    BY DEF IInv, SentInv, Tranquil
  <2>2. \A t \in acked : nonce[t] \in Nat /\ nonce[t] < Count
    BY DEF IInv, TypeOK, OrderInv, NoncesInv
  <2> QED BY <1>2, <2>1, <2>2 DEF Held
<1>5. n <= Count
  <2> SUFFICES ASSUME ~(n <= Count) PROVE FALSE
    OBVIOUS
  <2>1. Count <= MaxNonce /\ head[b] <= Count /\ Count < n
    BY <1>1, <1>2, <1>3, BoundAssumption
  <2> QED BY <1>1, <1>2, <1>4, <2>1
<1>6. ASSUME \A t \in acked : Knows(b, nonce[t]), n < Count PROVE FALSE
  <2>1. PICK t \in acked : nonce[t] = n
    BY <1>1, <1>6 DEF OrderInv, NoncesInv
  <2> QED BY <1>1, <1>3, <1>6, <2>1 DEF Knows
<1> QED
  <2>1. (\A t \in acked : Knows(b, nonce[t])) => ~(n < Count)
    BY <1>6
  <2> QED BY <1>1, <1>2, <1>5, <2>1

-----------------------------------------------------------------------------
\* How the accepted broadcasts and their nonces move in a tranquil state.
LEMMA AckedMoves ==
  ASSUME IInv, [Next]_vars, Tranquil'
  PROVE  /\ \A t \in acked : nonce'[t] = nonce[t]
         /\ \/ UNCHANGED <<acked, chainNonce, mined>>
            \/ \E t \in Sender, b \in Backend : Broadcast(t, b)
            \/ \E t \in Sender : Mine(t)
<1> USE DEF IInv, TypeOK, SentInv, Goto, network, process, Phase, Terminal
<1>1. ASSUME NEW t \in Sender, NEW b \in Backend, Broadcast(t, b) PROVE nonce' = nonce
  BY <1>1 DEF Broadcast, Deliver
<1>2. ASSUME NEW t \in Sender, ChooseNonce(t)
      PROVE  UNCHANGED <<acked, chainNonce, mined>> /\ \A u \in acked : nonce'[u] = nonce[u]
  BY <1>2 DEF ChooseNonce
<1>3. ASSUME NEW t \in Sender, Mine(t) PROVE nonce' = nonce
  BY <1>3 DEF Mine
<1>4. CASE UNCHANGED <<acked, chainNonce, mined, nonce>>
  BY <1>4
<1> QED
  BY <1>1, <1>2, <1>3, <1>4
     DEF Next, ThreadStep, NetworkStep, Acquire, ReadPending, SendFails, BroadcastRejected,
         AnswerLost, Deliver, Advance, Release, GetReceipt, WaitTimesOut, Drop, Gossip, SyncHead,
         Restart, Tick, vars

\* The effect of an accepted broadcast on the order.
LEMMA BroadcastNonces ==
  ASSUME IInv, OrderInv, Tranquil, NEW t \in Sender, NEW b \in Backend, Broadcast(t, b)
  PROVE  /\ t \notin acked /\ acked' = acked \cup {t} /\ nonce' = nonce /\ nonce[t] = Count
         /\ Count \in Nat /\ Count' = Count + 1
         /\ UNCHANGED <<chainNonce, mined, nextNonce>>
         /\ pc[t] = "build" /\ pc' = [pc EXCEPT ![t] = "advance"]
<1>1. /\ t \notin acked /\ acked' = acked \cup {t} /\ nonce' = nonce /\ pc[t] = "build"
      /\ UNCHANGED <<chainNonce, mined, nextNonce>> /\ pc' = [pc EXCEPT ![t] = "advance"]
  BY DEF Broadcast, Deliver, Goto, IInv, SentInv, Terminal
<1>2. nonce[t] = Count
  BY <1>1 DEF OrderInv, NextNonceInv
<1>3. Count \in Nat /\ Cardinality(acked \cup {t}) = Cardinality(acked) + 1
  BY <1>1, FS_CardinalityType, FS_AddElement DEF Count, OrderInv
<1> QED BY <1>1, <1>2, <1>3 DEF Count

LEMMA NoncesStep ==
  ASSUME IInv, OrderInv, [Next]_vars, Tranquil'
  PROVE  NoncesInv'
<1>0. Tranquil /\ NoncesInv /\ NextNonceInv
  BY TranquilBefore DEF IInv, OrderInv
<1>1. /\ Count \in Nat /\ chainNonce \in Nat /\ acked \subseteq Sender /\ acked' \subseteq Sender
      /\ \A t \in Sender : nonce[t] \in Nat
  BY TypeStep, FS_CardinalityType DEF Count, OrderInv, IInv, TypeOK
<1>2. \A t \in acked : nonce'[t] = nonce[t]
  BY AckedMoves
<1>3. ASSUME NEW t \in Sender, NEW b \in Backend, Broadcast(t, b) PROVE NoncesInv'
  <2>1. /\ t \notin acked /\ acked' = acked \cup {t} /\ nonce' = nonce /\ nonce[t] = Count
        /\ Count' = Count + 1 /\ UNCHANGED <<chainNonce, mined>>
    BY <1>0, <1>3, BroadcastNonces
  <2>2. \A s, u \in acked' : nonce'[s] = nonce'[u] => s = u
    BY <1>0, <1>1, <2>1 DEF NoncesInv
  <2>3. \A u \in acked' : nonce'[u] < Count'
    BY <1>0, <1>1, <2>1 DEF NoncesInv
  <2>4. ASSUME NEW n \in Nat, n < Count' PROVE \E u \in acked' : nonce'[u] = n
    BY <1>0, <1>1, <2>1, <2>4 DEF NoncesInv
  <2>5. chainNonce' <= Count'
    BY <1>0, <1>1, <2>1 DEF NoncesInv
  <2>6. mined' = {u \in acked' : nonce'[u] < chainNonce'}
    BY <1>0, <1>1, <2>1 DEF NoncesInv
  <2> QED BY <2>2, <2>3, <2>4, <2>5, <2>6 DEF NoncesInv
<1>4. ASSUME NEW t \in Sender, Mine(t) PROVE NoncesInv'
  <2>1. /\ UNCHANGED <<acked, nonce>> /\ Count' = Count
        /\ nonce[t] = chainNonce /\ chainNonce' = chainNonce + 1 /\ mined' = mined \cup {t}
    BY <1>4 DEF Mine, process, Count
  <2>2. t \in acked
    BY <1>0, <1>4 DEF Mine, IInv, SentInv, Tranquil
  <2>3. chainNonce' <= Count'
    BY <1>0, <1>1, <2>1, <2>2 DEF NoncesInv
  <2>4. ASSUME NEW u \in acked
        PROVE  u \in mined' <=> nonce[u] < chainNonce + 1
    BY <1>0, <1>1, <2>1, <2>2 DEF NoncesInv
  <2>5. mined' = {u \in acked' : nonce'[u] < chainNonce'}
    BY <1>0, <2>1, <2>2, <2>4 DEF NoncesInv
  <2> QED BY <1>0, <2>1, <2>3, <2>5 DEF NoncesInv
<1>5. CASE UNCHANGED <<acked, chainNonce, mined>>
  <2>1. Count' = Count
    BY <1>5 DEF Count
  <2> QED BY <1>0, <1>2, <1>5, <2>1 DEF NoncesInv
<1> QED
  BY <1>3, <1>4, <1>5, AckedMoves

LEMMA NextNonceStep ==
  ASSUME IInv, OrderInv, [Next]_vars, Tranquil'
  PROVE  NextNonceInv'
<1>0. Tranquil /\ NoncesInv /\ NextNonceInv
  BY TranquilBefore DEF IInv, OrderInv
<1>1. /\ Count \in Nat /\ TypeOK /\ LockInv
      /\ \A t \in Sender : nonce[t] \in Nat /\ chainRead[t] \in Nat
      /\ nextNonce \in Nat /\ pc \in [Sender -> Phase]
  BY FS_CardinalityType DEF Count, OrderInv, IInv, TypeOK
<1>2. ASSUME NEW t \in Sender, pc[t] \in Critical, NEW u \in Sender, u # t
      PROVE  pc[u] \notin Critical
  BY <1>1, <1>2 DEF LockInv
<1>3. ASSUME NEW t \in Sender, NEW b \in Backend, ReadPending(t, b) PROVE NextNonceInv'
  <2>1. /\ pc[t] = "allocate" /\ pc' = [pc EXCEPT ![t] = "choose"]
        /\ UNCHANGED <<nextNonce, age, nonce, acked>> /\ Count' = Count /\ Expired' = Expired
    BY <1>3 DEF ReadPending, Goto, Count, Expired
  <2>2. PICK n \in PendingCounts(head[b], Held(b)) : chainRead' = [chainRead EXCEPT ![t] = n]
    BY <1>3 DEF ReadPending
  <2>3. \A u \in Sender : u # t => pc[u] \notin Critical
    BY <1>2, <2>1 DEF Critical
  <2>4. \A u \in Sender : pc[u] # "advance"
    BY <2>1, <2>3 DEF Critical
  <2>5. n <= Count /\ (Expired \/ nextNonce = 0 => n = Count)
    BY <1>0, <2>4, AllKnown, PendingIs
  <2>6. \A u \in Sender : pc'[u] = IF u = t THEN "choose" ELSE pc[u]
    BY <1>1, <2>1
  <2>7. chainRead'[t] = n
    BY <2>2 DEF IInv, TypeOK
  <2> QED
    BY <1>0, <2>1, <2>3, <2>4, <2>5, <2>6, <2>7 DEF NextNonceInv, Critical
<1>4. ASSUME NEW t \in Sender, ChooseNonce(t) PROVE NextNonceInv'
  <2>1. /\ pc[t] = "choose" /\ pc' = [pc EXCEPT ![t] = "build"]
        /\ nonce' = [nonce EXCEPT ![t] = Allocated(t)]
        /\ nextNonce' = IF Expired THEN 0 ELSE nextNonce
        /\ acked' = acked /\ Count' = Count
    BY <1>4 DEF ChooseNonce, Goto, Count
  <2>2. \A u \in Sender : u # t => pc[u] \notin Critical
    BY <1>2, <2>1 DEF Critical
  <2>3. nextNonce \in {0, Count}
    BY <1>0, <2>1, <2>2 DEF NextNonceInv, Critical
  <2>4. Allocated(t) = Count
    BY <1>0, <1>1, <2>1, <2>3 DEF NextNonceInv, Allocated, Larger
  <2>5. \A u \in Sender : pc'[u] = IF u = t THEN "build" ELSE pc[u]
    BY <1>1, <2>1
  <2>6. nonce'[t] = Count
    BY <2>1, <2>4 DEF IInv, TypeOK
  <2> QED
    BY <2>1, <2>2, <2>3, <2>5, <2>6 DEF NextNonceInv, Critical
<1>5. ASSUME NEW t \in Sender, NEW b \in Backend, Broadcast(t, b) PROVE NextNonceInv'
  <2>1. /\ pc[t] = "build" /\ pc' = [pc EXCEPT ![t] = "advance"] /\ nonce' = nonce
        /\ nonce[t] = Count /\ Count' = Count + 1 /\ UNCHANGED nextNonce
    BY <1>0, <1>5, BroadcastNonces
  <2>2. \A u \in Sender : u # t => pc[u] \notin Critical
    BY <1>2, <2>1 DEF Critical
  <2>3. nextNonce \in {0, nonce[t]}
    BY <1>0, <2>1, <2>2 DEF NextNonceInv, Critical
  <2>4. \A u \in Sender : pc'[u] = IF u = t THEN "advance" ELSE pc[u]
    BY <1>1, <2>1
  <2> QED
    BY <1>1, <2>1, <2>2, <2>3, <2>4 DEF NextNonceInv, Critical
<1>6. ASSUME NEW t \in Sender, Advance(t) PROVE NextNonceInv'
  <2>1. /\ pc[t] = "advance" /\ pc' = [pc EXCEPT ![t] = "release"] /\ Count' = Count
        /\ nextNonce' = nonce[t] + 1
    BY <1>6 DEF Advance, Goto, Count
  <2>2. \A u \in Sender : u # t => pc[u] \notin Critical
    BY <1>2, <2>1 DEF Critical
  <2>3. nextNonce' = Count'
    BY <1>0, <2>1 DEF NextNonceInv
  <2>4. \A u \in Sender : pc'[u] = IF u = t THEN "release" ELSE pc[u]
    BY <1>1, <2>1
  <2> QED
    BY <2>2, <2>3, <2>4 DEF NextNonceInv, Critical
<1>7. CASE Tick
  <2>1. UNCHANGED <<pc, nextNonce, chainRead, nonce, acked>> /\ Count' = Count
        /\ \A t \in Sender : pc[t] # "choose"
    BY <1>7 DEF Tick, Count
  <2> QED
    BY <1>0, <2>1 DEF NextNonceInv
<1>8. CASE /\ UNCHANGED <<nextNonce, age, chainRead, nonce, acked>>
           /\ \A t \in Sender : pc'[t] = pc[t] \/ pc'[t] \notin {"choose", "build", "advance"}
           /\ \A t \in Sender : pc[t] = "advance" => pc'[t] = "advance"
  <2>1. Count' = Count /\ Expired' = Expired
    BY <1>8 DEF Count, Expired
  <2> QED
    BY <1>0, <1>8, <2>1 DEF NextNonceInv
<1>9. ASSUME NEW t \in Sender,
             \/ Acquire(t) \/ SendFails(t) \/ Release(t) \/ GetReceipt(t) \/ WaitTimesOut(t)
             \/ \E b \in Backend : BroadcastRejected(t, b)
      PROVE  NextNonceInv'
  <2>1. UNCHANGED <<nextNonce, age, chainRead, nonce, acked>>
    BY <1>9 DEF Acquire, SendFails, Release, GetReceipt, WaitTimesOut, BroadcastRejected
  <2>2. \E p \in Phase \ {"choose", "build", "advance"} :
          pc[t] # "advance" /\ pc' = [pc EXCEPT ![t] = p]
    BY <1>9 DEF Acquire, SendFails, Release, GetReceipt, WaitTimesOut, BroadcastRejected, Goto,
         Phase
  <2> QED
    BY <1>1, <1>8, <2>1, <2>2
<1>10. CASE NetworkStep \/ UNCHANGED vars
  BY <1>8, <1>10 DEF NetworkStep, Mine, Drop, Gossip, SyncHead, vars, process
<1>11. CASE Restart
  BY <1>1, <1>11 DEF Restart, Tranquil, IInv, TypeOK
<1>12. ASSUME NEW t \in Sender, NEW b \in Backend, AnswerLost(t, b) PROVE NextNonceInv'
  <2>1. t \notin sent /\ sent' = sent \cup {t} /\ acked' = acked /\ acked \subseteq sent
    BY <1>12 DEF AnswerLost, Deliver, Goto, IInv, SentInv, Terminal
  <2> QED BY <2>1 DEF Tranquil
<1> QED
  BY <1>3, <1>4, <1>5, <1>6, <1>7, <1>9, <1>10, <1>11, <1>12 DEF Next, ThreadStep

\* The order of the nonces is that of the broadcasts, in every reachable state.
LEMMA OrderStep == IInv /\ OrderInv /\ [Next]_vars => OrderInv'
BY FiniteStep, NoncesStep, NextNonceStep DEF OrderInv, IInv

LEMMA InitOrder == Init => OrderInv
<1> SUFFICES ASSUME Init PROVE OrderInv
  OBVIOUS
<1>1. acked = {} /\ IsFiniteSet(acked) /\ Count = 0
  BY FS_EmptySet DEF Init, Count
<1> QED
  BY <1>1 DEF Init, OrderInv, NoncesInv, NextNonceInv

-----------------------------------------------------------------------------
\* Until something is dropped or lost or the process restarts, no node rejects a
\* broadcast for its nonce, whatever count another one answered before.
\* (_send_lock.py, both races of its header)
THEOREM BroadcastsAreNotRejected == Spec => []NeverRejected
<1>1. ASSUME IInv, OrderInv, Tranquil, NEW t \in Sender, NEW b \in Backend, pc[t] = "build"
      PROVE  Accepts(b, nonce[t])
  <2>1. nonce[t] = Count /\ Count \in Nat /\ chainNonce <= Count
    BY <1>1, FS_CardinalityType DEF OrderInv, NoncesInv, NextNonceInv, Count
  <2>2. head[b] \in Nat /\ chainNonce \in Nat /\ head[b] <= chainNonce
    BY <1>1 DEF IInv, TypeOK, SentInv
  <2>3. \A u \in pool[b] : nonce[u] \in Nat /\ nonce[u] < Count
    BY <1>1 DEF IInv, TypeOK, SentInv, Tranquil, OrderInv, NoncesInv
  <2> QED
    BY <2>1, <2>2, <2>3 DEF Accepts, Held
<1>2. IInv /\ OrderInv => NeverRejected
  BY <1>1 DEF NeverRejected
<1>3. IInv /\ OrderInv /\ [Next]_vars => OrderInv'
  BY OrderStep
<1> QED
  BY InitOrder, <1>2, <1>3, InductiveInvariant, PTL DEF Spec

-----------------------------------------------------------------------------
\* The pending transactions in a tranquil state, entry by entry.
ByNonce ==
  /\ Queued \in Seq(Sender) /\ Len(Queued) = Count - chainNonce
  /\ \A i \in 1 .. Count - chainNonce :
       /\ Queued[i] \in acked /\ nonce[Queued[i]] = chainNonce + i - 1
       /\ \A t \in acked : nonce[t] = chainNonce + i - 1 => Queued[i] = t

LEMMA QueuedIs ==
  Count \in Nat /\ chainNonce \in Nat /\ acked \subseteq Sender /\ NoncesInv /\ Tranquil => ByNonce
<1> SUFFICES ASSUME Count \in Nat, chainNonce \in Nat, acked \subseteq Sender, NoncesInv, Tranquil
             PROVE  ByNonce
  OBVIOUS
<1> DEFINE q == [i \in 1 .. Count - chainNonce |-> Nth(chainNonce + i - 1)]
<1>1. Queued = q
  BY DEF Queued, Count
<1>2. ASSUME NEW i \in 1 .. Count - chainNonce
      PROVE  /\ q[i] \in acked /\ nonce[q[i]] = chainNonce + i - 1
             /\ \A t \in acked : nonce[t] = chainNonce + i - 1 => q[i] = t
  <2>1. chainNonce + i - 1 \in Nat /\ chainNonce + i - 1 < Count
    OBVIOUS
  <2>2. PICK t \in acked : nonce[t] = chainNonce + i - 1
    BY <2>1 DEF NoncesInv
  <2>3. At(chainNonce + i - 1) = {t}
    BY <2>2 DEF NoncesInv, At
  <2>4. q[i] = t
    BY <2>3 DEF Nth
  <2> QED BY <2>2, <2>4 DEF NoncesInv
<1>3. Count - chainNonce \in Nat
  BY DEF NoncesInv
<1> HIDE DEF q
<1>4. q \in Seq(Sender) /\ Len(q) = Count - chainNonce
  <2>1. \A i \in 1 .. Count - chainNonce : q[i] \in Sender
    BY <1>2
  <2>2. q = [i \in 1 .. Count - chainNonce |-> q[i]]
    BY DEF q
  <2> QED BY <1>3, <2>1, <2>2
<1> QED BY <1>1, <1>2, <1>4 DEF ByNonce

\* A broadcast joins the queue at its end, ...
LEMMA QueueSend ==
  ASSUME IInv, OrderInv, Tranquil, TypeOK', OrderInv', Tranquil',
         NEW t \in Sender, NEW b \in Backend, Broadcast(t, b)
  PROVE  /\ t \notin Range(Queued) \cup mined
         /\ Queued' = Append(Queued, t) /\ UNCHANGED mined
<1>1. /\ t \notin acked /\ acked' = acked \cup {t} /\ nonce' = nonce /\ nonce[t] = Count
      /\ Count \in Nat /\ Count' = Count + 1 /\ UNCHANGED <<chainNonce, mined>>
  BY BroadcastNonces
<1>2. /\ chainNonce \in Nat /\ acked \subseteq Sender /\ acked' \subseteq Sender
      /\ NoncesInv /\ NoncesInv' /\ chainNonce <= Count
  BY DEF IInv, TypeOK, OrderInv, NoncesInv
<1> DEFINE q == Queued
           r == Queued'
<1>3. /\ q \in Seq(Sender) /\ Len(q) = Count - chainNonce
      /\ \A i \in 1 .. Count - chainNonce : q[i] \in acked /\ nonce[q[i]] = chainNonce + i - 1
  BY <1>1, <1>2, QueuedIs DEF ByNonce
<1>4. /\ r \in Seq(Sender) /\ Len(r) = Count + 1 - chainNonce
      /\ \A i \in 1 .. Count + 1 - chainNonce : \A u \in acked \cup {t} :
           nonce[u] = chainNonce + i - 1 => r[i] = u
  <2>1. (Count \in Nat /\ chainNonce \in Nat /\ acked \subseteq Sender /\ NoncesInv /\ Tranquil
           => ByNonce)'
    BY QueuedIs, PTL
  <2> QED BY <1>1, <1>2, <2>1 DEF ByNonce
<1> HIDE DEF q, r
<1>5. t \notin Range(q) \cup mined
  BY <1>1, <1>2, <1>3 DEF Range, NoncesInv
<1>6. r = Append(q, t)
  <2>1. Append(q, t) \in Seq(Sender) /\ Len(Append(q, t)) = Len(q) + 1
        /\ \A i \in 1 .. Len(q) : Append(q, t)[i] = q[i]
        /\ Append(q, t)[Len(q) + 1] = t
    BY <1>3
  <2>2. ASSUME NEW i \in 1 .. Len(r) PROVE r[i] = Append(q, t)[i]
    <3>1. CASE i \in 1 .. Count - chainNonce
      <4>1. q[i] \in acked /\ nonce[q[i]] = chainNonce + i - 1 /\ i \in 1 .. Len(q)
        BY <1>3, <3>1
      <4>2. i \in 1 .. Count + 1 - chainNonce
        BY <1>4
      <4>3. r[i] = q[i]
        BY <1>4, <4>1, <4>2
      <4> QED BY <2>1, <4>1, <4>3
    <3>2. CASE i = Count + 1 - chainNonce
      <4>1. nonce[t] = chainNonce + i - 1 /\ i = Len(q) + 1
        BY <1>1, <1>2, <1>3, <3>2
      <4> QED BY <1>4, <2>1, <4>1
    <3>3. i \in Nat /\ 1 <= i /\ i <= Count + 1 - chainNonce
      BY <1>1, <1>2, <1>4
    <3>4. i \in 1 .. Count - chainNonce \/ i = Count + 1 - chainNonce
      BY <1>1, <1>2, <3>3
    <3> QED BY <3>1, <3>2, <3>4
  <2> QED BY <1>1, <1>2, <1>3, <1>4, <2>1, <2>2, SeqEqual
<1> QED BY <1>1, <1>5, <1>6 DEF q, r

\* ... and the transaction mined leaves it at its head.
LEMMA QueueMine ==
  ASSUME IInv, OrderInv, Tranquil, TypeOK', OrderInv', Tranquil', NEW t \in Sender, Mine(t)
  PROVE  /\ Queued # <<>> /\ Queued' = Tail(Queued)
         /\ mined' = mined \cup {Head(Queued)}
<1>1. /\ UNCHANGED <<acked, nonce>> /\ Count' = Count /\ t \in acked
      /\ nonce[t] = chainNonce /\ chainNonce' = chainNonce + 1 /\ mined' = mined \cup {t}
  BY DEF Mine, process, Count, IInv, SentInv, Tranquil
<1>2. /\ chainNonce \in Nat /\ acked \subseteq Sender /\ Count \in Nat
      /\ NoncesInv /\ NoncesInv' /\ chainNonce < Count
  BY <1>1, FS_CardinalityType DEF Count, IInv, TypeOK, OrderInv, NoncesInv
<1> DEFINE q == Queued
           r == Queued'
<1>3. /\ q \in Seq(Sender) /\ Len(q) = Count - chainNonce
      /\ \A i \in 1 .. Count - chainNonce :
           /\ q[i] \in acked /\ nonce[q[i]] = chainNonce + i - 1
           /\ \A u \in acked : nonce[u] = chainNonce + i - 1 => q[i] = u
  BY <1>2, QueuedIs DEF ByNonce
<1>4. /\ r \in Seq(Sender) /\ Len(r) = Count - (chainNonce + 1)
      /\ \A i \in 1 .. Count - (chainNonce + 1) : \A u \in acked :
           nonce[u] = (chainNonce + 1) + i - 1 => r[i] = u
  <2>1. (Count \in Nat /\ chainNonce \in Nat /\ acked \subseteq Sender /\ NoncesInv /\ Tranquil
           => ByNonce)'
    BY QueuedIs, PTL
  <2> QED BY <1>1, <1>2, <2>1 DEF ByNonce
<1> HIDE DEF q, r
<1>5. q # <<>> /\ Head(q) = t
  BY <1>1, <1>2, <1>3
<1>6. r = Tail(q)
  <2>1. /\ Tail(q) \in Seq(Sender) /\ Len(Tail(q)) = Len(q) - 1
        /\ \A i \in 1 .. Len(q) - 1 : Tail(q)[i] = q[i + 1]
    BY <1>3, <1>5
  <2>2. ASSUME NEW i \in 1 .. Len(r) PROVE r[i] = Tail(q)[i]
    <3>1. i \in 1 .. Len(q) - 1 /\ i + 1 \in 1 .. Count - chainNonce
      BY <1>2, <1>3, <1>4
    <3>2. q[i + 1] \in acked /\ nonce[q[i + 1]] = chainNonce + (i + 1) - 1
      BY <1>3, <3>1
    <3>3. r[i] = q[i + 1]
      BY <1>2, <1>4, <3>1, <3>2
    <3> QED BY <2>1, <3>1, <3>3
  <2>3. r \in Seq(Sender) /\ Len(r) = Len(Tail(q))
    BY <1>2, <1>3, <1>4, <2>1
  <2> HIDE DEF q, r
  <2> QED BY <2>1, <2>2, <2>3, SeqEqual
<1> QED BY <1>1, <1>5, <1>6 DEF q, r

\* Nothing else moves it.
LEMMA QueueStays ==
  ASSUME IInv, OrderInv, Tranquil, TypeOK', OrderInv', Tranquil', [Next]_vars,
         UNCHANGED <<acked, chainNonce, mined>>
  PROVE  Queued' = Queued
<1>1. Count' = Count /\ \A t \in acked : nonce'[t] = nonce[t]
  BY AckedMoves DEF Count
<1>2. chainNonce \in Nat /\ acked \subseteq Sender /\ Count \in Nat /\ NoncesInv /\ NoncesInv'
  BY FS_CardinalityType DEF Count, IInv, TypeOK, OrderInv
<1> DEFINE q == Queued
           r == Queued'
<1>3. /\ q \in Seq(Sender) /\ Len(q) = Count - chainNonce
      /\ \A i \in 1 .. Count - chainNonce : q[i] \in acked /\ nonce[q[i]] = chainNonce + i - 1
  BY <1>2, QueuedIs DEF ByNonce
<1>4. /\ r \in Seq(Sender) /\ Len(r) = Count - chainNonce
      /\ \A i \in 1 .. Count - chainNonce : \A u \in acked :
           nonce[u] = chainNonce + i - 1 => r[i] = u
  <2>1. (Count \in Nat /\ chainNonce \in Nat /\ acked \subseteq Sender /\ NoncesInv /\ Tranquil
           => ByNonce)'
    BY QueuedIs, PTL
  <2> QED BY <1>1, <1>2, <2>1 DEF ByNonce
<1> HIDE DEF q, r
<1>5. \A i \in 1 .. Len(q) : r[i] = q[i]
  BY <1>3, <1>4
<1>6. r = q
  BY <1>3, <1>4, <1>5, SeqEqual
<1> QED BY <1>6 DEF q, r

\* What is mined stays mined.
LEMMA MinedGrows == [Next]_vars => mined \subseteq mined'
BY DEF Next, ThreadStep, NetworkStep, Acquire, ReadPending, ChooseNonce, SendFails,
       BroadcastRejected, Broadcast, AnswerLost, Deliver, Advance, Release, GetReceipt, WaitTimesOut,
       Mine, Drop, Gossip, SyncHead, Restart, Tick, vars, process, network

LEMMA QueueStep ==
  ASSUME IInv, OrderInv, IInv', OrderInv', [Next]_vars
  PROVE  [Queue!Next]_(Queue!vars)
<1> USE DEF Queue!Next, Queue!Send, Queue!Mine, Queue!Upset, Queue!vars
<1>1. TypeOK' /\ TypeOK /\ SentInv /\ mined \subseteq mined'
  BY MinedGrows DEF IInv
<1>2. CASE ~Tranquil'
  BY <1>1, <1>2
<1>3. CASE Tranquil'
  <2>1. Tranquil
    BY <1>1, <1>3, TranquilBefore
  <2>2. ASSUME NEW t \in Sender, NEW b \in Backend, Broadcast(t, b) PROVE Queue!Next
    <3>1. t \notin Range(Queued) \cup mined /\ Queued' = Append(Queued, t) /\ UNCHANGED mined
      BY <1>1, <1>3, <2>1, <2>2, QueueSend
    <3>2. Queue!Send(t)
      BY <3>1 DEF Range, Queue!Range
    <3> QED BY <1>3, <2>1, <3>2
  <2>3. ASSUME NEW t \in Sender, Mine(t) PROVE Queue!Next
    <3>1. Queued # <<>> /\ Queued' = Tail(Queued) /\ mined' = mined \cup {Head(Queued)}
      BY <1>1, <1>3, <2>1, <2>3, QueueMine
    <3>2. Queue!Mine
      BY <3>1
    <3> QED BY <1>3, <2>1, <3>2
  <2>4. CASE UNCHANGED <<acked, chainNonce, mined>>
    <3>1. Queued' = Queued
      BY <1>1, <1>3, <2>1, <2>4, QueueStays
    <3> QED BY <1>3, <2>1, <2>4, <3>1
  <2> QED BY <1>3, <2>2, <2>3, <2>4, AckedMoves
<1> QED BY <1>2, <1>3

\* Until a transaction is dropped, an accepted broadcast's answer is lost or the
\* process restarts, the transactions are mined in the order of their broadcasts,
\* for any number of threads and backends, whatever count a backend answers and
\* whenever the entry expires. (_send_lock.py)
THEOREM QueueRefinement == Spec => ImplementsQueue
<1>1. Init => Queue!Init
  <2> SUFFICES ASSUME Init PROVE Queue!Init
    OBVIOUS
  <2>1. Tranquil /\ Cardinality(acked) = 0 /\ chainNonce = 0 /\ mined = {}
    BY FS_EmptySet DEF Init, Tranquil
  <2>2. Queued = [i \in 1 .. 0 - 0 |-> Nth(0 + i - 1)]
    BY <2>1 DEF Queued
  <2>3. Queued = <<>>
    BY <2>2
  <2> QED BY <2>1, <2>3 DEF Queue!Init
<1>2. IInv /\ OrderInv /\ [Next]_vars => OrderInv'
  BY OrderStep
<1>3. IInv /\ OrderInv /\ IInv' /\ OrderInv' /\ [Next]_vars => [Queue!Next]_(Queue!vars)
  BY QueueStep
<1> QED
  BY InitOrder, <1>1, <1>2, <1>3, InductiveInvariant, PTL DEF Spec, ImplementsQueue, Queue!Spec
=============================================================================
