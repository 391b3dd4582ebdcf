-------------------------- MODULE Anchoring_proof --------------------------
(***************************************************************************)
(* Proofs about Anchoring, for any files, hashes and identities, whatever  *)
(* fails.                                                                  *)
(*                                                                         *)
(* That a row speaks of its own transaction rests on each thread sending   *)
(* one transaction, mined at most once (LifeInv, OnceInv), on what the     *)
(* threads know at each step (PhaseInv), and on the chain holding exactly  *)
(* what was executed (DigestInv, ReceiptInv).  What the end of calm        *)
(* weather finds rests on why transactions revert (OutcomeInv) and on no   *)
(* thread giving up (CalmInv).  The last part is composition: with the     *)
(* wallet's order and with the contracts.                                  *)
(***************************************************************************)
EXTENDS Anchoring, Pools_proof

-----------------------------------------------------------------------------
(* The inductive invariant.                                                *)

InPool(j) == j \in Range(pool)

\* A job has been broadcast only if its thread is past the send, and has a
\* thread only if its row is there.
LifeInv ==
  \A j \in Job :
    /\ InPool(j) \/ j \in executed \cup reverted => pc[j] \notin {"none", "send"}
    /\ pc[j] # "none" => hashOf[j[1]] # NoHash

\* A transaction is in one place.
OnceInv ==
  /\ IsInjective(pool)
  /\ \A j \in Job : InPool(j) => j \notin executed \cup reverted
  /\ executed \cap reverted = {}

\* What a thread in its last steps knows of its transaction, and a row of its
\* threads'.
Proven(f, v) ==
  /\ v = "tx" => <<f, "digest">> \in executed
  /\ v = "duplicate" => <<f, "digest">> \in reverted /\ slot[hashOf[f]] # 0

PhaseInv ==
  \A f \in File :
    /\ pc[<<f, "digest">>] = "verify" => <<f, "digest">> \in reverted
    /\ pc[<<f, "digest">>] = "persist" => Proven(f, value[f])
    /\ pc[<<f, "receipt">>] = "persist" => <<f, "receipt">> \in executed

RowInv ==
  \A f \in File :
    /\ Proven(f, ethTx[f])
    /\ receiptTx[f] = "tx" => <<f, "receipt">> \in executed

\* The contracts hold what the executed transactions wrote.
DigestInv ==
  /\ \A f \in File : <<f, "digest">> \in executed => slot[hashOf[f]] # 0
  /\ \A h \in Hash : slot[h] # 0 =>
       \E g \in File : hashOf[g] = h /\ <<g, "digest">> \in executed

ReceiptInv ==
  /\ \A f \in File : <<f, "receipt">> \in executed =>
       /\ receipts[hashOf[f]].timestamp # 0
       /\ receipts[hashOf[f]].sender = sender[f]
       /\ receipts[hashOf[f]].recipient = recipient[f]
  /\ \A f, g \in File :
       <<f, "receipt">> \in executed /\ <<g, "receipt">> \in executed
       /\ hashOf[f] = hashOf[g] => f = g

IInv == /\ TypeOK /\ D!SlotsFindEntries
        /\ LifeInv /\ OnceInv /\ PhaseInv /\ RowInv /\ DigestInv /\ ReceiptInv

LEMMA JobIs ==
  /\ \A j \in Job : j[1] \in File /\ j = <<j[1], j[2]>> /\ j[2] \in {"digest", "receipt"}
  /\ \A f \in File : <<f, "digest">> \in Job /\ <<f, "receipt">> \in Job
BY DEF Job

\* The pool after a broadcast, a drop, a block.
LEMMA EnqueueAdds ==
  ASSUME IInv, NEW j \in Job, ~InPool(j), Enqueue(j)
  PROVE  /\ pool' \in Seq(Job) /\ IsInjective(pool)'
         /\ \A b \in Job : InPool(b)' <=> InPool(b) \/ b = j
<1>1. pool \in Seq(Job) /\ IsInjective(pool) /\ j \notin Range(pool) /\ Len(pool) \in Nat
  BY DEF IInv, TypeOK, OnceInv, InPool
<1>2. PICK i \in 1 .. Len(pool) + 1 : pool' = InsertAt(pool, i, j)
  <2>1. CASE tangled
    BY <2>1 DEF Enqueue
  <2>2. CASE ~tangled
    BY <1>1, <2>2 DEF Enqueue
  <2> QED BY <2>1, <2>2
<1>3. /\ InsertAt(pool, i, j) \in Seq(Job) /\ IsInjective(InsertAt(pool, i, j))
      /\ Range(InsertAt(pool, i, j)) = Range(pool) \cup {j}
  BY <1>1, InsertOne
<1>4. pool' \in Seq(Job) /\ IsInjective(pool') /\ Range(pool') = Range(pool) \cup {j}
  BY <1>2, <1>3
<1> QED BY <1>4 DEF InPool

LEMMA DropRemoves ==
  ASSUME IInv, NEW i \in 1 .. Len(pool), pool' = RemoveAt(pool, i)
  PROVE  /\ pool' \in Seq(Job) /\ IsInjective(pool)'
         /\ \A b \in Job : InPool(b)' => InPool(b)
<1>1. pool \in Seq(Job) /\ IsInjective(pool)
  BY DEF IInv, TypeOK, OnceInv
<1>2. /\ RemoveAt(pool, i) \in Seq(Job) /\ IsInjective(RemoveAt(pool, i))
      /\ Range(RemoveAt(pool, i)) \subseteq Range(pool)
  BY <1>1, RemoveOne
<1>3. pool' \in Seq(Job) /\ IsInjective(pool') /\ Range(pool') \subseteq Range(pool)
  BY <1>2
<1> QED BY <1>3 DEF InPool

LEMMA MineRemoves ==
  ASSUME IInv, pool # <<>>, pool' = Tail(pool)
  PROVE  /\ pool' \in Seq(Job) /\ Head(pool) \in Job /\ InPool(Head(pool))
         /\ IsInjective(pool)'
         /\ \A b \in Job : InPool(b)' <=> InPool(b) /\ b # Head(pool)
<1>1. pool \in Seq(Job) /\ IsInjective(pool)
  BY DEF IInv, TypeOK, OnceInv
<1>2. /\ Head(pool) \in Job /\ Head(pool) \in Range(pool)
      /\ Tail(pool) \in Seq(Job) /\ IsInjective(Tail(pool))
      /\ Range(Tail(pool)) = Range(pool) \ {Head(pool)}
  BY <1>1, TakeHead
<1>3. /\ pool' \in Seq(Job) /\ IsInjective(pool')
      /\ Range(pool') = Range(pool) \ {Head(pool)}
  BY <1>2
<1> QED BY <1>2, <1>3 DEF InPool

-----------------------------------------------------------------------------
(* The rows and the threads: none of these steps touches the chain.        *)

\* Nothing has been sent for a row that is not there yet.
LEMMA InitInvariant ==
  ASSUME Init
  PROVE  IInv
<1> USE FileAssumption, BoundAssumption
<1>1. D!TypeOK /\ P!TypeOK
  BY DEF Init, D!Init, P!Init, D!TypeOK, P!TypeOK, P!Receipt, P!NoReceipt, D!Entry
<1>2. TypeOK
  <2>1. pool \in Seq(Job) /\ seen \in 0 .. Len(digests)
    BY DEF Init, D!Init
  <2>2. pc \in [Job -> Phase]
    BY DEF Init, Phase
  <2>3. restarts \in 0 .. MaxRestarts
    BY DEF Init
  <2>4. /\ hashOf \in [File -> Hash \cup {NoHash}]
        /\ sender \in [File -> Identity \cup {NoIdentity}]
        /\ recipient \in [File -> Identity \cup {NoIdentity}]
        /\ ethTx \in [File -> {"null", "tx", "duplicate"}]
        /\ receiptTx \in [File -> {"null", "tx"}]
        /\ value \in [File -> {"null", "tx", "duplicate"}]
    BY DEF Init
  <2>5. weather \in Weather /\ tangled \in BOOLEAN /\ executed \subseteq Job
      /\ reverted \subseteq Job
    BY DEF Init
  <2> QED BY <1>1, <2>1, <2>2, <2>3, <2>4, <2>5 DEF TypeOK
<1>3. D!SlotsFindEntries
  BY DEF Init, D!Init, D!SlotsFindEntries
<1>4. LifeInv /\ OnceInv
  BY DEF Init, LifeInv, OnceInv, InPool, IsInjective, Range
<1>5. PhaseInv /\ RowInv
  BY JobIs DEF Init, PhaseInv, RowInv, Proven
<1>6. DigestInv /\ ReceiptInv
  BY DEF Init, D!Init, DigestInv, ReceiptInv
<1> QED BY <1>2, <1>3, <1>4, <1>5, <1>6 DEF IInv

\* A job with no thread yet has no transaction.
LEMMA AcceptInvariant ==
  ASSUME IInv, NEW f \in File, NEW h \in Hash, NEW s \in Identity, NEW r \in Identity,
         Accept(f, h, s, r)
  PROVE  IInv'
<1> USE FileAssumption, JobIs DEF chain, contracts, evidence
<1>1. /\ hashOf[f] = NoHash /\ h # NoHash
      /\ hashOf' = [hashOf EXCEPT ![f] = h]
      /\ sender' = [sender EXCEPT ![f] = s]
      /\ recipient' = [recipient EXCEPT ![f] = r]
      /\ pc' = [pc EXCEPT ![<<f, "digest">>] = "send", ![<<f, "receipt">>] = "send"]
      /\ UNCHANGED <<ethTx, receiptTx, value, digests, slot, receipts, executed, reverted, pool>>
  BY DEF Accept
<1>2. \A b \in {<<f, "digest">>, <<f, "receipt">>} :
        pc[b] = "none" /\ ~InPool(b) /\ b \notin executed \cup reverted
  BY <1>1 DEF IInv, LifeInv
<1>3. TypeOK'
  <2>1. pc' \in [Job -> Phase]
    BY <1>1 DEF IInv, TypeOK, Phase
  <2>2. /\ hashOf' \in [File -> Hash \cup {NoHash}]
        /\ sender' \in [File -> Identity \cup {NoIdentity}]
        /\ recipient' \in [File -> Identity \cup {NoIdentity}]
    BY <1>1 DEF IInv, TypeOK
  <2>3. D!TypeOK' /\ P!TypeOK'
    BY DEF Accept, IInv, TypeOK, D!TypeOK, P!TypeOK
  <2> QED BY <2>1, <2>2, <2>3 DEF Accept, IInv, TypeOK
<1>4. D!SlotsFindEntries'
  BY <1>1 DEF IInv, D!SlotsFindEntries
<1>5. \A b \in Job : InPool(b)' <=> InPool(b)
  BY <1>1 DEF InPool
<1>6. LifeInv'
  BY <1>1, <1>2, <1>5 DEF IInv, TypeOK, LifeInv
<1>7. OnceInv'
  BY <1>1, <1>5 DEF IInv, OnceInv
<1>8. \A g \in File : <<g, "digest">> \in executed \cup reverted \/ <<g, "receipt">> \in executed
        => hashOf'[g] = hashOf[g] /\ sender'[g] = sender[g] /\ recipient'[g] = recipient[g]
  BY <1>1, <1>2 DEF IInv, TypeOK
<1>9. PhaseInv'
  BY ZenonT(60), <1>1, <1>2, <1>8 DEF IInv, TypeOK, PhaseInv, Proven
<1>10. RowInv'
  BY ZenonT(60), <1>1, <1>8 DEF IInv, RowInv, Proven
<1>11. DigestInv'
  <2>1. DigestInv
    BY DEF IInv
  <2>2. ASSUME NEW g \in File, <<g, "digest">> \in executed'
        PROVE  slot'[hashOf'[g]] # 0
    BY <1>1, <1>8, <2>1, <2>2 DEF DigestInv
  <2>3. ASSUME NEW k \in Hash, slot'[k] # 0
        PROVE  \E g \in File : hashOf'[g] = k /\ <<g, "digest">> \in executed'
    <3>1. PICK g \in File : hashOf[g] = k /\ <<g, "digest">> \in executed
      BY <1>1, <2>1, <2>3 DEF DigestInv
    <3> QED BY <1>1, <1>8, <3>1
  <2> QED BY <2>2, <2>3 DEF DigestInv
<1>12. ReceiptInv'
  BY <1>1, <1>8 DEF IInv, ReceiptInv
<1> QED BY <1>3, <1>4, <1>6, <1>7, <1>9, <1>10, <1>11, <1>12 DEF IInv

\* A job whose thread is about to send has no transaction yet.
LEMMA SendInvariant ==
  ASSUME IInv, NEW j \in Job, Broadcast(j) \/ AnswerLost(j)
  PROVE  IInv'
<1> USE JobIs DEF chain, contracts, evidence, file
<1>1. /\ pc[j] = "send" /\ Enqueue(j)
      /\ pc' = [pc EXCEPT ![j] = "wait"] \/ pc' = [pc EXCEPT ![j] = "failed"]
      /\ tangled' \in {tangled, TRUE}
      /\ UNCHANGED <<weather, hashOf, sender, recipient, ethTx, receiptTx, value, restarts,
                     owner, digests, slot, server, receipts, posted, seen, executed, reverted>>
  BY DEF Broadcast, AnswerLost, Goto
<1>2. ~InPool(j) /\ j \notin executed \cup reverted
  BY <1>1 DEF IInv, LifeInv
<1>3. /\ pool' \in Seq(Job)
      /\ IsInjective(pool)'
      /\ \A b \in Job : InPool(b)' => InPool(b) \/ b = j
  BY <1>1, <1>2, EnqueueAdds
<1>4. TypeOK'
  BY <1>1, <1>3 DEF IInv, TypeOK, Phase, Terminal, D!TypeOK, P!TypeOK
<1>5. D!SlotsFindEntries'
  BY <1>1 DEF IInv, D!SlotsFindEntries
<1>6. LifeInv'
  BY <1>1, <1>3 DEF IInv, TypeOK, LifeInv
<1>7. OnceInv'
  BY <1>1, <1>2, <1>3 DEF IInv, OnceInv
<1>8. PhaseInv'
  <2>1. \A b \in Job : pc'[b] \in {"verify", "persist"} => pc'[b] = pc[b]
    BY <1>1 DEF IInv, TypeOK
  <2>2. PhaseInv
    BY DEF IInv
  <2> QED BY <1>1, <2>1, <2>2 DEF PhaseInv, Proven
<1>9. RowInv' /\ DigestInv' /\ ReceiptInv'
  BY <1>1 DEF IInv, RowInv, DigestInv, ReceiptInv, Proven
<1> QED BY <1>4, <1>5, <1>6, <1>7, <1>8, <1>9 DEF IInv

\* Threads that end, and nothing else, take nothing from the invariant.
LEMMA ThreadsForget ==
  ASSUME IInv, pc' \in [Job -> Phase],
         \A b \in Job : pc'[b] \in {"none", "send", "verify", "persist"} => pc'[b] = pc[b],
         \A b \in Job : pc'[b] # "none" => pc[b] # "none",
         restarts' \in 0 .. MaxRestarts, tangled' \in BOOLEAN,
         UNCHANGED <<weather, hashOf, sender, recipient, ethTx, receiptTx, value, owner,
                     digests, slot, server, receipts, posted, seen, executed, reverted, pool>>
  PROVE  IInv'
<1>1. TypeOK'
  BY DEF IInv, TypeOK, D!TypeOK, P!TypeOK
<1>2. D!SlotsFindEntries'
  BY DEF IInv, D!SlotsFindEntries
<1>3. OnceInv' /\ RowInv' /\ DigestInv' /\ ReceiptInv'
  BY DEF IInv, OnceInv, InPool, RowInv, DigestInv, ReceiptInv, Proven
<1>4. LifeInv'
  <2>1. \A b \in Job : InPool(b)' <=> InPool(b)
    BY DEF InPool
  <2>2. LifeInv
    BY DEF IInv
  <2> QED BY <2>1, <2>2 DEF LifeInv
<1>5. PhaseInv'
  <2>1. PhaseInv
    BY DEF IInv
  <2> QED BY <2>1, JobIs DEF PhaseInv, Proven
<1> QED BY <1>1, <1>2, <1>3, <1>4, <1>5 DEF IInv

LEMMA FailsInvariant ==
  ASSUME IInv, NEW j \in Job, ThreadFails(j)
  PROVE  IInv'
<1> USE JobIs DEF chain, contracts, evidence, file
<1>1. /\ pc[j] \in {"send", "wait", "verify", "persist"}
      /\ pc' = [pc EXCEPT ![j] = "failed"]
      /\ UNCHANGED <<weather, hashOf, sender, recipient, ethTx, receiptTx, value, restarts, owner,
                     digests, slot, server, receipts, posted, seen, executed, reverted, pool,
                     tangled>>
  BY DEF ThreadFails
<1>2. pc' \in [Job -> Phase]
  BY <1>1 DEF IInv, TypeOK, Phase, Terminal
<1>3. /\ \A b \in Job : pc'[b] \in {"none", "send", "verify", "persist"} => pc'[b] = pc[b]
      /\ \A b \in Job : pc'[b] # "none" => pc[b] # "none"
  BY <1>1 DEF IInv, TypeOK
<1>4. restarts' \in 0 .. MaxRestarts /\ tangled' \in BOOLEAN
  BY <1>1 DEF IInv, TypeOK
<1> QED BY <1>1, <1>2, <1>3, <1>4, ThreadsForget

LEMMA RestartInvariant ==
  ASSUME IInv, Restart
  PROVE  IInv'
<1> USE JobIs DEF chain, contracts, evidence, file
<1>1. /\ pc' = [j \in Job |-> IF pc[j] \in {"none"} \cup Terminal THEN pc[j] ELSE "killed"]
      /\ restarts < MaxRestarts /\ restarts' = restarts + 1 /\ tangled' = TRUE
      /\ UNCHANGED <<weather, hashOf, sender, recipient, ethTx, receiptTx, value, owner,
                     digests, slot, server, receipts, posted, seen, executed, reverted, pool>>
  BY DEF Restart
<1>2. pc' \in [Job -> Phase]
  BY <1>1 DEF IInv, TypeOK, Phase, Terminal
<1>3. /\ \A b \in Job : pc'[b] \in {"none", "send", "verify", "persist"} => pc'[b] = pc[b]
      /\ \A b \in Job : pc'[b] # "none" => pc[b] # "none"
  BY <1>1 DEF Terminal
<1>4. restarts' \in 0 .. MaxRestarts
  BY <1>1, BoundAssumption DEF IInv, TypeOK
<1> QED BY <1>1, <1>2, <1>3, <1>4, ThreadsForget

\* A receipt with status 1 is of an executed transaction, and one with status 0
\* of a reverted one.
LEMMA GetReceiptInvariant ==
  ASSUME IInv, NEW j \in Job, GetReceipt(j)
  PROVE  IInv'
<1> USE JobIs DEF chain, contracts, evidence, file
<1>1. /\ pc[j] = "wait"
      /\ UNCHANGED <<weather, hashOf, sender, recipient, ethTx, receiptTx, restarts, owner,
                     digests, slot, server, receipts, posted, seen, executed, reverted, pool,
                     tangled>>
  BY DEF GetReceipt, Goto
<1>2. pc' \in [Job -> Phase] /\ \A b \in Job \ {j} : pc'[b] = pc[b]
  BY ZenonT(60) DEF GetReceipt, Goto, IInv, TypeOK, Phase, Terminal
<1>3. \/ j \in executed /\ pc'[j] = "persist"
      \/ j \in reverted /\ pc'[j] = "verify" /\ j[2] = "digest"
      \/ pc'[j] = "failed"
  BY DEF GetReceipt, Goto, IInv, TypeOK
<1>4. executed \cap reverted = {}
  BY DEF IInv, OnceInv
<1>5. /\ value' \in [File -> {"null", "tx", "duplicate"}]
      /\ \A f \in File : <<f, "digest">> # j => value'[f] = value[f]
      /\ j \in executed /\ j[2] = "digest" => value'[j[1]] = "tx"
  BY DEF GetReceipt, IInv, TypeOK
<1>6. TypeOK'
  BY <1>1, <1>2, <1>5 DEF IInv, TypeOK, D!TypeOK, P!TypeOK
<1>7. D!SlotsFindEntries'
  BY <1>1 DEF IInv, D!SlotsFindEntries
<1>8. LifeInv'
  <2>1. pc'[j] \notin {"none", "send"}
    BY <1>3
  <2>2. \A b \in Job : InPool(b)' <=> InPool(b)
    BY <1>1 DEF InPool
  <2> QED BY <1>1, <1>2, <2>1, <2>2 DEF IInv, LifeInv
<1>9. OnceInv' /\ RowInv' /\ DigestInv' /\ ReceiptInv'
  BY <1>1 DEF IInv, OnceInv, InPool, RowInv, DigestInv, ReceiptInv, Proven
<1>10. PhaseInv'
  <2>1. ASSUME NEW f \in File, pc'[<<f, "digest">>] = "verify"
        PROVE  <<f, "digest">> \in reverted'
    BY <1>1, <1>2, <1>3, <2>1 DEF IInv, PhaseInv
  <2>2. ASSUME NEW f \in File, pc'[<<f, "digest">>] = "persist"
        PROVE  Proven(f, value[f])'
    <3>1. CASE <<f, "digest">> = j
      BY <1>1, <1>3, <1>5, <2>2, <3>1 DEF Proven
    <3>2. CASE <<f, "digest">> # j
      BY <1>1, <1>2, <1>5, <2>2, <3>2 DEF IInv, PhaseInv, Proven
    <3> QED BY <3>1, <3>2
  <2>3. ASSUME NEW f \in File, pc'[<<f, "receipt">>] = "persist"
        PROVE  <<f, "receipt">> \in executed'
    BY <1>1, <1>2, <1>3, <2>3 DEF IInv, PhaseInv
  <2> QED BY <2>1, <2>2, <2>3 DEF PhaseInv
<1> QED BY <1>6, <1>7, <1>8, <1>9, <1>10 DEF IInv

\* A hash found on chain after a revert was recorded by another transaction.
LEMMA VerifyInvariant ==
  ASSUME IInv, NEW f \in File, Verify(f)
  PROVE  IInv'
<1> USE JobIs DEF chain, contracts, evidence, file
<1> DEFINE j == <<f, "digest">>
<1>1. /\ pc[j] = "verify"
      /\ UNCHANGED <<weather, hashOf, sender, recipient, ethTx, receiptTx, restarts, owner,
                     digests, slot, server, receipts, posted, seen, executed, reverted, pool,
                     tangled>>
  BY DEF Verify
<1>2. \/ /\ slot[hashOf[f]] # 0
         /\ pc' = [pc EXCEPT ![j] = "persist"] /\ value' = [value EXCEPT ![f] = "duplicate"]
      \/ pc' = [pc EXCEPT ![j] = "failed"] /\ value' = value
  BY DEF Verify, VerifyHashOnChain
<1>3. j \in reverted /\ j \in Job
  BY <1>1 DEF IInv, PhaseInv
<1> HIDE DEF j
<1>5. pc \in [Job -> Phase] /\ value \in [File -> {"null", "tx", "duplicate"}]
  BY DEF IInv, TypeOK
<1>4. /\ pc' \in [Job -> Phase] /\ \A b \in Job \ {j} : pc'[b] = pc[b]
      /\ pc'[j] \in {"persist", "failed"}
      /\ value' \in [File -> {"null", "tx", "duplicate"}]
      /\ \A g \in File \ {f} : value'[g] = value[g]
      /\ pc'[j] = "persist" => value'[f] = "duplicate" /\ slot[hashOf[f]] # 0
  <2>1. CASE /\ slot[hashOf[f]] # 0
             /\ pc' = [pc EXCEPT ![j] = "persist"] /\ value' = [value EXCEPT ![f] = "duplicate"]
    BY <1>3, <1>5, <2>1 DEF Phase
  <2>2. CASE pc' = [pc EXCEPT ![j] = "failed"] /\ value' = value
    BY <1>3, <1>5, <2>2 DEF Phase, Terminal
  <2> QED BY <1>2, <2>1, <2>2
<1>6. TypeOK'
  BY <1>1, <1>4 DEF IInv, TypeOK, D!TypeOK, P!TypeOK
<1>7. D!SlotsFindEntries'
  BY <1>1 DEF IInv, D!SlotsFindEntries
<1>8. LifeInv'
  <2>1. \A b \in Job : InPool(b)' <=> InPool(b)
    BY <1>1 DEF InPool
  <2> QED BY <1>1, <1>4, <2>1 DEF IInv, LifeInv
<1>9. OnceInv' /\ RowInv' /\ DigestInv' /\ ReceiptInv'
  BY <1>1 DEF IInv, OnceInv, InPool, RowInv, DigestInv, ReceiptInv, Proven
<1>10. PhaseInv'
  <2>1. ASSUME NEW g \in File, pc'[<<g, "digest">>] = "verify"
        PROVE  <<g, "digest">> \in reverted'
    BY <1>1, <1>4, <2>1 DEF IInv, PhaseInv
  <2>2. ASSUME NEW g \in File, pc'[<<g, "digest">>] = "persist"
        PROVE  Proven(g, value[g])'
    <3>1. CASE g = f
      BY <1>1, <1>3, <1>4, <2>2, <3>1 DEF Proven, j
    <3>2. CASE g # f
      BY <1>1, <1>4, <2>2, <3>2 DEF IInv, PhaseInv, Proven, j
    <3> QED BY <3>1, <3>2
  <2>3. ASSUME NEW g \in File, pc'[<<g, "receipt">>] = "persist"
        PROVE  <<g, "receipt">> \in executed'
    BY <1>1, <1>4, <2>3 DEF IInv, PhaseInv, j
  <2> QED BY <2>1, <2>2, <2>3 DEF PhaseInv
<1> QED BY <1>6, <1>7, <1>8, <1>9, <1>10 DEF IInv

\* The row receives what its thread knows.
LEMMA PersistInvariant ==
  ASSUME IInv, NEW j \in Job, Persist(j)
  PROVE  IInv'
<1> USE JobIs DEF chain, contracts, evidence, file
<1>1. /\ pc[j] = "persist" /\ pc' = [pc EXCEPT ![j] = "done"]
      /\ UNCHANGED <<weather, hashOf, sender, recipient, value, restarts, owner,
                     digests, slot, server, receipts, posted, seen, executed, reverted, pool,
                     tangled>>
  BY DEF Persist, Goto
<1>2. /\ ethTx' \in [File -> {"null", "tx", "duplicate"}]
      /\ \A f \in File : \/ ethTx'[f] = ethTx[f]
                         \/ j = <<f, "digest">> /\ ethTx'[f] = value[f]
  <2>1. /\ ethTx \in [File -> {"null", "tx", "duplicate"}]
        /\ value \in [File -> {"null", "tx", "duplicate"}]
    BY DEF IInv, TypeOK
  <2>2. CASE j[2] = "digest"
    <3>1. ethTx' = [ethTx EXCEPT ![j[1]] = value[j[1]]] /\ j[1] \in File
      BY <2>2 DEF Persist
    <3>2. j = <<j[1], "digest">>
      BY <2>2
    <3>3. \A f \in File : f = j[1] => j = <<f, "digest">>
      BY <3>2
    <3>4. \A f \in File : ethTx'[f] = IF f = j[1] THEN value[f] ELSE ethTx[f]
      BY <2>1, <3>1
    <3>5. ethTx' \in [File -> {"null", "tx", "duplicate"}]
      BY <2>1, <3>1
    <3> QED BY <3>3, <3>4, <3>5
  <2>3. CASE j[2] # "digest"
    BY <2>1, <2>3 DEF Persist
  <2> QED BY <2>2, <2>3
<1>3. /\ receiptTx' \in [File -> {"null", "tx"}]
      /\ \A f \in File : receiptTx'[f] = receiptTx[f] \/ j = <<f, "receipt">>
  BY DEF Persist, IInv, TypeOK
<1>4. pc' \in [Job -> Phase] /\ pc'[j] = "done" /\ \A b \in Job \ {j} : pc'[b] = pc[b]
  BY <1>1 DEF IInv, TypeOK, Phase, Terminal
<1>6. TypeOK'
  BY <1>1, <1>2, <1>3, <1>4 DEF IInv, TypeOK, D!TypeOK, P!TypeOK
<1>7. D!SlotsFindEntries'
  BY <1>1 DEF IInv, D!SlotsFindEntries
<1>8. LifeInv'
  <2>1. \A b \in Job : InPool(b)' <=> InPool(b)
    BY <1>1 DEF InPool
  <2> QED BY <1>1, <1>4, <2>1 DEF IInv, LifeInv
<1>9. OnceInv' /\ DigestInv' /\ ReceiptInv'
  BY <1>1 DEF IInv, OnceInv, InPool, DigestInv, ReceiptInv
<1>10. PhaseInv'
  <2>1. \A b \in Job : pc'[b] \in {"verify", "persist"} => pc'[b] = pc[b]
    BY <1>4
  <2>2. PhaseInv
    BY DEF IInv
  <2> QED BY <1>1, <2>1, <2>2 DEF PhaseInv, Proven
<1>11. RowInv'
  <2>1. ASSUME NEW f \in File
        PROVE  Proven(f, ethTx[f])'
    <3>1. CASE ethTx'[f] = ethTx[f]
      BY <1>1, <3>1 DEF IInv, RowInv, Proven
    <3>2. CASE j = <<f, "digest">> /\ ethTx'[f] = value[f]
      BY <1>1, <3>2 DEF IInv, PhaseInv, Proven
    <3> QED BY <1>2, <3>1, <3>2
  <2>2. ASSUME NEW f \in File, receiptTx'[f] = "tx"
        PROVE  <<f, "receipt">> \in executed'
    BY <1>1, <1>3, <2>2 DEF IInv, PhaseInv, RowInv
  <2> QED BY <2>1, <2>2 DEF RowInv
<1> QED BY <1>6, <1>7, <1>8, <1>9, <1>10, <1>11 DEF IInv

-----------------------------------------------------------------------------
(* The network.                                                            *)

\* What a recorded digest adds to the contract.
LEMMA RecordAdds ==
  ASSUME D!TypeOK, D!SlotsFindEntries, NEW h \in Hash, D!RecordHash(Server, h)
  PROVE  /\ D!TypeOK' /\ D!SlotsFindEntries'
         /\ slot[h] = 0 /\ slot'[h] # 0 /\ \A g \in Hash \ {h} : slot'[g] = slot[g]
         /\ Len(digests') = Len(digests) + 1
<1> DEFINE e == [hash |-> h, recorder |-> Server]
<1>1. digests \in Seq(D!Entry) /\ e \in D!Entry /\ slot \in [Hash -> Nat] /\ owner \in {Server}
  BY DEF D!TypeOK, D!Entry
<1>2. digests' = Append(digests, e) /\ slot[h] = 0 /\ owner' = owner
  BY DEF D!RecordHash
<1>3. /\ digests' \in Seq(D!Entry) /\ Len(digests') = Len(digests) + 1
      /\ \A i \in 1 .. Len(digests) : digests'[i] = digests[i]
      /\ digests'[Len(digests) + 1] = e
  BY <1>1, <1>2
<1>4. slot' = [slot EXCEPT ![h] = Len(digests) + 1]
  BY <1>3 DEF D!RecordHash
<1>5. ASSUME NEW g \in Hash, slot'[g] # 0
      PROVE  slot'[g] <= Len(digests') /\ digests'[slot'[g]].hash = g
  <2>1. CASE g = h
    BY <2>1, <1>1, <1>3, <1>4
  <2>2. CASE g # h
    <3>1. slot'[g] = slot[g] /\ slot[g] # 0 /\ slot[g] \in Nat
      BY <2>2, <1>1, <1>4, <1>5
    <3>2. slot[g] \in 1 .. Len(digests) /\ digests[slot[g]].hash = g
      BY <3>1, <1>1 DEF D!SlotsFindEntries
    <3> QED BY <3>1, <3>2, <1>1, <1>3
  <2> QED BY <2>1, <2>2
<1>6. ASSUME NEW i \in 1 .. Len(digests')
      PROVE  slot'[digests'[i].hash] = i
  <2>1. CASE i = Len(digests) + 1
    BY <2>1, <1>1, <1>3, <1>4
  <2>2. CASE i # Len(digests) + 1
    <3>1. i \in 1 .. Len(digests)
      BY <2>2, <1>1, <1>3
    <3>2. digests'[i] = digests[i] /\ digests[i] \in D!Entry /\ slot[digests[i].hash] = i
      BY <3>1, <1>1, <1>3 DEF D!SlotsFindEntries
    <3>3. digests[i].hash # h /\ digests[i].hash \in Hash
      BY <3>1, <3>2, <1>2 DEF D!Entry
    <3> QED BY <3>2, <3>3, <1>1, <1>4
  <2> QED BY <2>1, <2>2
<1>7. D!TypeOK'
  BY <1>1, <1>2, <1>3, <1>4 DEF D!TypeOK
<1>8. slot'[h] # 0 /\ \A g \in Hash \ {h} : slot'[g] = slot[g]
  BY <1>1, <1>4
<1> QED BY <1>2, <1>3, <1>5, <1>6, <1>7, <1>8 DEF D!SlotsFindEntries

\* What a posted receipt adds to the contract.
LEMMA PostAdds ==
  ASSUME P!TypeOK, NEW h \in Hash,
         NEW s \in Identity \cup {NoIdentity}, NEW r \in Identity \cup {NoIdentity},
         P!PostReceipt(Server, h, s, r)
  PROVE  /\ P!TypeOK' /\ receipts[h].timestamp = 0
         /\ receipts'[h].sender = s /\ receipts'[h].recipient = r /\ receipts'[h].timestamp # 0
         /\ \A g \in Hash \ {h} : receipts'[g] = receipts[g]
<1> DEFINE e == [sender |-> s, recipient |-> r, timestamp |-> 1]
<1>1. receipts \in [Hash -> P!Receipt] /\ posted \in Seq(P!Event) /\ e \in P!Receipt
  BY DEF P!TypeOK, P!Receipt
<1>2. /\ receipts[h].timestamp = 0 /\ receipts' = [receipts EXCEPT ![h] = e]
      /\ posted' = Append(posted, [hash |-> h, receipt |-> receipts'[h]])
      /\ server' = server
  BY DEF P!PostReceipt
<1>3. receipts' \in [Hash -> P!Receipt] /\ receipts'[h] = e
      /\ \A g \in Hash \ {h} : receipts'[g] = receipts[g]
  BY <1>1, <1>2
<1>4. posted' \in Seq(P!Event)
  <2>1. [hash |-> h, receipt |-> receipts'[h]] \in P!Event
    BY <1>1, <1>3 DEF P!Event
  <2> QED BY <1>1, <1>2, <2>1
<1>5. P!TypeOK'
  BY <1>2, <1>3, <1>4 DEF P!TypeOK
<1> QED BY <1>2, <1>3, <1>5

\* What mining leaves of the invariant whatever the transaction does.
LEMMA MineKeeps ==
  ASSUME IInv, Mine
  PROVE  /\ pool # <<>> /\ Head(pool) \in Job /\ Head(pool) \notin executed \cup reverted
         /\ hashOf[Head(pool)[1]] \in Hash
         /\ LifeInv' /\ OnceInv' /\ pool' \in Seq(Job)
         /\ UNCHANGED <<weather, hashOf, sender, recipient, ethTx, receiptTx, pc, value, restarts,
                        seen, tangled>>
         /\ \/ Execute(Head(pool)) /\ executed' = executed \cup {Head(pool)} /\ reverted' = reverted
            \/ /\ Reverts(Head(pool)) /\ reverted' = reverted \cup {Head(pool)}
               /\ executed' = executed /\ UNCHANGED contracts
<1> DEFINE j == Head(pool)
<1>1. /\ pool # <<>> /\ pool' = Tail(pool)
      /\ UNCHANGED <<weather, hashOf, sender, recipient, ethTx, receiptTx, pc, value, restarts,
                     seen, tangled>>
      /\ \/ Execute(j) /\ executed' = executed \cup {j} /\ reverted' = reverted
         \/ /\ Reverts(j) /\ reverted' = reverted \cup {j}
            /\ executed' = executed /\ UNCHANGED contracts
  BY DEF Mine, file, evidence, process
<1> HIDE DEF j
<1>2. /\ pool' \in Seq(Job) /\ j \in Job /\ InPool(j)
      /\ IsInjective(pool)'
      /\ \A b \in Job : InPool(b)' => InPool(b) /\ b # j
  BY <1>1, MineRemoves DEF j
<1>3. j \notin executed \cup reverted /\ pc[j] \notin {"none", "send"} /\ hashOf[j[1]] # NoHash
  BY <1>2 DEF IInv, OnceInv, LifeInv
<1>4. hashOf[j[1]] \in Hash
  BY <1>2, <1>3, JobIs DEF IInv, TypeOK
<1>5. \A b \in executed' \cup reverted' : b \in executed \cup reverted \/ b = j
  BY <1>1
<1>6. LifeInv'
  BY <1>1, <1>2, <1>3, <1>5 DEF IInv, LifeInv
<1>7. OnceInv'
  BY <1>1, <1>2, <1>3, <1>5 DEF IInv, OnceInv
<1> QED BY <1>1, <1>2, <1>3, <1>4, <1>6, <1>7 DEF j

\* A digest executed is the first of its hash.
LEMMA MineDigest ==
  ASSUME IInv, Mine, Head(pool)[2] = "digest", Execute(Head(pool)),
         executed' = executed \cup {Head(pool)}, reverted' = reverted
  PROVE  IInv'
<1> DEFINE j == Head(pool)
<1>1. /\ j \in Job /\ j \notin executed \cup reverted /\ hashOf[j[1]] \in Hash
      /\ LifeInv' /\ OnceInv' /\ pool' \in Seq(Job)
      /\ UNCHANGED <<weather, hashOf, sender, recipient, ethTx, receiptTx, pc, value, restarts,
                     seen, tangled>>
  BY MineKeeps
<1>2. D!RecordHash(Server, hashOf[j[1]]) /\ UNCHANGED <<server, receipts, posted>>
  BY DEF Execute
<1>3. executed' = executed \cup {j} /\ reverted' = reverted /\ j[2] = "digest"
  OBVIOUS
<1> HIDE DEF j
<1>4. j = <<j[1], "digest">> /\ j[1] \in File
  BY <1>1, <1>3, JobIs
<1>5. D!TypeOK /\ D!SlotsFindEntries
  BY DEF IInv, TypeOK
<1>6. /\ D!TypeOK' /\ D!SlotsFindEntries'
      /\ slot[hashOf[j[1]]] = 0 /\ slot'[hashOf[j[1]]] # 0
      /\ \A g \in Hash \ {hashOf[j[1]]} : slot'[g] = slot[g]
      /\ Len(digests') = Len(digests) + 1
  BY <1>1, <1>2, <1>5, RecordAdds
<1>7. TypeOK'
  <2>1. seen' \in 0 .. Len(digests')
    BY <1>1, <1>5, <1>6 DEF IInv, TypeOK, D!TypeOK
  <2> QED BY <1>1, <1>2, <1>3, <1>6, <2>1 DEF IInv, TypeOK, P!TypeOK
<1>8. \A f \in File : hashOf[f] # NoHash /\ slot[hashOf[f]] # 0 => slot'[hashOf[f]] # 0
  BY <1>6 DEF IInv, TypeOK
<1>9. \A f \in File : <<f, "digest">> \in executed \cup reverted => hashOf[f] # NoHash
  BY JobIs DEF IInv, LifeInv
<1>11. PhaseInv' /\ RowInv'
  <2>2. ASSUME NEW f \in File
        PROVE  Proven(f, ethTx[f])' /\ (receiptTx[f] = "tx" => <<f, "receipt">> \in executed)'
    <3>1. Proven(f, ethTx[f]) /\ (receiptTx[f] = "tx" => <<f, "receipt">> \in executed)
      BY DEF IInv, RowInv
    <3>2. (Proven(f, ethTx[f]))'
      BY <1>1, <1>3, <1>8, <1>9, <3>1 DEF Proven
    <3> QED BY <1>1, <1>3, <3>1, <3>2
  <2>3. ASSUME NEW f \in File
        PROVE  /\ (pc[<<f, "digest">>] = "verify" => <<f, "digest">> \in reverted)'
               /\ (pc[<<f, "digest">>] = "persist" => Proven(f, value[f]))'
               /\ (pc[<<f, "receipt">>] = "persist" => <<f, "receipt">> \in executed)'
    <3>1. /\ pc[<<f, "digest">>] = "verify" => <<f, "digest">> \in reverted
          /\ pc[<<f, "digest">>] = "persist" => Proven(f, value[f])
          /\ pc[<<f, "receipt">>] = "persist" => <<f, "receipt">> \in executed
      BY DEF IInv, PhaseInv
    <3>2. Proven(f, value[f]) => (Proven(f, value[f]))'
      BY <1>1, <1>3, <1>8, <1>9 DEF Proven
    <3> QED BY <1>1, <1>3, <3>1, <3>2
  <2> QED BY <2>2, <2>3 DEF PhaseInv, RowInv
<1>12. DigestInv'
  <2>1. ASSUME NEW f \in File, <<f, "digest">> \in executed'
        PROVE  slot'[hashOf'[f]] # 0
    <3>1. CASE <<f, "digest">> \in executed
      BY <1>1, <1>8, <1>9, <3>1 DEF IInv, DigestInv
    <3>2. CASE <<f, "digest">> = j
      BY <1>1, <1>4, <1>6, <3>2
    <3> QED BY <1>3, <2>1, <3>1, <3>2
  <2>2. ASSUME NEW h \in Hash, slot'[h] # 0
        PROVE  \E g \in File : hashOf'[g] = h /\ <<g, "digest">> \in executed'
    <3>1. CASE h = hashOf[j[1]]
      BY <1>1, <1>3, <1>4, <3>1
    <3>2. CASE h # hashOf[j[1]]
      <4>1. PICK g \in File : hashOf[g] = h /\ <<g, "digest">> \in executed
        BY <1>6, <2>2, <3>2 DEF IInv, DigestInv
      <4> QED BY <1>1, <1>3, <4>1
    <3> QED BY <3>1, <3>2
  <2> QED BY <2>1, <2>2 DEF DigestInv
<1>13. ReceiptInv'
  BY <1>1, <1>2, <1>3 DEF IInv, ReceiptInv
<1> QED BY <1>1, <1>6, <1>7, <1>11, <1>12, <1>13 DEF IInv

\* A receipt executed is the first of its hash.
LEMMA MineReceipt ==
  ASSUME IInv, Mine, Head(pool)[2] = "receipt", Execute(Head(pool)),
         executed' = executed \cup {Head(pool)}, reverted' = reverted
  PROVE  IInv'
<1> DEFINE j == Head(pool)
<1>1. /\ j \in Job /\ j \notin executed \cup reverted /\ hashOf[j[1]] \in Hash
      /\ LifeInv' /\ OnceInv' /\ pool' \in Seq(Job)
      /\ UNCHANGED <<weather, hashOf, sender, recipient, ethTx, receiptTx, pc, value, restarts,
                     seen, tangled>>
  BY MineKeeps
<1>2. /\ P!PostReceipt(Server, hashOf[j[1]], sender[j[1]], recipient[j[1]])
      /\ UNCHANGED <<owner, digests, slot>>
  BY DEF Execute
<1>3. executed' = executed \cup {j} /\ reverted' = reverted /\ j[2] = "receipt"
  OBVIOUS
<1> HIDE DEF j
<1>4. j = <<j[1], "receipt">> /\ j[1] \in File
  BY <1>1, <1>3, JobIs
<1>5. sender[j[1]] \in Identity \cup {NoIdentity} /\ recipient[j[1]] \in Identity \cup {NoIdentity}
  BY <1>4 DEF IInv, TypeOK
<1>6. /\ P!TypeOK' /\ receipts[hashOf[j[1]]].timestamp = 0
      /\ receipts'[hashOf[j[1]]].sender = sender[j[1]]
      /\ receipts'[hashOf[j[1]]].recipient = recipient[j[1]]
      /\ receipts'[hashOf[j[1]]].timestamp # 0
      /\ \A g \in Hash \ {hashOf[j[1]]} : receipts'[g] = receipts[g]
  <2>1. P!TypeOK
    BY DEF IInv, TypeOK
  <2> QED BY SMTT(60), <1>1, <1>2, <1>5, <2>1, PostAdds
<1>7. TypeOK'
  BY <1>1, <1>2, <1>3, <1>6 DEF IInv, TypeOK, D!TypeOK
<1>8. D!SlotsFindEntries'
  BY <1>2 DEF IInv, D!SlotsFindEntries
<1>9. RowInv' /\ DigestInv' /\ PhaseInv'
  BY <1>1, <1>2, <1>3 DEF IInv, RowInv, DigestInv, PhaseInv, Proven
<1>10. ReceiptInv'
  <2>1. \A f \in File : <<f, "receipt">> \in executed =>
          /\ hashOf[f] \in Hash /\ hashOf[f] # hashOf[j[1]]
          /\ receipts[hashOf[f]].timestamp # 0
          /\ receipts[hashOf[f]].sender = sender[f]
          /\ receipts[hashOf[f]].recipient = recipient[f]
    BY <1>6, JobIs DEF IInv, TypeOK, LifeInv, ReceiptInv
  <2>2. ASSUME NEW f \in File, <<f, "receipt">> \in executed'
        PROVE  /\ receipts'[hashOf'[f]].timestamp # 0
               /\ receipts'[hashOf'[f]].sender = sender'[f]
               /\ receipts'[hashOf'[f]].recipient = recipient'[f]
    <3>1. CASE <<f, "receipt">> \in executed
      BY <1>1, <1>6, <2>1, <3>1
    <3>2. CASE <<f, "receipt">> = j
      BY <1>1, <1>4, <1>6, <3>2
    <3> QED BY <1>3, <2>2, <3>1, <3>2
  <2>3. ASSUME NEW f \in File, NEW g \in File, <<f, "receipt">> \in executed',
               <<g, "receipt">> \in executed', hashOf'[f] = hashOf'[g]
        PROVE  f = g
    <3>1. CASE <<f, "receipt">> \in executed /\ <<g, "receipt">> \in executed
      BY <1>1, <2>3, <3>1 DEF IInv, ReceiptInv
    <3>2. CASE <<f, "receipt">> = j \/ <<g, "receipt">> = j
      BY <1>1, <1>3, <1>4, <2>1, <2>3, <3>2
    <3> QED BY <1>3, <2>3, <3>1, <3>2
  <2> QED BY <2>2, <2>3 DEF ReceiptInv
<1> QED BY <1>1, <1>7, <1>8, <1>9, <1>10 DEF IInv

\* A revert changes no contract.
LEMMA MineReverted ==
  ASSUME IInv, Mine, Reverts(Head(pool)), reverted' = reverted \cup {Head(pool)},
         executed' = executed, UNCHANGED contracts
  PROVE  IInv'
<1>1. /\ Head(pool) \in Job /\ LifeInv' /\ OnceInv' /\ pool' \in Seq(Job)
      /\ UNCHANGED <<weather, hashOf, sender, recipient, ethTx, receiptTx, pc, value, restarts,
                     seen, tangled>>
  BY MineKeeps
<1>2. UNCHANGED <<owner, digests, slot, server, receipts, posted>>
  BY DEF contracts
<1>3. TypeOK'
  BY <1>1, <1>2 DEF IInv, TypeOK, D!TypeOK, P!TypeOK
<1>4. D!SlotsFindEntries'
  BY <1>2 DEF IInv, D!SlotsFindEntries
<1>5. PhaseInv' /\ RowInv' /\ DigestInv' /\ ReceiptInv'
  BY <1>1, <1>2 DEF IInv, PhaseInv, RowInv, DigestInv, ReceiptInv, Proven
<1> QED BY <1>1, <1>3, <1>4, <1>5 DEF IInv

LEMMA MineInvariant ==
  ASSUME IInv, Mine
  PROVE  IInv'
<1>1. Head(pool)[2] \in {"digest", "receipt"}
  BY MineKeeps, JobIs
<1> QED BY <1>1, MineKeeps, MineDigest, MineReceipt, MineReverted

\* A transaction dropped, a node that catches up.
LEMMA WeatherInvariant ==
  ASSUME IInv, CatchUp \/ Drop
  PROVE  IInv'
<1> USE DEF chain, contracts, evidence, file, process
<1>1. /\ UNCHANGED <<weather, hashOf, sender, recipient, ethTx, receiptTx, pc, value, restarts,
                     owner, digests, slot, server, receipts, posted, executed, reverted>>
      /\ seen' \in 0 .. Len(digests) /\ tangled' \in BOOLEAN
  <2>1. Len(digests) \in Nat /\ seen \in 0 .. Len(digests) /\ tangled \in BOOLEAN
    BY DEF IInv, TypeOK, D!TypeOK
  <2>2. CASE CatchUp
    BY <2>1, <2>2 DEF CatchUp
  <2>3. CASE Drop
    BY <2>1, <2>3 DEF Drop
  <2> QED BY <2>2, <2>3
<1>2. /\ pool' \in Seq(Job)
      /\ IsInjective(pool)'
      /\ \A b \in Job : InPool(b)' => InPool(b)
  <2>1. CASE CatchUp
    BY <2>1 DEF CatchUp, IInv, TypeOK, OnceInv, InPool
  <2>2. CASE Drop
    <3>1. PICK i \in 1 .. Len(pool) : pool' = RemoveAt(pool, i)
      BY <2>2 DEF Drop
    <3> QED BY <3>1, DropRemoves
  <2> QED BY <2>1, <2>2
<1>3. TypeOK'
  BY <1>1, <1>2 DEF IInv, TypeOK, D!TypeOK, P!TypeOK
<1>4. D!SlotsFindEntries'
  BY <1>1 DEF IInv, D!SlotsFindEntries
<1>5. PhaseInv' /\ RowInv' /\ DigestInv' /\ ReceiptInv'
  BY <1>1 DEF IInv, PhaseInv, RowInv, DigestInv, ReceiptInv, Proven
<1>6. LifeInv' /\ OnceInv'
  BY <1>1, <1>2 DEF IInv, LifeInv, OnceInv
<1> QED BY <1>3, <1>4, <1>5, <1>6 DEF IInv

-----------------------------------------------------------------------------
(* The specification.                                                      *)

LEMMA NextInvariant ==
  ASSUME IInv, [Next]_vars
  PROVE  IInv'
<1>1. ASSUME NEW f \in File, NEW h \in Hash, NEW s \in Identity, NEW r \in Identity,
             Accept(f, h, s, r)
      PROVE  IInv'
  BY <1>1, AcceptInvariant
<1>2. ASSUME NEW j \in Job, ThreadStep(j)
      PROVE  IInv'
  <2>1. ASSUME Verify(j[1])
        PROVE  IInv'
    BY <2>1, VerifyInvariant, JobIs
  <2> QED BY <1>2, <2>1, SendInvariant, FailsInvariant, GetReceiptInvariant,
             PersistInvariant DEF ThreadStep
<1>3. CASE Mine \/ CatchUp \/ Drop \/ Restart
  BY <1>3, MineInvariant, WeatherInvariant, RestartInvariant
<1>4. CASE UNCHANGED vars
  <2>1. /\ UNCHANGED <<weather, hashOf, sender, recipient, ethTx, receiptTx, pc, value, restarts>>
        /\ UNCHANGED <<owner, digests, slot, server, receipts, posted, seen,
                       executed, reverted, pool, tangled>>
    BY <1>4 DEF vars, file, evidence, process, chain, contracts
  <2>2. pc' \in [Job -> Phase] /\ restarts' \in 0 .. MaxRestarts /\ tangled' \in BOOLEAN
    BY <2>1 DEF IInv, TypeOK
  <2> QED BY <2>1, <2>2, ThreadsForget
<1> QED BY <1>1, <1>2, <1>3, <1>4 DEF Next

\* In every reachable state each transaction is in one place, threads and rows
\* know only what was executed or reverted, and the contracts hold what was
\* executed. (files.py, _submit_to_chain and _submit_receipt)
THEOREM AnchoringInvariant ==
  Spec => []IInv
<1>1. Init => IInv
  BY InitInvariant
<1>2. IInv /\ [Next]_vars => IInv'
  BY NextInvariant
<1> QED BY <1>1, <1>2, PTL DEF Spec

\* The rows, the threads and the contracts have their types.
\* (models.py, BlockchainRecord and FileObject; MessageDigest.sol; MessageReceipt.sol)
THEOREM AnchoringTypeCorrect ==
  Spec => []TypeOK
<1>1. IInv => TypeOK
  BY DEF IInv
<1> QED BY <1>1, AnchoringInvariant, PTL

\* What a row says of its anchor is so, however many files share a hash and
\* whatever failed, reverted or came late; and no node, up to date or behind,
\* contradicts its proof. (files.py, _submit_to_chain and get_blockchain_proof)
THEOREM AnchorsAreSound ==
  Spec => []AnchorIsSound
<1>1. ASSUME IInv
      PROVE  AnchorIsSound
  <2>1. ASSUME NEW f \in File
        PROVE  /\ ethTx[f] = "tx" => <<f, "digest">> \in executed
               /\ ethTx[f] # "null" => slot[hashOf[f]] # 0 /\ hashOf[f] \in Hash
               /\ ethTx[f] = "duplicate" => <<f, "digest">> \notin executed
    <3>1. ethTx[f] \in {"null", "tx", "duplicate"} /\ Proven(f, ethTx[f])
      BY <1>1 DEF IInv, TypeOK, RowInv
    <3>2. <<f, "digest">> \in executed \cup reverted => hashOf[f] \in Hash
      BY <1>1, JobIs DEF IInv, TypeOK, LifeInv
    <3>3. <<f, "digest">> \in executed => slot[hashOf[f]] # 0
      BY <1>1 DEF IInv, DigestInv
    <3>4. executed \cap reverted = {}
      BY <1>1 DEF IInv, OnceInv
    <3> QED BY <3>1, <3>2, <3>3, <3>4 DEF Proven
  <2>2. ASSUME NEW f \in File, ethTx[f] = "duplicate"
        PROVE  \E g \in File \ {f} : hashOf[g] = hashOf[f] /\ <<g, "digest">> \in executed
    <3>1. PICK g \in File : hashOf[g] = hashOf[f] /\ <<g, "digest">> \in executed
      BY <1>1, <2>1, <2>2 DEF IInv, DigestInv
    <3> QED BY <2>1, <2>2, <3>1
  <2>3. ASSUME NEW f \in File, ethTx[f] # "null"
        PROVE  /\ BlockchainProof(f, Len(digests)).onChainMatch = {TRUE}
               /\ BlockchainProof(f, seen).onChainMatch \subseteq {TRUE}
    <3> DEFINE h == hashOf[f]
    <3>1. h \in Hash /\ slot[h] # 0 /\ h # NoHash
      BY <2>1, <2>3, FileAssumption
    <3>2. slot[h] \in 1 .. Len(digests) /\ digests[slot[h]].hash = h
      BY <1>1, <3>1 DEF IInv, TypeOK, D!TypeOK, D!SlotsFindEntries
    <3>3. VerifyHashOnChain(h, Len(digests)) = h /\ VerifyHashOnChain(h, seen) \in {h, NoHash}
      BY <3>2 DEF VerifyHashOnChain
    <3> QED BY <2>3, <3>1, <3>3 DEF BlockchainProof
  <2> QED BY <2>1, <2>2, <2>3 DEF AnchorIsSound
<1> QED BY <1>1, AnchoringInvariant, PTL

\* A file with a receipt transaction has the receipt of its own sender and
\* recipient, and no other file with its hash has one.
\* (files.py, _submit_receipt and get_blockchain_proof)
THEOREM ReceiptsAreOwn ==
  Spec => []ReceiptIsOwn
<1>1. ASSUME IInv
      PROVE  ReceiptIsOwn
  <2>1. ASSUME NEW f \in File, receiptTx[f] = "tx"
        PROVE  /\ receipts[hashOf[f]].sender = sender[f]
               /\ receipts[hashOf[f]].recipient = recipient[f]
               /\ \A g \in File \ {f} : hashOf[g] = hashOf[f] => receiptTx[g] # "tx"
    BY <1>1, <2>1 DEF IInv, RowInv, ReceiptInv
  <2>2. \A g \in File : receiptTx[g] \in {"null", "tx"}
    BY <1>1 DEF IInv, TypeOK
  <2> QED BY <2>1, <2>2 DEF ReceiptIsOwn, BlockchainProof
<1> QED BY <1>1, AnchoringInvariant, PTL

-----------------------------------------------------------------------------
(* Calm weather: how the threads end where nothing fails.                  *)

\* Why a transaction reverted, whatever the weather: its hash was there; a receipt
\* there is one that was executed; and of one hash one digest is.
OutcomeInv ==
  /\ \A f \in File :
       /\ <<f, "digest">> \in reverted => slot[hashOf[f]] # 0
       /\ <<f, "receipt">> \in reverted => receipts[hashOf[f]].timestamp # 0
  /\ \A h \in Hash : receipts[h].timestamp # 0 =>
       \E g \in File : hashOf[g] = h /\ <<g, "receipt">> \in executed
  /\ \A f, g \in File :
       <<f, "digest">> \in executed /\ <<g, "digest">> \in executed
       /\ hashOf[f] = hashOf[g] => f = g

\* A thread that waits has its transaction under way or mined, a digest thread
\* ends in "done" with something to say, and a receipt thread fails only where
\* its transaction reverted.
CalmInv ==
  weather = "calm" =>
    /\ \A j \in Job : pc[j] = "wait" => InPool(j) \/ j \in executed \cup reverted
    /\ \A f \in File :
         /\ hashOf[f] # NoHash => pc[<<f, "digest">>] \notin {"none", "failed", "killed"}
         /\ pc[<<f, "digest">>] = "persist" => value[f] # "null"
         /\ pc[<<f, "digest">>] = "done" => ethTx[f] # "null"
         /\ hashOf[f] # NoHash => pc[<<f, "receipt">>] \notin {"none", "killed"}
         /\ pc[<<f, "receipt">>] = "failed" => <<f, "receipt">> \in reverted
         /\ pc[<<f, "receipt">>] = "done" => receiptTx[f] = "tx"

\* A file with a transaction mined has its hash, and a commit gives it no other.
LEMMA MinedHaveHashes ==
  ASSUME IInv, NEW f \in File, NEW t \in {"digest", "receipt"}, <<f, t>> \in executed \cup reverted
  PROVE  hashOf[f] \in Hash /\ hashOf[f] # NoHash
<1>1. <<f, t>> \in Job
  BY DEF Job
<1>2. pc[<<f, t>>] # "none"
  BY <1>1 DEF IInv, LifeInv
<1> QED BY <1>1, <1>2 DEF IInv, LifeInv, TypeOK

LEMMA OutcomeStep ==
  ASSUME IInv, OutcomeInv, [Next]_vars
  PROVE  OutcomeInv'
<1>1. ASSUME NEW f \in File, NEW h \in Hash, NEW s \in Identity, NEW r \in Identity,
             Accept(f, h, s, r)
      PROVE  OutcomeInv'
  <2>1. /\ hashOf[f] = NoHash /\ hashOf' = [hashOf EXCEPT ![f] = h]
        /\ UNCHANGED <<slot, receipts, executed, reverted>>
    BY <1>1 DEF Accept, chain, contracts
  <2>2. \A g \in File : <<g, "digest">> \in executed \cup reverted
                        \/ <<g, "receipt">> \in executed \cup reverted
                        => hashOf'[g] = hashOf[g]
    BY <2>1, MinedHaveHashes DEF IInv, TypeOK
  <2> QED BY <2>1, <2>2 DEF OutcomeInv
<1>2. CASE Mine
  <2> DEFINE j == Head(pool)
  <2>1. /\ j \in Job /\ j \notin executed \cup reverted /\ hashOf[j[1]] \in Hash
        /\ hashOf' = hashOf
        /\ \/ Execute(j) /\ executed' = executed \cup {j} /\ reverted' = reverted
           \/ /\ Reverts(j) /\ reverted' = reverted \cup {j}
              /\ executed' = executed /\ UNCHANGED contracts
    BY <1>2, MineKeeps
  <2> HIDE DEF j
  <2>2. j[1] \in File /\ (j = <<j[1], "digest">> \/ j = <<j[1], "receipt">>)
    BY <2>1, JobIs
  <2>3. D!TypeOK /\ D!SlotsFindEntries /\ P!TypeOK
    BY DEF IInv, TypeOK
  <2>4. CASE Execute(j) /\ executed' = executed \cup {j} /\ reverted' = reverted
    <3>1. CASE j = <<j[1], "digest">>
      <4>1. D!RecordHash(Server, hashOf[j[1]]) /\ receipts' = receipts
        BY <2>4, <3>1 DEF Execute
      <4>2. /\ slot[hashOf[j[1]]] = 0 /\ slot'[hashOf[j[1]]] # 0
            /\ \A g \in Hash \ {hashOf[j[1]]} : slot'[g] = slot[g]
        BY <2>1, <2>3, <4>1, RecordAdds
      <4>3. \A g \in File : <<g, "digest">> \in executed => hashOf[g] # hashOf[j[1]]
        BY <4>2 DEF IInv, DigestInv
      <4>4. \A g \in File : <<g, "digest">> \in reverted => slot'[hashOf[g]] # 0
        BY <4>2, MinedHaveHashes DEF OutcomeInv
      <4> QED BY <2>1, <2>4, <3>1, <4>1, <4>3, <4>4 DEF OutcomeInv
    <3>2. CASE j = <<j[1], "receipt">>
      <4>1. /\ P!PostReceipt(Server, hashOf[j[1]], sender[j[1]], recipient[j[1]])
            /\ slot' = slot
        BY <2>4, <3>2 DEF Execute
      <4>2. sender[j[1]] \in Identity \cup {NoIdentity} /\ recipient[j[1]] \in Identity \cup {NoIdentity}
        BY <2>2 DEF IInv, TypeOK
      <4>3. /\ receipts'[hashOf[j[1]]].timestamp # 0
            /\ \A g \in Hash \ {hashOf[j[1]]} : receipts'[g] = receipts[g]
        BY SMTT(60), <2>1, <2>3, <4>1, <4>2, PostAdds
      <4>4. \A g \in File : <<g, "receipt">> \in reverted => receipts'[hashOf[g]].timestamp # 0
        BY <4>3, MinedHaveHashes DEF OutcomeInv
      <4>5. \A h \in Hash : receipts'[h].timestamp # 0 =>
              \E g \in File : hashOf[g] = h /\ <<g, "receipt">> \in executed'
        BY <2>2, <2>4, <3>2, <4>3 DEF OutcomeInv
      <4>6. \A g \in File : <<g, "digest">> \in executed' <=> <<g, "digest">> \in executed
        BY <2>4, <3>2
      <4> QED BY <2>1, <2>4, <4>1, <4>4, <4>5, <4>6 DEF OutcomeInv
    <3> QED BY <2>2, <3>1, <3>2
  <2>5. CASE /\ Reverts(j) /\ reverted' = reverted \cup {j}
             /\ executed' = executed /\ UNCHANGED contracts
    <3>1. slot' = slot /\ receipts' = receipts
      BY <2>5 DEF contracts
    <3>2. CASE j = <<j[1], "digest">>
      <4>1. slot[hashOf[j[1]]] # 0
        BY <2>5, <3>2 DEF Reverts
      <4> QED BY <2>1, <2>5, <3>1, <3>2, <4>1 DEF OutcomeInv
    <3>3. CASE j = <<j[1], "receipt">>
      <4>1. receipts[hashOf[j[1]]].timestamp # 0
        BY <2>5, <3>3 DEF Reverts
      <4> QED BY <2>1, <2>5, <3>1, <3>3, <4>1 DEF OutcomeInv
    <3> QED BY <2>2, <3>2, <3>3
  <2> QED BY <2>1, <2>4, <2>5
<1>3. CASE \/ \E j \in Job : ThreadStep(j)
           \/ CatchUp \/ Drop \/ Restart \/ UNCHANGED vars
  <2>1. UNCHANGED <<hashOf, slot, receipts, executed, reverted>>
    BY <1>3 DEF ThreadStep, Broadcast, AnswerLost, ThreadFails, GetReceipt, Persist, Verify,
                CatchUp, Drop, Restart, vars, file, chain, contracts
  <2> QED BY <2>1 DEF OutcomeInv
<1> QED BY <1>1, <1>2, <1>3 DEF Next

\* In calm weather a broadcast, a block and an answer are all a thread meets.
LEMMA CalmStep ==
  ASSUME IInv, OutcomeInv, CalmInv, [Next]_vars
  PROVE  CalmInv'
<1> SUFFICES ASSUME weather' = "calm"
             PROVE  CalmInv'
  BY DEF CalmInv
<1>0. weather = "calm" /\ weather' = weather
  BY DEF Next, Accept, ThreadStep, Broadcast, AnswerLost, ThreadFails, GetReceipt, Persist, Verify,
         Mine, CatchUp, Drop, Restart, vars
<1>00. /\ \A j \in Job : pc[j] = "wait" => InPool(j) \/ j \in executed \cup reverted
       /\ \A f \in File :
            /\ hashOf[f] # NoHash => pc[<<f, "digest">>] \notin {"none", "failed", "killed"}
            /\ pc[<<f, "digest">>] = "persist" => value[f] # "null"
            /\ pc[<<f, "digest">>] = "done" => ethTx[f] # "null"
            /\ hashOf[f] # NoHash => pc[<<f, "receipt">>] \notin {"none", "killed"}
            /\ pc[<<f, "receipt">>] = "failed" => <<f, "receipt">> \in reverted
            /\ pc[<<f, "receipt">>] = "done" => receiptTx[f] = "tx"
  BY <1>0 DEF CalmInv
<1>T. /\ pc \in [Job -> Phase] /\ value \in [File -> {"null", "tx", "duplicate"}]
      /\ ethTx \in [File -> {"null", "tx", "duplicate"}]
      /\ receiptTx \in [File -> {"null", "tx"}]
      /\ hashOf \in [File -> Hash \cup {NoHash}]
  BY DEF IInv, TypeOK
<1>1. ASSUME NEW f \in File, NEW h \in Hash, NEW s \in Identity, NEW r \in Identity,
             Accept(f, h, s, r)
      PROVE  CalmInv'
  <2>1. /\ hashOf[f] = NoHash /\ hashOf' = [hashOf EXCEPT ![f] = h]
        /\ pc' = [pc EXCEPT ![<<f, "digest">>] = "send", ![<<f, "receipt">>] = "send"]
        /\ UNCHANGED <<value, ethTx, receiptTx, pool, executed, reverted>>
    BY <1>1 DEF Accept, chain, evidence
  <2>2. /\ pc'[<<f, "digest">>] = "send" /\ pc'[<<f, "receipt">>] = "send"
        /\ \A b \in Job : pc'[b] = pc[b] \/ pc'[b] = "send"
        /\ \A g \in File \ {f} : hashOf'[g] = hashOf[g]
    BY <1>T, <2>1, JobIs
  <2>3. \A b \in Job : pc'[b] = "wait" => InPool(b)' \/ b \in executed' \cup reverted'
    BY <1>00, <2>1, <2>2 DEF InPool
  <2>4. ASSUME NEW g \in File
        PROVE  /\ hashOf'[g] # NoHash => pc'[<<g, "digest">>] \notin {"none", "failed", "killed"}
               /\ hashOf'[g] # NoHash => pc'[<<g, "receipt">>] \notin {"none", "killed"}
    <3>1. CASE g = f
      BY <2>2, <3>1
    <3>2. CASE g # f
      BY <1>00, <2>2, <3>2, JobIs
    <3> QED BY <3>1, <3>2
  <2>5. ASSUME NEW g \in File, NEW t \in {"digest", "receipt"}, pc'[<<g, t>>] # "send"
        PROVE  pc'[<<g, t>>] = pc[<<g, t>>]
    BY <2>2, <2>5, JobIs
  <2> QED BY <1>00, <2>1, <2>3, <2>4, <2>5 DEF CalmInv
<1>2. ASSUME NEW j \in Job, Broadcast(j)
      PROVE  CalmInv'
  <2>1. /\ pc[j] = "send" /\ pc' = [pc EXCEPT ![j] = "wait"] /\ Enqueue(j)
        /\ UNCHANGED <<hashOf, value, ethTx, receiptTx, executed, reverted>>
    BY <1>2 DEF Broadcast, Goto, chain, evidence, file
  <2>2. pc'[j] = "wait" /\ \A b \in Job \ {j} : pc'[b] = pc[b]
    BY <1>T, <2>1
  <2>3. ~InPool(j)
    BY <2>1 DEF IInv, LifeInv
  <2>4. \A b \in Job : InPool(b)' <=> InPool(b) \/ b = j
    BY <2>1, <2>3, EnqueueAdds
  <2> QED BY <1>00, <2>1, <2>2, <2>4, JobIs DEF CalmInv
<1>3. ASSUME NEW j \in Job, GetReceipt(j)
      PROVE  CalmInv'
  <2>1. /\ pc[j] = "wait"
        /\ UNCHANGED <<hashOf, ethTx, receiptTx, pool, executed, reverted>>
        /\ value' = IF j \in executed /\ j[2] = "digest" THEN [value EXCEPT ![j[1]] = "tx"] ELSE value
    BY <1>3 DEF GetReceipt, Goto, chain, evidence, file
  <2>2. /\ \A b \in Job \ {j} : pc'[b] = pc[b]
        /\ \/ j \in executed /\ pc'[j] = "persist"
           \/ j \in reverted /\ j[2] = "digest" /\ pc'[j] = "verify"
           \/ j \in reverted /\ j[2] = "receipt" /\ pc'[j] = "failed"
    BY <1>3, <1>T, JobIs DEF GetReceipt, Goto
  <2>3. \A f \in File : \/ value'[f] = value[f]
                        \/ value'[f] = "tx"
    BY <1>T, <2>1
  <2>4. ASSUME NEW f \in File, pc'[<<f, "digest">>] = "persist"
        PROVE  value'[f] # "null"
    <3>1. CASE j = <<f, "digest">>
      <4>1. j \in executed /\ j[2] = "digest" /\ j[1] = f
        BY <2>2, <2>4, <3>1
      <4> QED BY <1>T, <2>1, <4>1
    <3>2. CASE j # <<f, "digest">>
      BY <1>00, <2>2, <2>3, <2>4, <3>2, JobIs
    <3> QED BY <3>1, <3>2
  <2>5. \A b \in Job : InPool(b)' <=> InPool(b)
    BY <2>1 DEF InPool
  <2>6. ASSUME NEW f \in File
        PROVE  /\ hashOf'[f] # NoHash => pc'[<<f, "digest">>] \notin {"none", "failed", "killed"}
               /\ pc'[<<f, "digest">>] = "done" => ethTx'[f] # "null"
               /\ hashOf'[f] # NoHash => pc'[<<f, "receipt">>] \notin {"none", "killed"}
               /\ pc'[<<f, "receipt">>] = "failed" => <<f, "receipt">> \in reverted'
               /\ pc'[<<f, "receipt">>] = "done" => receiptTx'[f] = "tx"
    <3>1. <<f, "digest">>[2] = "digest" /\ <<f, "receipt">>[2] = "receipt"
      OBVIOUS
    <3> QED BY <1>00, <2>1, <2>2, <3>1, JobIs
  <2>7. \A b \in Job : pc'[b] = "wait" => InPool(b)' \/ b \in executed' \cup reverted'
    BY <1>00, <2>1, <2>2, <2>5
  <2> QED BY <2>4, <2>6, <2>7 DEF CalmInv
<1>4. ASSUME NEW f \in File, Verify(f)
      PROVE  CalmInv'
  <2> DEFINE d == <<f, "digest">>
  <2>1. /\ pc[d] = "verify" /\ d \in Job
        /\ UNCHANGED <<hashOf, ethTx, receiptTx, pool, executed, reverted>>
    BY <1>4, JobIs DEF Verify, chain, evidence, file
  <2>2. slot[hashOf[f]] # 0 /\ hashOf[f] \in Hash /\ hashOf[f] # NoHash
    <3>1. d \in reverted
      BY <2>1 DEF IInv, PhaseInv
    <3> QED BY <3>1, MinedHaveHashes DEF OutcomeInv
  <2>3. VerifyHashOnChain(hashOf[f], Len(digests)) # NoHash
    BY <2>2 DEF VerifyHashOnChain, IInv, TypeOK, D!TypeOK, D!SlotsFindEntries
  <2>4. pc' = [pc EXCEPT ![d] = "persist"] /\ value' = [value EXCEPT ![f] = "duplicate"]
    BY <1>0, <1>4, <2>3 DEF Verify
  <2>5. \A b \in Job : InPool(b)' <=> InPool(b)
    BY <2>1 DEF InPool
  <2>6. /\ pc'[d] = "persist" /\ \A b \in Job \ {d} : pc'[b] = pc[b]
        /\ value'[f] = "duplicate" /\ \A g \in File \ {f} : value'[g] = value[g]
    BY <1>T, <2>1, <2>4
  <2>7. \A g \in File : <<g, "receipt">> # d /\ (<<g, "digest">> = d => g = f)
    OBVIOUS
  <2> HIDE DEF d
  <2> QED BY <1>00, <2>1, <2>5, <2>6, <2>7, JobIs DEF CalmInv
<1>5. ASSUME NEW j \in Job, Persist(j)
      PROVE  CalmInv'
  <2>1. /\ pc[j] = "persist" /\ pc' = [pc EXCEPT ![j] = "done"]
        /\ UNCHANGED <<hashOf, value, pool, executed, reverted>>
        /\ IF j[2] = "digest"
           THEN ethTx' = [ethTx EXCEPT ![j[1]] = value[j[1]]] /\ UNCHANGED receiptTx
           ELSE receiptTx' = [receiptTx EXCEPT ![j[1]] = "tx"] /\ UNCHANGED ethTx
    BY <1>5 DEF Persist, Goto, chain, file
  <2>2. pc'[j] = "done" /\ \A b \in Job \ {j} : pc'[b] = pc[b]
    BY <1>T, <2>1
  <2>3. \A b \in Job : InPool(b)' <=> InPool(b)
    BY <2>1 DEF InPool
  <2>4. ASSUME NEW f \in File, pc'[<<f, "digest">>] = "done"
        PROVE  ethTx'[f] # "null"
    <3>1. CASE j = <<f, "digest">>
      <4>1. value[f] # "null" /\ j[1] = f /\ j[2] = "digest"
        BY <1>00, <2>1, <3>1
      <4> QED BY <1>T, <2>1, <4>1
    <3>2. CASE j # <<f, "digest">>
      <4>1. ethTx[f] # "null"
        BY <1>00, <2>2, <2>4, <3>2, JobIs
      <4>2. CASE j[2] = "digest"
        <5>1. j[1] # f
          BY <3>2, <4>2, JobIs
        <5> QED BY <1>T, <2>1, <4>1, <4>2, <5>1
      <4>3. CASE j[2] # "digest"
        BY <2>1, <4>1, <4>3
      <4> QED BY <4>2, <4>3
    <3> QED BY <3>1, <3>2
  <2>5. ASSUME NEW f \in File, pc'[<<f, "receipt">>] = "done"
        PROVE  receiptTx'[f] = "tx"
    <3>1. CASE j = <<f, "receipt">>
      <4>1. j[1] = f /\ j[2] # "digest"
        BY <3>1
      <4> QED BY <1>T, <2>1, <4>1
    <3>2. CASE j # <<f, "receipt">>
      <4>1. receiptTx[f] = "tx"
        BY <1>00, <2>2, <2>5, <3>2, JobIs
      <4> QED BY <1>T, <2>1, <4>1, JobIs
    <3> QED BY <3>1, <3>2
  <2> QED BY <1>00, <2>1, <2>2, <2>3, <2>4, <2>5, JobIs DEF CalmInv
<1>6. CASE Mine
  <2>1. /\ UNCHANGED <<hashOf, ethTx, receiptTx, pc, value>>
        /\ \/ executed' = executed \cup {Head(pool)} /\ reverted' = reverted
           \/ reverted' = reverted \cup {Head(pool)} /\ executed' = executed
        /\ pool # <<>> /\ pool' = Tail(pool)
    BY <1>6, MineKeeps DEF Mine
  <2>2. \A b \in Job : InPool(b) => InPool(b)' \/ b = Head(pool)
    BY <2>1, MineRemoves
  <2>3. ASSUME NEW b \in Job, pc'[b] = "wait"
        PROVE  InPool(b)' \/ b \in executed' \cup reverted'
    BY <1>00, <2>1, <2>2, <2>3
  <2>4. \A b \in reverted : b \in reverted'
    BY <2>1
  <2> QED BY <1>00, <2>1, <2>3, <2>4 DEF CalmInv
<1>7. CASE UNCHANGED vars
  BY <1>7, <1>00 DEF CalmInv, InPool, vars, file, evidence, process, chain
<1> QED
  <2>1. ~CatchUp /\ ~Drop /\ ~Restart /\ \A j \in Job : ~AnswerLost(j) /\ ~ThreadFails(j)
    BY <1>0 DEF CatchUp, Drop, Restart, AnswerLost, ThreadFails
  <2>2. ASSUME NEW j \in Job, ThreadStep(j)
        PROVE  CalmInv'
    <3>1. j[1] \in File
      BY JobIs
    <3> QED BY <1>2, <1>3, <1>4, <1>5, <2>1, <2>2, <3>1 DEF ThreadStep
  <2> QED BY <1>1, <1>6, <1>7, <2>1, <2>2 DEF Next

\* Where nothing fails, whatever the overlap of the uploads and of their threads,
\* the end finds every file anchored, one row of each hash with its own
\* transaction and the others as duplicates, and one with a receipt.
\* (files.py, upload_file, _submit_to_chain and _submit_receipt)
THEOREM QuietEndsAreComplete ==
  Spec => []QuietEndIsComplete
<1>1. Init => OutcomeInv /\ CalmInv
  BY JobIs DEF Init, OutcomeInv, CalmInv, P!Init, P!NoReceipt
<1>2. IInv /\ OutcomeInv /\ CalmInv /\ [Next]_vars => OutcomeInv' /\ CalmInv'
  BY OutcomeStep, CalmStep
<1>3. ASSUME IInv, OutcomeInv, CalmInv, weather = "calm", Quiescent,
             NEW f \in File, hashOf[f] # NoHash
      PROVE  LET same == {g \in File : hashOf[g] = hashOf[f]}
             IN  /\ ethTx[f] # "null"
                 /\ \E g \in same : ethTx[g] = "tx" /\ \A e \in same \ {g} : ethTx[e] = "duplicate"
                 /\ \E g \in same : receiptTx[g] = "tx"
  <2> DEFINE same == {g \in File : hashOf[g] = hashOf[f]}
  <2>1. \A j \in Job : pc[j] \in {"none"} \cup Terminal
    BY <1>3 DEF Quiescent
  <2>2. hashOf[f] \in Hash
    BY <1>3 DEF IInv, TypeOK
  <2>3. \A g \in same : /\ ethTx[g] \in {"tx", "duplicate"}
                        /\ ethTx[g] = "tx" => <<g, "digest">> \in executed
                        /\ ethTx[g] = "duplicate" => <<g, "digest">> \notin executed
    <3>1. ASSUME NEW g \in File, hashOf[g] # NoHash
          PROVE  pc[<<g, "digest">>] = "done"
      <4>1. pc[<<g, "digest">>] \in {"none"} \cup Terminal
        BY <2>1, JobIs
      <4>2. pc[<<g, "digest">>] \notin {"none", "failed", "killed"}
        BY <1>3, <3>1 DEF CalmInv
      <4> QED BY <4>1, <4>2 DEF Terminal
    <3>2. ASSUME NEW g \in File, hashOf[g] # NoHash
          PROVE  ethTx[g] \in {"tx", "duplicate"}
      BY <1>3, <3>1, <3>2 DEF CalmInv, IInv, TypeOK
    <3>3. executed \cap reverted = {}
      BY <1>3 DEF IInv, OnceInv
    <3> QED BY <1>3, <3>2, <3>3 DEF IInv, RowInv, Proven
  <2>4. slot[hashOf[f]] # 0
    BY <1>3, <2>3 DEF IInv, RowInv, Proven, DigestInv
  <2>5. PICK g \in same : <<g, "digest">> \in executed
    BY <1>3, <2>2, <2>4 DEF IInv, DigestInv
  <2>6. ethTx[g] = "tx"
    BY <2>3, <2>5
  <2>7. \A e \in same \ {g} : ethTx[e] = "duplicate"
    <3>1. \A e \in same \ {g} : <<e, "digest">> \notin executed
      BY <1>3, <2>5 DEF OutcomeInv
    <3> QED BY <2>3, <3>1
  <2>8. \E e \in same : receiptTx[e] = "tx"
    <3>1. ASSUME NEW e \in File, hashOf[e] # NoHash
          PROVE  \/ pc[<<e, "receipt">>] = "done" /\ receiptTx[e] = "tx"
                 \/ <<e, "receipt">> \in reverted
      <4>1. pc[<<e, "receipt">>] \in {"none"} \cup Terminal
        BY <2>1, JobIs
      <4>2. /\ pc[<<e, "receipt">>] \notin {"none", "killed"}
            /\ pc[<<e, "receipt">>] = "failed" => <<e, "receipt">> \in reverted
            /\ pc[<<e, "receipt">>] = "done" => receiptTx[e] = "tx"
        BY <1>3, <3>1 DEF CalmInv
      <4> QED BY <4>1, <4>2 DEF Terminal
    <3>2. CASE <<f, "receipt">> \in reverted
      <4>1. PICK e \in File : hashOf[e] = hashOf[f] /\ <<e, "receipt">> \in executed
        BY <1>3, <2>2, <3>2 DEF OutcomeInv
      <4>2. <<e, "receipt">> \notin reverted
        BY <1>3, <4>1 DEF IInv, OnceInv
      <4> QED BY <1>3, <3>1, <4>1, <4>2
    <3> QED BY <1>3, <3>1, <3>2
  <2> QED BY <2>3, <2>6, <2>7, <2>8
<1>4. IInv /\ OutcomeInv /\ CalmInv => QuietEndIsComplete
  BY <1>3 DEF QuietEndIsComplete
<1> QED BY <1>1, <1>2, <1>4, AnchoringInvariant, PTL DEF Spec

-----------------------------------------------------------------------------
(* The composition: the wallet and the contracts.                          *)

LEMMA AnchoringQueueStep ==
  ASSUME IInv, [Next]_vars
  PROVE  [Queue!Next]_(Queue!vars)
<1> USE DEF Queue!Next, Queue!Send, Queue!Mine, Queue!Upset, Queue!vars
<1>1. pool \in Seq(Job) /\ tangled \in BOOLEAN /\ Len(pool) \in Nat
  BY DEF IInv, TypeOK
<1>2. ASSUME NEW j \in Job, Broadcast(j) \/ AnswerLost(j)
      PROVE  Queue!Next
  <2>1. /\ pc[j] = "send" /\ Enqueue(j) /\ UNCHANGED <<executed, reverted>>
        /\ tangled' = tangled \/ tangled' = TRUE
    BY <1>2 DEF Broadcast, AnswerLost, Goto, chain
  <2>2. CASE tangled' = TRUE
    BY <2>1, <2>2
  <2>3. CASE tangled' # TRUE
    <3>1. ~tangled /\ tangled' = tangled
      BY <1>1, <2>1, <2>3
    <3>2. pool' = Append(pool, j)
      BY <1>1, <2>1, <3>1, InsertedLast DEF Enqueue
    <3>3. j \notin Range(pool) \cup (executed \cup reverted)
      BY <2>1 DEF IInv, LifeInv, InPool
    <3>4. Queue!Send(j)
      BY <2>1, <3>2, <3>3 DEF Range, Queue!Range
    <3> QED BY <3>1, <3>4
  <2> QED BY <2>2, <2>3
<1>3. CASE Mine
  <2>1. /\ pool # <<>> /\ pool' = Tail(pool) /\ tangled' = tangled
        /\ (executed \cup reverted)' = (executed \cup reverted) \cup {Head(pool)}
    BY <1>3 DEF Mine
  <2>2. CASE tangled
    BY <2>1, <2>2
  <2>3. CASE ~tangled
    BY <2>1, <2>3
  <2> QED BY <2>2, <2>3
<1>4. CASE Drop \/ Restart
  BY <1>4 DEF Drop, Restart, chain
<1>5. CASE UNCHANGED <<pool, executed, reverted, tangled>>
  BY <1>5
<1> QED
  BY <1>2, <1>3, <1>4, <1>5
     DEF Next, ThreadStep, Accept, ThreadFails, GetReceipt, Verify, Persist, CatchUp, vars, chain

\* The threads' transactions keep the order module SendLock proves of the
\* allocator: until a drop, a lost answer or a restart they are mined in the
\* order of their broadcasts, each once. (_send_lock.py; contract.py, receipts.py)
THEOREM AnchorsUseQueue ==
  Spec => UsesQueue
<1>1. Init => Queue!Init
  BY DEF Init, Queue!Init
<1>2. IInv /\ [Next]_vars => [Queue!Next]_(Queue!vars)
  BY AnchoringQueueStep
<1> QED BY <1>1, <1>2, AnchoringInvariant, PTL DEF Spec, UsesQueue, Queue!Spec

\* A row's parties are there with its hash.
PartiesInv ==
  \A f \in File : hashOf[f] # NoHash => sender[f] \in Identity /\ recipient[f] \in Identity

LEMMA PartiesStep ==
  ASSUME IInv, PartiesInv, [Next]_vars
  PROVE  PartiesInv'
<1>1. ASSUME NEW f \in File, NEW h \in Hash, NEW s \in Identity, NEW r \in Identity,
             Accept(f, h, s, r)
      PROVE  PartiesInv'
  BY <1>1 DEF Accept, PartiesInv, IInv, TypeOK
<1>2. CASE UNCHANGED file
  BY <1>2 DEF PartiesInv, file
<1> QED
  BY <1>1, <1>2
     DEF Next, ThreadStep, Broadcast, AnswerLost, ThreadFails, GetReceipt, Verify, Persist, Mine,
         CatchUp, Drop, Restart, vars

LEMMA ContractsStep ==
  ASSUME IInv, PartiesInv, [Next]_vars
  PROVE  [D!Next]_(D!vars) /\ [P!Next]_(P!vars)
<1>1. CASE Mine
  <2>1. /\ pool # <<>> /\ pool' = Tail(pool)
        /\ Execute(Head(pool)) \/ UNCHANGED contracts
    BY <1>1 DEF Mine
  <2>2. Head(pool) \in Job /\ InPool(Head(pool))
    BY <2>1, MineRemoves
  <2>3. PICK j \in Job : j = Head(pool)
    BY <2>2
  <2>4. /\ j[1] \in File /\ hashOf[j[1]] \in Hash
        /\ sender[j[1]] \in Identity /\ recipient[j[1]] \in Identity
    BY <2>2, <2>3, JobIs DEF IInv, TypeOK, LifeInv, PartiesInv
  <2>5. CASE UNCHANGED contracts
    BY <2>5 DEF contracts, D!vars, P!vars
  <2>6. CASE Execute(j) /\ j[2] = "digest"
    <3>1. D!RecordHash(Server, hashOf[j[1]]) /\ UNCHANGED <<server, receipts, posted>>
      BY <2>6 DEF Execute
    <3> QED BY <2>4, <3>1 DEF D!Next, P!vars
  <2>7. CASE Execute(j) /\ j[2] # "digest"
    <3>1. /\ P!PostReceipt(Server, hashOf[j[1]], sender[j[1]], recipient[j[1]])
          /\ UNCHANGED <<owner, digests, slot>>
      BY <2>7 DEF Execute
    <3> QED BY <2>4, <3>1 DEF P!Next, D!vars
  <2> QED BY <2>1, <2>3, <2>5, <2>6, <2>7
<1>2. CASE UNCHANGED contracts
  BY <1>2 DEF contracts, D!vars, P!vars
<1> QED
  BY <1>1, <1>2
     DEF Next, ThreadStep, Accept, Broadcast, AnswerLost, ThreadFails, GetReceipt, Verify, Persist,
         CatchUp, Drop, Restart, vars, chain

\* What the server sends is within what the contracts' own modules describe, so
\* what is proved of every transaction there holds of the server's.
\* (contract.py and receipts.py; MessageDigest.sol, MessageReceipt.sol)
THEOREM AnchorsUseContracts ==
  Spec => UsesContracts
<1>1. Init => D!Init /\ P!Init /\ PartiesInv
  BY DEF Init, PartiesInv
<1>2. IInv /\ PartiesInv /\ [Next]_vars => PartiesInv'
  BY PartiesStep
<1>3. IInv /\ PartiesInv /\ [Next]_vars => [D!Next]_(D!vars) /\ [P!Next]_(P!vars)
  BY ContractsStep
<1> QED
  BY <1>1, <1>2, <1>3, AnchoringInvariant, PTL DEF Spec, UsesContracts, D!Spec, P!Spec
=============================================================================
