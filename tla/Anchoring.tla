----------------------------- MODULE Anchoring -----------------------------
(***************************************************************************)
(* The on-chain evidence of a file: after upload_file or share_file has    *)
(* committed a row, one background thread records its hash in              *)
(* MessageDigest and another posts its MessageReceipt (routers/files.py,   *)
(* blockchain/contract.py, blockchain/receipts.py), composed with the two  *)
(* contracts.                                                              *)
(*                                                                         *)
(* A Job is one of these threads and the transaction it sends.  The wallet *)
(* gives each broadcast a nonce of its own (NonceWallet), in the order of  *)
(* the broadcasts until a drop, a lost answer or a restart has upset the   *)
(* allocator (NonceQueue).                                                 *)
(***************************************************************************)
EXTENDS Integers, Sequences, SequencesExt

CONSTANTS
  File,          \* files.id, numbered in order of their commits
  Hash, NoHash,  \* keccak256(ciphertext) values; integrity_hash of no row
  Identity, NoIdentity, \* keccak256(username) values; bytes32(0)
  Server,        \* the wallet's account, which deployed the contracts
  MaxRestarts,   \* bound: restarts of the server process
  Weather        \* the circumstances considered, some of:
                 \*   "calm": nothing fails, every node is up to date
                 \*   "faulty": calls fail, nodes lag, transactions are
                 \*     dropped, the process restarts

ASSUME FileAssumption == File \subseteq Nat /\ NoHash \notin Hash /\ NoIdentity \notin Identity
ASSUME BoundAssumption == MaxRestarts \in Nat /\ Weather \subseteq {"calm", "faulty"}

Job == File \X {"digest", "receipt"}

VARIABLES
  weather,      \* the circumstances of this behaviour
  \* the rows
  hashOf,       \* files.integrity_hash, NoHash before the row is committed
  sender, recipient,
  ethTx,        \* blockchain_records.eth_tx_hash: "null", "tx" (the hash of
                \* this file's own transaction) or "duplicate"
  receiptTx,    \* files.receipt_tx_hash: "null" or "tx"
  \* the threads
  pc,
  value,        \* value[f]: what the digest thread is about to store
  restarts,
  \* the chain
  owner, digests, slot, server, receipts, posted,
  seen,         \* how many digests a node that is behind knows of
  pool,         \* broadcast transactions, in nonce order
  tangled,      \* nonces may no longer follow the order of the broadcasts
  executed,     \* the transactions executed
  reverted      \* the transactions mined and reverted

file == <<hashOf, sender, recipient>>
evidence == <<ethTx, receiptTx>>
process == <<pc, value, restarts>>
contracts == <<owner, digests, slot, server, receipts, posted>>
chain == <<contracts, seen, executed, reverted>>
vars == <<weather, file, evidence, process, chain, pool, tangled>>

D == INSTANCE MessageDigest WITH Account <- {Server}, Deployer <- Server
P == INSTANCE MessageReceipt
       WITH Account <- {Server}, Deployer <- Server, now <- 1, MaxTime <- 1

Terminal == {"done", "failed", "killed"}
Phase == {"none", "send", "wait", "verify", "persist"} \cup Terminal

Init ==
  /\ weather \in Weather
  /\ hashOf = [f \in File |-> NoHash]
  /\ sender = [f \in File |-> NoIdentity]
  /\ recipient = [f \in File |-> NoIdentity]
  /\ ethTx = [f \in File |-> "null"]
  /\ receiptTx = [f \in File |-> "null"]
  /\ pc = [j \in Job |-> "none"]
  /\ value = [f \in File |-> "null"]
  /\ restarts = 0
  /\ D!Init /\ P!Init
  /\ seen = 0 /\ pool = <<>> /\ tangled = FALSE /\ executed = {} /\ reverted = {}

Goto(j, from, to) ==
  /\ pc[j] = from
  /\ pc' = [pc EXCEPT ![j] = to]

-----------------------------------------------------------------------------
\* upload_file and share_file: the row is committed and both threads start.
\* Two rows hold one hash if a request is sent twice.
Accept(f, h, s, r) ==
  /\ hashOf[f] = NoHash
  /\ \A g \in File : g < f => hashOf[g] # NoHash
  /\ s # r
  /\ hashOf' = [hashOf EXCEPT ![f] = h]
  /\ sender' = [sender EXCEPT ![f] = s]
  /\ recipient' = [recipient EXCEPT ![f] = r]
  /\ pc' = [pc EXCEPT ![<<f, "digest">>] = "send", ![<<f, "receipt">>] = "send"]
  /\ UNCHANGED <<weather, evidence, value, restarts, chain, pool, tangled>>

-----------------------------------------------------------------------------
(* The threads: record_message_digest and post_receipt.                    *)

\* A broadcast takes the next nonce, or, once tangled, any free one.
Enqueue(j) ==
  \E i \in IF tangled THEN 1 .. Len(pool) + 1 ELSE {Len(pool) + 1} : pool' = InsertAt(pool, i, j)

Broadcast(j) ==
  /\ Goto(j, "send", "wait")
  /\ Enqueue(j)
  /\ UNCHANGED <<weather, file, evidence, value, restarts, chain, tangled>>

\* A transaction the node accepted although the thread saw an exception,
\* which speaks neither of a revert nor of a rejection.
AnswerLost(j) ==
  /\ weather = "faulty"
  /\ Goto(j, "send", "failed")
  /\ Enqueue(j)
  /\ tangled' = TRUE
  /\ UNCHANGED <<weather, file, evidence, value, restarts, chain>>

\* The send, the wait for the receipt (TimeExhausted after 120 s), the
\* verification or the final commit raises: logged, and the thread returns.
ThreadFails(j) ==
  /\ weather = "faulty"
  /\ pc[j] \in {"send", "wait", "verify", "persist"}
  /\ pc' = [pc EXCEPT ![j] = "failed"]
  /\ UNCHANGED <<weather, file, evidence, value, restarts, chain, pool, tangled>>

\* Slip: a receipt is taken for success, whatever its status.
GetReceipt_AnyStatus(j) ==
  /\ j \in executed \cup reverted
  /\ Goto(j, "wait", "persist")
  /\ value' = IF j[2] = "digest" THEN [value EXCEPT ![j[1]] = "tx"] ELSE value
  /\ UNCHANGED <<weather, file, evidence, restarts, chain, pool, tangled>>

\* The receipt's status: a reverted digest is looked up on chain, a reverted
\* receipt only logged.
GetReceipt(j) ==
  /\ \/ j \in executed /\ Goto(j, "wait", "persist")
     \/ j \in reverted /\ Goto(j, "wait", IF j[2] = "digest" THEN "verify" ELSE "failed")
  /\ value' = IF j \in executed /\ j[2] = "digest" THEN [value EXCEPT ![j[1]] = "tx"] ELSE value
  /\ UNCHANGED <<weather, file, evidence, restarts, chain, pool, tangled>>

\* The hash of the array entry that the mapping points to, at a node that knows
\* of n digests; NoHash where it knows none.
VerifyHashOnChain(h, n) == IF slot[h] \in 1 .. n THEN digests[slot[h]].hash ELSE NoHash

\* Slip: a revert is the end of it.
Verify_Gone(f) ==
  /\ pc[<<f, "digest">>] = "verify"
  /\ pc' = [pc EXCEPT ![<<f, "digest">>] = "failed"]
  /\ UNCHANGED <<weather, file, evidence, value, restarts, chain, pool, tangled>>

\* verify_hash_on_chain, at a node up to date or behind: a hash found there
\* is stored as "duplicate".
Verify(f) ==
  /\ pc[<<f, "digest">>] = "verify"
  /\ \E n \in {Len(digests)} \cup (IF weather = "faulty" THEN {seen} ELSE {}) :
       IF VerifyHashOnChain(hashOf[f], n) # NoHash
       THEN /\ pc' = [pc EXCEPT ![<<f, "digest">>] = "persist"]
            /\ value' = [value EXCEPT ![f] = "duplicate"]
       ELSE /\ pc' = [pc EXCEPT ![<<f, "digest">>] = "failed"]
            /\ UNCHANGED value
  /\ UNCHANGED <<weather, file, evidence, restarts, chain, pool, tangled>>

\* Slip: both threads write what the digest thread found.
Persist_Shared(j) ==
  /\ Goto(j, "persist", "done")
  /\ IF j[2] = "digest"
     THEN ethTx' = [ethTx EXCEPT ![j[1]] = value[j[1]]] /\ UNCHANGED receiptTx
     ELSE receiptTx' = [receiptTx EXCEPT ![j[1]] = value[j[1]]] /\ UNCHANGED ethTx
  /\ UNCHANGED <<weather, file, value, restarts, chain, pool, tangled>>

\* eth_tx_hash or receipt_tx_hash, in a session of the thread's own.
Persist(j) ==
  /\ Goto(j, "persist", "done")
  /\ IF j[2] = "digest"
     THEN ethTx' = [ethTx EXCEPT ![j[1]] = value[j[1]]] /\ UNCHANGED receiptTx
     ELSE receiptTx' = [receiptTx EXCEPT ![j[1]] = "tx"] /\ UNCHANGED ethTx
  /\ UNCHANGED <<weather, file, value, restarts, chain, pool, tangled>>

-----------------------------------------------------------------------------
\* GET /files/{id}/blockchain-proof, answered with the help of a node that knows
\* of n digests and of every receipt.  The ciphertext never changes, so its hash
\* is the stored one.
BlockchainProof(f, n) ==
  [ethTx |-> ethTx[f],
   onChainMatch |->
     IF ethTx[f] = "null" \/ VerifyHashOnChain(hashOf[f], n) = NoHash THEN {}
     ELSE {VerifyHashOnChain(hashOf[f], n) = hashOf[f]},
   receiptTx |-> receiptTx[f],
   receipt |-> receipts[hashOf[f]]]

-----------------------------------------------------------------------------
(* The network and the process.                                            *)

Execute(j) ==
  IF j[2] = "digest"
  THEN D!RecordHash(Server, hashOf[j[1]]) /\ UNCHANGED <<server, receipts, posted>>
  ELSE /\ P!PostReceipt(Server, hashOf[j[1]], sender[j[1]], recipient[j[1]])
       /\ UNCHANGED <<owner, digests, slot>>

\* Whether the contract's require clauses turn the transaction away.
Reverts(j) ==
  IF j[2] = "digest" THEN slot[hashOf[j[1]]] # 0 ELSE receipts[hashOf[j[1]]].timestamp # 0

\* The transaction with the lowest nonce is mined: executed or reverted.
Mine ==
  /\ pool # <<>>
  /\ pool' = Tail(pool)
  /\ \/ /\ Execute(Head(pool))
        /\ executed' = executed \cup {Head(pool)}
        /\ UNCHANGED reverted
     \/ /\ Reverts(Head(pool))
        /\ reverted' = reverted \cup {Head(pool)}
        /\ UNCHANGED <<contracts, executed>>
  /\ UNCHANGED <<weather, file, evidence, process, seen, tangled>>

CatchUp ==
  /\ weather = "faulty" /\ seen # Len(digests)
  /\ seen' = Len(digests)
  /\ UNCHANGED <<weather, file, evidence, process, contracts, executed, reverted, pool, tangled>>

Drop ==
  /\ weather = "faulty"
  /\ \E i \in 1 .. Len(pool) : pool' = RemoveAt(pool, i)
  /\ tangled' = TRUE
  /\ UNCHANGED <<weather, file, evidence, process, chain>>

\* Also between a commit and the start of its threads.
Restart ==
  /\ weather = "faulty" /\ restarts < MaxRestarts
  /\ restarts' = restarts + 1
  /\ pc' = [j \in Job |-> IF pc[j] \in {"none"} \cup Terminal THEN pc[j] ELSE "killed"]
  /\ tangled' = TRUE
  /\ UNCHANGED <<weather, file, evidence, value, chain, pool>>

ThreadStep(j) ==
  \/ Broadcast(j) \/ AnswerLost(j) \/ ThreadFails(j) \/ GetReceipt(j) \/ Persist(j)
  \/ j[2] = "digest" /\ Verify(j[1])

Next ==
  \/ \E f \in File, h \in Hash, s, r \in Identity : Accept(f, h, s, r)
  \/ \E j \in Job : ThreadStep(j)
  \/ Mine \/ CatchUp \/ Drop \/ Restart

Spec == Init /\ [][Next]_vars

-----------------------------------------------------------------------------
TypeOK ==
  /\ weather \in Weather
  /\ hashOf \in [File -> Hash \cup {NoHash}]
  /\ sender \in [File -> Identity \cup {NoIdentity}]
  /\ recipient \in [File -> Identity \cup {NoIdentity}]
  /\ ethTx \in [File -> {"null", "tx", "duplicate"}]
  /\ receiptTx \in [File -> {"null", "tx"}]
  /\ pc \in [Job -> Phase]
  /\ value \in [File -> {"null", "tx", "duplicate"}]
  /\ restarts \in 0 .. MaxRestarts
  /\ seen \in 0 .. Len(digests)
  /\ pool \in Seq(Job)
  /\ tangled \in BOOLEAN
  /\ executed \subseteq Job
  /\ reverted \subseteq Job
  /\ D!TypeOK /\ P!TypeOK

\* What a row says of its anchor is so: "tx" means this file's transaction
\* recorded the hash, "duplicate" that another file's did, whatever failed,
\* reverted or came late; so of the rows with one hash at most one says "tx". And
\* the proof of either confirms the hash at an up-to-date node, and contradicts
\* it at none. (files.py, _submit_to_chain and get_blockchain_proof)
AnchorIsSound ==
  \A f \in File :
    /\ ethTx[f] = "tx" => <<f, "digest">> \in executed
    /\ ethTx[f] = "duplicate" =>
         \E g \in File \ {f} : hashOf[g] = hashOf[f] /\ <<g, "digest">> \in executed
    /\ ethTx[f] # "null" => /\ BlockchainProof(f, Len(digests)).onChainMatch = {TRUE}
                            /\ BlockchainProof(f, seen).onChainMatch \subseteq {TRUE}

\* The proof of a file with a receipt transaction shows the receipt that names
\* its own sender and recipient, also when another row with the same hash was
\* posted first. (files.py, _submit_receipt and get_blockchain_proof)
ReceiptIsOwn ==
  \A f \in File : receiptTx[f] = "tx" =>
    LET proof == BlockchainProof(f, Len(digests))
    IN  /\ proof.receipt.sender = sender[f]
        /\ proof.receipt.recipient = recipient[f]
        /\ \A g \in File \ {f} : hashOf[g] = hashOf[f] => receiptTx[g] = "null"

Quiescent == pool = <<>> /\ \A j \in Job : pc[j] \in {"none"} \cup Terminal

\* Where nothing failed, all threads over leave every accepted file anchored,
\* each hash with one "tx" row and the others "duplicate", and one row of each
\* hash with a receipt, however the uploads overlapped. (files.py, upload_file)
QuietEndIsComplete ==
  weather = "calm" /\ Quiescent =>
    \A f \in File : hashOf[f] # NoHash =>
      LET same == {g \in File : hashOf[g] = hashOf[f]}
      IN  /\ ethTx[f] # "null"
          /\ \E g \in same : ethTx[g] = "tx" /\ \A e \in same \ {g} : ethTx[e] = "duplicate"
          /\ \E g \in same : receiptTx[g] = "tx"

\* The wallet keeps the order NonceQueue promises: until a drop, a lost answer or
\* a restart, what is broadcast first is mined first. (_send_lock.py)
Queue == INSTANCE NonceQueue
           WITH Sender <- Job, mined <- executed \cup reverted, upset <- tangled

UsesQueue == Queue!Spec

\* The contracts meet no transaction but those their own modules describe.
\* (MessageDigest.sol and MessageReceipt.sol; contract.py and receipts.py)
UsesContracts == D!Spec /\ P!Spec
=============================================================================
