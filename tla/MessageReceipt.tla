--------------------------- MODULE MessageReceipt ---------------------------
(***************************************************************************)
(* contracts/MessageReceipt.sol: one receipt for each ciphertext hash.  A  *)
(* receipt with timestamp 0 is one never posted.  An action is a           *)
(* transaction whose require clauses hold, in a block at time now or later.*)
(***************************************************************************)
EXTENDS Integers, Sequences

CONSTANTS
  Hash,       \* keccak256(ciphertext) values, the zero hash excluded
  Identity,   \* keccak256(username) values
  NoIdentity, \* bytes32(0)
  Account,    \* Ethereum addresses, the zero address excluded
  Deployer,   \* the account that ran the constructor
  MaxTime     \* bound: the last block timestamp

VARIABLES
  server,     \* the account allowed to post
  receipts,   \* _receipts: ciphertext hash -> Receipt
  posted,     \* the ReceiptPosted events, in order
  now         \* the timestamp of the last block

vars == <<server, receipts, posted, now>>

Receipt == [sender : Identity \cup {NoIdentity}, recipient : Identity \cup {NoIdentity},
            timestamp : 0 .. MaxTime]
NoReceipt == [sender |-> NoIdentity, recipient |-> NoIdentity, timestamp |-> 0]
Event == [hash : Hash, receipt : Receipt]

Init ==
  /\ server = Deployer
  /\ receipts = [h \in Hash |-> NoReceipt]
  /\ posted = <<>>
  /\ now = 1

\* Slip: a replay is let through in silence.
PostReceipt_EmitsReplay(caller, h, s, r) ==
  /\ caller = server
  /\ \E t \in now .. MaxTime :
       /\ now' = t
       /\ receipts' = IF receipts[h].timestamp # 0 THEN receipts ELSE
            [receipts EXCEPT ![h] = [sender |-> s, recipient |-> r, timestamp |-> t]]
  /\ posted' = Append(posted, [hash |-> h, receipt |-> receipts'[h]])
  /\ UNCHANGED server

PostReceipt(caller, h, s, r) ==
  /\ caller = server
  /\ receipts[h].timestamp = 0
  /\ \E t \in now .. MaxTime :
       /\ now' = t
       /\ receipts' = [receipts EXCEPT ![h] = [sender |-> s, recipient |-> r, timestamp |-> t]]
  /\ posted' = Append(posted, [hash |-> h, receipt |-> receipts'[h]])
  /\ UNCHANGED server

TransferServer(caller, new) ==
  /\ caller = server
  /\ server' = new
  /\ UNCHANGED <<receipts, posted, now>>

Next ==
  \E caller \in Account :
    \/ \E h \in Hash, s, r \in Identity : PostReceipt(caller, h, s, r)
    \/ \E new \in Account : TransferServer(caller, new)

Spec == Init /\ [][Next]_vars

-----------------------------------------------------------------------------
TypeOK ==
  /\ server \in Account
  /\ receipts \in [Hash -> Receipt]
  /\ posted \in Seq(Event)
  /\ now \in 1 .. MaxTime

\* The event log and the mapping tell the same story: a hash has a receipt iff
\* exactly one event posted it, with the same parties and time.
\* (MessageReceipt.sol, "one ciphertext hash, one receipt, forever")
ReceiptsAreTheirEvents ==
  /\ \A i \in 1 .. Len(posted) : /\ receipts[posted[i].hash] = posted[i].receipt
                                 /\ posted[i].receipt.timestamp # 0
  /\ \A i, j \in 1 .. Len(posted) : posted[i].hash = posted[j].hash => i = j
  /\ \A h \in Hash : receipts[h] # NoReceipt =>
       receipts[h].timestamp # 0 /\ \E i \in 1 .. Len(posted) : posted[i].hash = h

\* "re-posting to alter the recorded parties/time is impossible"
\* (MessageReceipt.sol:62-63): no transaction, under any owner, changes a
\* receipt there is.
ReceiptsAreForEver ==
  [][\A h \in Hash : receipts[h].timestamp # 0 => receipts'[h] = receipts[h]]_vars

IInv == TypeOK /\ ReceiptsAreTheirEvents
=============================================================================
