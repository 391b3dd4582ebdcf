----------------------------- MODULE Contracts -----------------------------
(***************************************************************************)
(* The three contracts of blockchain/contracts.  None calls or reads       *)
(* another, so how their transactions interleave is of no consequence: a   *)
(* behaviour is a history of one of them, the one named by `called`.       *)
(***************************************************************************)
EXTENDS KeyRegistry

CONSTANTS
  Hash,       \* bytes32 hashes, the zero hash excluded
  NoIdentity, \* bytes32(0)
  MaxTime     \* bound: the last block timestamp

ASSUME TimeAssumption == MaxTime \in Nat \ {0}

VARIABLES called, owner, digests, slot, server, receipts, posted, now

digestVars == <<owner, digests, slot>>
receiptVars == <<server, receipts, posted, now>>

D == INSTANCE MessageDigest
P == INSTANCE MessageReceipt

ContractsInit == Init /\ D!Init /\ P!Init /\ called \in {"KeyRegistry", "MessageDigest", "MessageReceipt"}

ContractsNext ==
  /\ \/ called = "KeyRegistry" /\ Next /\ UNCHANGED <<digestVars, receiptVars>>
     \/ called = "MessageDigest" /\ D!Next /\ UNCHANGED <<vars, receiptVars>>
     \/ called = "MessageReceipt" /\ P!Next /\ UNCHANGED <<vars, digestVars>>
  /\ UNCHANGED called

ContractsSpec == ContractsInit /\ [][ContractsNext]_<<called, vars, digestVars, receiptVars>>

\* MessageDigest's mapping and array are inverse to each other.
\* (MessageDigest.sol, recordHash)
SlotsFindEntries == D!SlotsFindEntries

\* MessageDigest's entries keep index, hash and recorder for ever.
\* (MessageDigest.sol, recordHash)
EntriesAreForEver == D!EntriesAreForEver

\* MessageReceipt's event log and mapping tell the same story.
\* (MessageReceipt.sol, postReceipt)
ReceiptsAreTheirEvents == P!ReceiptsAreTheirEvents
=============================================================================
