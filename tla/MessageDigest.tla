--------------------------- MODULE MessageDigest ---------------------------
(***************************************************************************)
(* contracts/MessageDigest.sol: the append-only array of recorded hashes   *)
(* and the mapping that finds a hash in it.  An action is a transaction    *)
(* whose require clauses hold.  Timestamps are left out.                   *)
(***************************************************************************)
EXTENDS Integers, Sequences

CONSTANTS
  Hash,       \* bytes32 values, the zero hash excluded
  Account,    \* Ethereum addresses, the zero address excluded
  Deployer    \* the account that ran the constructor

VARIABLES
  owner,      \* the account allowed to record
  digests,    \* _digests; position i here is index i - 1 of the contract
  slot        \* _hashToSlot: 1-based position, 0 for "not found"

vars == <<owner, digests, slot>>

Entry == [hash : Hash, recorder : Account]

Init ==
  /\ owner = Deployer
  /\ digests = <<>>
  /\ slot = [h \in Hash |-> 0]

\* Slips: a hash may be recorded again; the slot is the 0-based index.
RecordHash_Again(caller, h) ==
  /\ caller = owner
  /\ digests' = Append(digests, [hash |-> h, recorder |-> caller])
  /\ slot' = [slot EXCEPT ![h] = Len(digests')]
  /\ UNCHANGED owner

RecordHash_ZeroBased(caller, h) ==
  /\ caller = owner
  /\ slot[h] = 0
  /\ digests' = Append(digests, [hash |-> h, recorder |-> caller])
  /\ slot' = [slot EXCEPT ![h] = Len(digests)]
  /\ UNCHANGED owner

RecordHash(caller, h) ==
  /\ caller = owner
  /\ slot[h] = 0
  /\ digests' = Append(digests, [hash |-> h, recorder |-> caller])
  /\ slot' = [slot EXCEPT ![h] = Len(digests')]
  /\ UNCHANGED owner

TransferOwnership(caller, new) ==
  /\ caller = owner
  /\ owner' = new
  /\ UNCHANGED <<digests, slot>>

Next ==
  \E caller \in Account :
    \/ \E h \in Hash : RecordHash(caller, h)
    \/ \E new \in Account : TransferOwnership(caller, new)

Spec == Init /\ [][Next]_vars

-----------------------------------------------------------------------------
TypeOK ==
  /\ owner \in Account
  /\ digests \in Seq(Entry)
  /\ slot \in [Hash -> Nat]

\* The mapping and the array are inverse to each other: getIndexByHash then
\* getDigest returns the hash asked for, every array entry is found by its
\* hash, and no hash has two entries. (MessageDigest.sol, recordHash)
SlotsFindEntries ==
  /\ \A h \in Hash : slot[h] # 0 => slot[h] <= Len(digests) /\ digests[slot[h]].hash = h
  /\ \A i \in 1 .. Len(digests) : slot[digests[i].hash] = i

\* An entry, once recorded, keeps its index, its hash and its recorder; so the
\* two calls of verify_hash_on_chain may straddle a block.
\* (MessageDigest.sol; contract.py, verify_hash_on_chain)
EntriesAreForEver ==
  [][/\ Len(digests') >= Len(digests)
     /\ \A i \in 1 .. Len(digests) : digests'[i] = digests[i]
     /\ \A h \in Hash : slot[h] # 0 => slot'[h] = slot[h]]_vars

IInv == TypeOK /\ SlotsFindEntries
=============================================================================
