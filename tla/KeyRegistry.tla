---------------------------- MODULE KeyRegistry ----------------------------
(***************************************************************************)
(* contracts/KeyRegistry.sol: the on-chain log of users' public keys.  An  *)
(* action is a transaction whose require clauses hold; a reverted one      *)
(* changes nothing and is no step.  Block timestamps are left out.         *)
(***************************************************************************)
EXTENDS Integers, Sequences

CONSTANTS
  Identity,     \* keccak256(username) values
  Key,          \* X25519 public keys, the zero key excluded
  ZeroKey,      \* bytes32(0), the key of an empty record
  Account,      \* Ethereum addresses, the zero address excluded
  Deployer,     \* the account that ran the constructor
  MaxVersion    \* the largest uint32, beyond which `version += 1` reverts

ASSUME RegistryAssumption ==
  /\ ZeroKey \notin Key
  /\ Deployer \in Account
  /\ MaxVersion \in Nat \ {0}

VARIABLES
  registrar,    \* the account allowed to write
  keys,         \* _keys: identity -> KeyRecord
  log           \* the KeyRegistered and KeyRevoked events, in order

vars == <<registrar, keys, log>>

KeyRecord == [key : Key \cup {ZeroKey}, version : 0 .. MaxVersion, revoked : BOOLEAN]
EmptyRecord == [key |-> ZeroKey, version |-> 0, revoked |-> FALSE]

\* KeyRegistered(identity, key, version) and KeyRevoked(identity, version).
Event == [name : {"KeyRegistered", "KeyRevoked"}, identity : Identity,
          key : Key \cup {ZeroKey}, version : 1 .. MaxVersion]
Registered(id, k, v) == [name |-> "KeyRegistered", identity |-> id, key |-> k, version |-> v]
Revoked(id, v) == [name |-> "KeyRevoked", identity |-> id, key |-> ZeroKey, version |-> v]

Init ==
  /\ registrar = Deployer
  /\ keys = [id \in Identity |-> EmptyRecord]
  /\ log = <<>>

\* Slip: registerKey does not require an unused identity.
RegisterKey_Again(caller, id, k) ==
  /\ caller = registrar
  /\ keys' = [keys EXCEPT ![id] = [key |-> k, version |-> 1, revoked |-> FALSE]]
  /\ log' = Append(log, Registered(id, k, 1))
  /\ UNCHANGED registrar

RegisterKey(caller, id, k) ==
  /\ caller = registrar
  /\ keys[id].version = 0
  /\ keys' = [keys EXCEPT ![id] = [key |-> k, version |-> 1, revoked |-> FALSE]]
  /\ log' = Append(log, Registered(id, k, 1))
  /\ UNCHANGED registrar

\* Slip: rotateKey keeps the revoked flag.
RotateKey_StaysRevoked(caller, id, k) ==
  /\ caller = registrar
  /\ keys[id].version # 0
  /\ keys[id].key # k
  /\ keys[id].version < MaxVersion
  /\ keys' = [keys EXCEPT ![id].key = k, ![id].version = @ + 1]
  /\ log' = Append(log, Registered(id, k, keys[id].version + 1))
  /\ UNCHANGED registrar

RotateKey(caller, id, k) ==
  /\ caller = registrar
  /\ keys[id].version # 0
  /\ keys[id].key # k
  /\ keys[id].version < MaxVersion
  /\ keys' = [keys EXCEPT ![id] = [key |-> k, version |-> @.version + 1, revoked |-> FALSE]]
  /\ log' = Append(log, Registered(id, k, keys[id].version + 1))
  /\ UNCHANGED registrar

RevokeKey(caller, id) ==
  /\ caller = registrar
  /\ keys[id].version # 0
  /\ ~keys[id].revoked
  /\ keys' = [keys EXCEPT ![id].revoked = TRUE]
  /\ log' = Append(log, Revoked(id, keys[id].version))
  /\ UNCHANGED registrar

TransferRegistrar(caller, new) ==
  /\ caller = registrar
  /\ registrar' = new
  /\ UNCHANGED <<keys, log>>

Next ==
  \E caller \in Account :
    \/ \E id \in Identity : \/ \E k \in Key : RegisterKey(caller, id, k) \/ RotateKey(caller, id, k)
                            \/ RevokeKey(caller, id)
    \/ \E new \in Account : TransferRegistrar(caller, new)

Spec == Init /\ [][Next]_vars

\* Whether the registrar's call fn(id, k) passes its require clauses.
Callable(fn, id, k) ==
  CASE fn = "registerKey" -> keys[id].version = 0
    [] fn = "rotateKey"   -> keys[id].version \in 1 .. MaxVersion - 1 /\ keys[id].key # k

-----------------------------------------------------------------------------
TypeOK ==
  /\ registrar \in Account
  /\ keys \in [Identity -> KeyRecord]
  /\ log \in Seq(Event)

\* The event that put a record in its present state: the KeyRegistered event
\* of its version, after which a KeyRevoked event came iff it is revoked.
Explains(id, i) ==
  /\ log[i] = Registered(id, keys[id].key, keys[id].version)
  /\ keys[id].revoked <=> \E j \in i + 1 .. Len(log) : log[j] = Revoked(id, keys[id].version)

\* A record can be read off the event log alone: an empty one has no event, and
\* any other is what the log says last of it. A key is never replaced, revoked
\* or unrevoked without a public record of it.
\* (KeyRegistry.sol: "History is never deleted")
LogExplainsState ==
  \A id \in Identity :
    /\ keys[id].version = 0 => \A i \in 1 .. Len(log) : log[i].identity # id
    /\ keys[id].version # 0 => \E i \in 1 .. Len(log) : Explains(id, i)

\* The log never shows one identity two keys under one version, nor a version
\* out of order, so versions a client has seen order the keys it has seen.
VersionsOrdered ==
  \A i, j \in 1 .. Len(log) :
    /\ i < j /\ log[i].identity = log[j].identity
    => \/ log[i].version < log[j].version
       \/ log[i].version = log[j].version /\ log[i].name = "KeyRegistered" /\ log[j].name = "KeyRevoked"

\* No transaction takes an event back or an identity to "never registered",
\* and a revocation is lifted only by a different key at a higher version.
HistoryKept ==
  [][/\ Len(log') >= Len(log) /\ SubSeq(log', 1, Len(log)) = log
     /\ \A id \in Identity :
          /\ keys[id].version <= keys'[id].version
          /\ keys[id].revoked /\ ~keys'[id].revoked =>
               /\ keys'[id].version > keys[id].version
               /\ keys'[id].key # keys[id].key]_vars

\* No event carries a version the record has not reached.
LogBounded ==
  \A i \in 1 .. Len(log) : log[i].version <= keys[log[i].identity].version

\* A record not revoked has not been revoked at its version.
RevocationLogged ==
  \A i \in 1 .. Len(log) :
    /\ log[i].name = "KeyRevoked" /\ log[i].version = keys[log[i].identity].version
    => keys[log[i].identity].revoked

\* An identity never registered has the mapping's default record.
EmptyIsDefault == \A id \in Identity : keys[id].version = 0 => keys[id] = EmptyRecord

IInv == /\ TypeOK /\ LogExplainsState /\ VersionsOrdered /\ LogBounded
        /\ RevocationLogged /\ EmptyIsDefault
=============================================================================
