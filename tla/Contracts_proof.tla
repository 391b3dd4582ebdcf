--------------------------- MODULE Contracts_proof ---------------------------
(***************************************************************************)
(* Proofs about the three contracts, each on its own and side by side, for *)
(* any identities, keys, hashes, accounts, version width and block times.  *)
(***************************************************************************)
EXTENDS Contracts, TLAPS

USE RegistryAssumption, TimeAssumption

-----------------------------------------------------------------------------
(* KeyRegistry: the event log explains the state.                          *)

\* What appending one event does to the log.
LEMMA AppendLog ==
  ASSUME NEW l \in Seq(Event), NEW e \in Event
  PROVE  /\ Append(l, e) \in Seq(Event)
         /\ Len(Append(l, e)) = Len(l) + 1
         /\ \A i \in 1 .. Len(l) : Append(l, e)[i] = l[i]
         /\ Append(l, e)[Len(l) + 1] = e
         /\ Len(l) \in Nat
OBVIOUS

\* What every event of the log carries.
LEMMA EventFields ==
  ASSUME NEW l \in Seq(Event), NEW i \in 1 .. Len(l)
  PROVE  /\ l[i].identity \in Identity /\ l[i].version \in Nat
         /\ l[i].name \in {"KeyRegistered", "KeyRevoked"}
<1>1. l[i] \in Event
  OBVIOUS
<1> QED
  BY <1>1 DEF Event

\* The initial registry satisfies the invariant.
LEMMA InitIInv == Init => IInv
BY DEF Init, IInv, TypeOK, KeyRecord, EmptyRecord, LogExplainsState, VersionsOrdered, LogBounded,
       RevocationLogged, EmptyIsDefault

\* Writing a fresh key at the next version, as registerKey and rotateKey do.
Writes(id, k) ==
  /\ keys[id].version < MaxVersion
  /\ keys' = [keys EXCEPT ![id] = [key |-> k, version |-> keys[id].version + 1, revoked |-> FALSE]]
  /\ log' = Append(log, Registered(id, k, keys[id].version + 1))
  /\ UNCHANGED registrar

LEMMA RegisterAndRotateWrite ==
  ASSUME TypeOK, NEW caller, NEW id \in Identity, NEW k \in Key,
         RegisterKey(caller, id, k) \/ RotateKey(caller, id, k)
  PROVE  Writes(id, k)
BY DEF TypeOK, KeyRecord, RegisterKey, RotateKey, Writes

LEMMA WriteStep ==
  ASSUME IInv, NEW id \in Identity, NEW k \in Key, Writes(id, k)
  PROVE  IInv'
<1> DEFINE e == Registered(id, k, keys[id].version + 1)
           n == Len(log)
<1>1. e \in Event /\ e.name = "KeyRegistered" /\ e.identity = id /\ e.version = keys[id].version + 1
  BY DEF Writes, IInv, TypeOK, KeyRecord, Event, Registered
<1>2. /\ log \in Seq(Event) /\ log' \in Seq(Event) /\ n \in Nat /\ Len(log') = n + 1
      /\ \A i \in 1 .. n : log'[i] = log[i]
      /\ log'[n + 1] = e
  BY <1>1, AppendLog DEF Writes, IInv, TypeOK
<1>3. /\ keys'[id] = [key |-> k, version |-> keys[id].version + 1, revoked |-> FALSE]
      /\ \A x \in Identity : x # id => keys'[x] = keys[x]
      /\ \A x \in Identity : keys[x].version \in Nat /\ keys[x].version <= keys'[x].version
      /\ keys' \in [Identity -> KeyRecord]
  BY DEF Writes, IInv, TypeOK, KeyRecord
<1>4. \A i \in 1 .. n : log[i].identity \in Identity /\ log[i].version \in Nat
  BY <1>2, EventFields
<1>5. TypeOK'
  BY <1>2, <1>3 DEF TypeOK, Writes, IInv
<1>6. LogBounded'
  <2> SUFFICES ASSUME NEW i \in 1 .. n + 1
               PROVE  log'[i].version <= keys'[log'[i].identity].version
    BY <1>2 DEF LogBounded
  <2>1. CASE i = n + 1
    BY <1>1, <1>2, <1>3, <2>1
  <2>2. CASE i \in 1 .. n
    <3>1. log[i].version <= keys[log[i].identity].version
      BY <2>2 DEF LogBounded, IInv
    <3>2. keys'[log[i].identity].version \in Nat
      BY <1>3, <1>4, <2>2 DEF KeyRecord
    <3> QED
      BY <1>2, <1>3, <1>4, <2>2, <3>1, <3>2
  <2> QED
    BY <1>2, <2>1, <2>2
<1>7. RevocationLogged'
  <2> SUFFICES ASSUME NEW i \in 1 .. n + 1, log'[i].name = "KeyRevoked",
                      log'[i].version = keys'[log'[i].identity].version
               PROVE  keys'[log'[i].identity].revoked
    BY <1>2 DEF RevocationLogged
  <2>1. i \in 1 .. n /\ log'[i] = log[i]
    BY <1>1, <1>2
  <2>2. log[i].identity # id
    BY <1>3, <1>4, <2>1 DEF LogBounded, IInv
  <2> QED
    BY <1>3, <1>4, <2>1, <2>2 DEF RevocationLogged, IInv
<1>8. VersionsOrdered'
  <2> SUFFICES ASSUME NEW i \in 1 .. n + 1, NEW j \in 1 .. n + 1, i < j,
                      log'[i].identity = log'[j].identity
               PROVE  \/ log'[i].version < log'[j].version
                      \/ /\ log'[i].version = log'[j].version
                         /\ log'[i].name = "KeyRegistered" /\ log'[j].name = "KeyRevoked"
    BY <1>2 DEF VersionsOrdered
  <2>1. i \in 1 .. n
    BY <1>2
  <2>2. CASE j = n + 1
    <3>1. log[i].identity = id /\ log[i].version <= keys[log[i].identity].version
      BY <1>1, <1>2, <2>1, <2>2 DEF LogBounded, IInv
    <3>2. log[i].version < keys[id].version + 1
      BY <1>3, <1>4, <2>1, <3>1
    <3> QED
      BY <1>1, <1>2, <2>1, <2>2, <3>2
  <2>3. CASE j \in 1 .. n
    BY <1>2, <2>1, <2>3 DEF VersionsOrdered, IInv
  <2> QED
    BY <1>2, <2>2, <2>3
<1>9. LogExplainsState'
  <2> SUFFICES ASSUME NEW x \in Identity
               PROVE  /\ keys'[x].version = 0 => \A i \in 1 .. n + 1 : log'[i].identity # x
                      /\ keys'[x].version # 0 => \E i \in 1 .. n + 1 : Explains(x, i)'
    BY <1>2 DEF LogExplainsState, Explains
  <2>1. CASE x = id
    <3> PICK m \in Nat : m = n + 1
      BY <1>2
    <3>1. \A j \in m + 1 .. Len(log') : FALSE
      BY <1>2
    <3>2. log'[m] = Registered(x, keys'[x].key, keys'[x].version) /\ keys'[x].revoked = FALSE
      BY <1>2, <1>3, <2>1
    <3>3. Explains(x, m)'
      BY <3>1, <3>2 DEF Explains
    <3>4. keys'[x].version # 0 /\ m \in 1 .. n + 1
      BY <1>2, <1>3, <2>1
    <3> QED
      BY <3>3, <3>4
  <2>2. CASE x # id
    <3>1. keys'[x] = keys[x] /\ log'[n + 1].identity # x
      BY <1>1, <1>2, <1>3, <2>2
    <3>2. ASSUME NEW i \in 1 .. n, Explains(x, i) PROVE Explains(x, i)'
      <4>1. \A j \in i + 1 .. n : j \in 1 .. n + 1 /\ log'[j] = log[j]
        BY <1>2
      <4>2. ~(log'[n + 1] = Revoked(x, keys[x].version))
        BY <3>1 DEF Revoked
      <4>3. \A j \in i + 1 .. n + 1 : j \in i + 1 .. n \/ j = n + 1
        BY <1>2
      <4> QED
        BY <1>2, <3>1, <3>2, <4>1, <4>2, <4>3 DEF Explains
    <3> QED
      BY <1>2, <3>1, <3>2 DEF LogExplainsState, IInv
  <2> QED
    BY <2>1, <2>2
<1>10. EmptyIsDefault'
  BY <1>3 DEF EmptyIsDefault, IInv
<1> QED
  BY <1>5, <1>6, <1>7, <1>8, <1>9, <1>10 DEF IInv

LEMMA RevokeStep ==
  ASSUME IInv, NEW caller, NEW id \in Identity, RevokeKey(caller, id)
  PROVE  IInv'
<1> DEFINE e == Revoked(id, keys[id].version)
           n == Len(log)
<1>1. e \in Event /\ e.name = "KeyRevoked" /\ e.identity = id /\ e.version = keys[id].version
  BY DEF RevokeKey, IInv, TypeOK, KeyRecord, Event, Revoked
<1>2. /\ log \in Seq(Event) /\ log' \in Seq(Event) /\ n \in Nat /\ Len(log') = n + 1
      /\ \A i \in 1 .. n : log'[i] = log[i]
      /\ log'[n + 1] = e
  BY <1>1, AppendLog DEF RevokeKey, IInv, TypeOK
<1>3. /\ keys'[id].revoked /\ ~keys[id].revoked /\ keys[id].version # 0
      /\ \A x \in Identity : keys'[x].version = keys[x].version /\ keys'[x].key = keys[x].key
      /\ \A x \in Identity : x # id => keys'[x] = keys[x]
      /\ keys' \in [Identity -> KeyRecord]
      /\ \A x \in Identity : keys[x].version \in Nat
  <2>1. \A x \in Identity : keys[x] \in KeyRecord /\ keys[x].version \in Nat
    BY DEF IInv, TypeOK, KeyRecord
  <2>2. /\ keys'[id] = [keys[id] EXCEPT !.revoked = TRUE]
        /\ \A x \in Identity : x # id => keys'[x] = keys[x]
        /\ keys' \in [Identity -> KeyRecord]
        /\ ~keys[id].revoked /\ keys[id].version # 0
    BY <2>1 DEF RevokeKey, IInv, TypeOK, KeyRecord
  <2>3. keys'[id].revoked /\ keys'[id].version = keys[id].version /\ keys'[id].key = keys[id].key
    BY <2>1, <2>2 DEF KeyRecord
  <2> QED
    BY <2>1, <2>2, <2>3
<1>4. \A i \in 1 .. n : log[i].identity \in Identity /\ log[i].version \in Nat
                        /\ log[i].name \in {"KeyRegistered", "KeyRevoked"}
  BY <1>2, EventFields
<1>5. TypeOK'
  BY <1>2, <1>3 DEF TypeOK, RevokeKey, IInv
<1>6. LogBounded'
  <2> SUFFICES ASSUME NEW i \in 1 .. n + 1
               PROVE  log'[i].version <= keys'[log'[i].identity].version
    BY <1>2 DEF LogBounded
  <2>1. CASE i = n + 1
    BY <1>1, <1>2, <1>3, <2>1
  <2>2. CASE i \in 1 .. n
    <3>1. log[i].version <= keys[log[i].identity].version
      BY <2>2 DEF LogBounded, IInv
    <3>2. keys'[log[i].identity].version \in Nat
      BY <1>3, <1>4, <2>2 DEF KeyRecord
    <3> QED
      BY <1>2, <1>3, <1>4, <2>2, <3>1, <3>2
  <2> QED
    BY <1>2, <2>1, <2>2
<1>7. RevocationLogged'
  <2> SUFFICES ASSUME NEW i \in 1 .. n + 1, log'[i].name = "KeyRevoked",
                      log'[i].version = keys'[log'[i].identity].version
               PROVE  keys'[log'[i].identity].revoked
    BY <1>2 DEF RevocationLogged
  <2>1. CASE i = n + 1
    BY <1>1, <1>2, <1>3, <2>1
  <2>2. CASE i \in 1 .. n
    <3>1. keys[log[i].identity].revoked
      BY <1>2, <1>3, <1>4, <2>2 DEF RevocationLogged, IInv
    <3> QED
      BY SMTT(60), <1>2, <1>3, <1>4, <2>2, <3>1
  <2> QED
    BY <1>2, <2>1, <2>2
<1>8. VersionsOrdered'
  <2> SUFFICES ASSUME NEW i \in 1 .. n + 1, NEW j \in 1 .. n + 1, i < j,
                      log'[i].identity = log'[j].identity
               PROVE  \/ log'[i].version < log'[j].version
                      \/ /\ log'[i].version = log'[j].version
                         /\ log'[i].name = "KeyRegistered" /\ log'[j].name = "KeyRevoked"
    BY <1>2 DEF VersionsOrdered
  <2>1. i \in 1 .. n
    BY <1>2
  <2>2. CASE j = n + 1
    <3>1. log[i].identity = id /\ log[i].version <= keys[id].version
      BY <1>1, <1>2, <1>4, <2>1, <2>2 DEF LogBounded, IInv
    <3>2. log[i].version = keys[id].version => log[i].name = "KeyRegistered"
      BY <1>3, <1>4, <2>1, <3>1 DEF RevocationLogged, IInv
    <3> QED
      BY SMTT(60), <1>1, <1>2, <1>3, <1>4, <2>1, <2>2, <3>1, <3>2
  <2>3. CASE j \in 1 .. n
    BY <1>2, <2>1, <2>3 DEF VersionsOrdered, IInv
  <2> QED
    BY <1>2, <2>2, <2>3
<1>9. LogExplainsState'
  <2> SUFFICES ASSUME NEW x \in Identity
               PROVE  /\ keys'[x].version = 0 => \A i \in 1 .. n + 1 : log'[i].identity # x
                      /\ keys'[x].version # 0 => \E i \in 1 .. n + 1 : Explains(x, i)'
    BY <1>2 DEF LogExplainsState, Explains
  <2>1. CASE x = id
    <3>1. PICK i \in 1 .. n : Explains(id, i)
      BY <1>3 DEF LogExplainsState, IInv
    <3>2. n + 1 \in i + 1 .. n + 1 /\ log'[n + 1] = Revoked(id, keys'[id].version)
      BY <1>2, <1>3
    <3>3. Explains(id, i)'
      BY <1>2, <1>3, <3>1, <3>2 DEF Explains
    <3> QED
      BY <1>2, <1>3, <2>1, <3>3
  <2>2. CASE x # id
    <3>1. keys'[x] = keys[x] /\ log'[n + 1].identity # x
      BY <1>1, <1>2, <1>3, <2>2
    <3>2. ASSUME NEW i \in 1 .. n, Explains(x, i) PROVE Explains(x, i)'
      <4>1. \A j \in i + 1 .. n : j \in 1 .. n + 1 /\ log'[j] = log[j]
        BY <1>2
      <4>2. ~(log'[n + 1] = Revoked(x, keys[x].version))
        BY <3>1 DEF Revoked
      <4>3. \A j \in i + 1 .. n + 1 : j \in i + 1 .. n \/ j = n + 1
        BY <1>2
      <4> QED
        BY <1>2, <3>1, <3>2, <4>1, <4>2, <4>3 DEF Explains
    <3> QED
      BY <1>2, <3>1, <3>2 DEF LogExplainsState, IInv
  <2> QED
    BY <2>1, <2>2
<1>10. EmptyIsDefault'
  BY <1>3 DEF EmptyIsDefault, IInv
<1> QED
  BY <1>5, <1>6, <1>7, <1>8, <1>9, <1>10 DEF IInv

\* The invariant holds of every reachable registry.
THEOREM InductiveInvariant == Spec => []IInv
<1>1. IInv /\ [Next]_vars => IInv'
  <2> SUFFICES ASSUME IInv, [Next]_vars PROVE IInv'
    OBVIOUS
  <2>1. ASSUME NEW caller \in Account, NEW id \in Identity, NEW k \in Key,
               RegisterKey(caller, id, k) \/ RotateKey(caller, id, k)
        PROVE  IInv'
    BY <2>1, RegisterAndRotateWrite, WriteStep DEF IInv
  <2>2. ASSUME NEW caller \in Account, NEW id \in Identity, RevokeKey(caller, id) PROVE IInv'
    BY <2>2, RevokeStep
  <2>3. ASSUME NEW caller \in Account, NEW new \in Account, TransferRegistrar(caller, new)
        PROVE  IInv'
    BY <2>3 DEF TransferRegistrar, IInv, TypeOK, LogExplainsState, Explains, VersionsOrdered,
         LogBounded, RevocationLogged, EmptyIsDefault
  <2>4. CASE UNCHANGED vars
    BY <2>4 DEF vars, IInv, TypeOK, LogExplainsState, Explains, VersionsOrdered, LogBounded,
         RevocationLogged, EmptyIsDefault
  <2> QED
    BY <2>1, <2>2, <2>3, <2>4 DEF Next
<1> QED
  BY InitIInv, <1>1, PTL DEF Spec

\* Whatever the registrar does, the record of an identity is what the event log
\* says last of it, and versions order the keys a client has seen.
\* (KeyRegistry.sol)
THEOREM LogIsTheHistory == Spec => [](LogExplainsState /\ VersionsOrdered)
<1>1. IInv => LogExplainsState /\ VersionsOrdered
  BY DEF IInv
<1> QED
  BY InductiveInvariant, <1>1, PTL

\* Every step keeps the past: events are only appended, versions never fall,
\* and a revocation ends only with a different key at a higher version.
\* (KeyRegistry.sol)
THEOREM HistoryIsKept == Spec => HistoryKept
<1> DEFINE Kept == /\ Len(log') >= Len(log) /\ SubSeq(log', 1, Len(log)) = log
                   /\ \A id \in Identity :
                        /\ keys[id].version <= keys'[id].version
                        /\ keys[id].revoked /\ ~keys'[id].revoked =>
                             /\ keys'[id].version > keys[id].version
                             /\ keys'[id].key # keys[id].key
<1>1. ASSUME IInv, IInv', [Next]_vars PROVE [Kept]_vars
  <2>1. ASSUME NEW e \in Event, log' = Append(log, e)
        PROVE  Len(log') >= Len(log) /\ SubSeq(log', 1, Len(log)) = log
    <3>1. log \in Seq(Event) /\ log' \in Seq(Event)
      BY <1>1 DEF IInv, TypeOK
    <3>2. Len(log') = Len(log) + 1 /\ \A i \in 1 .. Len(log) : log'[i] = log[i]
      BY <2>1, <3>1, AppendLog
    <3> QED
      BY <3>1, <3>2
  <2>2. ASSUME NEW caller \in Account, NEW id \in Identity, NEW k \in Key,
               RegisterKey(caller, id, k) \/ RotateKey(caller, id, k)
        PROVE  Kept
    <3>1. Writes(id, k)
      BY <1>1, <2>2, RegisterAndRotateWrite DEF IInv
    <3>2. Registered(id, k, keys[id].version + 1) \in Event
      BY <1>1, <3>1 DEF Writes, IInv, TypeOK, KeyRecord, Event, Registered
    <3>3. keys[id].revoked => keys[id].key # k
      <4>1. CASE RotateKey(caller, id, k)
        BY <4>1 DEF RotateKey
      <4>2. CASE RegisterKey(caller, id, k)
        BY <1>1, <4>2 DEF RegisterKey, IInv, EmptyIsDefault, EmptyRecord
      <4> QED
        BY <2>2, <4>1, <4>2
    <3> QED
      BY <1>1, <2>1, <3>1, <3>2, <3>3 DEF Writes, IInv, TypeOK, KeyRecord
  <2>3. ASSUME NEW caller \in Account, NEW id \in Identity, RevokeKey(caller, id)
        PROVE  Kept
    <3>1. Revoked(id, keys[id].version) \in Event
      BY <1>1, <2>3 DEF RevokeKey, IInv, TypeOK, KeyRecord, Event, Revoked
    <3> QED
      BY <1>1, <2>1, <2>3, <3>1 DEF RevokeKey, IInv, TypeOK, KeyRecord
  <2>4. ASSUME NEW caller \in Account, NEW new \in Account, TransferRegistrar(caller, new)
        PROVE  Kept
    <3>1. SubSeq(log, 1, Len(log)) = log
      BY <1>1 DEF IInv, TypeOK
    <3> QED
      BY <1>1, <2>4, <3>1 DEF TransferRegistrar, IInv, TypeOK, KeyRecord
  <2> QED
    BY <1>1, <2>2, <2>3, <2>4 DEF Next
<1> QED
  BY InductiveInvariant, <1>1, PTL DEF Spec, HistoryKept

-----------------------------------------------------------------------------
(* MessageDigest: mapping and array.                                       *)

\* The empty array has neither entries nor slots.
LEMMA DigestInit ==
  ASSUME D!Init
  PROVE  D!IInv
BY DEF D!Init, D!IInv, D!TypeOK, D!SlotsFindEntries

\* Recording appends the one entry its slot points at; the entries before it
\* and their slots stay.
LEMMA RecordInvariant ==
  ASSUME D!IInv, NEW caller \in Account, NEW h \in Hash, D!RecordHash(caller, h)
  PROVE  D!IInv'
<1> DEFINE e == [hash |-> h, recorder |-> caller]
<1>1. digests \in Seq(D!Entry) /\ e \in D!Entry /\ slot \in [Hash -> Nat] /\ owner \in Account
  BY DEF D!IInv, D!TypeOK, D!Entry
<1>2. digests' = Append(digests, e) /\ slot[h] = 0 /\ owner' = owner
  BY DEF D!RecordHash
<1>3. /\ digests' \in Seq(D!Entry)
      /\ Len(digests') = Len(digests) + 1
      /\ \A i \in 1 .. Len(digests) : digests'[i] = digests[i]
      /\ digests'[Len(digests) + 1] = e
  BY <1>1, <1>2
<1>4. slot' = [slot EXCEPT ![h] = Len(digests) + 1]
  BY <1>3 DEF D!RecordHash
<1>5. D!TypeOK'
  BY <1>1, <1>2, <1>3, <1>4 DEF D!TypeOK
<1>6. ASSUME NEW g \in Hash, slot'[g] # 0
      PROVE  slot'[g] <= Len(digests') /\ digests'[slot'[g]].hash = g
  <2>1. CASE g = h
    BY <2>1, <1>1, <1>3, <1>4
  <2>2. CASE g # h
    <3>1. slot'[g] = slot[g] /\ slot[g] # 0 /\ slot[g] \in Nat
      BY <2>2, <1>1, <1>4, <1>6
    <3>2. slot[g] \in 1 .. Len(digests) /\ digests[slot[g]].hash = g
      BY <3>1, <1>1 DEF D!IInv, D!SlotsFindEntries
    <3> QED
      BY <3>1, <3>2, <1>1, <1>3
  <2> QED
    BY <2>1, <2>2
<1>7. ASSUME NEW i \in 1 .. Len(digests')
      PROVE  slot'[digests'[i].hash] = i
  <2>1. CASE i = Len(digests) + 1
    BY <2>1, <1>1, <1>3, <1>4
  <2>2. CASE i # Len(digests) + 1
    <3>1. i \in 1 .. Len(digests)
      BY <2>2, <1>1, <1>3, <1>7
    <3>2. digests'[i] = digests[i] /\ digests[i] \in D!Entry /\ slot[digests[i].hash] = i
      BY <3>1, <1>1, <1>3 DEF D!IInv, D!SlotsFindEntries
    <3>3. digests[i].hash # h /\ digests[i].hash \in Hash
      BY <3>1, <3>2, <1>2 DEF D!Entry
    <3> QED
      BY <3>2, <3>3, <1>1, <1>4
  <2> QED
    BY <2>1, <2>2
<1> QED
  BY <1>5, <1>6, <1>7 DEF D!IInv, D!SlotsFindEntries

\* Every step preserves the invariant.
LEMMA DigestNext ==
  ASSUME D!IInv, [D!Next]_D!vars
  PROVE  D!IInv'
<1>1. ASSUME NEW caller \in Account, NEW h \in Hash, D!RecordHash(caller, h)
      PROVE  D!IInv'
  BY <1>1, RecordInvariant
<1>2. ASSUME NEW caller \in Account, NEW new \in Account, D!TransferOwnership(caller, new)
      PROVE  D!IInv'
  BY <1>2 DEF D!TransferOwnership, D!IInv, D!TypeOK, D!SlotsFindEntries
<1>3. CASE UNCHANGED D!vars
  BY <1>3 DEF D!vars, D!IInv, D!TypeOK, D!SlotsFindEntries
<1> QED
  BY <1>1, <1>2, <1>3 DEF D!Next

\* MessageDigest.sol, recordHash: the mapping and the array are inverse to
\* each other in every reachable state, so a hash has at most one entry and
\* getIndexByHash never points past the array or at another hash.
THEOREM LookupIsExact ==
  D!Spec => []D!SlotsFindEntries
<1>1. D!Init => D!IInv
  BY DigestInit
<1>2. D!IInv /\ [D!Next]_D!vars => D!IInv'
  BY DigestNext
<1>3. D!IInv => D!SlotsFindEntries
  BY DEF D!IInv
<1> QED
  BY <1>1, <1>2, <1>3, PTL DEF D!Spec

\* What one step keeps of the entries and slots there are.
LEMMA StepKeepsEntries ==
  ASSUME D!IInv, D!Next
  PROVE  /\ Len(digests') >= Len(digests)
         /\ \A i \in 1 .. Len(digests) : digests'[i] = digests[i]
         /\ \A h \in Hash : slot[h] # 0 => slot'[h] = slot[h]
<1>1. ASSUME NEW caller \in Account, NEW h \in Hash, D!RecordHash(caller, h)
      PROVE  /\ Len(digests') >= Len(digests)
             /\ \A i \in 1 .. Len(digests) : digests'[i] = digests[i]
             /\ \A g \in Hash : slot[g] # 0 => slot'[g] = slot[g]
  <2>1. digests \in Seq(D!Entry) /\ slot \in [Hash -> Nat] /\ [hash |-> h, recorder |-> caller] \in D!Entry
    BY DEF D!IInv, D!TypeOK, D!Entry
  <2>2. digests' = Append(digests, [hash |-> h, recorder |-> caller]) /\ slot[h] = 0
    BY <1>1 DEF D!RecordHash
  <2>3. \A g \in Hash : g # h => slot'[g] = slot[g]
    BY <1>1, <2>1 DEF D!RecordHash
  <2> QED
    BY <2>1, <2>2, <2>3
<1>2. ASSUME NEW caller \in Account, NEW new \in Account, D!TransferOwnership(caller, new)
      PROVE  UNCHANGED <<digests, slot>>
  BY <1>2 DEF D!TransferOwnership
<1>3. digests \in Seq(D!Entry)
  BY DEF D!IInv, D!TypeOK
<1> QED
  BY <1>1, <1>2, <1>3 DEF D!Next

\* MessageDigest.sol and contract.py, verify_hash_on_chain: an entry keeps its
\* index, hash and recorder in every later state, so an index read in one
\* call is still the hash's index in the next.
THEOREM EntriesStay ==
  D!Spec => D!EntriesAreForEver
<1>1. D!Init => D!IInv
  BY DigestInit
<1>2. D!IInv /\ [D!Next]_D!vars => D!IInv'
  BY DigestNext
<1>3. D!IInv /\ [D!Next]_D!vars =>
        [/\ Len(digests') >= Len(digests)
         /\ \A i \in 1 .. Len(digests) : digests'[i] = digests[i]
         /\ \A h \in Hash : slot[h] # 0 => slot'[h] = slot[h]]_D!vars
  BY StepKeepsEntries
<1> QED
  BY <1>1, <1>2, <1>3, PTL DEF D!Spec, D!EntriesAreForEver

-----------------------------------------------------------------------------
(* MessageReceipt: one receipt, one event.                                 *)

\* No receipts, no events.
LEMMA ReceiptInit ==
  ASSUME P!Init
  PROVE  P!IInv
<1>1. P!TypeOK
  BY DEF P!Init, P!TypeOK, P!Receipt, P!NoReceipt
<1>2. P!ReceiptsAreTheirEvents
  BY DEF P!Init, P!ReceiptsAreTheirEvents
<1> QED
  BY <1>1, <1>2 DEF P!IInv

\* Posting appends the one event of a hash that had none.
LEMMA PostInvariant ==
  ASSUME P!IInv, NEW caller \in Account, NEW h \in Hash, NEW s \in Identity, NEW r \in Identity,
         P!PostReceipt(caller, h, s, r)
  PROVE  P!IInv'
<1>1. PICK t \in now .. MaxTime :
        /\ now' = t
        /\ receipts' = [receipts EXCEPT ![h] = [sender |-> s, recipient |-> r, timestamp |-> t]]
  BY DEF P!PostReceipt
<1> DEFINE new == [sender |-> s, recipient |-> r, timestamp |-> t]
<1> DEFINE e == [hash |-> h, receipt |-> new]
<1>2. /\ receipts \in [Hash -> P!Receipt] /\ posted \in Seq(P!Event)
      /\ now \in 1 .. MaxTime /\ MaxTime \in Nat /\ server \in Account
  BY DEF P!IInv, P!TypeOK
<1>3. t \in 1 .. MaxTime /\ new \in P!Receipt /\ e \in P!Event
  BY <1>1, <1>2 DEF P!Receipt, P!Event
<1>4. receipts' \in [Hash -> P!Receipt] /\ receipts'[h] = new /\ \A g \in Hash : g # h => receipts'[g] = receipts[g]
  BY <1>1, <1>2, <1>3
<1>5. posted' = Append(posted, e) /\ server' = server /\ receipts[h].timestamp = 0
  BY <1>4 DEF P!PostReceipt
<1>6. /\ posted' \in Seq(P!Event)
      /\ Len(posted') = Len(posted) + 1
      /\ \A i \in 1 .. Len(posted) : posted'[i] = posted[i]
      /\ posted'[Len(posted) + 1] = e
  BY <1>2, <1>3, <1>5
<1>7. P!TypeOK'
  BY <1>1, <1>2, <1>3, <1>4, <1>5, <1>6 DEF P!TypeOK
<1>8. ASSUME NEW i \in 1 .. Len(posted)
      PROVE  posted[i].hash \in Hash /\ posted[i].hash # h
  <2>1. posted[i] \in P!Event
    BY <1>2
  <2>2. receipts[posted[i].hash] = posted[i].receipt /\ posted[i].receipt.timestamp # 0
    BY DEF P!IInv, P!ReceiptsAreTheirEvents
  <2> QED
    BY <2>1, <2>2, <1>5 DEF P!Event
<1>9. ASSUME NEW i \in 1 .. Len(posted')
      PROVE  receipts'[posted'[i].hash] = posted'[i].receipt /\ posted'[i].receipt.timestamp # 0
  <2>1. CASE i = Len(posted) + 1
    BY <2>1, <1>3, <1>4, <1>6
  <2>2. CASE i # Len(posted) + 1
    <3>1. i \in 1 .. Len(posted) /\ posted'[i] = posted[i]
      BY <2>2, <1>2, <1>6, <1>9
    <3>2. receipts[posted[i].hash] = posted[i].receipt /\ posted[i].receipt.timestamp # 0
      BY <3>1 DEF P!IInv, P!ReceiptsAreTheirEvents
    <3>3. receipts'[posted[i].hash] = receipts[posted[i].hash]
      BY <3>1, <1>4, <1>8
    <3> QED
      BY <3>1, <3>2, <3>3
  <2> QED
    BY <2>1, <2>2
<1>10. ASSUME NEW i \in 1 .. Len(posted'), NEW j \in 1 .. Len(posted'), posted'[i].hash = posted'[j].hash
       PROVE  i = j
  <2>1. /\ i \in 1 .. Len(posted) \/ i = Len(posted) + 1
        /\ j \in 1 .. Len(posted) \/ j = Len(posted) + 1
    <3>1. Len(posted) \in Nat /\ Len(posted') = Len(posted) + 1
      BY <1>2, <1>6
    <3> QED
      BY <3>1, <1>10
  <2>2. CASE i \in 1 .. Len(posted) /\ j \in 1 .. Len(posted)
    BY <2>2, <1>6, <1>10 DEF P!IInv, P!ReceiptsAreTheirEvents
  <2>3. CASE i \in 1 .. Len(posted) /\ j = Len(posted) + 1
    BY <2>3, <1>6, <1>8, <1>10
  <2>4. CASE i = Len(posted) + 1 /\ j \in 1 .. Len(posted)
    BY <2>4, <1>6, <1>8, <1>10
  <2> QED
    BY <2>1, <2>2, <2>3, <2>4
<1>11. ASSUME NEW g \in Hash, receipts'[g] # P!NoReceipt
       PROVE  receipts'[g].timestamp # 0 /\ \E i \in 1 .. Len(posted') : posted'[i].hash = g
  <2>1. CASE g = h
    <3>1. receipts'[g].timestamp # 0
      BY <2>1, <1>3, <1>4
    <3>2. Len(posted) + 1 \in 1 .. Len(posted') /\ posted'[Len(posted) + 1].hash = g
      BY <2>1, <1>2, <1>6
    <3> QED
      BY <3>1, <3>2
  <2>2. CASE g # h
    <3>1. receipts'[g] = receipts[g] /\ receipts[g] # P!NoReceipt
      BY <2>2, <1>4, <1>11
    <3>2. receipts[g].timestamp # 0 /\ \E i \in 1 .. Len(posted) : posted[i].hash = g
      BY <3>1 DEF P!IInv, P!ReceiptsAreTheirEvents
    <3>3. 1 .. Len(posted) \subseteq 1 .. Len(posted')
      BY <1>2, <1>6
    <3> QED
      BY <3>1, <3>2, <3>3, <1>6
  <2> QED
    BY <2>1, <2>2
<1> QED
  BY <1>7, <1>9, <1>10, <1>11 DEF P!IInv, P!ReceiptsAreTheirEvents

\* Every step preserves the invariant.
LEMMA ReceiptNext ==
  ASSUME P!IInv, [P!Next]_P!vars
  PROVE  P!IInv'
<1>1. ASSUME NEW caller \in Account, NEW h \in Hash, NEW s \in Identity, NEW r \in Identity,
             P!PostReceipt(caller, h, s, r)
      PROVE  P!IInv'
  BY <1>1, PostInvariant
<1>2. ASSUME NEW caller \in Account, NEW new \in Account, P!TransferServer(caller, new)
      PROVE  P!IInv'
  BY <1>2 DEF P!TransferServer, P!IInv, P!TypeOK, P!ReceiptsAreTheirEvents
<1>3. CASE UNCHANGED P!vars
  BY <1>3 DEF P!vars, P!IInv, P!TypeOK, P!ReceiptsAreTheirEvents
<1> QED
  BY <1>1, <1>2, <1>3 DEF P!Next

\* MessageReceipt.sol, postReceipt: in every reachable state a hash has a
\* receipt exactly when one single event posted it, with the same contents.
THEOREM OneReceiptOneEvent ==
  P!Spec => []P!ReceiptsAreTheirEvents
<1>1. P!Init => P!IInv
  BY ReceiptInit
<1>2. P!IInv /\ [P!Next]_P!vars => P!IInv'
  BY ReceiptNext
<1>3. P!IInv => P!ReceiptsAreTheirEvents
  BY DEF P!IInv
<1> QED
  BY <1>1, <1>2, <1>3, PTL DEF P!Spec

\* One step changes no receipt there is.
LEMMA StepKeepsReceipts ==
  ASSUME P!TypeOK, P!Next
  PROVE  \A h \in Hash : receipts[h].timestamp # 0 => receipts'[h] = receipts[h]
<1>1. ASSUME NEW caller \in Account, NEW h \in Hash, NEW s \in Identity, NEW r \in Identity,
             P!PostReceipt(caller, h, s, r)
      PROVE  \A g \in Hash : receipts[g].timestamp # 0 => receipts'[g] = receipts[g]
  <2>1. receipts[h].timestamp = 0
    BY <1>1 DEF P!PostReceipt
  <2>2. \A g \in Hash : g # h => receipts'[g] = receipts[g]
    BY <1>1 DEF P!PostReceipt, P!TypeOK
  <2> QED
    BY <2>1, <2>2
<1>2. ASSUME NEW caller \in Account, NEW new \in Account, P!TransferServer(caller, new)
      PROVE  receipts' = receipts
  BY <1>2 DEF P!TransferServer
<1> QED
  BY <1>1, <1>2 DEF P!Next

\* MessageReceipt.sol:62-63, "re-posting to alter the recorded parties/time is
\* impossible": no step of any behaviour changes a receipt there is.
THEOREM ReceiptsStay ==
  P!Spec => P!ReceiptsAreForEver
<1>1. P!Init => P!IInv
  BY ReceiptInit
<1>2. P!IInv /\ [P!Next]_P!vars => P!IInv'
  BY ReceiptNext
<1>3. P!IInv /\ [P!Next]_P!vars =>
        [\A h \in Hash : receipts[h].timestamp # 0 => receipts'[h] = receipts[h]]_P!vars
  BY StepKeepsReceipts DEF P!IInv
<1> QED
  BY <1>1, <1>2, <1>3, PTL DEF P!Spec, P!ReceiptsAreForEver

-----------------------------------------------------------------------------
(* The contracts side by side.                                             *)

\* Contracts moves one contract and leaves the others alone, by construction, so
\* what is proved of each alone carries over.
\* (blockchain/contracts: no contract calls another)
LEMMA EachOnItsOwn == ContractsSpec => Spec /\ D!Spec /\ P!Spec
<1>1. ContractsInit => Init /\ D!Init /\ P!Init
  BY DEF ContractsInit
<1>2. ASSUME [ContractsNext]_<<called, vars, digestVars, receiptVars>>
      PROVE  [Next]_vars /\ [D!Next]_D!vars /\ [P!Next]_P!vars
  BY <1>2 DEF ContractsNext, digestVars, receiptVars, D!vars, P!vars
<1> QED
  BY <1>1, <1>2, PTL DEF ContractsSpec, Spec, D!Spec, P!Spec

\* MessageDigest's mapping and array stay inverse to each other, whichever
\* contract is called. (MessageDigest.sol, recordHash)
THEOREM SlotsAreExact == ContractsSpec => []SlotsFindEntries
BY EachOnItsOwn, LookupIsExact, PTL DEF SlotsFindEntries

\* An entry keeps its index, hash and recorder, whichever contract is called.
\* (MessageDigest.sol; contract.py, verify_hash_on_chain)
THEOREM EntriesAreKept == ContractsSpec => EntriesAreForEver
BY EachOnItsOwn, EntriesStay, PTL DEF EntriesAreForEver

\* MessageReceipt's mapping and events tell one story, whichever contract is
\* called. (MessageReceipt.sol, postReceipt)
THEOREM ReceiptsMatchEvents == ContractsSpec => []ReceiptsAreTheirEvents
BY EachOnItsOwn, OneReceiptOneEvent, PTL DEF ReceiptsAreTheirEvents

\* KeyRegistry's log explains its records and keeps its history, whichever
\* contract is called. (KeyRegistry.sol)
THEOREM RegistryIsExplained == ContractsSpec => []LogExplainsState /\ HistoryKept
BY EachOnItsOwn, LogIsTheHistory, HistoryIsKept, PTL
=============================================================================
