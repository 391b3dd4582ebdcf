---------------------------- MODULE Clients_proof ----------------------------
(***************************************************************************)
(* Proofs about module Clients, for any devices, clients, agents and keys. *)
(*                                                                         *)
(* VaultInv is the inductive invariant of the peer's keys.  Its heart is    *)
(* FirmInv: the served key lies where no client is about to put or delete a *)
(* record.  GateInv is that of my operations.                              *)
(***************************************************************************)
EXTENDS Clients, TLAPS

-----------------------------------------------------------------------------
(* Sealing and opening.                                                    *)

\* Diffie-Hellman agrees with an ephemeral key on one recipient only.
LEMMA DHRecipient ==
  ASSUME NEW r, NEW j, NEW ek, ek # r, DH(r, ek) = DH(ek, j)
  PROVE  r = j
  BY DEF DH

LEMMA DHSender ==
  ASSUME NEW r, NEW i, NEW s, DH(r, s) = DH(i, r)
  PROVE  s = i
  BY DEF DH

\* Two names are bound alike only if they are the same or the two empty ones.
LEMMA SameAad ==
  ASSUME NEW s, NEW t, NEW r, NEW n, NEW m, NoName # EmptyName
  PROVE  BuildFileAad(s, r, n) = BuildFileAad(t, r, m) <=>
           s = t /\ (n = m \/ {n, m} = {NoName, EmptyName})
<1> DEFINE C(x) == IF x = NoName THEN EmptyName ELSE x
<1>1. BuildFileAad(s, r, n) = BuildFileAad(t, r, m) <=> s = t /\ C(n) = C(m)
  BY DEF BuildFileAad
<1>2. C(n) = C(m) <=> n = m \/ {n, m} = {NoName, EmptyName}
  OBVIOUS
<1> QED BY <1>1, <1>2

\* A sealed text opens exactly for its recipient, its sender and its associated
\* data (decapsulate, hpke.py:452-466), if its ephemeral key pair is neither's.
LEMMA OpensOnlyAsSealed ==
  ASSUME NEW r, NEW s, NEW j, NEW i, NEW ek, NEW text, NEW aad, NEW bound,
         ek # r, text # Failed
  PROVE  Decapsulate(r, s, Encapsulate(j, i, ek, text, bound), aad) # Failed <=>
           r = j /\ s = i /\ aad = bound
<1> DEFINE sealed == Encapsulate(j, i, ek, text, bound)
           key == DeriveKeyAndNonce(DH(r, ek), DH(r, s), ek, Info)
<1>1. sealed.enc = ek /\ sealed.aad = bound /\ sealed.plaintext = text
  BY DEF Encapsulate
<1>2. sealed.key = DeriveKeyAndNonce(DH(ek, j), DH(i, j), ek, Info)
  BY DEF Encapsulate
<1>3. sealed.key = key <=> DH(ek, j) = DH(r, ek) /\ DH(i, j) = DH(r, s)
  BY <1>2 DEF DeriveKeyAndNonce
<1>4. DH(ek, j) = DH(r, ek) /\ DH(i, j) = DH(r, s) <=> r = j /\ s = i
  <2>1. ASSUME DH(ek, j) = DH(r, ek), DH(i, j) = DH(r, s)
        PROVE  r = j /\ s = i
    <3>1. r = j  BY <2>1, DHRecipient
    <3>2. s = i  BY <2>1, <3>1, DHSender
    <3> QED BY <3>1, <3>2
  <2>2. ASSUME r = j, s = i
        PROVE  DH(ek, j) = DH(r, ek) /\ DH(i, j) = DH(r, s)
    BY <2>2 DEF DH
  <2> QED BY <2>1, <2>2
<1> HIDE DEF sealed, key
<1>5. Decapsulate(r, s, sealed, aad) = IF sealed.key = key /\ bound = aad THEN text ELSE Failed
  BY <1>1 DEF Decapsulate, key
<1> QED BY <1>3, <1>4, <1>5 DEF sealed

-----------------------------------------------------------------------------
(* The inductive invariant of the peer's keys.                             *)

VaultTypeOK ==
  /\ vault \in [Device -> [kind : {"none", "wrapped", "legacy", "broken"}, key : Key \cup {NoKey}]]
  /\ jwk \in [Device -> Key \cup {NoKey}]
  /\ account \in BOOLEAN /\ mishap \in BOOLEAN
  /\ served \in Key \cup {NoKey}
  /\ pc \in [Client -> Phase]
  /\ inflight \in [Client -> Key \cup {NoKey}]
  /\ session \in [Client -> Key \cup {NoKey}]
  /\ kept \subseteq Key /\ announced \subseteq Key /\ unwritten \subseteq Key

\* Phases with a key that is stored, and those from which a record is put or
\* deleted.
AfterStore == {"registering", "registered", "refused", "publishing", "published", "uploading"}
Rewriting == {"registering", "refused", "create", "publishing"}
WebPhase == {"registering", "registered", "refused", "unlock", "migrate", "create",
             "publishing", "published"}
MachinePhase == {"deriving", "uploading", "crosscheck", "reupload"}
Busy == Phase \ {"idle", "crosscheck", "reupload"}

StoredInv ==
  /\ served \in kept \cup unwritten \cup {NoKey}
  /\ \A c \in Client : session[c] \in kept \cup unwritten \cup {NoKey}
  /\ \A d \in Device : vault[d] \in {NoRecord, Broken} \/ vault[d].key \in kept
  /\ \A c \in Client : pc[c] \in AfterStore => inflight[c] \in kept \cup unwritten
  /\ \A c \in Client : pc[c] = "deriving" => inflight[c] \in Key

HomeInv ==
  /\ \A c \in Client : /\ pc[c] \in WebPhase => Home[c] \in Browser
                       /\ pc[c] \in MachinePhase => Home[c] \notin Browser
  /\ \A d \in Browser \cap Device : vault[d] # Broken

SoloInv ==
  \A b, c \in Client : b # c /\ Home[b] = Home[c] => pc[b] \notin Busy \/ pc[c] \notin Busy

\* The device holds the key, or the file that its unnoticed failed write left.
Holds(d, k) ==
  \/ vault[d] = Wrapped(k)
  \/ vault[d] = Broken /\ k \in unwritten

InHandInv ==
  \A c \in Client :
    /\ pc[c] \in AfterStore \ {"uploading"} => vault[Home[c]] = Wrapped(inflight[c])
    /\ pc[c] = "uploading" => Holds(Home[c], inflight[c])
    /\ pc[c] \in {"migrate", "deriving"} => vault[Home[c]] = NoRecord

AtRest(d) == \A c \in Client : Home[c] = d => pc[c] \notin Rewriting

FirmAt(d, k) ==
  \/ vault[d] = Wrapped(k) /\ AtRest(d)
  \/ vault[d] = Legacy(k)
  \/ jwk[d] = k

FirmInv ==
  served # NoKey =>
    served \in announced \cup unwritten \/ \E d \in Device : FirmAt(d, served)

SessionInv ==
  \A c \in Client : session[c] # NoKey => Holds(Home[c], session[c]) /\ AtRest(Home[c])

CalmVault == SoloInv /\ InHandInv /\ FirmInv /\ SessionInv

VaultInv == VaultTypeOK /\ StoredInv /\ HomeInv /\ (~mishap => CalmVault)

LEMMA VaultInit_Inv == VaultInit => VaultInv
<1> SUFFICES ASSUME VaultInit PROVE VaultInv
  OBVIOUS
<1> USE DEF VaultInit, NoRecord, Legacy, Held
<1>1. /\ vault \in [Device -> [kind : {"none", "wrapped", "legacy", "broken"}, key : Key \cup {NoKey}]]
      /\ jwk \in [Device -> Key \cup {NoKey}]
  OBVIOUS
<1>2. \A d \in Device : vault[d].key \in Key \cup {NoKey} /\ jwk[d] \in Key \cup {NoKey}
  BY <1>1
<1>3. VaultTypeOK
  BY <1>1, <1>2 DEF VaultTypeOK, Phase
<1>4. StoredInv
  BY <1>1, <1>2, NoKeyAssumption DEF StoredInv, AfterStore
<1>5. HomeInv
  <2>1. \A d \in Device : vault[d].kind # "broken"
    OBVIOUS
  <2> QED BY <2>1 DEF HomeInv, WebPhase, MachinePhase, Broken
<1>6. SoloInv /\ InHandInv /\ SessionInv
  BY DEF SoloInv, InHandInv, Holds, SessionInv, Busy, AfterStore
<1>7. FirmInv
  <2> SUFFICES ASSUME served # NoKey PROVE \E d \in Device : FirmAt(d, served)
    BY DEF FirmInv
  <2>1. PICK d \in Device : vault[d].key = served \/ jwk[d] = served
    OBVIOUS
  <2>2. CASE jwk[d] = served
    BY <2>2 DEF FirmAt
  <2>3. CASE vault[d].key = served
    <3>1. vault[d] \in {NoRecord} \cup {Legacy(k) : k \in Key}
      OBVIOUS
    <3>2. vault[d] = Legacy(served)
      BY <2>3, <3>1
    <3> QED BY <3>2 DEF FirmAt
  <2> QED BY <2>1, <2>2, <2>3
<1> QED BY <1>3, <1>4, <1>5, <1>6, <1>7 DEF VaultInv, CalmVault

LEMMA RegisterSave_Inv ==
  ASSUME VaultInv, NEW c \in Client, NEW k \in Key, RegisterSave(c, k)
  PROVE  VaultInv'
<1> USE HomeAssumption, NoKeyAssumption DEF VaultInv, RegisterSave, Goto, Store,
       Fresh, Overlaps, Wrapped, NoRecord, Broken
<1>1. VaultTypeOK'
  BY DEF VaultTypeOK, StoredInv, Phase
<1>2. StoredInv'
  BY DEF VaultTypeOK, StoredInv, AfterStore
<1>3. HomeInv'
  BY DEF VaultTypeOK, HomeInv, WebPhase, MachinePhase
<1>4. ASSUME ~mishap' PROVE CalmVault'
  <2>1. ~mishap /\ SoloInv /\ InHandInv /\ FirmInv /\ SessionInv
    BY <1>4 DEF CalmVault, VaultTypeOK
  <2>2. SoloInv'
    BY ZenonT(60), <1>4, <2>1 DEF VaultTypeOK, SoloInv, Busy, Phase
  <2>3. InHandInv'
    BY <1>4, <2>1 DEF VaultTypeOK, SoloInv, InHandInv, Holds, AfterStore, Busy, Phase
  <2>0. vault[Home[c]] = NoRecord
    BY <1>4
  <2>4. ASSUME NEW d \in Device, NEW q \in Key, FirmAt(d, q)
        PROVE  FirmAt(d, q)' \/ q \in announced'
    <3>1. CASE d = Home[c]
      BY <2>0, <2>4, <3>1 DEF VaultTypeOK, FirmAt, Legacy
    <3>2. CASE d # Home[c]
      BY <2>1, <2>4, <3>2 DEF VaultTypeOK, FirmAt, AtRest
    <3> QED BY <3>1, <3>2
  <2>5. SessionInv'
    <3>1. ASSUME NEW b \in Client, session[b] # NoKey
          PROVE  Home[b] # Home[c]
      <4>1. Holds(Home[b], session[b])
        BY <2>1, <3>1 DEF SessionInv
      <4> QED BY <2>0, <4>1 DEF Holds
    <3> QED BY <1>4, <2>1, <3>1 DEF VaultTypeOK, StoredInv, SessionInv, Holds, AtRest, Rewriting, Phase
  <2>6. FirmInv'
    BY <2>1, <2>4 DEF FirmInv, VaultTypeOK
  <2> QED BY <2>2, <2>3, <2>5, <2>6 DEF CalmVault
<1> QED BY <1>1, <1>2, <1>3, <1>4

LEMMA RegisterAtServer_Inv ==
  ASSUME VaultInv, NEW c \in Client, RegisterAtServer(c)
  PROVE  VaultInv'
<1> USE HomeAssumption, NoKeyAssumption DEF VaultInv, RegisterAtServer, Goto,
       Wrapped, NoRecord, Broken
<1>1. VaultTypeOK'
  BY DEF VaultTypeOK, StoredInv, Phase
<1>2. StoredInv'
  BY DEF VaultTypeOK, StoredInv, AfterStore
<1>3. HomeInv'
  BY DEF VaultTypeOK, HomeInv, WebPhase, MachinePhase
<1>4. ASSUME ~mishap' PROVE CalmVault'
  <2>1. ~mishap /\ SoloInv /\ InHandInv /\ FirmInv /\ SessionInv
    BY <1>4 DEF CalmVault, VaultTypeOK
  <2>2. SoloInv'
    BY <1>4, <2>1 DEF VaultTypeOK, SoloInv, Busy, Phase
  <2>3. InHandInv'
    BY <1>4, <2>1 DEF VaultTypeOK, SoloInv, InHandInv, Holds, AfterStore, Busy, Phase
  <2>4. ASSUME NEW d \in Device, NEW q \in Key, FirmAt(d, q)
        PROVE  FirmAt(d, q)' \/ q \in announced'
    BY <1>4, <2>1, <2>4 DEF VaultTypeOK, HomeInv, SoloInv, InHandInv, FirmAt, AtRest,
       AfterStore, WebPhase, MachinePhase, Rewriting, Busy, Phase, Legacy
  <2>5. SessionInv'
    BY <1>4, <2>1 DEF VaultTypeOK, StoredInv, HomeInv, SoloInv, InHandInv, Holds, SessionInv, AtRest,
       AfterStore, WebPhase, MachinePhase, Rewriting, Busy, Phase
  <2>6. FirmInv'
    <3>1. CASE served' = served
      BY <2>1, <2>4, <3>1 DEF FirmInv, VaultTypeOK
    <3>2. CASE served' # served
      <4>1. served' = inflight[c] /\ vault'[Home[c]] = Wrapped(inflight[c])
        BY <2>1, <3>2 DEF VaultTypeOK, InHandInv, Holds, AfterStore
      <4>2. AtRest(Home[c])'
        BY <2>1, <3>2 DEF VaultTypeOK, HomeInv, SoloInv, AtRest, WebPhase, MachinePhase, Rewriting, Busy, Phase
      <4> QED BY <4>1, <4>2, HomeAssumption DEF FirmInv, FirmAt
    <3> QED BY <3>1, <3>2
  <2> QED BY <2>2, <2>3, <2>5, <2>6 DEF CalmVault
<1> QED BY <1>1, <1>2, <1>3, <1>4

LEMMA RegisterAnswer_Registered ==
  ASSUME VaultInv, NEW c \in Client, Goto(c, "registered", "idle"), Forget(c),
         UNCHANGED <<vault, jwk, account, served, session, kept, announced, unwritten, mishap>>
  PROVE  VaultInv'
<1> USE HomeAssumption, NoKeyAssumption DEF VaultInv, Goto, Forget, Wrapped,
       NoRecord, Broken
<1>1. VaultTypeOK'
  BY DEF VaultTypeOK, StoredInv, Phase
<1>2. StoredInv'
  BY DEF VaultTypeOK, StoredInv, AfterStore
<1>3. HomeInv'
  BY DEF VaultTypeOK, HomeInv, WebPhase, MachinePhase
<1>4. ASSUME ~mishap' PROVE CalmVault'
  <2>1. ~mishap /\ SoloInv /\ InHandInv /\ FirmInv /\ SessionInv
    BY <1>4 DEF CalmVault, VaultTypeOK
  <2>2. SoloInv'
    BY <1>4, <2>1 DEF VaultTypeOK, SoloInv, Busy, Phase
  <2>3. InHandInv'
    BY <1>4, <2>1 DEF VaultTypeOK, SoloInv, InHandInv, Holds, AfterStore, Busy, Phase
  <2>4. ASSUME NEW d \in Device, NEW q \in Key, FirmAt(d, q)
        PROVE  FirmAt(d, q)' \/ q \in announced'
    BY <1>4, <2>1, <2>4 DEF VaultTypeOK, HomeInv, SoloInv, InHandInv, FirmAt, AtRest,
       AfterStore, WebPhase, MachinePhase, Rewriting, Busy, Phase, Legacy
  <2>5. SessionInv'
    BY <1>4, <2>1 DEF VaultTypeOK, StoredInv, HomeInv, SoloInv, InHandInv, Holds, SessionInv, AtRest,
       AfterStore, WebPhase, MachinePhase, Rewriting, Busy, Phase
  <2>6. FirmInv'
    BY <2>1, <2>4 DEF FirmInv, VaultTypeOK
  <2> QED BY <2>2, <2>3, <2>5, <2>6 DEF CalmVault
<1> QED BY <1>1, <1>2, <1>3, <1>4

LEMMA RegisterAnswer_Refused ==
  ASSUME VaultInv, NEW c \in Client, Goto(c, "refused", "idle"),
         vault' = [vault EXCEPT ![Home[c]] = NoRecord], Forget(c),
         UNCHANGED <<jwk, account, served, session, kept, announced, unwritten, mishap>>
  PROVE  VaultInv'
<1> USE HomeAssumption, NoKeyAssumption DEF VaultInv, Goto, Forget, Wrapped,
       NoRecord, Broken
<1>1. VaultTypeOK'
  BY DEF VaultTypeOK, StoredInv, Phase
<1>2. StoredInv'
  BY DEF VaultTypeOK, StoredInv, AfterStore
<1>3. HomeInv'
  BY DEF VaultTypeOK, HomeInv, WebPhase, MachinePhase
<1>4. ASSUME ~mishap' PROVE CalmVault'
  <2>1. ~mishap /\ SoloInv /\ InHandInv /\ FirmInv /\ SessionInv
    BY <1>4 DEF CalmVault, VaultTypeOK
  <2>2. SoloInv'
    BY <1>4, <2>1 DEF VaultTypeOK, SoloInv, Busy, Phase
  <2>3. InHandInv'
    <3>1. pc'[c] = "idle"
      BY DEF VaultTypeOK
    <3>2. \A b \in Client \ {c} : Home[b] = Home[c] => pc'[b] \notin Busy
      BY <2>1 DEF VaultTypeOK, SoloInv, Busy, Phase
    <3>3. \A b \in Client \ {c} : pc'[b] = pc[b] /\ pc'[b] \in Phase /\ inflight'[b] = inflight[b]
      BY DEF VaultTypeOK
    <3>4. \A b \in Client : Home[b] # Home[c] => vault'[Home[b]] = vault[Home[b]]
      BY DEF VaultTypeOK
    <3>5. unwritten' = unwritten
      OBVIOUS
    <3> HIDE DEF VaultInv
    <3> QED BY <2>1, <3>1, <3>2, <3>3, <3>4, <3>5 DEF InHandInv, Holds, AfterStore, Busy, Phase
  <2>0. ~AtRest(Home[c]) /\ vault[Home[c]].kind = "wrapped"
    <3>1. pc[c] = "refused"
      OBVIOUS
    <3>2. ~AtRest(Home[c])
      BY <3>1 DEF AtRest, Rewriting
    <3>3. vault[Home[c]] = Wrapped(inflight[c])
      BY <2>1, <3>1 DEF InHandInv, AfterStore
    <3> QED BY <3>2, <3>3
  <2>4. ASSUME NEW d \in Device, NEW q \in Key, FirmAt(d, q)
        PROVE  FirmAt(d, q)' \/ q \in announced'
    <3>1. CASE d = Home[c]
      BY <2>0, <2>4, <3>1 DEF VaultTypeOK, FirmAt, Legacy
    <3>2. CASE d # Home[c]
      BY <2>1, <2>4, <3>2 DEF VaultTypeOK, FirmAt, AtRest
    <3> QED BY <3>1, <3>2
  <2>5. SessionInv'
    BY <1>4, <2>1 DEF VaultTypeOK, StoredInv, HomeInv, SoloInv, InHandInv, Holds, SessionInv, AtRest,
       AfterStore, WebPhase, MachinePhase, Rewriting, Busy, Phase
  <2>6. FirmInv'
    BY <2>1, <2>4 DEF FirmInv, VaultTypeOK
  <2> QED BY <2>2, <2>3, <2>5, <2>6 DEF CalmVault
<1> QED BY <1>1, <1>2, <1>3, <1>4

LEMMA RegisterAnswer_Inv ==
  ASSUME VaultInv, NEW c \in Client, RegisterAnswer(c)
  PROVE  VaultInv'
BY RegisterAnswer_Registered, RegisterAnswer_Refused DEF RegisterAnswer

LEMMA LoseAnswer_Inv ==
  ASSUME VaultInv, NEW c \in Client, LoseAnswer(c)
  PROVE  VaultInv'
<1> USE HomeAssumption, NoKeyAssumption DEF VaultInv, LoseAnswer, Goto, Forget,
       Wrapped, NoRecord, Broken
<1>1. VaultTypeOK'
  BY DEF VaultTypeOK, StoredInv, Phase
<1>2. StoredInv'
  BY DEF VaultTypeOK, StoredInv, AfterStore
<1>3. HomeInv'
  BY DEF VaultTypeOK, HomeInv, WebPhase, MachinePhase
<1> QED BY <1>1, <1>2, <1>3

LEMMA OpenVault_Inv ==
  ASSUME VaultInv, NEW c \in Client, OpenVault(c)
  PROVE  VaultInv'
<1> USE HomeAssumption, NoKeyAssumption DEF VaultInv, OpenVault, Goto, Overlaps,
       Wrapped, NoRecord, Broken
<1>1. VaultTypeOK'
  BY DEF VaultTypeOK, StoredInv, Phase
<1>2. StoredInv'
  BY DEF VaultTypeOK, StoredInv, AfterStore
<1>3. HomeInv'
  BY DEF VaultTypeOK, HomeInv, WebPhase, MachinePhase
<1>4. ASSUME ~mishap' PROVE CalmVault'
  <2>1. ~mishap /\ SoloInv /\ InHandInv /\ FirmInv /\ SessionInv
    BY <1>4 DEF CalmVault, VaultTypeOK
  <2>2. SoloInv'
    <3>1. \A b \in Client \ {c} : Home[b] = Home[c] => pc[b] = "idle"
      BY <1>4
    <3>2. \A b \in Client \ {c} : pc'[b] = pc[b]
      BY DEF VaultTypeOK
    <3> HIDE DEF OpenVault
    <3> QED BY <2>1, <3>1, <3>2 DEF SoloInv, Busy
  <2>3. InHandInv'
    BY <1>4, <2>1 DEF VaultTypeOK, SoloInv, InHandInv, Holds, AfterStore, Busy, Phase
  <2>4. ASSUME NEW d \in Device, NEW q \in Key, FirmAt(d, q)
        PROVE  FirmAt(d, q)' \/ q \in announced'
    BY <1>4, <2>1, <2>4 DEF VaultTypeOK, HomeInv, SoloInv, InHandInv, FirmAt, AtRest,
       AfterStore, WebPhase, MachinePhase, Rewriting, Busy, Phase, Legacy
  <2>5. SessionInv'
    <3>1. \A b \in Client : Home[b] = Home[c] /\ session[b] # NoKey => vault[Home[c]].kind = "wrapped"
      <4> SUFFICES ASSUME NEW b \in Client, Home[b] = Home[c], session[b] # NoKey
                   PROVE  vault[Home[c]].kind = "wrapped"
        OBVIOUS
      <4>1. Holds(Home[b], session[b])
        BY <2>1 DEF SessionInv
      <4>2. vault[Home[b]] # Broken
        BY DEF HomeInv
      <4> QED BY <4>1, <4>2 DEF Holds
    <3>2. vault[Home[c]].kind = "wrapped" => pc'[c] \notin Rewriting
      BY DEF VaultTypeOK, Rewriting
    <3>3. \A b \in Client : b # c => pc'[b] = pc[b]
      BY DEF VaultTypeOK
    <3>4. UNCHANGED <<vault, session, unwritten>>
      OBVIOUS
    <3> HIDE DEF OpenVault, VaultInv
    <3> QED BY <2>1, <3>1, <3>2, <3>3, <3>4 DEF SessionInv, Holds, AtRest
  <2>6. FirmInv'
    BY <2>1, <2>4 DEF FirmInv, VaultTypeOK
  <2> QED BY <2>2, <2>3, <2>5, <2>6 DEF CalmVault
<1> QED BY <1>1, <1>2, <1>3, <1>4

LEMMA Skip_Inv ==
  ASSUME VaultInv, NEW c \in Client, Skip(c)
  PROVE  VaultInv'
<1> USE HomeAssumption, NoKeyAssumption DEF VaultInv, Skip, Goto, Wrapped, NoRecord, Broken
<1>1. VaultTypeOK'
  BY DEF VaultTypeOK, StoredInv, Phase
<1>2. StoredInv'
  BY DEF VaultTypeOK, StoredInv, AfterStore
<1>3. HomeInv'
  BY DEF VaultTypeOK, HomeInv, WebPhase, MachinePhase
<1>4. ASSUME ~mishap' PROVE CalmVault'
  <2>1. ~mishap /\ SoloInv /\ InHandInv /\ FirmInv /\ SessionInv
    BY <1>4 DEF CalmVault, VaultTypeOK
  <2>2. SoloInv'
    BY <1>4, <2>1 DEF VaultTypeOK, SoloInv, Busy, Phase
  <2>3. InHandInv'
    BY <1>4, <2>1 DEF VaultTypeOK, SoloInv, InHandInv, Holds, AfterStore, Busy, Phase
  <2>4. ASSUME NEW d \in Device, NEW q \in Key, FirmAt(d, q)
        PROVE  FirmAt(d, q)' \/ q \in announced'
    BY <1>4, <2>1, <2>4 DEF VaultTypeOK, HomeInv, SoloInv, InHandInv, FirmAt, AtRest,
       AfterStore, WebPhase, MachinePhase, Rewriting, Busy, Phase, Legacy
  <2>5. SessionInv'
    BY <1>4, <2>1 DEF VaultTypeOK, StoredInv, HomeInv, SoloInv, InHandInv, Holds, SessionInv, AtRest,
       AfterStore, WebPhase, MachinePhase, Rewriting, Busy, Phase
  <2>6. FirmInv'
    BY <2>1, <2>4 DEF FirmInv, VaultTypeOK
  <2> QED BY <2>2, <2>3, <2>5, <2>6 DEF CalmVault
<1> QED BY <1>1, <1>2, <1>3, <1>4

LEMMA Unlock_Inv ==
  ASSUME VaultInv, NEW c \in Client, Unlock(c)
  PROVE  VaultInv'
<1> USE HomeAssumption, NoKeyAssumption DEF VaultInv, Unlock, Goto, Take, Wrapped,
       NoRecord, Broken
<1>0. vault[Home[c]].key \in kept
  BY DEF StoredInv
<1>1. VaultTypeOK'
  BY <1>0 DEF VaultTypeOK, StoredInv, Phase
<1>2. StoredInv'
  BY <1>0 DEF VaultTypeOK, StoredInv, AfterStore
<1>3. HomeInv'
  BY DEF VaultTypeOK, HomeInv, WebPhase, MachinePhase
<1>4. ASSUME ~mishap' PROVE CalmVault'
  <2>1. ~mishap /\ SoloInv /\ InHandInv /\ FirmInv /\ SessionInv
    BY <1>4 DEF CalmVault, VaultTypeOK
  <2>2. SoloInv'
    BY <1>4, <2>1 DEF VaultTypeOK, SoloInv, Busy, Phase
  <2>3. InHandInv'
    BY <1>4, <2>1 DEF VaultTypeOK, SoloInv, InHandInv, Holds, AfterStore, Busy, Phase
  <2>4. ASSUME NEW d \in Device, NEW q \in Key, FirmAt(d, q)
        PROVE  FirmAt(d, q)' \/ q \in announced'
    BY <1>4, <2>1, <2>4 DEF VaultTypeOK, HomeInv, SoloInv, InHandInv, FirmAt, AtRest,
       AfterStore, WebPhase, MachinePhase, Rewriting, Busy, Phase, Legacy
  <2>5. SessionInv'
    <3>1. AtRest(Home[c])'
      BY <2>1 DEF VaultTypeOK, SoloInv, AtRest, Rewriting, Busy, Phase
    <3>2. \A b \in Client : AtRest(Home[b]) => AtRest(Home[b])'
      BY DEF VaultTypeOK, AtRest, Rewriting
    <3>3. Holds(Home[c], session[c])'
      <4>1. vault[Home[c]] = Wrapped(vault[Home[c]].key)
        BY DEF VaultTypeOK
      <4>2. session'[c] = vault[Home[c]].key /\ vault' = vault
        BY DEF VaultTypeOK
      <4> QED BY <4>1, <4>2 DEF Holds
    <3>4. \A b \in Client \ {c} : session'[b] = session[b] /\ vault'[Home[b]] = vault[Home[b]]
      BY DEF VaultTypeOK
    <3>5. unwritten' = unwritten
      OBVIOUS
    <3> QED BY <2>1, <3>1, <3>2, <3>3, <3>4, <3>5 DEF SessionInv, Holds
  <2>6. FirmInv'
    BY <2>1, <2>4 DEF FirmInv, VaultTypeOK
  <2> QED BY <2>2, <2>3, <2>5, <2>6 DEF CalmVault
<1> QED BY <1>1, <1>2, <1>3, <1>4

LEMMA Migrate_Stores ==
  ASSUME VaultInv, NEW c \in Client, jwk[Home[c]] # NoKey,
         Goto(c, "migrate", "idle"), jwk' = [jwk EXCEPT ![Home[c]] = NoKey],
         Store(Home[c], jwk[Home[c]]), Take(c, jwk[Home[c]]),
         UNCHANGED <<account, served, inflight, announced, unwritten, mishap>>
  PROVE  VaultInv'
<1> USE HomeAssumption, NoKeyAssumption DEF VaultInv, Goto, Store, Take, Wrapped,
       NoRecord, Broken
<1>1. VaultTypeOK'
  BY DEF VaultTypeOK, StoredInv, Phase
<1>2. StoredInv'
  BY DEF VaultTypeOK, StoredInv, AfterStore
<1>3. HomeInv'
  BY DEF VaultTypeOK, HomeInv, WebPhase, MachinePhase
<1>4. ASSUME ~mishap' PROVE CalmVault'
  <2>1. ~mishap /\ SoloInv /\ InHandInv /\ FirmInv /\ SessionInv
    BY <1>4 DEF CalmVault, VaultTypeOK
  <2>2. SoloInv'
    BY <1>4, <2>1 DEF VaultTypeOK, SoloInv, Busy, Phase
  <2>3. InHandInv'
    BY SMTT(60), <1>4, <2>1 DEF VaultTypeOK, SoloInv, InHandInv, Holds, AfterStore, Busy, Phase
  <2>0. vault[Home[c]] = NoRecord
    BY <2>1 DEF InHandInv
  <2>8. AtRest(Home[c])'
    BY <2>1 DEF VaultTypeOK, SoloInv, AtRest, Rewriting, Busy, Phase
  <2>4. ASSUME NEW d \in Device, NEW q \in Key, FirmAt(d, q)
        PROVE  FirmAt(d, q)' \/ q \in announced'
    <3>1. CASE d = Home[c]
      BY <2>0, <2>4, <3>1, <2>8 DEF VaultTypeOK, FirmAt, Legacy
    <3>2. CASE d # Home[c]
      BY <2>1, <2>4, <3>2 DEF VaultTypeOK, FirmAt, AtRest
    <3> QED BY <3>1, <3>2
  <2>5. SessionInv'
    <3>1. ASSUME NEW b \in Client, session[b] # NoKey
          PROVE  Home[b] # Home[c]
      <4>1. Holds(Home[b], session[b])
        BY <2>1, <3>1 DEF SessionInv
      <4> QED BY <2>0, <4>1 DEF Holds
    <3>2. \A b \in Client : AtRest(Home[b]) => AtRest(Home[b])'
      BY <2>8 DEF VaultTypeOK, AtRest, Rewriting
    <3>3. Holds(Home[c], session[c])'
      <4>1. session'[c] = jwk[Home[c]] /\ vault'[Home[c]] = Wrapped(jwk[Home[c]])
        BY DEF VaultTypeOK
      <4> QED BY <4>1 DEF Holds
    <3>4. \A b \in Client \ {c} : session'[b] = session[b]
      BY DEF VaultTypeOK
    <3>5. \A b \in Client : Home[b] # Home[c] => vault'[Home[b]] = vault[Home[b]]
      BY DEF VaultTypeOK
    <3> QED BY <2>1, <2>8, <3>1, <3>2, <3>3, <3>4, <3>5 DEF SessionInv, Holds
  <2>6. FirmInv'
    BY <2>1, <2>4 DEF FirmInv, VaultTypeOK
  <2> QED BY <2>2, <2>3, <2>5, <2>6 DEF CalmVault
<1> QED BY <1>1, <1>2, <1>3, <1>4

LEMMA Migrate_Cut ==
  ASSUME VaultInv, NEW c \in Client, jwk[Home[c]] # NoKey,
         Goto(c, "migrate", "idle"), Store(Home[c], jwk[Home[c]]),
         UNCHANGED <<jwk, session, announced, account, served, inflight, unwritten, mishap>>
  PROVE  VaultInv'
<1> USE HomeAssumption, NoKeyAssumption DEF VaultInv, Goto, Store, Take, Wrapped,
       NoRecord, Broken
<1>1. VaultTypeOK'
  BY DEF VaultTypeOK, StoredInv, Phase
<1>2. StoredInv'
  BY DEF VaultTypeOK, StoredInv, AfterStore
<1>3. HomeInv'
  BY DEF VaultTypeOK, HomeInv, WebPhase, MachinePhase
<1>4. ASSUME ~mishap' PROVE CalmVault'
  <2>1. ~mishap /\ SoloInv /\ InHandInv /\ FirmInv /\ SessionInv
    BY <1>4 DEF CalmVault, VaultTypeOK
  <2>2. SoloInv'
    BY <1>4, <2>1 DEF VaultTypeOK, SoloInv, Busy, Phase
  <2>3. InHandInv'
    BY SMTT(60), <1>4, <2>1 DEF VaultTypeOK, SoloInv, InHandInv, Holds, AfterStore, Busy, Phase
  <2>0. vault[Home[c]] = NoRecord
    BY <2>1 DEF InHandInv
  <2>8. AtRest(Home[c])'
    BY <2>1 DEF VaultTypeOK, SoloInv, AtRest, Rewriting, Busy, Phase
  <2>4. ASSUME NEW d \in Device, NEW q \in Key, FirmAt(d, q)
        PROVE  FirmAt(d, q)' \/ q \in announced'
    <3>1. CASE d = Home[c]
      BY <2>0, <2>4, <3>1, <2>8 DEF VaultTypeOK, FirmAt, Legacy
    <3>2. CASE d # Home[c]
      BY <2>1, <2>4, <3>2 DEF VaultTypeOK, FirmAt, AtRest
    <3> QED BY <3>1, <3>2
  <2>5. SessionInv'
    <3>1. ASSUME NEW b \in Client, session[b] # NoKey
          PROVE  Home[b] # Home[c]
      <4>1. Holds(Home[b], session[b])
        BY <2>1, <3>1 DEF SessionInv
      <4> QED BY <2>0, <4>1 DEF Holds
    <3> QED BY <1>4, <2>1, <3>1, <2>8 DEF VaultTypeOK, StoredInv, SessionInv, Holds, AtRest, Rewriting, Phase
  <2>6. FirmInv'
    BY <2>1, <2>4 DEF FirmInv, VaultTypeOK
  <2> QED BY <2>2, <2>3, <2>5, <2>6 DEF CalmVault
<1> QED BY <1>1, <1>2, <1>3, <1>4

LEMMA Migrate_Fails ==
  ASSUME VaultInv, NEW c \in Client, jwk[Home[c]] # NoKey,
         Goto(c, "migrate", "migrate"), jwk' = [jwk EXCEPT ![Home[c]] = NoKey],
         announced' = announced \cup {jwk[Home[c]]},
         UNCHANGED <<vault, kept, session, account, served, inflight, unwritten, mishap>>
  PROVE  VaultInv'
<1> USE HomeAssumption, NoKeyAssumption DEF VaultInv, Goto, Store, Take, Wrapped,
       NoRecord, Broken
<1>1. VaultTypeOK'
  BY DEF VaultTypeOK, StoredInv, Phase
<1>2. StoredInv'
  BY DEF VaultTypeOK, StoredInv, AfterStore
<1>3. HomeInv'
  BY DEF VaultTypeOK, HomeInv, WebPhase, MachinePhase
<1>4. ASSUME ~mishap' PROVE CalmVault'
  <2>1. ~mishap /\ SoloInv /\ InHandInv /\ FirmInv /\ SessionInv
    BY <1>4 DEF CalmVault, VaultTypeOK
  <2>2. SoloInv'
    BY <1>4, <2>1 DEF VaultTypeOK, SoloInv, Busy, Phase
  <2>3. InHandInv'
    BY <1>4, <2>1 DEF VaultTypeOK, SoloInv, InHandInv, Holds, AfterStore, Busy, Phase
  <2>4. ASSUME NEW d \in Device, NEW q \in Key, FirmAt(d, q)
        PROVE  FirmAt(d, q)' \/ q \in announced'
    BY <1>4, <2>1, <2>4 DEF VaultTypeOK, HomeInv, SoloInv, InHandInv, FirmAt, AtRest,
       AfterStore, WebPhase, MachinePhase, Rewriting, Busy, Phase, Legacy
  <2>5. SessionInv'
    BY <1>4, <2>1 DEF VaultTypeOK, StoredInv, HomeInv, SoloInv, InHandInv, Holds, SessionInv, AtRest,
       AfterStore, WebPhase, MachinePhase, Rewriting, Busy, Phase
  <2>6. FirmInv'
    BY <2>1, <2>4 DEF FirmInv, VaultTypeOK
  <2> QED BY <2>2, <2>3, <2>5, <2>6 DEF CalmVault
<1> QED BY <1>1, <1>2, <1>3, <1>4

LEMMA Migrate_Inv ==
  ASSUME VaultInv, NEW c \in Client, Migrate(c)
  PROVE  VaultInv'
BY Migrate_Stores, Migrate_Fails, Migrate_Cut DEF Migrate

LEMMA CreateSave_Inv ==
  ASSUME VaultInv, NEW c \in Client, NEW k \in Key, CreateSave(c, k)
  PROVE  VaultInv'
<1> USE HomeAssumption, NoKeyAssumption DEF VaultInv, CreateSave, Goto, Store,
       Fresh, Wrapped, NoRecord, Broken
<1>0. vault[Home[c]].kind = "legacy" => vault[Home[c]].key \in kept
  BY DEF StoredInv
<1>1. VaultTypeOK'
  BY <1>0 DEF VaultTypeOK, StoredInv, Phase
<1>2. StoredInv'
  BY <1>0 DEF VaultTypeOK, StoredInv, AfterStore
<1>3. HomeInv'
  BY DEF VaultTypeOK, HomeInv, WebPhase, MachinePhase
<1>4. ASSUME ~mishap' PROVE CalmVault'
  <2>1. ~mishap /\ SoloInv /\ InHandInv /\ FirmInv /\ SessionInv
    BY <1>4 DEF CalmVault, VaultTypeOK
  <2>2. SoloInv'
    BY <1>4, <2>1 DEF VaultTypeOK, SoloInv, Busy, Phase
  <2>3. InHandInv'
    BY ZenonT(60), <1>4, <2>1 DEF VaultTypeOK, SoloInv, InHandInv, Holds, AfterStore, Busy, Phase
  <2>4. ASSUME NEW d \in Device, NEW q \in Key, FirmAt(d, q)
        PROVE  FirmAt(d, q)' \/ q \in announced'
    BY <1>4, <2>1, <2>4 DEF VaultTypeOK, HomeInv, SoloInv, InHandInv, FirmAt, AtRest,
       AfterStore, WebPhase, MachinePhase, Rewriting, Busy, Phase, Legacy
  <2>5. SessionInv'
    BY <1>4, <2>1 DEF VaultTypeOK, StoredInv, HomeInv, SoloInv, InHandInv, Holds, SessionInv, AtRest,
       AfterStore, WebPhase, MachinePhase, Rewriting, Busy, Phase
  <2>6. FirmInv'
    BY <2>1, <2>4 DEF FirmInv, VaultTypeOK
  <2> QED BY <2>2, <2>3, <2>5, <2>6 DEF CalmVault
<1> QED BY <1>1, <1>2, <1>3, <1>4

LEMMA Publish_Inv ==
  ASSUME VaultInv, NEW c \in Client, Publish(c)
  PROVE  VaultInv'
<1> USE HomeAssumption, NoKeyAssumption DEF VaultInv, Publish, Goto, Forget,
       Wrapped, NoRecord, Broken
<1>1. VaultTypeOK'
  BY DEF VaultTypeOK, StoredInv, Phase
<1>2. StoredInv'
  BY ZenonT(60) DEF VaultTypeOK, StoredInv, AfterStore
<1>3. HomeInv'
  BY DEF VaultTypeOK, HomeInv, WebPhase, MachinePhase
<1>4. ASSUME ~mishap' PROVE CalmVault'
  <2>1. ~mishap /\ SoloInv /\ InHandInv /\ FirmInv /\ SessionInv
    BY <1>4 DEF CalmVault, VaultTypeOK
  <2>2. SoloInv'
    BY <1>4, <2>1 DEF VaultTypeOK, SoloInv, Busy, Phase
  <2>3. InHandInv'
    BY <1>4, <2>1 DEF VaultTypeOK, SoloInv, InHandInv, Holds, AfterStore, Busy, Phase
  <2>4. ASSUME NEW d \in Device, NEW q \in Key, FirmAt(d, q)
        PROVE  FirmAt(d, q)' \/ q \in announced'
    BY <1>4, <2>1, <2>4 DEF VaultTypeOK, HomeInv, SoloInv, InHandInv, FirmAt, AtRest,
       AfterStore, WebPhase, MachinePhase, Rewriting, Busy, Phase, Legacy
  <2>5. SessionInv'
    BY <1>4, <2>1 DEF VaultTypeOK, StoredInv, HomeInv, SoloInv, InHandInv, Holds, SessionInv, AtRest,
       AfterStore, WebPhase, MachinePhase, Rewriting, Busy, Phase
  <2>6. FirmInv'
    <3>1. CASE served' = served
      BY <2>1, <2>4, <3>1 DEF FirmInv, VaultTypeOK
    <3>2. CASE served' # served
      <4>1. served' = inflight[c] /\ vault'[Home[c]] = Wrapped(inflight[c])
        BY <2>1, <3>2 DEF VaultTypeOK, InHandInv, Holds, AfterStore
      <4>2. AtRest(Home[c])'
        BY <2>1, <3>2 DEF VaultTypeOK, HomeInv, SoloInv, AtRest, WebPhase, MachinePhase, Rewriting, Busy, Phase
      <4> QED BY <4>1, <4>2, HomeAssumption DEF FirmInv, FirmAt
    <3> QED BY <3>1, <3>2
  <2> QED BY <2>2, <2>3, <2>5, <2>6 DEF CalmVault
<1> QED BY <1>1, <1>2, <1>3, <1>4

LEMMA CreateAnswer_Reads ==
  ASSUME VaultInv, NEW c \in Client, vault[Home[c]].kind = "wrapped",
         Goto(c, "published", "idle"), Take(c, vault[Home[c]].key), Forget(c),
         UNCHANGED <<vault, jwk, account, served, kept, announced, unwritten, mishap>>
  PROVE  VaultInv'
<1> USE HomeAssumption, NoKeyAssumption DEF VaultInv, Goto, Take, Forget, Wrapped,
       NoRecord, Broken
<1>0. vault[Home[c]].key \in kept
  BY DEF StoredInv
<1>1. VaultTypeOK'
  BY <1>0 DEF VaultTypeOK, StoredInv, Phase
<1>2. StoredInv'
  BY <1>0 DEF VaultTypeOK, StoredInv, AfterStore
<1>3. HomeInv'
  BY DEF VaultTypeOK, HomeInv, WebPhase, MachinePhase
<1>4. ASSUME ~mishap' PROVE CalmVault'
  <2>1. ~mishap /\ SoloInv /\ InHandInv /\ FirmInv /\ SessionInv
    BY <1>4 DEF CalmVault, VaultTypeOK
  <2>2. SoloInv'
    BY <1>4, <2>1 DEF VaultTypeOK, SoloInv, Busy, Phase
  <2>3. InHandInv'
    BY <1>4, <2>1 DEF VaultTypeOK, SoloInv, InHandInv, Holds, AfterStore, Busy, Phase
  <2>4. ASSUME NEW d \in Device, NEW q \in Key, FirmAt(d, q)
        PROVE  FirmAt(d, q)' \/ q \in announced'
    BY <1>4, <2>1, <2>4 DEF VaultTypeOK, HomeInv, SoloInv, InHandInv, FirmAt, AtRest,
       AfterStore, WebPhase, MachinePhase, Rewriting, Busy, Phase, Legacy
  <2>5. SessionInv'
    <3>1. AtRest(Home[c])'
      BY <2>1 DEF VaultTypeOK, SoloInv, AtRest, Rewriting, Busy, Phase
    <3>2. \A b \in Client : AtRest(Home[b]) => AtRest(Home[b])'
      BY DEF VaultTypeOK, AtRest, Rewriting
    <3>3. Holds(Home[c], session[c])'
      <4>1. vault[Home[c]] = Wrapped(vault[Home[c]].key)
        BY DEF VaultTypeOK
      <4>2. session'[c] = vault[Home[c]].key /\ vault' = vault
        BY DEF VaultTypeOK
      <4> QED BY <4>1, <4>2 DEF Holds
    <3>4. \A b \in Client \ {c} : session'[b] = session[b] /\ vault'[Home[b]] = vault[Home[b]]
      BY DEF VaultTypeOK
    <3>5. unwritten' = unwritten
      OBVIOUS
    <3> QED BY <2>1, <3>1, <3>2, <3>3, <3>4, <3>5 DEF SessionInv, Holds
  <2>6. FirmInv'
    BY <2>1, <2>4 DEF FirmInv, VaultTypeOK
  <2> QED BY <2>2, <2>3, <2>5, <2>6 DEF CalmVault
<1> QED BY <1>1, <1>2, <1>3, <1>4

LEMMA CreateAnswer_Fails ==
  ASSUME VaultInv, NEW c \in Client, vault[Home[c]] # Wrapped(inflight[c]),
         Goto(c, "published", "create"), Forget(c),
         UNCHANGED <<session, vault, jwk, account, served, kept, announced, unwritten, mishap>>
  PROVE  VaultInv'
<1> USE HomeAssumption, NoKeyAssumption DEF VaultInv, Goto, Take, Forget, Wrapped,
       NoRecord, Broken
<1>1. VaultTypeOK'
  BY DEF VaultTypeOK, StoredInv, Phase
<1>2. StoredInv'
  BY DEF VaultTypeOK, StoredInv, AfterStore
<1>3. HomeInv'
  BY DEF VaultTypeOK, HomeInv, WebPhase, MachinePhase
<1>4. ASSUME ~mishap' PROVE CalmVault'
  <2>1. ~mishap /\ SoloInv /\ InHandInv /\ FirmInv /\ SessionInv
    BY <1>4 DEF CalmVault, VaultTypeOK
  <2>2. SoloInv'
    BY <1>4, <2>1 DEF VaultTypeOK, SoloInv, Busy, Phase
  <2>3. InHandInv'
    BY <1>4, <2>1 DEF VaultTypeOK, SoloInv, InHandInv, Holds, AfterStore, Busy, Phase
  <2>4. ASSUME NEW d \in Device, NEW q \in Key, FirmAt(d, q)
        PROVE  FirmAt(d, q)' \/ q \in announced'
    BY <1>4, <2>1, <2>4 DEF VaultTypeOK, HomeInv, SoloInv, InHandInv, FirmAt, AtRest,
       AfterStore, WebPhase, MachinePhase, Rewriting, Busy, Phase, Legacy
  <2>5. SessionInv'
    BY <1>4, <2>1 DEF VaultTypeOK, StoredInv, HomeInv, SoloInv, InHandInv, Holds, SessionInv, AtRest,
       AfterStore, WebPhase, MachinePhase, Rewriting, Busy, Phase
  <2>6. FirmInv'
    BY <2>1, <2>4 DEF FirmInv, VaultTypeOK
  <2> QED BY <2>2, <2>3, <2>5, <2>6 DEF CalmVault
<1> QED BY <1>1, <1>2, <1>3, <1>4

LEMMA CreateAnswer_Inv ==
  ASSUME VaultInv, NEW c \in Client, CreateAnswer(c)
  PROVE  VaultInv'
BY CreateAnswer_Reads, CreateAnswer_Fails DEF CreateAnswer

LEMMA UnlockVault_Inv ==
  ASSUME VaultInv, NEW c \in Client, UnlockVault(c)
  PROVE  VaultInv'
<1> USE HomeAssumption, NoKeyAssumption DEF VaultInv, UnlockVault, Goto, Take,
       Wrapped, NoRecord, Broken
<1>0. vault[Home[c]].key \in kept
  BY DEF StoredInv
<1>1. VaultTypeOK'
  BY <1>0 DEF VaultTypeOK, StoredInv, Phase
<1>2. StoredInv'
  BY <1>0 DEF VaultTypeOK, StoredInv, AfterStore
<1>3. HomeInv'
  BY DEF VaultTypeOK, HomeInv, WebPhase, MachinePhase
<1>4. ASSUME ~mishap' PROVE CalmVault'
  <2>1. ~mishap /\ SoloInv /\ InHandInv /\ FirmInv /\ SessionInv
    BY <1>4 DEF CalmVault, VaultTypeOK
  <2>2. SoloInv'
    BY <1>4, <2>1 DEF VaultTypeOK, SoloInv, Busy, Phase
  <2>3. InHandInv'
    BY <1>4, <2>1 DEF VaultTypeOK, SoloInv, InHandInv, Holds, AfterStore, Busy, Phase
  <2>4. ASSUME NEW d \in Device, NEW q \in Key, FirmAt(d, q)
        PROVE  FirmAt(d, q)' \/ q \in announced'
    BY <1>4, <2>1, <2>4 DEF VaultTypeOK, HomeInv, SoloInv, InHandInv, FirmAt, AtRest,
       AfterStore, WebPhase, MachinePhase, Rewriting, Busy, Phase, Legacy
  <2>5. SessionInv'
    <3>1. AtRest(Home[c])'
      BY <2>1 DEF VaultTypeOK, HomeInv, WebPhase, AtRest, Rewriting, Busy, Phase
    <3>2. \A b \in Client : AtRest(Home[b]) => AtRest(Home[b])'
      BY DEF VaultTypeOK, AtRest, Rewriting
    <3>3. Holds(Home[c], session[c])'
      <4>1. vault[Home[c]] = Wrapped(vault[Home[c]].key)
        BY DEF VaultTypeOK
      <4>2. session'[c] = vault[Home[c]].key /\ vault' = vault
        BY DEF VaultTypeOK
      <4> QED BY <4>1, <4>2 DEF Holds
    <3>4. \A b \in Client \ {c} : session'[b] = session[b] /\ vault'[Home[b]] = vault[Home[b]]
      BY DEF VaultTypeOK
    <3>5. unwritten' = unwritten
      OBVIOUS
    <3> QED BY <2>1, <3>1, <3>2, <3>3, <3>4, <3>5 DEF SessionInv, Holds
  <2>6. FirmInv'
    BY <2>1, <2>4 DEF FirmInv, VaultTypeOK
  <2> QED BY <2>2, <2>3, <2>5, <2>6 DEF CalmVault
<1> QED BY <1>1, <1>2, <1>3, <1>4

LEMMA CrossCheck_Inv ==
  ASSUME VaultInv, NEW c \in Client, CrossCheck(c)
  PROVE  VaultInv'
<1> USE HomeAssumption, NoKeyAssumption DEF VaultInv, CrossCheck, Goto, Wrapped,
       NoRecord, Broken
<1>1. VaultTypeOK'
  BY DEF VaultTypeOK, StoredInv, Phase
<1>2. StoredInv'
  BY DEF VaultTypeOK, StoredInv, AfterStore
<1>3. HomeInv'
  BY DEF VaultTypeOK, HomeInv, WebPhase, MachinePhase
<1>4. ASSUME ~mishap' PROVE CalmVault'
  <2>1. ~mishap /\ SoloInv /\ InHandInv /\ FirmInv /\ SessionInv
    BY <1>4 DEF CalmVault, VaultTypeOK
  <2>2. SoloInv'
    BY <1>4, <2>1 DEF VaultTypeOK, SoloInv, Busy, Phase
  <2>3. InHandInv'
    BY <1>4, <2>1 DEF VaultTypeOK, SoloInv, InHandInv, Holds, AfterStore, Busy, Phase
  <2>4. ASSUME NEW d \in Device, NEW q \in Key, FirmAt(d, q)
        PROVE  FirmAt(d, q)' \/ q \in announced'
    BY <1>4, <2>1, <2>4 DEF VaultTypeOK, HomeInv, SoloInv, InHandInv, FirmAt, AtRest,
       AfterStore, WebPhase, MachinePhase, Rewriting, Busy, Phase, Legacy
  <2>5. SessionInv'
    BY <1>4, <2>1 DEF VaultTypeOK, StoredInv, HomeInv, SoloInv, InHandInv, Holds, SessionInv, AtRest,
       AfterStore, WebPhase, MachinePhase, Rewriting, Busy, Phase
  <2>6. FirmInv'
    BY <2>1, <2>4 DEF FirmInv, VaultTypeOK
  <2> QED BY <2>2, <2>3, <2>5, <2>6 DEF CalmVault
<1> QED BY <1>1, <1>2, <1>3, <1>4

LEMMA Reupload_Inv ==
  ASSUME VaultInv, NEW c \in Client, Reupload(c)
  PROVE  VaultInv'
<1> USE HomeAssumption, NoKeyAssumption DEF VaultInv, Reupload, Goto, Wrapped,
       NoRecord, Broken
<1>1. VaultTypeOK'
  BY DEF VaultTypeOK, StoredInv, Phase
<1>2. StoredInv'
  BY DEF VaultTypeOK, StoredInv, AfterStore
<1>3. HomeInv'
  BY DEF VaultTypeOK, HomeInv, WebPhase, MachinePhase
<1>4. ASSUME ~mishap' PROVE CalmVault'
  <2>1. ~mishap /\ SoloInv /\ InHandInv /\ FirmInv /\ SessionInv
    BY <1>4 DEF CalmVault, VaultTypeOK
  <2>2. SoloInv'
    BY <1>4, <2>1 DEF VaultTypeOK, SoloInv, Busy, Phase
  <2>3. InHandInv'
    BY <1>4, <2>1 DEF VaultTypeOK, SoloInv, InHandInv, Holds, AfterStore, Busy, Phase
  <2>4. ASSUME NEW d \in Device, NEW q \in Key, FirmAt(d, q)
        PROVE  FirmAt(d, q)' \/ q \in announced'
    BY <1>4, <2>1, <2>4 DEF VaultTypeOK, HomeInv, SoloInv, InHandInv, FirmAt, AtRest,
       AfterStore, WebPhase, MachinePhase, Rewriting, Busy, Phase, Legacy
  <2>5. SessionInv'
    BY <1>4, <2>1 DEF VaultTypeOK, StoredInv, HomeInv, SoloInv, InHandInv, Holds, SessionInv, AtRest,
       AfterStore, WebPhase, MachinePhase, Rewriting, Busy, Phase
  <2>6. FirmInv'
    <3>1. CASE served' = served
      BY <2>1, <2>4, <3>1 DEF FirmInv, VaultTypeOK
    <3>2. CASE served' \notin {served, NoKey}
      <4>1. /\ served' = session[c]
            /\ vault'[Home[c]] = Wrapped(session[c]) \/ session[c] \in unwritten'
        BY <2>1, <3>2 DEF VaultTypeOK, FirmInv, SessionInv, Holds
      <4>2. AtRest(Home[c])'
        BY <2>1, <3>2 DEF VaultTypeOK, HomeInv, SoloInv, AtRest, WebPhase, MachinePhase, Rewriting, Busy, Phase
      <4> QED BY <4>1, <4>2, HomeAssumption DEF FirmInv, FirmAt
    <3> QED BY <3>1, <3>2 DEF FirmInv
  <2> QED BY <2>2, <2>3, <2>5, <2>6 DEF CalmVault
<1> QED BY <1>1, <1>2, <1>3, <1>4

LEMMA NewKey_Inv ==
  ASSUME VaultInv, NEW c \in Client, NEW k \in Key, NewKey(c, k)
  PROVE  VaultInv'
<1> USE HomeAssumption, NoKeyAssumption DEF VaultInv, NewKey, Goto, Fresh, Overlaps,
       Wrapped, NoRecord, Broken
<1>1. VaultTypeOK'
  BY DEF VaultTypeOK, StoredInv, Phase
<1>2. StoredInv'
  BY DEF VaultTypeOK, StoredInv, AfterStore
<1>3. HomeInv'
  BY DEF VaultTypeOK, HomeInv, WebPhase, MachinePhase
<1>4. ASSUME ~mishap' PROVE CalmVault'
  <2>1. ~mishap /\ SoloInv /\ InHandInv /\ FirmInv /\ SessionInv
    BY <1>4 DEF CalmVault, VaultTypeOK
  <2>2. SoloInv'
    BY ZenonT(60), <1>4, <2>1 DEF VaultTypeOK, SoloInv, Busy, Phase
  <2>3. InHandInv'
    BY <1>4, <2>1 DEF VaultTypeOK, SoloInv, InHandInv, Holds, AfterStore, Busy, Phase
  <2>4. ASSUME NEW d \in Device, NEW q \in Key, FirmAt(d, q)
        PROVE  FirmAt(d, q)' \/ q \in announced'
    BY <1>4, <2>1, <2>4 DEF VaultTypeOK, HomeInv, SoloInv, InHandInv, FirmAt, AtRest,
       AfterStore, WebPhase, MachinePhase, Rewriting, Busy, Phase, Legacy
  <2>5. SessionInv'
    BY <1>4, <2>1 DEF VaultTypeOK, StoredInv, HomeInv, SoloInv, InHandInv, Holds, SessionInv, AtRest,
       AfterStore, WebPhase, MachinePhase, Rewriting, Busy, Phase
  <2>6. FirmInv'
    BY <2>1, <2>4 DEF FirmInv, VaultTypeOK
  <2> QED BY <2>2, <2>3, <2>5, <2>6 DEF CalmVault
<1> QED BY <1>1, <1>2, <1>3, <1>4

LEMMA WriteVault_Stores ==
  ASSUME VaultInv, NEW c \in Client, Goto(c, "deriving", "uploading"),
         Store(Home[c], inflight[c]),
         UNCHANGED <<inflight, unwritten, jwk, account, served, session, announced, mishap>>
  PROVE  VaultInv'
<1> USE HomeAssumption, NoKeyAssumption DEF VaultInv, Goto, Store, Forget, Wrapped,
       NoRecord, Broken
<1>1. VaultTypeOK'
  BY DEF VaultTypeOK, StoredInv, Phase
<1>2. StoredInv'
  BY DEF VaultTypeOK, StoredInv, AfterStore
<1>3. HomeInv'
  BY DEF VaultTypeOK, HomeInv, WebPhase, MachinePhase
<1>4. ASSUME ~mishap' PROVE CalmVault'
  <2>1. ~mishap /\ SoloInv /\ InHandInv /\ FirmInv /\ SessionInv
    BY <1>4 DEF CalmVault, VaultTypeOK
  <2>2. SoloInv'
    BY <1>4, <2>1 DEF VaultTypeOK, SoloInv, Busy, Phase
  <2>3. InHandInv'
    <3>1. pc'[c] = "uploading" /\ Holds(Home[c], inflight[c])'
      <4>1. vault'[Home[c]] = Wrapped(inflight'[c])
        BY DEF VaultTypeOK
      <4>2. pc'[c] = "uploading"
        BY DEF VaultTypeOK
      <4> QED BY <4>1, <4>2 DEF Holds
    <3>2. \A b \in Client \ {c} : Home[b] = Home[c] => pc'[b] \notin Busy
      BY <2>1 DEF VaultTypeOK, SoloInv, Busy, Phase
    <3>3. \A b \in Client \ {c} : pc'[b] = pc[b] /\ pc'[b] \in Phase
      BY DEF VaultTypeOK
    <3>4. \A b \in Client : Home[b] # Home[c] => vault'[Home[b]] = vault[Home[b]]
      BY DEF VaultTypeOK
    <3>5. UNCHANGED <<inflight, unwritten>>
      OBVIOUS
    <3> HIDE DEF VaultInv
    <3> QED BY <2>1, <3>1, <3>2, <3>3, <3>4, <3>5 DEF InHandInv, Holds, AfterStore, Busy, Phase
  <2>4. ASSUME NEW d \in Device, NEW q \in Key, FirmAt(d, q)
        PROVE  FirmAt(d, q)' \/ q \in announced'
    BY <1>4, <2>1, <2>4 DEF VaultTypeOK, HomeInv, SoloInv, InHandInv, FirmAt, AtRest,
       AfterStore, WebPhase, MachinePhase, Rewriting, Busy, Phase, Legacy
  <2>5. SessionInv'
    BY <1>4, <2>1 DEF VaultTypeOK, StoredInv, HomeInv, SoloInv, InHandInv, Holds, SessionInv, AtRest,
       AfterStore, WebPhase, MachinePhase, Rewriting, Busy, Phase
  <2>6. FirmInv'
    BY <2>1, <2>4 DEF FirmInv, VaultTypeOK
  <2> QED BY <2>2, <2>3, <2>5, <2>6 DEF CalmVault
<1> QED BY <1>1, <1>2, <1>3, <1>4

LEMMA WriteVault_Spoils ==
  ASSUME VaultInv, NEW c \in Client, Goto(c, "deriving", "uploading"),
         vault' = [vault EXCEPT ![Home[c]] = Broken],
         unwritten' = unwritten \cup {inflight[c]},
         UNCHANGED <<inflight, kept, jwk, account, served, session, announced, mishap>>
  PROVE  VaultInv'
<1> USE HomeAssumption, NoKeyAssumption DEF VaultInv, Goto, Forget, Wrapped, NoRecord, Broken
<1>1. VaultTypeOK'
  BY DEF VaultTypeOK, StoredInv, Phase
<1>2. StoredInv'
  BY DEF VaultTypeOK, StoredInv, AfterStore
<1>3. HomeInv'
  BY DEF VaultTypeOK, HomeInv, WebPhase, MachinePhase
<1>4. ASSUME ~mishap' PROVE CalmVault'
  <2>1. ~mishap /\ SoloInv /\ InHandInv /\ FirmInv /\ SessionInv
    BY <1>4 DEF CalmVault, VaultTypeOK
  <2>0. vault[Home[c]] = NoRecord
    BY <2>1 DEF InHandInv
  <2>2. SoloInv'
    BY <1>4, <2>1 DEF VaultTypeOK, SoloInv, Busy, Phase
  <2>3. InHandInv'
    BY ZenonT(60), <1>4, <2>1 DEF VaultTypeOK, SoloInv, InHandInv, Holds, AfterStore, Busy, Phase
  <2>4. ASSUME NEW d \in Device, NEW q \in Key, FirmAt(d, q)
        PROVE  FirmAt(d, q)' \/ q \in announced'
    <3>1. CASE d = Home[c]
      BY <2>0, <2>4, <3>1 DEF VaultTypeOK, FirmAt, Legacy
    <3>2. CASE d # Home[c]
      BY <2>1, <2>4, <3>2 DEF VaultTypeOK, FirmAt, AtRest
    <3> QED BY <3>1, <3>2
  <2>5. SessionInv'
    <3>1. ASSUME NEW b \in Client, session[b] # NoKey
          PROVE  Home[b] # Home[c]
      <4>1. Holds(Home[b], session[b])
        BY <2>1, <3>1 DEF SessionInv
      <4> QED BY <2>0, <4>1 DEF Holds
    <3> QED BY <1>4, <2>1, <3>1 DEF VaultTypeOK, StoredInv, SessionInv, Holds, AtRest, Rewriting, Phase
  <2>6. FirmInv'
    BY <2>1, <2>4 DEF FirmInv, VaultTypeOK
  <2> QED BY <2>2, <2>3, <2>5, <2>6 DEF CalmVault
<1> QED BY <1>1, <1>2, <1>3, <1>4

LEMMA WriteVault_Fails ==
  ASSUME VaultInv, NEW c \in Client, Goto(c, "deriving", "idle"), Forget(c),
         UNCHANGED <<vault, kept, unwritten, jwk, account, served, session, announced, mishap>>
  PROVE  VaultInv'
<1> USE HomeAssumption, NoKeyAssumption DEF VaultInv, Goto, Store, Forget, Wrapped,
       NoRecord, Broken
<1>1. VaultTypeOK'
  BY DEF VaultTypeOK, StoredInv, Phase
<1>2. StoredInv'
  BY DEF VaultTypeOK, StoredInv, AfterStore
<1>3. HomeInv'
  BY DEF VaultTypeOK, HomeInv, WebPhase, MachinePhase
<1>4. ASSUME ~mishap' PROVE CalmVault'
  <2>1. ~mishap /\ SoloInv /\ InHandInv /\ FirmInv /\ SessionInv
    BY <1>4 DEF CalmVault, VaultTypeOK
  <2>2. SoloInv'
    BY <1>4, <2>1 DEF VaultTypeOK, SoloInv, Busy, Phase
  <2>3. InHandInv'
    BY <1>4, <2>1 DEF VaultTypeOK, SoloInv, InHandInv, Holds, AfterStore, Busy, Phase
  <2>4. ASSUME NEW d \in Device, NEW q \in Key, FirmAt(d, q)
        PROVE  FirmAt(d, q)' \/ q \in announced'
    BY <1>4, <2>1, <2>4 DEF VaultTypeOK, HomeInv, SoloInv, InHandInv, FirmAt, AtRest,
       AfterStore, WebPhase, MachinePhase, Rewriting, Busy, Phase, Legacy
  <2>5. SessionInv'
    BY <1>4, <2>1 DEF VaultTypeOK, StoredInv, HomeInv, SoloInv, InHandInv, Holds, SessionInv, AtRest,
       AfterStore, WebPhase, MachinePhase, Rewriting, Busy, Phase
  <2>6. FirmInv'
    BY <2>1, <2>4 DEF FirmInv, VaultTypeOK
  <2> QED BY <2>2, <2>3, <2>5, <2>6 DEF CalmVault
<1> QED BY <1>1, <1>2, <1>3, <1>4

LEMMA WriteVault_Inv ==
  ASSUME VaultInv, NEW c \in Client, WriteVault(c)
  PROVE  VaultInv'
BY WriteVault_Stores, WriteVault_Spoils, WriteVault_Fails DEF WriteVault

LEMMA DieWriting_Inv ==
  ASSUME VaultInv, NEW c \in Client, DieWriting(c)
  PROVE  VaultInv'
<1> USE HomeAssumption, NoKeyAssumption DEF VaultInv, DieWriting, Goto, Forget, Wrapped, NoRecord, Broken
<1>1. VaultTypeOK'
  BY DEF VaultTypeOK, StoredInv, Phase
<1>2. StoredInv'
  BY DEF VaultTypeOK, StoredInv, AfterStore
<1>3. HomeInv'
  BY DEF VaultTypeOK, HomeInv, WebPhase, MachinePhase
<1>4. ASSUME ~mishap' PROVE CalmVault'
  <2>1. ~mishap /\ SoloInv /\ InHandInv /\ FirmInv /\ SessionInv
    BY <1>4 DEF CalmVault, VaultTypeOK
  <2>0. vault[Home[c]] = NoRecord
    BY <2>1 DEF InHandInv
  <2>2. SoloInv'
    BY <1>4, <2>1 DEF VaultTypeOK, SoloInv, Busy, Phase
  <2>3. InHandInv'
    BY ZenonT(60), <1>4, <2>1 DEF VaultTypeOK, SoloInv, InHandInv, Holds, AfterStore, Busy, Phase
  <2>4. ASSUME NEW d \in Device, NEW q \in Key, FirmAt(d, q)
        PROVE  FirmAt(d, q)' \/ q \in announced'
    <3>1. CASE d = Home[c]
      BY <2>0, <2>4, <3>1 DEF VaultTypeOK, FirmAt, Legacy
    <3>2. CASE d # Home[c]
      BY <2>1, <2>4, <3>2 DEF VaultTypeOK, FirmAt, AtRest
    <3> QED BY <3>1, <3>2
  <2>5. SessionInv'
    <3>1. ASSUME NEW b \in Client, session[b] # NoKey
          PROVE  Home[b] # Home[c]
      <4>1. Holds(Home[b], session[b])
        BY <2>1, <3>1 DEF SessionInv
      <4> QED BY <2>0, <4>1 DEF Holds
    <3> QED BY <1>4, <2>1, <3>1 DEF VaultTypeOK, StoredInv, SessionInv, Holds, AtRest, Rewriting, Phase
  <2>6. FirmInv'
    BY <2>1, <2>4 DEF FirmInv, VaultTypeOK
  <2> QED BY <2>2, <2>3, <2>5, <2>6 DEF CalmVault
<1> QED BY <1>1, <1>2, <1>3, <1>4

LEMMA UploadPublicKey_Inv ==
  ASSUME VaultInv, NEW c \in Client, UploadPublicKey(c)
  PROVE  VaultInv'
<1> USE HomeAssumption, NoKeyAssumption DEF VaultInv, UploadPublicKey, Goto, Take,
       Forget, Wrapped, NoRecord, Broken
<1>1. VaultTypeOK'
  BY DEF VaultTypeOK, StoredInv, Phase
<1>2. StoredInv'
  BY DEF VaultTypeOK, StoredInv, AfterStore
<1>3. HomeInv'
  BY DEF VaultTypeOK, HomeInv, WebPhase, MachinePhase
<1>4. ASSUME ~mishap' PROVE CalmVault'
  <2>1. ~mishap /\ SoloInv /\ InHandInv /\ FirmInv /\ SessionInv
    BY <1>4 DEF CalmVault, VaultTypeOK
  <2>2. SoloInv'
    BY <1>4, <2>1 DEF VaultTypeOK, SoloInv, Busy, Phase
  <2>3. InHandInv'
    BY <1>4, <2>1 DEF VaultTypeOK, SoloInv, InHandInv, Holds, AfterStore, Busy, Phase
  <2>4. ASSUME NEW d \in Device, NEW q \in Key, FirmAt(d, q)
        PROVE  FirmAt(d, q)' \/ q \in announced'
    BY <1>4, <2>1, <2>4 DEF VaultTypeOK, HomeInv, SoloInv, InHandInv, FirmAt, AtRest,
       AfterStore, WebPhase, MachinePhase, Rewriting, Busy, Phase, Legacy
  <2>5. SessionInv'
    BY <1>4, <2>1 DEF VaultTypeOK, StoredInv, HomeInv, SoloInv, InHandInv, Holds, SessionInv, AtRest,
       AfterStore, WebPhase, MachinePhase, Rewriting, Busy, Phase
  <2>6. FirmInv'
    <3>1. CASE served' = served
      BY <2>1, <2>4, <3>1 DEF FirmInv, VaultTypeOK
    <3>2. CASE served' # served
      <4>1. /\ served' = inflight[c]
            /\ vault'[Home[c]] = Wrapped(inflight[c]) \/ inflight[c] \in unwritten'
        BY <2>1, <3>2 DEF VaultTypeOK, InHandInv, Holds, AfterStore
      <4>2. AtRest(Home[c])'
        BY <2>1, <3>2 DEF VaultTypeOK, HomeInv, SoloInv, AtRest, WebPhase, MachinePhase, Rewriting, Busy, Phase
      <4> QED BY <4>1, <4>2, HomeAssumption DEF FirmInv, FirmAt
    <3> QED BY <3>1, <3>2
  <2> QED BY <2>2, <2>3, <2>5, <2>6 DEF CalmVault
<1> QED BY <1>1, <1>2, <1>3, <1>4

LEMMA RegisterUser_Inv ==
  ASSUME VaultInv, NEW c \in Client, RegisterUser(c)
  PROVE  VaultInv'
<1> USE HomeAssumption, NoKeyAssumption DEF VaultInv, RegisterUser, Wrapped,
       NoRecord, Broken
<1>1. VaultTypeOK'
  BY DEF VaultTypeOK, StoredInv, Phase
<1>2. StoredInv'
  BY DEF VaultTypeOK, StoredInv, AfterStore
<1>3. HomeInv'
  BY DEF VaultTypeOK, HomeInv, WebPhase, MachinePhase
<1>4. ASSUME ~mishap' PROVE CalmVault'
  <2>1. ~mishap /\ SoloInv /\ InHandInv /\ FirmInv /\ SessionInv
    BY <1>4 DEF CalmVault, VaultTypeOK
  <2>2. SoloInv'
    BY <1>4, <2>1 DEF VaultTypeOK, SoloInv, Busy, Phase
  <2>3. InHandInv'
    BY <1>4, <2>1 DEF VaultTypeOK, SoloInv, InHandInv, Holds, AfterStore, Busy, Phase
  <2>4. ASSUME NEW d \in Device, NEW q \in Key, FirmAt(d, q)
        PROVE  FirmAt(d, q)' \/ q \in announced'
    BY <1>4, <2>1, <2>4 DEF VaultTypeOK, HomeInv, SoloInv, InHandInv, FirmAt, AtRest,
       AfterStore, WebPhase, MachinePhase, Rewriting, Busy, Phase, Legacy
  <2>5. SessionInv'
    BY <1>4, <2>1 DEF VaultTypeOK, StoredInv, HomeInv, SoloInv, InHandInv, Holds, SessionInv, AtRest,
       AfterStore, WebPhase, MachinePhase, Rewriting, Busy, Phase
  <2>6. FirmInv'
    BY <2>1, <2>4 DEF FirmInv, VaultTypeOK
  <2> QED BY <2>2, <2>3, <2>5, <2>6 DEF CalmVault
<1> QED BY <1>1, <1>2, <1>3, <1>4

LEMMA Stop_Inv ==
  ASSUME VaultInv, NEW c \in Client, Stop(c)
  PROVE  VaultInv'
<1> USE HomeAssumption, NoKeyAssumption DEF VaultInv, Stop, Take, Forget, Wrapped,
       NoRecord, Broken
<1>1. VaultTypeOK'
  BY DEF VaultTypeOK, StoredInv, Phase
<1>2. StoredInv'
  BY DEF VaultTypeOK, StoredInv, AfterStore
<1>3. HomeInv'
  BY DEF VaultTypeOK, HomeInv, WebPhase, MachinePhase
<1>4. ASSUME ~mishap' PROVE CalmVault'
  <2>1. ~mishap /\ SoloInv /\ InHandInv /\ FirmInv /\ SessionInv
    BY <1>4 DEF CalmVault, VaultTypeOK
  <2>2. SoloInv'
    BY <1>4, <2>1 DEF VaultTypeOK, SoloInv, Busy, Phase
  <2>3. InHandInv'
    BY <1>4, <2>1 DEF VaultTypeOK, SoloInv, InHandInv, Holds, AfterStore, Busy, Phase
  <2>4. ASSUME NEW d \in Device, NEW q \in Key, FirmAt(d, q)
        PROVE  FirmAt(d, q)' \/ q \in announced'
    BY <1>4, <2>1, <2>4 DEF VaultTypeOK, HomeInv, SoloInv, InHandInv, FirmAt, AtRest,
       AfterStore, WebPhase, MachinePhase, Rewriting, Busy, Phase, Legacy
  <2>5. SessionInv'
    BY <1>4, <2>1 DEF VaultTypeOK, StoredInv, HomeInv, SoloInv, InHandInv, Holds, SessionInv, AtRest,
       AfterStore, WebPhase, MachinePhase, Rewriting, Busy, Phase
  <2>6. FirmInv'
    BY <2>1, <2>4 DEF FirmInv, VaultTypeOK
  <2> QED BY <2>2, <2>3, <2>5, <2>6 DEF CalmVault
<1> QED BY <1>1, <1>2, <1>3, <1>4

LEMMA ClientStep_Inv ==
  ASSUME VaultInv, NEW c \in Client, ClientStep(c)
  PROVE  VaultInv'
BY RegisterSave_Inv, RegisterAtServer_Inv, RegisterAnswer_Inv, LoseAnswer_Inv, OpenVault_Inv,
   Skip_Inv, Unlock_Inv, Migrate_Inv, CreateSave_Inv, Publish_Inv, CreateAnswer_Inv,
   UnlockVault_Inv, CrossCheck_Inv, Reupload_Inv, NewKey_Inv, WriteVault_Inv,
   DieWriting_Inv, UploadPublicKey_Inv, RegisterUser_Inv, Stop_Inv DEF ClientStep

LEMMA VaultStutters ==
  ASSUME VaultInv, UNCHANGED vaultVars
  PROVE  VaultInv'
BY DEF vaultVars, VaultInv, VaultTypeOK, StoredInv, HomeInv, CalmVault, SoloInv, InHandInv, Holds,
       FirmInv, FirmAt, AtRest, SessionInv

\* What was stored once was stored, and what went unnoticed did.
LEMMA KeptGrows ==
  ASSUME NEW c \in Client, ClientStep(c)
  PROVE  kept \subseteq kept' /\ unwritten \subseteq unwritten'
BY DEF ClientStep, RegisterSave, RegisterAtServer, RegisterAnswer, LoseAnswer, OpenVault, Skip,
       Unlock, Migrate, CreateSave, Publish, CreateAnswer, UnlockVault, CrossCheck, Reupload,
       NewKey, WriteVault, DieWriting, UploadPublicKey, RegisterUser, Stop, Store

-----------------------------------------------------------------------------
(* The inductive invariant of my operations.                               *)

FileOK(f) ==
  /\ f.sender \in Party /\ f.recipient \in Party /\ f.filename \in Name \cup {NoName}
  /\ {f.senderKey, f.recipientKey} \subseteq Key \cup {MyKey} /\ f.sealed.enc \in Ephemeral
  /\ f = FileFrom(f.sender, f.recipient, f.senderKey, f.recipientKey, f.sealed.enc, f.filename)

GateTypeOK ==
  /\ uploaded \subseteq Key
  /\ running \subseteq Client \cup Agent \cup Ephemeral
  /\ registry \in [key : Key \cup {NoKey}, revoked : BOOLEAN]
  /\ pin \in [Place -> Key \cup {NoKey}]
  /\ mem \in [Agent -> Key \cup {NoKey}]
  /\ op \in [Agent -> Op]
  /\ calm \in [Agent -> BOOLEAN]
  /\ \A f \in files : FileOK(f)

\* Whatever I have come to see was stored, as far as its owner could tell.
KnownInv ==
  /\ uploaded \subseteq kept \cup unwritten
  /\ registry.key \in kept \cup unwritten \cup {NoKey}
  /\ registry.revoked => registry.key # NoKey
  /\ \A s \in Place : pin[s] \in kept \cup unwritten \cup {NoKey}
  /\ \A a \in Agent : /\ mem[a] \in kept \cup unwritten \cup {NoKey}
                      /\ op[a].got \in kept \cup unwritten \cup {NoKey}
                      /\ op[a].pc # "idle" => op[a].got # NoKey /\ op[a].mode # "none"

FilesInv == \A f \in files : {f.senderKey, f.recipientKey} \subseteq kept \cup unwritten \cup {MyKey}

CalmInv ==
  \A a \in Agent : calm[a] =>
    /\ op[a].pc \in {"gate", "use"} => View(a) = op[a].got
    /\ op[a].pc = "use" /\ op[a].asked # "unavailable" =>
         /\ registry.revoked => op[a].mode = "decrypt" /\ op[a].asked = "revoked"
         /\ registry.key \notin {NoKey, op[a].got} => op[a].asked \in {"revoked", "mismatch"}

GateInv == GateTypeOK /\ KnownInv /\ FilesInv /\ CalmInv

IInv == VaultInv /\ GateInv

LEMMA FileFromOK ==
  ASSUME NEW sender \in Party, NEW recipient \in Party, NEW j \in Key \cup {MyKey},
         NEW i \in Key \cup {MyKey}, NEW ek \in Ephemeral, NEW name \in Name \cup {NoName}
  PROVE  LET f == FileFrom(sender, recipient, j, i, ek, name) IN
           FileOK(f) /\ f.senderKey = j /\ f.recipientKey = i
<1> DEFINE f == FileFrom(sender, recipient, j, i, ek, name)
<1>1. /\ f.sender = sender /\ f.recipient = recipient /\ f.filename = name
      /\ f.senderKey = j /\ f.recipientKey = i
  BY DEF FileFrom
<1>2. f.sealed.enc = ek
  BY DEF FileFrom, Encapsulate
<1> HIDE DEF f
<1>3. f = FileFrom(f.sender, f.recipient, f.senderKey, f.recipientKey, f.sealed.enc, f.filename)
  BY <1>1, <1>2 DEF f
<1> QED BY <1>1, <1>2, <1>3 DEF FileOK, f

LEMMA Init_IInv == Init => IInv
<1> SUFFICES ASSUME Init PROVE IInv
  OBVIOUS
<1>1. VaultInv
  BY VaultInit_Inv DEF Init
<1>2. served \in kept \cup unwritten \cup {NoKey} /\ kept \cup unwritten \subseteq Key
  BY <1>1 DEF VaultInv, VaultTypeOK, StoredInv
<1>3. GateTypeOK /\ FilesInv
  BY <1>2, TeamsAssumption DEF Init, GateTypeOK, FilesInv, Unregistered, NoOp, Op, OpPhase, Question
<1>4. KnownInv /\ CalmInv
  BY <1>2 DEF Init, KnownInv, CalmInv, Unregistered, NoOp
<1> QED BY <1>1, <1>3, <1>4 DEF IInv, GateInv

-----------------------------------------------------------------------------

\* A pin that is set is what its agent sees, and who stays calm sees no change.
LEMMA SetPinSeen ==
  ASSUME GateTypeOK, NEW a \in Agent, NEW k, SetPin(a, k)
  PROVE  /\ View(a)' = k
         /\ \A b \in Agent \ {a} : calm'[b] => calm[b] /\ View(b)' = View(b)
         /\ calm'[a] = calm[a]
BY DEF SetPin, SavePins, GateTypeOK, View, Place, PlaceOf

LEMMA AdvanceTyped ==
  ASSUME GateTypeOK, NEW a \in Agent, NEW from, NEW to \in OpPhase, Advance(a, from, to)
  PROVE  op' \in [Agent -> Op]
<1>1. op[a] \in Op
  BY DEF GateTypeOK
<1>2. [op[a] EXCEPT !.pc = to] \in Op
  BY <1>1 DEF Op
<1> QED BY <1>2 DEF GateTypeOK, Advance

LEMMA SetPinTyped ==
  ASSUME GateTypeOK, NEW a \in Agent, NEW k \in Key \cup {NoKey}, SetPin(a, k)
  PROVE  /\ pin' \in [Place -> Key \cup {NoKey}]
         /\ mem' \in [Agent -> Key \cup {NoKey}]
         /\ calm' \in [Agent -> BOOLEAN]
BY DEF SetPin, SavePins, GateTypeOK, Place

LEMMA LoadPins_Inv ==
  ASSUME IInv, NEW a \in Agent, LoadPins(a),
         UNCHANGED <<vaultVars, running, registry, uploaded>>
  PROVE  GateInv'
<1> USE DEF IInv, GateInv, LoadPins
<1>0. UNCHANGED <<kept, unwritten, served>>
  BY DEF vaultVars
<1>2. GateTypeOK'
  BY DEF GateTypeOK, Op, OpPhase, Question, Place, PlaceOf
<1>3. FilesInv'
  BY <1>0 DEF FilesInv
<1>4. KnownInv'
  BY <1>0 DEF GateTypeOK, KnownInv, Op, Place, PlaceOf
<1>5. CalmInv'
  BY DEF GateTypeOK, CalmInv, View, Op, Place, PlaceOf
<1> QED BY <1>2, <1>3, <1>4, <1>5

LEMMA PinAnother_Inv ==
  ASSUME IInv, NEW a \in Agent, PinAnother(a),
         UNCHANGED <<vaultVars, running, registry, uploaded>>
  PROVE  GateInv'
<1> USE DEF IInv, GateInv, PinAnother, SavePins
<1>0. UNCHANGED <<kept, unwritten, served>>
  BY DEF vaultVars
<1>2. GateTypeOK'
  BY DEF GateTypeOK, Op, OpPhase, Question, Place, PlaceOf
<1>3. FilesInv'
  BY <1>0 DEF FilesInv
<1>4. KnownInv'
  BY <1>0 DEF GateTypeOK, KnownInv, Op, Place, PlaceOf
<1>5. CalmInv'
  BY DEF GateTypeOK, CalmInv, View, Op, Place, PlaceOf
<1> QED BY <1>2, <1>3, <1>4, <1>5

LEMMA FetchKey_Inv ==
  ASSUME IInv, NEW a \in Agent, NEW mode \in {"encrypt", "decrypt"}, FetchKey(a, mode),
         UNCHANGED <<vaultVars, running, registry, uploaded>>
  PROVE  GateInv'
<1> USE DEF IInv, GateInv, FetchKey
<1>0. UNCHANGED <<kept, unwritten, served>>
  BY DEF vaultVars
<1>2. GateTypeOK'
  BY DEF GateTypeOK, Op, OpPhase, Question, Place, PlaceOf, VaultInv, VaultTypeOK
<1>3. FilesInv'
  BY <1>0 DEF FilesInv
<1>4. KnownInv'
  BY <1>0 DEF GateTypeOK, KnownInv, Op, Place, PlaceOf, VaultInv, VaultTypeOK, StoredInv
<1>5. CalmInv'
  BY DEF GateTypeOK, CalmInv, View, Op, Place, PlaceOf
<1> QED BY <1>2, <1>3, <1>4, <1>5

LEMMA CheckPin_Inv ==
  ASSUME IInv, NEW a \in Agent, CheckPin(a),
         UNCHANGED <<vaultVars, running, registry, uploaded>>
  PROVE  GateInv'
<1> USE DEF IInv, GateInv, CheckPin, Advance, SetPin, SavePins, SamePins
<1>0. UNCHANGED <<kept, unwritten, served>>
  BY DEF vaultVars
<1>2. GateTypeOK'
  <2>1. op' \in [Agent -> Op]
    <3>1. Advance(a, "check", "gate") \/ Advance(a, "check", "warn") \/ Advance(a, "check", "pin")
      BY DEF CheckPin
    <3> HIDE DEF CheckPin, Advance
    <3> QED BY <3>1, AdvanceTyped DEF OpPhase
  <2>2. SetPin(a, op[a].got) \/ SamePins
    BY DEF CheckPin
  <2>3. op[a].got \in Key \cup {NoKey}
    BY DEF GateTypeOK, Op
  <2>4. /\ pin' \in [Place -> Key \cup {NoKey}]
        /\ mem' \in [Agent -> Key \cup {NoKey}]
        /\ calm' \in [Agent -> BOOLEAN]
    <3> HIDE DEF CheckPin, SetPin
    <3> QED BY <2>2, <2>3, SetPinTyped DEF GateTypeOK
  <2> QED BY <2>1, <2>4 DEF GateTypeOK
<1>3. FilesInv'
  BY <1>0 DEF FilesInv
<1>4. KnownInv'
  BY <1>0 DEF GateTypeOK, KnownInv, Op, Place, PlaceOf
<1>5. CalmInv'
  BY SMTT(60) DEF GateTypeOK, CalmInv, View, Op, Place, PlaceOf
<1> QED BY <1>2, <1>3, <1>4, <1>5

LEMMA WritePin_Inv ==
  ASSUME IInv, NEW a \in Agent, WritePin(a),
         UNCHANGED <<vaultVars, running, registry, uploaded>>
  PROVE  GateInv'
<1> USE DEF IInv, GateInv, WritePin, Advance, SetPin, SavePins
<1>0. UNCHANGED <<kept, unwritten, served>>
  BY DEF vaultVars
<1>2. GateTypeOK'
  <2>1. op[a].got \in Key \cup {NoKey} /\ Advance(a, "pin", "gate") /\ SetPin(a, op[a].got)
    BY DEF WritePin, GateTypeOK, Op
  <2>2. UNCHANGED <<uploaded, running, registry, files>>
    BY DEF WritePin
  <2> HIDE DEF WritePin, Advance, SetPin
  <2> QED BY <2>1, <2>2, AdvanceTyped, SetPinTyped DEF GateTypeOK, OpPhase
<1>3. FilesInv'
  BY <1>0 DEF FilesInv
<1>4. KnownInv'
  BY <1>0 DEF GateTypeOK, KnownInv, Op, Place, PlaceOf
<1>5. CalmInv'
  <2>1. \A b \in Agent \ {a} : op'[b] = op[b]
    BY DEF GateTypeOK
  <2>2. op'[a].got = op[a].got /\ op'[a].pc = "gate"
    BY DEF GateTypeOK, Op
  <2>3. SetPin(a, op[a].got)
    BY DEF WritePin
  <2> HIDE DEF WritePin, SetPin
  <2>4. \A b \in Agent \ {a} : calm'[b] => calm[b] /\ View(b)' = View(b)
    BY <2>3, SetPinSeen
  <2>5. View(a)' = op[a].got
    BY <2>3, SetPinSeen
  <2> QED BY <2>1, <2>2, <2>4, <2>5 DEF CalmInv
<1> QED BY <1>2, <1>3, <1>4, <1>5

LEMMA AnswerWarning_Inv ==
  ASSUME IInv, NEW a \in Agent, AnswerWarning(a),
         UNCHANGED <<vaultVars, running, registry, uploaded>>
  PROVE  GateInv'
<1> USE DEF IInv, GateInv
<1>0. UNCHANGED <<kept, unwritten, served, files>>
  BY DEF vaultVars, AnswerWarning
<1>1. CASE Advance(a, "warn", "gate") /\ SetPin(a, op[a].got)
  <2>1. GateTypeOK'
    <3>1. op[a].got \in Key \cup {NoKey}
      BY DEF GateTypeOK, Op
    <3> QED BY <1>0, <1>1, <3>1, AdvanceTyped, SetPinTyped DEF GateTypeOK, OpPhase
  <2>2. KnownInv' /\ FilesInv'
    BY <1>0, <1>1 DEF GateTypeOK, KnownInv, FilesInv, Op, Place, PlaceOf, Advance, SetPin, SavePins
  <2>3. CalmInv'
    <3>1. \A b \in Agent \ {a} : op'[b] = op[b]
      BY <1>1 DEF GateTypeOK, Advance
    <3>2. op'[a].got = op[a].got /\ op'[a].pc = "gate"
      BY <1>1 DEF GateTypeOK, Op, Advance
    <3>3. \A b \in Agent \ {a} : calm'[b] => calm[b] /\ View(b)' = View(b)
      BY <1>1, SetPinSeen
    <3>4. View(a)' = op[a].got
      BY <1>1, SetPinSeen
    <3> QED BY <3>1, <3>2, <3>3, <3>4 DEF CalmInv
  <2> QED BY <2>1, <2>2, <2>3
<1>2. CASE End(a, "warn") /\ SamePins
  <2>1. GateTypeOK'
    BY <1>0, <1>2 DEF GateTypeOK, Op, OpPhase, Question, End, SamePins, NoOp
  <2>2. KnownInv' /\ FilesInv'
    BY <1>0, <1>2 DEF GateTypeOK, KnownInv, FilesInv, Op, End, SamePins, NoOp
  <2>3. CalmInv'
    BY <1>2 DEF GateTypeOK, CalmInv, View, End, SamePins, NoOp
  <2> QED BY <2>1, <2>2, <2>3
<1> QED BY <1>1, <1>2 DEF AnswerWarning

LEMMA Gate_Inv ==
  ASSUME IInv, NEW a \in Agent, Gate(a),
         UNCHANGED <<vaultVars, running, registry, uploaded>>
  PROVE  GateInv'
<1> USE DEF IInv, GateInv
<1>0. UNCHANGED <<kept, unwritten, served, files, pin, mem, calm>>
  BY DEF vaultVars, Gate, SamePins
<1>1. \/ \E q \in Questions(a) : op' = [op EXCEPT ![a].pc = "use", ![a].asked = q]
      \/ op' = [op EXCEPT ![a] = NoOp]
  BY DEF Gate, End
<1>2. op[a] \in Op /\ op[a].pc = "gate"
  BY DEF GateTypeOK, Gate, End
<1>3. op'[a] \in Op /\ (op'[a].got = op[a].got \/ op'[a] = NoOp)
  <2>1. CASE op' = [op EXCEPT ![a] = NoOp]
    BY <1>2, <2>1 DEF GateTypeOK, Op, OpPhase, Question, NoOp
  <2>2. ASSUME NEW q \in Questions(a), op' = [op EXCEPT ![a].pc = "use", ![a].asked = q]
        PROVE  op'[a] \in Op /\ op'[a].got = op[a].got
    <3>1. q \in Question
      BY DEF Questions, Question
    <3> QED BY <1>2, <2>2, <3>1 DEF GateTypeOK, Op, OpPhase
  <2> QED BY <1>1, <2>1, <2>2
<1>4. op' \in [Agent -> Op] /\ \A b \in Agent \ {a} : op'[b] = op[b]
  BY <1>1, <1>3 DEF GateTypeOK
<1>5. GateTypeOK'
  BY <1>0, <1>4 DEF GateTypeOK
<1>6. KnownInv' /\ FilesInv'
  <2>1. op'[a].mode = op[a].mode \/ op'[a] = NoOp
    BY <1>1, <1>2 DEF GateTypeOK, Op
  <2> QED BY <1>0, <1>2, <1>3, <1>4, <2>1 DEF KnownInv, FilesInv, NoOp
<1>7. CalmInv'
  <2>1. CASE op' = [op EXCEPT ![a] = NoOp]
    BY <1>0, <2>1 DEF GateTypeOK, CalmInv, View, NoOp
  <2>2. ASSUME NEW q \in Questions(a), op' = [op EXCEPT ![a].pc = "use", ![a].asked = q]
        PROVE  CalmInv'
    <3>1. /\ op'[a].got = op[a].got /\ op'[a].mode = op[a].mode /\ op'[a].asked = q
          /\ op'[a].pc = "use"
      BY <1>2, <2>2 DEF GateTypeOK, Op
    <3>2. q # "unavailable" =>
            /\ registry.key # NoKey /\ registry.revoked => op[a].mode = "decrypt" /\ q = "revoked"
            /\ registry.key \notin {NoKey, op[a].got} => q \in {"revoked", "mismatch"}
      BY <1>2 DEF Questions, Op, KnownInv
    <3>3. registry.revoked => registry.key # NoKey
      BY DEF KnownInv
    <3> QED BY <1>0, <1>2, <1>4, <3>1, <3>2, <3>3 DEF CalmInv, View
  <2> QED BY <1>1, <2>1, <2>2
<1> QED BY <1>5, <1>6, <1>7

LEMMA UseKey_Inv ==
  ASSUME IInv, NEW a \in Agent, UseKey(a),
         UNCHANGED <<vaultVars, running, registry, uploaded>>
  PROVE  GateInv'
<1> USE DEF IInv, GateInv, UseKey, End, SamePins, NoOp
<1>0. UNCHANGED <<kept, unwritten, served>>
  BY DEF vaultVars
<1>1. \A f \in files' : FileOK(f) /\ {f.senderKey, f.recipientKey} \subseteq kept \cup unwritten \cup {MyKey}
  <2>1. CASE op[a].mode # "encrypt"
    BY <2>1 DEF GateTypeOK, FilesInv
  <2>2. CASE op[a].mode = "encrypt"
    <3>1. PICK ek \in Ephemeral, name \in Name \cup {NoName} :
            files' = files \cup {FileFrom("me", "peer", MyKey, op[a].got, ek, name)}
      BY <2>2
    <3>2. op[a].got \in Key /\ op[a].got \in kept \cup unwritten
      BY DEF GateTypeOK, KnownInv, Op, VaultInv, VaultTypeOK
    <3> DEFINE g == FileFrom("me", "peer", MyKey, op[a].got, ek, name)
    <3>3. FileOK(g) /\ g.senderKey = MyKey /\ g.recipientKey = op[a].got
      BY <3>2, FileFromOK DEF Party
    <3> HIDE DEF g
    <3>4. files' = files \cup {g}
      BY <3>1 DEF g
    <3> QED BY <3>2, <3>3, <3>4 DEF GateTypeOK, FilesInv
  <2> QED BY <2>1, <2>2
<1>2. GateTypeOK'
  <2>1. \A f \in files' : FileOK(f)'
    BY <1>1 DEF FileOK, FileFrom, Encapsulate, DeriveKeyAndNonce, DH, BuildFileAad
  <2> QED BY <2>1 DEF GateTypeOK, Op, OpPhase, Question, Place
<1>3. FilesInv'
  BY <1>0, <1>1 DEF FilesInv
<1>4. KnownInv'
  BY <1>0 DEF GateTypeOK, KnownInv, Op, Place, PlaceOf
<1>5. CalmInv'
  BY DEF GateTypeOK, CalmInv, View, Op, Place, PlaceOf
<1> QED BY <1>2, <1>3, <1>4, <1>5

LEMMA Abandon_Inv ==
  ASSUME IInv, NEW a \in Agent, Abandon(a),
         UNCHANGED <<vaultVars, running, registry, uploaded>>
  PROVE  GateInv'
<1> USE DEF IInv, GateInv, Abandon, SamePins, NoOp
<1>0. UNCHANGED <<kept, unwritten, served>>
  BY DEF vaultVars
<1>2. GateTypeOK'
  BY DEF GateTypeOK, Op, OpPhase, Question, Place, PlaceOf
<1>3. FilesInv'
  BY <1>0 DEF FilesInv
<1>4. KnownInv'
  BY <1>0 DEF GateTypeOK, KnownInv, Op, Place, PlaceOf
<1>5. CalmInv'
  BY DEF GateTypeOK, CalmInv, View, Op, Place, PlaceOf
<1> QED BY <1>2, <1>3, <1>4, <1>5
LEMMA AgentStep_Inv ==
  ASSUME IInv, NEW a \in Agent, AgentStep(a)
  PROVE  IInv'
<1>1. VaultInv'
  BY VaultStutters DEF IInv, AgentStep
<1>2. GateInv'
  BY LoadPins_Inv, PinAnother_Inv, FetchKey_Inv, CheckPin_Inv, WritePin_Inv, AnswerWarning_Inv,
     Gate_Inv, UseKey_Inv, Abandon_Inv DEF AgentStep
<1> QED BY <1>1, <1>2 DEF IInv

-----------------------------------------------------------------------------

LEMMA PeerStep_Inv ==
  ASSUME IInv, NEW c \in Client, PeerStep(c)
  PROVE  IInv'
<1> USE DEF PeerStep, GateInv
<1>1. VaultInv'
  BY ClientStep_Inv DEF IInv
<1>2. /\ kept \cup unwritten \subseteq kept' \cup unwritten'
      /\ kept' \cup unwritten' \subseteq Key
      /\ served' \in kept' \cup unwritten' \cup {NoKey}
  BY <1>1, KeptGrows DEF VaultInv, VaultTypeOK, StoredInv
<1>3. uploaded' \subseteq kept' \cup unwritten' /\ uploaded' \subseteq Key
  BY <1>2 DEF IInv, KnownInv
<1> HIDE DEF PeerStep
<1>4. UNCHANGED <<running, registry, pin, mem, op, calm, files>>
  BY DEF PeerStep
<1>5. GateTypeOK'
  BY <1>3, <1>4 DEF IInv, GateTypeOK
<1>6. KnownInv' /\ FilesInv'
  BY <1>2, <1>3, <1>4 DEF IInv, KnownInv, FilesInv
<1>7. CalmInv'
  BY <1>4 DEF IInv, CalmInv, View
<1> QED BY <1>1, <1>5, <1>6, <1>7 DEF IInv

LEMMA PeerSends_Inv ==
  ASSUME IInv, NEW c \in Client, PeerSends(c)
  PROVE  IInv'
<1> USE DEF IInv, GateInv
<1>1. VaultInv'
  BY VaultStutters DEF PeerSends
<1>2. UNCHANGED <<kept, unwritten, running, registry, pin, mem, op, calm, uploaded>>
  BY DEF PeerSends, vaultVars
<1>3. session[c] \in Key /\ session[c] \in kept \cup unwritten
  BY DEF PeerSends, VaultInv, VaultTypeOK, StoredInv
<1>4. PICK ek \in Ephemeral, name \in Name \cup {NoName} :
        files' = files \cup {FileFrom("peer", "me", session[c], MyKey, ek, name)}
  BY DEF PeerSends
<1> DEFINE g == FileFrom("peer", "me", session[c], MyKey, ek, name)
<1>5. FileOK(g) /\ g.senderKey = session[c] /\ g.recipientKey = MyKey
  <2> HIDE DEF IInv, GateInv
  <2>1. \A j \in Key \cup {MyKey} : FileOK(FileFrom("peer", "me", j, MyKey, ek, name))
    BY FileFromOK DEF Party
  <2>2. g.senderKey = session[c] /\ g.recipientKey = MyKey
    BY DEF FileFrom
  <2> HIDE DEF g
  <2>3. FileOK(g)
    BY <1>3, <2>1 DEF g
  <2> QED BY <2>2, <2>3
<1> HIDE DEF g
<1>6. files' = files \cup {g}
  BY <1>4 DEF g
<1>7. GateTypeOK' /\ FilesInv'
  BY <1>2, <1>3, <1>5, <1>6 DEF GateTypeOK, FilesInv
<1>8. KnownInv' /\ CalmInv'
  BY <1>2 DEF KnownInv, CalmInv, View
<1> QED BY <1>1, <1>7, <1>8

LEMMA RegistryStep_Inv ==
  ASSUME IInv, RegistryStep
  PROVE  IInv'
<1> USE DEF IInv, GateInv
<1>1. VaultInv'
  BY VaultStutters DEF RegistryStep
<1>2. UNCHANGED <<kept, unwritten, running, pin, mem, op, uploaded, files>>
  BY DEF RegistryStep, vaultVars
<1>3. calm' = [a \in Agent |-> FALSE]
  BY DEF RegistryStep
<1>4. /\ registry' \in [key : Key \cup {NoKey}, revoked : BOOLEAN]
      /\ registry'.key \in kept \cup unwritten \cup {NoKey}
      /\ registry'.revoked => registry'.key # NoKey
  <2>1. CASE \E k \in uploaded : registry' = [key |-> k, revoked |-> FALSE]
    BY <2>1 DEF GateTypeOK, KnownInv
  <2>2. CASE registry.key # NoKey /\ registry' = [registry EXCEPT !.revoked = TRUE]
    BY <2>2 DEF GateTypeOK, KnownInv
  <2> QED BY <2>1, <2>2 DEF RegistryStep
<1>5. GateTypeOK' /\ FilesInv' /\ KnownInv'
  BY <1>2, <1>3, <1>4 DEF GateTypeOK, FilesInv, KnownInv
<1>6. CalmInv'
  BY <1>3 DEF CalmInv
<1> QED BY <1>1, <1>5, <1>6

LEMMA Stutters_IInv ==
  ASSUME IInv, UNCHANGED vars
  PROVE  IInv'
<1>1. VaultInv'
  BY VaultStutters DEF IInv, vars
<1>2. GateInv'
  BY DEF vars, clientVars, vaultVars, IInv, GateInv, GateTypeOK, KnownInv, FilesInv, CalmInv, View
<1> QED BY <1>1, <1>2 DEF IInv

\* What holds of the peer's keys and of my operations, in every reachable state.
THEOREM ClientsInvariant == Spec => []IInv
<1>1. Init => IInv
  BY Init_IInv
<1>2. IInv /\ [Next]_vars => IInv'
  BY AgentStep_Inv, PeerStep_Inv, PeerSends_Inv, RegistryStep_Inv, Stutters_IInv DEF Next
<1> QED BY <1>1, <1>2, PTL DEF Spec

-----------------------------------------------------------------------------

\* Every variable of the two correspondents keeps its type, and a file stays
\* what it was sealed as.
THEOREM ClientsTypeCorrect == Spec => []TypeOK
<1>1. IInv => TypeOK
  BY DEF IInv, VaultInv, VaultTypeOK, GateInv, GateTypeOK, FileOK, TypeOK
<1> QED BY <1>1, ClientsInvariant, PTL

\* A key reaches the server, the registry, a pin, a session or a file only after
\* its private half was stored on a device (auth.js:79-80, main.cpp:322-331), or
\* after a vault file opened and its write failed unnoticed (KeyVault.cpp:96).
THEOREM KeysStoredFirst == Spec => []KeysAreStoredFirst
<1>1. IInv => KeysAreStoredFirst
  BY DEF IInv, VaultInv, StoredInv, GateInv, KnownInv, FilesInv, KeysAreStoredFirst
<1> QED BY <1>1, ClientsInvariant, PTL

\* Without a mishap the private half of the served key is on some device, or its
\* user was told, and a session works with its device's key (files.js:304-442,
\* main.cpp:317-415), but for a vault file that came out broken unnoticed
\* (KeyVault.cpp:96).
THEOREM VaultsKept == Spec => []VaultsAreKept
<1>1. ASSUME IInv PROVE VaultsAreKept
  <2> SUFFICES ASSUME ~mishap
               PROVE  /\ served = NoKey \/ served \in Held \cup announced \cup unwritten
                      /\ \A c \in Client : session[c] # NoKey =>
                           \/ vault[Home[c]] = Wrapped(session[c])
                           \/ vault[Home[c]] = Broken /\ session[c] \in unwritten
    BY DEF VaultsAreKept
  <2>1. FirmInv /\ SessionInv
    BY <1>1 DEF IInv, VaultInv, CalmVault
  <2>2. \A d \in Device : FirmAt(d, served) => served \in Held
    BY DEF FirmAt, Held, Wrapped, Legacy
  <2> QED BY <2>1, <2>2 DEF FirmInv, SessionInv, Holds
<1> QED BY <1>1, ClientsInvariant, PTL

\* An operation uses the key that is pinned; if the node answered, it encrypts
\* under no revoked key, and uses one that the registry contradicts only if I was
\* told; unless pin or registry changed meanwhile (files.js:463-585,
\* main.cpp:150-288).
THEOREM CalmUse == Spec => []CalmUseIsAgreed
<1>1. IInv => CalmUseIsAgreed
  BY DEF IInv, GateInv, CalmInv, CalmUseIsAgreed
<1> QED BY <1>1, ClientsInvariant, PTL

\* A file opens exactly for the keys, the parties and the name it was sealed for
\* (hpke.py:452-466), whatever the keys and the names are.
THEOREM SealedFilesOpen == Spec => []OpensExactlyAsSealed
<1>1. ASSUME TypeOK PROVE OpensExactlyAsSealed
  <2> SUFFICES ASSUME NEW f \in files, NEW r \in Key \cup {MyKey}, NEW s \in Key \cup {MyKey},
                      NEW sender \in Party, NEW n \in Name \cup {NoName, EmptyName}
               PROVE  Decapsulate(r, s, f.sealed, BuildFileAad(sender, f.recipient, n)) # Failed <=>
                        /\ r = f.recipientKey /\ s = f.senderKey
                        /\ sender = f.sender
                        /\ n = f.filename \/ {n, f.filename} = {NoName, EmptyName}
    BY DEF OpensExactlyAsSealed
  <2> DEFINE aad == BuildFileAad(sender, f.recipient, n)
             bound == BuildFileAad(f.sender, f.recipient, f.filename)
             ek == f.sealed.enc
  <2>1. f.sealed = Encapsulate(f.recipientKey, f.senderKey, ek, "plaintext", bound)
    <3>1. f = FileFrom(f.sender, f.recipient, f.senderKey, f.recipientKey, ek, f.filename)
      BY <1>1 DEF TypeOK
    <3> QED BY <3>1 DEF FileFrom
  <2>2. ek # r
    BY <1>1, KeysAssumption DEF TypeOK
  <2> HIDE DEF aad, bound, ek
  <2>3. Decapsulate(r, s, f.sealed, aad) # Failed
          <=> r = f.recipientKey /\ s = f.senderKey /\ aad = bound
    BY <2>1, <2>2, OpensOnlyAsSealed, FailedAssumption
  <2>4. aad = bound <=> sender = f.sender
                          /\ (n = f.filename \/ {n, f.filename} = {NoName, EmptyName})
    BY SameAad, NameAssumption DEF aad, bound
  <2> QED BY <2>3, <2>4 DEF aad
<1> QED BY <1>1, ClientsTypeCorrect, PTL

\* Who changes a pin was asked, or looked before.
LEMMA PinStep ==
  IInv /\ [Next]_vars =>
    [\A s \in Place : pin[s] # NoKey /\ pin'[s] # pin[s] =>
       \E a \in Agent : /\ PlaceOf(a) = s
                        /\ \/ op[a].pc \in {"warn", "pin"}
                           \/ a \notin Tab /\ mem[a] # pin[s]]_vars
<1> DEFINE Consent == \A s \in Place : pin[s] # NoKey /\ pin'[s] # pin[s] =>
                        \E a \in Agent : /\ PlaceOf(a) = s
                                         /\ \/ op[a].pc \in {"warn", "pin"}
                                            \/ a \notin Tab /\ mem[a] # pin[s]
<1>1. ASSUME IInv, [Next]_vars PROVE [Consent]_vars
  <2>1. CASE pin' = pin
    BY <2>1
  <2>2. ASSUME NEW a \in Agent, AgentStep(a), pin' # pin PROVE Consent
    <3> SUFFICES ASSUME NEW s \in Place, pin[s] # NoKey, pin'[s] # pin[s]
                 PROVE  /\ PlaceOf(a) = s
                        /\ \/ op[a].pc \in {"warn", "pin"}
                           \/ a \notin Tab /\ mem[a] # pin[s]
      OBVIOUS
    <3> USE <1>1 DEF IInv, GateInv, GateTypeOK, PlaceOf
    <3>1. CASE PinAnother(a)
      BY <3>1 DEF PinAnother, SavePins
    <3>2. CASE CheckPin(a)
      <4>1. ~SamePins
        BY <2>2 DEF SamePins
      <4>2. View(a) = NoKey /\ a \notin Tab /\ SetPin(a, op[a].got)
        BY <3>2, <4>1 DEF CheckPin
      <4> QED BY <4>2 DEF SetPin, SavePins, View
    <3>3. CASE WritePin(a)
      BY <3>3 DEF WritePin, SetPin, SavePins, Advance
    <3>4. CASE AnswerWarning(a)
      BY <2>2, <3>4 DEF AnswerWarning, SetPin, SavePins, Advance, SamePins
    <3>5. CASE UNCHANGED pin
      BY <2>2, <3>5
    <3> QED BY <2>2, <3>1, <3>2, <3>3, <3>4, <3>5
          DEF AgentStep, FetchKey, LoadPins, Gate, UseKey, Abandon, SamePins
  <2>3. UNCHANGED vars \/ RegistryStep \/ (\E c \in Client : PeerStep(c) \/ PeerSends(c)) => pin' = pin
    BY DEF vars, clientVars, RegistryStep, PeerStep, PeerSends
  <2> QED BY <1>1, <2>1, <2>2, <2>3 DEF Next
<1> QED BY <1>1

\* A pin is replaced only by somebody who was asked, or who looked before it was
\* there (crypto.js:303-304).
THEOREM PinsByConsent == Spec => PinsChangeByConsent
<1>1. IInv /\ [Next]_vars =>
        [\A s \in Place : pin[s] # NoKey /\ pin'[s] # pin[s] =>
           \E a \in Agent : /\ PlaceOf(a) = s
                            /\ \/ op[a].pc \in {"warn", "pin"}
                               \/ a \notin Tab /\ mem[a] # pin[s]]_vars
  BY PinStep
<1> QED
  BY <1>1, ClientsInvariant, PTL DEF Spec, PinsChangeByConsent
=============================================================================
