------------------------------ MODULE Clients ------------------------------
(***************************************************************************)
(* Two correspondents.  The peer is the user of module Vault, whose keys   *)
(* come and go.  I run the trust gate of both clients, getVerifiedPeerKey  *)
(* and chainGate of files.js with the pins of crypto.js, and               *)
(* get_verified_peer_key and chain_gate of main.cpp with PinStore.cpp,     *)
(* before I seal a file for the peer or open one; my own key stays.        *)
(*                                                                         *)
(* My tabs share the pins of IndexedDB.  Each C++ process reads the pin    *)
(* file once, at login, and writes all of its map whenever it pins; the    *)
(* write may fail, which changes nothing for the process.                  *)
(***************************************************************************)
EXTENDS Vault, Hpke

CONSTANTS
  Agent,       \* the tabs and processes I work in
  Tab,         \* those that are tabs of my browser
  MyKey,       \* my key pair
  Name,        \* file names
  Ephemeral,   \* ephemeral key pairs
  Teams        \* the sets of tabs and processes that run together, each with the
               \* ephemeral key pairs that bound the files of the behaviour

ASSUME TabAssumption == Tab \subseteq Agent
ASSUME TeamsAssumption == Teams \subseteq SUBSET (Client \cup Agent \cup Ephemeral)
ASSUME KeysAssumption ==
  MyKey \notin Key \cup {NoKey} /\ Ephemeral \cap (Key \cup {MyKey, NoKey}) = {}
ASSUME NameAssumption == NoName \notin Name \cup {EmptyName}
ASSUME FailedAssumption == Failed # "plaintext"

VARIABLES
  running,   \* the team of this behaviour
  registry,  \* the peer's record in KeyRegistry, as the node I ask shows it
  pin,       \* the peer's pin in my browser and in my machine's file, as last written whole
  mem,       \* mem[a]: the peer's pin in process a's map
  op,        \* op[a]: the operation a is at
  calm,      \* history: calm[a]: pin and registry stayed as they were since it began
  uploaded,  \* history: the keys that the server ever served
  files      \* the files that were sent

clientVars == <<running, registry, pin, mem, op, calm, uploaded, files>>
vars == <<vaultVars, clientVars>>

Unregistered == [key |-> NoKey, revoked |-> FALSE]
NoOp == [pc |-> "idle", mode |-> "none", got |-> NoKey, asked |-> "nothing"]

OpPhase == {"idle", "check", "pin", "warn", "gate", "use"}
Question == {"nothing", "unavailable", "revoked", "mismatch"}
Op == [pc : OpPhase, mode : {"none", "encrypt", "decrypt"}, got : Key \cup {NoKey},
       asked : Question]
Place == {"browser", "machine"}
Party == {"me", "peer"}

PlaceOf(a) == IF a \in Tab THEN "browser" ELSE "machine"
View(a) == IF a \in Tab THEN pin["browser"] ELSE mem[a]

Init ==
  /\ VaultInit
  /\ running \in Teams
  /\ registry = Unregistered
  /\ pin = [s \in Place |-> NoKey]
  /\ mem = [a \in Agent |-> NoKey]
  /\ op = [a \in Agent |-> NoOp]
  /\ calm = [a \in Agent |-> TRUE]
  /\ uploaded = {served} \ {NoKey}
  /\ files = {}

-----------------------------------------------------------------------------

Advance(a, from, to) == op[a].pc = from /\ op' = [op EXCEPT ![a].pc = to]
End(a, from) == op[a].pc = from /\ op' = [op EXCEPT ![a] = NoOp]

\* PinStore::save: the file may not open, which is warned of, and the write to it
\* may fail unnoticed; nobody can load a file that was cut short, until the next
\* save.
SavePins(k) == pin' \in {pin, [pin EXCEPT !["machine"] = k]}

\* a pins k, which disturbs the other tabs.
SetPin(a, k) ==
  /\ IF a \in Tab
     THEN pin' = [pin EXCEPT !["browser"] = k] /\ UNCHANGED mem
     ELSE SavePins(k) /\ mem' = [mem EXCEPT ![a] = k]
  /\ calm' = [b \in Agent |-> calm[b] /\ (a \in Tab /\ b \in Tab => b = a)]

SamePins == UNCHANGED <<pin, mem, calm>>

\* do_login: PinStore reads its file; over one it cannot read it refuses to start.
LoadPins(a) ==
  /\ a \notin Tab /\ op[a].pc = "idle" /\ mem[a] # pin["machine"]
  /\ mem' = [mem EXCEPT ![a] = pin["machine"]]
  /\ UNCHANGED <<pin, calm, op, files>>

\* A pin for somebody else: the file becomes this process's map.
PinAnother(a) ==
  /\ a \notin Tab /\ op[a].pc = "idle" /\ mem[a] # pin["machine"]
  /\ SavePins(mem[a])
  /\ UNCHANGED <<mem, calm, op, files>>

\* GET /users/{peer}.
FetchKey(a, mode) ==
  /\ op[a].pc = "idle" /\ served # NoKey
  /\ op' = [op EXCEPT ![a] = [pc |-> "check", mode |-> mode, got |-> served, asked |-> "nothing"]]
  /\ calm' = [calm EXCEPT ![a] = TRUE]
  /\ UNCHANGED <<pin, mem, files>>

\* Slip: a changed key is pinned without asking.
CheckPin_TrustsChange(a) ==
  /\ Advance(a, "check", "gate")
  /\ SetPin(a, op[a].got)
  /\ UNCHANGED files

\* checkTofuPin reads in one transaction and pins in another; a process pins
\* at once.
CheckPin(a) ==
  /\ CASE View(a) = op[a].got -> Advance(a, "check", "gate") /\ SamePins
       [] View(a) # NoKey /\ View(a) # op[a].got -> Advance(a, "check", "warn") /\ SamePins
       [] View(a) = NoKey /\ a \in Tab -> Advance(a, "check", "pin") /\ SamePins
       [] OTHER -> Advance(a, "check", "gate") /\ SetPin(a, op[a].got)
  /\ UNCHANGED files

WritePin(a) ==
  /\ Advance(a, "pin", "gate")
  /\ SetPin(a, op[a].got)
  /\ UNCHANGED files

\* "trust new key", or not.
AnswerWarning(a) ==
  /\ \/ Advance(a, "warn", "gate") /\ SetPin(a, op[a].got)
     \/ End(a, "warn") /\ SamePins
  /\ UNCHANGED files

\* Slip: a revocation may be overridden before encrypting too.
Questions_RevokedOverride(a) ==
  {"unavailable"} \cup
  (IF registry.key = NoKey THEN {"nothing"}
   ELSE IF registry.revoked THEN {"revoked"}
   ELSE IF registry.key # op[a].got THEN {"mismatch"}
   ELSE {"nothing"})

\* What I may be asked before the operation goes on: the node may fail to answer; a
\* peer without a record is let through; a revocation can be overridden before
\* decrypting and blocks encryption outright; another key can be overridden.
Questions(a) ==
  {"unavailable"} \cup
  (IF registry.key = NoKey THEN {"nothing"}
   ELSE IF registry.revoked THEN (IF op[a].mode = "encrypt" THEN {} ELSE {"revoked"})
   ELSE IF registry.key # op[a].got THEN {"mismatch"}
   ELSE {"nothing"})

\* I go on, or I am blocked or decline.
Gate(a) ==
  /\ \/ /\ op[a].pc = "gate"
        /\ \E q \in Questions(a) : op' = [op EXCEPT ![a].pc = "use", ![a].asked = q]
     \/ End(a, "gate")
  /\ SamePins /\ UNCHANGED files

FileFrom(sender, recipient, senderKey, recipientKey, ek, name) ==
  [sender |-> sender, recipient |-> recipient, filename |-> name,
   senderKey |-> senderKey, recipientKey |-> recipientKey,
   sealed |-> Encapsulate(recipientKey, senderKey, ek, "plaintext",
                          BuildFileAad(sender, recipient, name))]

Unused(ek) == ek \in running /\ \A f \in files : f.sealed.enc # ek

\* handleUpload, handleShare, do_upload, do_share; a download ends here.
UseKey(a) ==
  /\ End(a, "use")
  /\ IF op[a].mode = "encrypt"
     THEN \E ek \in Ephemeral, name \in Name \cup {NoName} :
            /\ Unused(ek)
            /\ files' = files \cup {FileFrom("me", "peer", MyKey, op[a].got, ek, name)}
     ELSE UNCHANGED files
  /\ SamePins

\* An operation that fails, or its tab or process.
Abandon(a) ==
  /\ op[a].pc # "idle"
  /\ op' = [op EXCEPT ![a] = NoOp]
  /\ SamePins /\ UNCHANGED files

AgentStep(a) ==
  /\ \/ \E mode \in {"encrypt", "decrypt"} : FetchKey(a, mode)
     \/ LoadPins(a) \/ PinAnother(a) \/ CheckPin(a) \/ WritePin(a) \/ AnswerWarning(a)
     \/ Gate(a) \/ UseKey(a) \/ Abandon(a)
  /\ UNCHANGED <<vaultVars, running, registry, uploaded>>

-----------------------------------------------------------------------------

PeerStep(c) ==
  /\ ClientStep(c)
  /\ uploaded' = uploaded \cup ({served'} \ {NoKey})
  /\ UNCHANGED <<running, registry, pin, mem, op, calm, files>>

\* The peer seals a file for me under the key of a session.
PeerSends(c) ==
  /\ session[c] # NoKey /\ pc[c] = "idle"
  /\ \E ek \in Ephemeral, name \in Name \cup {NoName} :
       /\ Unused(ek)
       /\ files' = files \cup {FileFrom("peer", "me", session[c], MyKey, ek, name)}
  /\ UNCHANGED <<vaultVars, running, registry, pin, mem, op, calm, uploaded>>

\* A registration or rotation, of whichever upload, reaches the registry, or the
\* registrar revokes (KeyRegistration, KeyRegistry).
RegistryStep ==
  /\ \/ \E k \in uploaded : k # registry.key /\ registry' = [key |-> k, revoked |-> FALSE]
     \/ /\ registry.key # NoKey /\ ~registry.revoked
        /\ registry' = [registry EXCEPT !.revoked = TRUE]
  /\ calm' = [a \in Agent |-> FALSE]
  /\ UNCHANGED <<vaultVars, running, pin, mem, op, uploaded, files>>

Next ==
  \/ \E c \in Client \cap running : PeerStep(c) \/ PeerSends(c)
  \/ \E a \in Agent \cap running : AgentStep(a)
  \/ RegistryStep

Spec == Init /\ [][Next]_vars

-----------------------------------------------------------------------------

TypeOK ==
  /\ vault \in [Device -> [kind : {"none", "wrapped", "legacy", "broken"}, key : Key \cup {NoKey}]]
  /\ jwk \in [Device -> Key \cup {NoKey}]
  /\ account \in BOOLEAN /\ mishap \in BOOLEAN
  /\ served \in Key \cup {NoKey}
  /\ pc \in [Client -> Phase]
  /\ inflight \in [Client -> Key \cup {NoKey}]
  /\ session \in [Client -> Key \cup {NoKey}]
  /\ kept \subseteq Key /\ announced \subseteq Key /\ unwritten \subseteq Key
  /\ uploaded \subseteq Key
  /\ running \subseteq Client \cup Agent \cup Ephemeral
  /\ registry \in [key : Key \cup {NoKey}, revoked : BOOLEAN]
  /\ pin \in [Place -> Key \cup {NoKey}]
  /\ mem \in [Agent -> Key \cup {NoKey}]
  /\ op \in [Agent -> Op]
  /\ calm \in [Agent -> BOOLEAN]
  /\ \A f \in files :
       /\ f.sender \in Party /\ f.recipient \in Party /\ f.filename \in Name \cup {NoName}
       /\ {f.senderKey, f.recipientKey} \subseteq Key \cup {MyKey} /\ f.sealed.enc \in Ephemeral
       /\ f = FileFrom(f.sender, f.recipient, f.senderKey, f.recipientKey, f.sealed.enc, f.filename)

\* A key is stored on a device of its user before anybody else comes to see it:
\* no key that the server serves, the registry holds, a correspondent pins, a
\* session works with or a file is sealed under was ever in memory only
\* (auth.js:79-80; KeyVault::create before the upload, main.cpp:322-331).  There
\* is one exception, which main.cpp:371-373 denies: a vault file that opened and
\* whose write failed, which KeyVault.cpp:96 does not look at.
KeysAreStoredFirst ==
  {served, registry.key} \cup {session[c] : c \in Client} \cup {pin[s] : s \in Place}
    \cup {op[a].got : a \in Agent} \cup {f.senderKey : f \in files}
    \cup {f.recipientKey : f \in files}
  \subseteq kept \cup unwritten \cup {NoKey, MyKey}

\* Unless an answer was lost, an account or a vault was registered over, or two
\* clients set up one vault at a time, the private half of the key the server
\* serves is on some device, or its user was told that it would go, or it went
\* with a vault file whose write failed unnoticed; and what a session works with
\* is what its device's vault holds, or holds broken (files.js:304-442,
\* auth.js:74-103, main.cpp:317-415, KeyVault.cpp:91-105).
VaultsAreKept ==
  ~mishap =>
    /\ served = NoKey \/ served \in Held \cup announced \cup unwritten
    /\ \A c \in Client : session[c] # NoKey =>
         \/ vault[Home[c]] = Wrapped(session[c])
         \/ vault[Home[c]] = Broken /\ session[c] \in unwritten

\* Unless pin or registry changed while an operation was on its way, it uses the
\* key that is pinned; and if the node answered, nothing is encrypted under a
\* revoked key, whatever I say, nothing is decrypted under one without my saying
\* so, and a key that the registry contradicts is used only if I was told
\* (files.js:463-585, main.cpp:150-288).
CalmUseIsAgreed ==
  \A a \in Agent : op[a].pc = "use" /\ calm[a] =>
    /\ View(a) = op[a].got
    /\ op[a].asked # "unavailable" =>
         /\ registry.revoked => op[a].mode = "decrypt" /\ op[a].asked = "revoked"
         /\ registry.key \notin {NoKey, op[a].got} => op[a].asked \in {"revoked", "mismatch"}

\* A pin is replaced only by somebody who was asked, or who looked before it
\* was there: two first contacts at a time, or a process whose map is not what
\* the file holds, because it was loaded earlier or could not be written ("must
\* hard-block on mismatch and only proceed after an explicit, informed user
\* override", crypto.js:303-304).
PinsChangeByConsent ==
  [][\A s \in Place : pin[s] # NoKey /\ pin'[s] # pin[s] =>
       \E a \in Agent : /\ PlaceOf(a) = s
                        /\ \/ op[a].pc \in {"warn", "pin"}
                           \/ a \notin Tab /\ mem[a] # pin[s]]_vars

\* A file opens under its recipient's key, with the key of its sender, for the two
\* parties and the name it was sealed for, and under nothing else: an older
\* or newer key, a renamed file or a file said to be somebody else's fails
\* (hpke.py:452-466; an absent name counts as the empty one, hpke.py:259-261).
OpensExactlyAsSealed ==
  \A f \in files, r, s \in Key \cup {MyKey}, sender \in Party,
     n \in Name \cup {NoName, EmptyName} :
    LET aad == BuildFileAad(sender, f.recipient, n) IN
    (Decapsulate(r, s, f.sealed, aad) # Failed) <=>
      /\ r = f.recipientKey /\ s = f.senderKey
      /\ sender = f.sender
      /\ n = f.filename \/ {n, f.filename} = {NoName, EmptyName}

\* A record is deleted in the "legacy-upgrade flow only - the caller must have
\* informed the user that files encrypted to the old key become unreadable"
\* (deleteKeyPair, crypto.js:252-253), and no account is left whose "key was
\* never persisted" (auth.js:79-80): with every client at rest, an account whose
\* public key is served has a private key on some device, unless its user was
\* told that it would go or its vault file came out broken.
NoAccountWithoutKey ==
  served # NoKey /\ (\A c \in Client : pc[c] = "idle") =>
    Held # {NoKey} \/ served \in announced \cup unwritten
=============================================================================
