------------------------------- MODULE Vault -------------------------------
(***************************************************************************)
(* The life of one user's private keys: the vault on each device (crypto.js*)
(* and files.js in a browser, KeyVault.cpp and main.cpp on a machine), the *)
(* sessions that unlocked it, and the public key the server serves.        *)
(*                                                                         *)
(* Several tabs may share a browser's vault and several processes a        *)
(* machine's.  Passphrases are known to their user; giving up after a      *)
(* wrong one is Skip.  A request whose answer its client gives up was      *)
(* handled by then or never is.  A key pair is named by its public half.   *)
(***************************************************************************)
CONSTANTS
  Client,   \* the tabs and processes the user works in
  Device,   \* browser profiles and machines
  Browser,  \* the devices that are browser profiles
  Home,     \* Home[c]: the device c runs on
  Key,      \* key pairs
  NoKey

ASSUME HomeAssumption == Home \in [Client -> Device]
ASSUME NoKeyAssumption == NoKey \notin Key

VARIABLES
  vault,     \* vault[d]: the record in IndexedDB, or vault.json
  jwk,       \* jwk[d]: a private key an older version left in localStorage
  account,   \* whether the account exists
  served,    \* users.public_key
  pc,        \* where client c stands
  inflight,  \* the key c has made and not taken into its session
  session,   \* sessionKey, sess.keypair
  \* history
  kept,      \* the keys that were ever stored on a device
  announced, \* the keys whose loss the dialog told the user of
  unwritten, \* the keys whose vault file came out broken without anybody noticing
  mishap     \* a lost answer, a registration of an account or over a record that
             \* exists, or two clients at one vault

vaultVars ==
  <<vault, jwk, account, served, pc, inflight, session, kept, announced, unwritten, mishap>>

NoRecord == [kind |-> "none", key |-> NoKey]
Wrapped(k) == [kind |-> "wrapped", key |-> k]
Legacy(k) == [kind |-> "legacy", key |-> k]
Broken == [kind |-> "broken", key |-> NoKey]

Phase == {"idle", "registering", "registered", "refused", "unlock", "migrate", "create",
          "publishing", "published", "deriving", "uploading", "crosscheck", "reupload"}

Held == {vault[d].key : d \in Device} \cup {jwk[d] : d \in Device}

\* What earlier versions may have left behind in a browser.
VaultInit ==
  /\ account \in BOOLEAN
  /\ vault \in [Device -> {NoRecord} \cup {Legacy(k) : k \in Key}]
  /\ jwk \in [Device -> Key \cup {NoKey}]
  /\ \A d \in Device : vault[d] = NoRecord \/ jwk[d] = NoKey
  /\ \A d \in Device : vault[d] # NoRecord \/ jwk[d] # NoKey => account /\ d \in Browser
  /\ served \in Held \cup {NoKey}
  /\ pc = [c \in Client |-> "idle"]
  /\ inflight = [c \in Client |-> NoKey]
  /\ session = [c \in Client |-> NoKey]
  /\ kept = Held \ {NoKey}
  /\ announced = {}
  /\ unwritten = {}
  /\ mishap = FALSE

Fresh(k) == k \notin kept \cup unwritten /\ \A c \in Client : inflight[c] # k

\* A client that starts at the vault while another one is at it.
Overlaps(c) == \E b \in Client \ {c} : Home[b] = Home[c] /\ pc[b] # "idle"

Goto(c, from, to) == pc[c] = from /\ pc' = [pc EXCEPT ![c] = to]
Forget(c) == inflight' = [inflight EXCEPT ![c] = NoKey]
Take(c, k) == session' = [session EXCEPT ![c] = k]

\* The put of IndexedDB, or the write of vault.json.
Store(d, k) ==
  /\ vault' = [vault EXCEPT ![d] = Wrapped(k)]
  /\ kept' = kept \cup {k}

-----------------------------------------------------------------------------
(* Registration in a browser: auth.js.                                     *)

\* The key is wrapped and stored before the server is asked.
RegisterSave(c, k) ==
  /\ Home[c] \in Browser /\ session[c] = NoKey /\ Fresh(k)
  /\ Goto(c, "idle", "registering")
  /\ Store(Home[c], k)
  /\ inflight' = [inflight EXCEPT ![c] = k]
  /\ mishap' = (mishap \/ account \/ vault[Home[c]] # NoRecord \/ Overlaps(c))
  /\ UNCHANGED <<jwk, account, served, session, announced, unwritten>>

\* POST /auth/register: a name that is taken is refused, as anything else may be.
RegisterAtServer(c) ==
  /\ \/ /\ ~account
        /\ Goto(c, "registering", "registered")
        /\ account' = TRUE
        /\ served' = inflight[c]
     \/ /\ Goto(c, "registering", "refused")
        /\ UNCHANGED <<account, served>>
  /\ UNCHANGED <<vault, jwk, inflight, session, kept, announced, unwritten, mishap>>

\* Slip: the record is deleted whatever the answer.
RegisterAnswer_AlwaysDeletes(c) ==
  /\ Goto(c, "registered", "idle") \/ Goto(c, "refused", "idle")
  /\ vault' = [vault EXCEPT ![Home[c]] = NoRecord]
  /\ Forget(c)
  /\ UNCHANGED <<jwk, account, served, session, kept, announced, unwritten, mishap>>

\* The record of an account that was not created is deleted.
RegisterAnswer(c) ==
  /\ \/ Goto(c, "registered", "idle") /\ UNCHANGED vault
     \/ /\ Goto(c, "refused", "idle")
        /\ vault' = [vault EXCEPT ![Home[c]] = NoRecord]
  /\ Forget(c)
  /\ UNCHANGED <<jwk, account, served, session, kept, announced, unwritten, mishap>>

\* fetch throws, before or after the server has acted; what was stored stays.
LoseAnswer(c) ==
  /\ \/ \E from \in {"registering", "registered", "refused"} : Goto(c, from, "idle")
     \/ Goto(c, "published", "create")
  /\ Forget(c)
  /\ mishap' = TRUE
  /\ UNCHANGED <<vault, jwk, account, served, session, kept, announced, unwritten>>

-----------------------------------------------------------------------------
(* The vault dialog in a browser: ensureVault.  Its mode is fixed when it  *)
(* opens; an upgrade is a creation over a legacy record.                   *)

OpenVault(c) ==
  /\ Home[c] \in Browser /\ session[c] = NoKey /\ account
  /\ Goto(c, "idle",
          IF vault[Home[c]].kind = "wrapped" THEN "unlock"
          ELSE IF vault[Home[c]] = NoRecord /\ jwk[Home[c]] # NoKey THEN "migrate"
          ELSE "create")
  /\ mishap' = (mishap \/ Overlaps(c))
  /\ UNCHANGED <<vault, jwk, account, served, inflight, session, kept, announced, unwritten>>

Skip(c) ==
  /\ \E from \in {"unlock", "migrate", "create"} : Goto(c, from, "idle")
  /\ UNCHANGED <<vault, jwk, account, served, inflight, session, kept, announced, unwritten, mishap>>

Unlock(c) ==
  /\ vault[Home[c]].kind = "wrapped"
  /\ Goto(c, "unlock", "idle")
  /\ Take(c, vault[Home[c]].key)
  /\ UNCHANGED <<vault, jwk, account, served, inflight, kept, announced, unwritten, mishap>>

\* Slip: the entry is read after it was removed.
Migrate_RemovesFirst(c) ==
  /\ Goto(c, "migrate", "idle")
  /\ jwk' = [jwk EXCEPT ![Home[c]] = NoKey]
  /\ Store(Home[c], jwk'[Home[c]])
  /\ Take(c, jwk'[Home[c]])
  /\ UNCHANGED <<account, served, inflight, announced, unwritten, mishap>>

\* The entry in localStorage goes whether or not its key could be stored; if it
\* could not, the dialog stays and says that the key is unusable.  A tab closed
\* between the put and the removal leaves both.
Migrate(c) ==
  /\ jwk[Home[c]] # NoKey
  /\ \/ /\ Goto(c, "migrate", "idle")
        /\ Store(Home[c], jwk[Home[c]])
        /\ jwk' = [jwk EXCEPT ![Home[c]] = NoKey]
        /\ Take(c, jwk[Home[c]])
        /\ UNCHANGED announced
     \/ /\ Goto(c, "migrate", "migrate")
        /\ jwk' = [jwk EXCEPT ![Home[c]] = NoKey]
        /\ announced' = announced \cup {jwk[Home[c]]}
        /\ UNCHANGED <<vault, kept, session>>
     \/ /\ Goto(c, "migrate", "idle")
        /\ Store(Home[c], jwk[Home[c]])
        /\ UNCHANGED <<jwk, session, announced>>
  /\ UNCHANGED <<account, served, inflight, unwritten, mishap>>

CreateSave(c, k) ==
  /\ Fresh(k)
  /\ Goto(c, "create", "publishing")
  /\ Store(Home[c], k)
  /\ inflight' = [inflight EXCEPT ![c] = k]
  /\ announced' = IF vault[Home[c]].kind = "legacy"
                  THEN announced \cup {vault[Home[c]].key} ELSE announced
  /\ UNCHANGED <<jwk, account, served, session, unwritten, mishap>>

\* POST /users/keys; if it fails the dialog stays, and another submit makes
\* another key.
Publish(c) ==
  /\ \/ /\ Goto(c, "publishing", "published")
        /\ served' = inflight[c]
        /\ UNCHANGED inflight
     \/ /\ Goto(c, "publishing", "create")
        /\ Forget(c)
        /\ UNCHANGED served
  /\ UNCHANGED <<vault, jwk, account, session, kept, announced, unwritten, mishap>>

\* The session key is read back from the record, which another tab may have
\* replaced, under the same passphrase or another.
CreateAnswer(c) ==
  /\ \/ /\ vault[Home[c]].kind = "wrapped"
        /\ Goto(c, "published", "idle")
        /\ Take(c, vault[Home[c]].key)
     \/ /\ vault[Home[c]] # Wrapped(inflight[c])
        /\ Goto(c, "published", "create")
        /\ UNCHANGED session
  /\ Forget(c)
  /\ UNCHANGED <<vault, jwk, account, served, kept, announced, unwritten, mishap>>

-----------------------------------------------------------------------------
(* Key set-up on a machine: setup_keys of main.cpp.                        *)

UnlockVault(c) ==
  /\ Home[c] \notin Browser /\ session[c] = NoKey /\ account
  /\ vault[Home[c]].kind = "wrapped"
  /\ Goto(c, "idle", "crosscheck")
  /\ Take(c, vault[Home[c]].key)
  /\ UNCHANGED <<vault, jwk, account, served, inflight, kept, announced, unwritten, mishap>>

\* A key the server does not have is offered for upload only if the server has
\* another one; the look-up may fail.
CrossCheck(c) ==
  /\ \/ /\ served \notin {NoKey, session[c]}
        /\ Goto(c, "crosscheck", "reupload")
     \/ Goto(c, "crosscheck", "idle")
  /\ UNCHANGED <<vault, jwk, account, served, inflight, session, kept, announced, unwritten, mishap>>

Reupload(c) ==
  /\ Goto(c, "reupload", "idle")
  /\ served' \in {served, session[c]}
  /\ UNCHANGED <<vault, jwk, account, inflight, session, kept, announced, unwritten, mishap>>

\* Generate, or import a key the user has elsewhere; vault.create finds no file.
NewKey(c, k) ==
  /\ Home[c] \notin Browser /\ session[c] = NoKey /\ account
  /\ vault[Home[c]] = NoRecord
  /\ Fresh(k) \/ k \in kept
  /\ Goto(c, "idle", "deriving")
  /\ inflight' = [inflight EXCEPT ![c] = k]
  /\ mishap' = (mishap \/ Overlaps(c))
  /\ UNCHANGED <<vault, jwk, account, served, session, kept, announced, unwritten>>

\* Slip: create reports success although the file could not be opened.
WriteVault_Unwritten(c) ==
  /\ Goto(c, "deriving", "uploading")
  /\ UNCHANGED <<vault, jwk, account, served, inflight, session, kept, announced, unwritten, mishap>>

\* The file is written when Argon2id is done, without another look at it.  A key
\* is discarded if Argon2id ran out of memory or the file cannot be opened; from
\* there on create reports success, whatever became of the write.
WriteVault(c) ==
  /\ \/ /\ Goto(c, "deriving", "uploading")
        /\ Store(Home[c], inflight[c])
        /\ UNCHANGED <<inflight, unwritten>>
     \/ /\ Goto(c, "deriving", "uploading")
        /\ vault' = [vault EXCEPT ![Home[c]] = Broken]
        /\ unwritten' = unwritten \cup {inflight[c]}
        /\ UNCHANGED <<inflight, kept>>
     \/ /\ Goto(c, "deriving", "idle")
        /\ Forget(c)
        /\ UNCHANGED <<vault, kept, unwritten>>
  /\ UNCHANGED <<jwk, account, served, session, announced, mishap>>

\* The process is gone between the truncation of the file and the end of the
\* write.  From then on there is a vault, and it does not unlock.
DieWriting(c) ==
  /\ Goto(c, "deriving", "idle")
  /\ vault' = [vault EXCEPT ![Home[c]] = Broken]
  /\ Forget(c)
  /\ UNCHANGED <<jwk, account, served, session, kept, announced, unwritten, mishap>>

\* The key enters the session whether or not it could be published.
UploadPublicKey(c) ==
  /\ Goto(c, "uploading", "idle")
  /\ served' \in {served, inflight[c]}
  /\ Take(c, inflight[c])
  /\ Forget(c)
  /\ UNCHANGED <<vault, jwk, account, kept, announced, unwritten, mishap>>

-----------------------------------------------------------------------------

\* The account is made keyless by a machine.
RegisterUser(c) ==
  /\ Home[c] \notin Browser /\ pc[c] = "idle" /\ ~account
  /\ account' = TRUE
  /\ UNCHANGED <<vault, jwk, served, pc, inflight, session, kept, announced, unwritten, mishap>>

\* Logout, the page closed or reloaded, the process gone, wherever it stood.
Stop(c) ==
  /\ pc[c] # "idle" \/ session[c] # NoKey
  /\ pc' = [pc EXCEPT ![c] = "idle"]
  /\ Take(c, NoKey)
  /\ Forget(c)
  /\ UNCHANGED <<vault, jwk, account, served, kept, announced, unwritten, mishap>>

ClientStep(c) ==
  \/ \E k \in Key : RegisterSave(c, k) \/ CreateSave(c, k) \/ NewKey(c, k)
  \/ RegisterAtServer(c) \/ RegisterAnswer(c) \/ LoseAnswer(c)
  \/ OpenVault(c) \/ Skip(c) \/ Unlock(c) \/ Migrate(c) \/ Publish(c) \/ CreateAnswer(c)
  \/ UnlockVault(c) \/ CrossCheck(c) \/ Reupload(c) \/ WriteVault(c) \/ DieWriting(c)
  \/ UploadPublicKey(c) \/ RegisterUser(c) \/ Stop(c)
=============================================================================
