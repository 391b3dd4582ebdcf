# Secure Mailbox: a TLA+ model of its protocols

Secure Mailbox is a FastAPI server (`src/backend`) that stores end-to-end
encrypted files, two clients (`src/cpp-client`, `src/web-client`) that hold the
keys, and three Ethereum contracts (`src/blockchain/contracts`) to which the
server posts evidence from background threads.  This directory models the parts
of it whose correctness depends on the order of events: threads sharing one
wallet, a chain that answers late or with an old state, processes that restart,
requests that overlap.  All definitions are translated from the source; every
module says which functions it stands for, and `PROJECT.json` gives the lines.

## 1. Inventory

### Server

| Component | State it keeps | Operations | Correct when |
|---|---|---|---|
| Shared wallet, `blockchain/_send_lock.py` and its three callers | `SEND_LOCK`, `_next_nonce` (process memory, 120 s TTL) | `allocate_nonce`, `advance_nonce`, each called inside `with SEND_LOCK` by `record_message_digest`, `post_receipt`, `registry._send` | no two live transactions of the process hold one nonce; every send ends |
| Key registration, `routers/auth.py`, `routers/users.py`, `blockchain/registry.py` | `users.public_key`, `users.eth_key_tx` | `register`, `upload_public_key`, the thread `submit_key_registration_background` | the row names only transactions that executed; the contract gets only keys the server held; the two converge |
| File evidence, `routers/files.py`, `blockchain/contract.py`, `blockchain/receipts.py` | `blockchain_records.eth_tx_hash`, `files.receipt_tx_hash` | `_submit_to_chain`, `_submit_receipt`, one thread each per uploaded or shared file | what a row says of its evidence is so |
| Audit-log hash chain, `routers/files.py` `_append_blockchain_record` | `blockchain_records` (`previous_hash`, `block_hash`) | append within the transaction of upload and share | each record links to its predecessor |
| Files API, `routers/files.py` | `files`, `file_access` | upload, list inbox and sent, download, share, delete, revoke, proof | only sender and recipients reach a file; a revoked access does not come back |
| Authentication, `routers/auth.py`, `dependencies.py` | `users.password_hash`, `sessions`, login attempts | register, login with rehash, logout, change password | a password change ends the old sessions and the old password |
| Schemas, hashing, HPKE, application shell | none | pure functions and wiring | |

### Contracts

| Component | State | Transactions | Correct when |
|---|---|---|---|
| `KeyRegistry.sol` | `registrar`, `_keys`, the event log | `registerKey`, `rotateKey`, `revokeKey`, `transferRegistrar` | versions count up, the log explains the state, a revocation is lifted only by a new key |
| `MessageDigest.sol` | `owner`, `_digests`, `_hashToIndex` | `recordHash`, `transferOwnership` | mapping and array are inverse; entries stay |
| `MessageReceipt.sol` | `server`, `_receipts`, the event log | `postReceipt`, `transferServer` | one receipt per hash, never changed |

### Clients

Both clients keep a vault (the wrapped private key), a store of pinned public
keys, and decide before each encryption and decryption whether the key the server hands
them is the pinned one and the one in `KeyRegistry`.  The C++ client does it in
`main.cpp`, `KeyVault.cpp`, `PinStore.cpp` and `Chain.cpp`, the web client, with
asynchronous steps and IndexedDB, in `js/auth.js`, `js/files.js`,
`js/crypto.js` and `js/chain.js`.  Several tabs share one browser's vault and
pins, and several processes one machine's files; none of them locks anything.
Writes to the disk may fail, and the C++ client checks that a file opened, not that it
was written.  A client is correct when no private key is lost without a word, no file is
sealed under a key that its user had reason to doubt and was not told of, and a
file opens for exactly whom it was sealed.  `verify.js` and `verify-key.js` only read.

### How the parts interact

A request commits its row and then starts daemon threads (`files.py:526`,
`users.py:208`, `auth.py:186`); from there request and thread share nothing but
the database and the wallet.  A thread reads the pending count from a
load-balanced RPC endpoint, signs, broadcasts, waits at most 120 s for the
receipt, and writes the transaction's hash in a session of its own.  Nothing
repeats a thread that failed or died with its process.

The hard behaviours follow from that: two threads in the window between reading a
nonce and broadcasting; a node that has not seen what another node accepted; a
broadcast accepted whose answer is lost; a transaction dropped from the mempool
below others; a receipt that comes after the thread gave up; a restart between
the commit and the threads; overlapping uploads that read the same contract state;
hashes stored in another order than the transactions executed.

Handlers interleave at their database statements: a login takes 300 ms to hash
between what it read and what it writes, and a registration as long between its
checks and its insert.  In the clients it is a key that exists in one place
before it exists in the next, answers that are lost in between, and two tabs or
processes at one store.  `PROJECT.json` lists each as a hazard at its line, with
the properties that cover it.

## 2. Modules

| Module | Models | Composes |
|---|---|---|
| `SendLock` | the lock, the allocator, its callers' send, the nodes behind the RPC URL | implements `NonceWallet` and `NonceQueue` |
| `NonceWallet` | what the wallet promises: each accepted transaction holds a nonce of its own until dropped | |
| `NonceQueue` | what the contract writers build on: until something upsets the allocator, transactions are mined in the order of their broadcasts | |
| `KeyRegistry`, `MessageDigest`, `MessageReceipt` | the three contracts | |
| `Contracts` | the three contracts side by side | extends `KeyRegistry`, instantiates the other two |
| `KeyRegistration` | one user's key from the request to the contract | instantiates `KeyRegistry`; its transactions implement `NonceQueue` |
| `Anchoring` | the evidence threads of several files and the proof endpoint | instantiates `MessageDigest`, `MessageReceipt`; its transactions implement `NonceQueue` |
| `AuditChain` | the log `blockchain_records` and the transaction that appends to it | |
| `Mailbox` | the handlers of `/files` | extends `AuditChain` |
| `Auth` | the handlers of `/auth` | |
| `Vault` | one user's private keys, on every device, and the public key served | |
| `Hpke` | the envelope of a file, over symbols | |
| `Clients` | the trust gate in front of each use of a peer's key, and the files sealed | extends `Vault`, `Hpke` |
| `*_proof` | the theorems of section 5; `Pools_proof` has lemmas on sequences | |
| `MC*` | symmetry sets and functions for TLC | |

Definitions whose comment starts with "Slip" are an action written the way
a plausible mistake would leave it.  No specification uses them; they exist to
show that a property notices the mistake (`PROJECT.json`, `mutants`).

### SendLock

`pc[t]` walks a thread through `start` (waiting for `SEND_LOCK`), `allocate`
(`get_transaction_count(..., "pending")`), `choose` (the maximum with a cache entry
that has not expired), `build` (build, sign, broadcast), `advance`
(`advance_nonce`), `release` and `wait` (the receipt, outside the lock).  Each RPC
call may raise, and an exception leaves the `with` block, so releases the lock.
`nextNonce` and `age` are the cache entry and the time since its stamp.

The network is external and modelled from what the callers see: each backend has
its own mempool and head, answers the first nonce free in *its* view, rejects a
nonce below its head or one that it holds already, and gossips with delay; the chain
mines one nonce after the other; a transaction can be dropped by every node; an
accepted broadcast's answer can be lost.  Eviction takes a transaction from all nodes at
once, which is an assumption: a single node that forgets a transaction and does not learn it again would
answer too low a count for longer than a tick.

**Time.**  One `Tick` is longer than gossip takes: a tick happens only when all
backends agree on what is pending (`Propagated`).  This is the module header's own
assumption ("orders of magnitude above any propagation window"), and the
soundness of the cache rests on it: an entry may expire only when the nodes know
what it knew.  Within a tick backends may disagree in every possible way.

**Restart.**  A new process has an empty cache.  Transactions of an earlier
process may be unknown to the node that the new one asks, so `NoClash` speaks of
broadcasts of one process, and excuses a nonce that a broadcast unknown to the process
(an earlier process's, or one whose answer was lost) already contests: `Excused`.

### KeyRegistration and Anchoring

Both take the wallet's promise for granted: a broadcast
transaction enters a queue in nonce order, at its end, until a drop, a lost
answer or a restart has upset the order (`tangled`); from then on it may enter
anywhere.  `NonceQueue` states that promise, once for `SendLock`, whose steps are
shown to keep it, and once for each of the two modules, whose pool is shown to be
such a queue (section 5).  With the queue in its place they need neither locks nor nonces.  The contract's own
action executes the head of the queue, and the transaction reverts where a
`require` of the contract fails.

`weather` is chosen once per behaviour and says what may go wrong in it.  It lets
one run check safety under all failures and the stronger promises that hold only
where nothing fails.  `calm` has no failures and, in `KeyRegistration`, no
overlapping requests either; `busy` lets requests overlap; `faulty` adds
failing calls, lagging nodes, drops, restarts.

`KeyRegistration` splits `upload_public_key` where FastAPI and SQLAlchemy do: the
dependency loads the row, the handler's commit emits an UPDATE only for an
attribute that differs from the loaded value, and the thread gets the request's
key, not the row's.  `register` inserts (`Register`) and hands its thread the key that a
refresh finds in the row (`StartThread`), which another request may have replaced.  `eth_key_tx` is modelled by the upload whose transaction it names.

`Anchoring` has two threads per file.  The digest thread has the three ends of
`_submit_to_chain`: the transaction executed (store its hash), reverted or rejected
as a duplicate (look the hash up on chain and store `"duplicate"`), anything else
(give up).  `BlockchainProof` is what `GET /files/{id}/blockchain-proof` answers, from the row
and from a node that may be behind: the index and the entry come in two calls, and an
index the node does not know yet is an answer of "not recorded".

### AuditChain and Mailbox

A handler is split at its database statements.  `engine` says what the database lets
transactions do.  With `"sqlite"` the first INSERT, UPDATE or DELETE takes the write lock
(the driver opens no transaction for a select), so the flush of the new file before
the select of the last record makes the append exclusive: two uploads cannot read the
same predecessor, although the comment in `_append_blockchain_record` fears that they could.
With `"concurrent"`, which `DATABASE_URL` allows, they can.  SHA-256 is taken for
injective, so a `block_hash` is represented by the sequence of files from the genesis
block.

In `Mailbox` requests 1, 2, ... arrive in that order, run side by side and may fail at any
statement (an exception, SQLite's lock timeout, or the end of the process, after which
the database rolls back).  A request that repeats an earlier one is a request like any other,
so a client's retries are covered.  A file's `sealed` is the recipient for whom its uploader
encrypted it; clients seal for the recipient they name (`upload_file`, `share_file` get the
ciphertext and the recipient in one body).  Accounts are neither deactivated nor removed by any
endpoint, so recipients' lookups always succeed.

### Auth

A handler is again split at its database statements, with the same two engines.  A
hash is the password it was made from and a flag, that its Argon2id parameters are
out of date; `needs_rehash` reads the flag.  `DUMMY_HASH` is the hash of a password no
account can have.  `GetCurrentUser` and `GetActiveSession` are the dependencies:
an access token says whose it is, a refresh token which session it belongs to, and the
two a logout presents need not belong together.

`change_password` writes twice: the bulk UPDATE of the sessions runs where it stands, the
new hash is flushed by the commit, since the session has autoflush off (`database.py`).
In between it holds SQLite's write lock, elsewhere the rows it has written.  A commit that
only has one row to write is one step.  `Fails` ends any request at any of its
statements.

Three variables are history: `tokens` (nobody presents a token that was not issued), `lastSet`
(the password the account's owner set last) and `overtaken` (logins that were under way
when the password changed).  With the latter two the properties say exactly which sessions and
hashes an overlap leaves behind, and that nothing else is left behind.

### Vault

One user at several devices.  A device's `vault` is the record in IndexedDB or
`vault.json`: nothing, a wrapped key, a file that was cut short (`Broken`), or what older
versions left (a record without a passphrase; `jwk`, a private key in localStorage).  `pc[c]` walks a tab or process through
the registration of `auth.js` (store, ask, delete what was stored if refused), the
dialog of `files.js` in its four modes (unlock, migrate, create and, over a legacy record,
upgrade), or `setup_keys` of `main.cpp` (unlock and cross-check, or generate or
import, derive, write, upload).  Every request may fail before or after the server
acted, an answer may be lost, and `Stop` ends a tab or process anywhere.

`WriteVault` has three outcomes, as `KeyVault::create` does.  The file cannot be opened (or
Argon2id ran out of memory): the key is discarded.  It is written: the key is stored.  It
opens, which truncates it, and the write or the close fails, on a full disk say: nothing
looks at the stream after line 91, `create` reports success, and the key goes on to the
server and into the session from memory only, with a `Broken` file in its place.  `DieWriting`
is the process that ends between truncation and write.  A browser's put either commits or
raises.  `Migrate` may be cut short between its put and its removal.

`kept`, `announced`, `unwritten` and `mishap` are history.  `unwritten` holds the keys whose file came
out `Broken` without anybody noticing; the properties name it as their one exception.
`mishap` marks the other circumstances under which a key can go without a word: a lost answer, a registration of an account that exists or over
a record that exists, and two clients at one vault at a time.  `VaultsAreKept` shows that
there are none beside these and `unwritten`; the run `account_without_key` shows one of them.

### Clients and Hpke

The peer is `Vault`'s user, whose key comes and goes, is registered late, out of order or
not at all, and revoked (`RegistryStep`).  I run the gate: `FetchKey` (what the
server says now), `CheckPin` and `WritePin` (one step in a process; two transactions of
IndexedDB in a tab), `AnswerWarning`, `Gate`, `UseKey`.  `Questions` is what the gate may ask
before it lets an operation go on: nothing, if the registry has no record or agrees; whether to go
on without it, if the node fails; whether to use a revoked key, in a decryption only, since
before encrypting a revocation blocks without a question; whether to use a key that the
registry contradicts.  `op[a].asked` keeps the question I said yes to.  My tabs share `pin["browser"]`; each process has a
map of its own, `mem[a]`, read at login and written whole whenever it pins anybody
(`PinAnother`); the write may fail, with a warning or without, and the process goes on with
its map (`SavePins`).  `calm` marks operations during which neither the pin nor the registry
changed.  The module does not say whether a user consents: both answers are taken, so the
properties hold for any user.

`Hpke` follows `encapsulate`, `decapsulate` and the key schedule of `hpke.py`, which both
clients repeat, with symbols for keys: Diffie-Hellman is commutative, HKDF injective,
AES-GCM opens under key and associated data it was sealed with.  A `filename` of `None`
and an empty one are bound alike, as `build_file_aad` has it.

### Contracts

`KeyRegistry` models the four transactions with the order of their `require`
clauses abstracted to one guard, the checked `uint32` increment (a rotation or revocation
at `MaxVersion` reverts), the transfer of the registrar role and the events.
`MessageDigest` keeps 1-based slots and 0-based indices apart, `MessageReceipt` the
timestamp that doubles as the mark of existence.  They share no state and call
nothing of each other, so `Contracts` takes the disjoint sum of their behaviours
(`called`) rather than their product.

## 3. Runs

| Run | Instance | What it shows |
|---|---|---|
| `send_lock` | 3 threads, 2 backends, TTL 1, 1 restart, lost answers | `NoClash`; until something is dropped, lost or restarted the allocator implements `NonceQueue` |
| `send_lock_live` | 2 threads, 3 backends, TTL 2, no restart, no lost answers, fairness | `EverySendEnds`; the allocator implements `NonceWallet` |
| `contracts` | 2 identities, 2 keys, 2 accounts, 3 hashes, largest version 3, times 0..3 | storage and log of each contract agree; nothing is taken back |
| `key_registration` | 3 uploads, 2 keys, 1 restart, calm and faulty, fairness | a key's way to the contract |
| `anchoring` | 2 files (4 threads), 2 hashes, 2 users, 1 restart, calm and faulty | what rows and proofs say is so |
| `mailbox` | 4 requests, 3 files, 3 users, both engines | log and access rights |
| `auth` | 4 requests, 2 accounts, 2 names, 2 addresses, 2 passwords, both engines | passwords and sessions |
| `clients` | the peer in 2 tabs and 2 processes, I in 2 tabs and 2 processes, 2 keys, 1 file | keys, pins and sealed files |
| `hands_back_used_nonce`, `upload_ends_up_in_registry`, `changed_password_stays`, `account_without_key` | small ones | the findings of section 6 |

*Why the bounds are enough.*  A clash of nonces needs two threads and a backend
that has not heard of the first; the third thread and the drop give the gaps,
and `MaxNonce` is above what three senders can reach, so that no thread is stopped
by it.  TTL 2 in the second run shows that 1 is not special.
In `contracts` version 3 is reached by register, revoke, rotate, so that every
order of the three around the limit occurs; three hashes give a first, a
middle and a last array entry.  In `key_registration` three uploads give the interesting
cases of two (an overlap, a reverted second) followed by one that repairs or
does not; two keys suffice as properties compare at most two, with "the
same key uploaded twice" among the cases.  In `anchoring` two files with equal or
different hashes cover all pairs, and the properties relate at most two rows; their
four threads share the queue.

In `mailbox` three users are owner, recipient and the one a share is for; four requests give an upload
followed by three that overlap (a share, a revocation and a deletion of the same file, or three
appends to the log), and three files let the log fork and both branches grow.

In `auth` the worst stories take three requests of one account (a login with rehash, a change that
overtakes it, a login with either password) and one more to end a session; accounts made earlier are
among the initial states, so no request is spent on making them, and two registrations still
collide in a name, an address or both.

In `clients` the tabs and processes that run together are six teams (`Teams`): two tabs and a process
of the peer, who share a browser and then carry a key to a machine; two processes of the peer
at one machine; a tab of the peer with two tabs of mine, for the races over pins, and with one tab and
a file; a process of the peer with two processes of mine, and with one and a file.  A team has the
ephemeral key pairs that bound its files, and those without one send none: a file adds nothing to
a race over pins or vaults.  Each property relates the peer's devices
to each other, or two of my clients at one store; my tabs and my processes share nothing.
Two keys let the peer have an old and a new one, and the second key can come back as
an import.  A third would only repeat the change.  One file is enough, for files do not interact: the
ephemeral key is what tells them apart.  The theorems hold for any teams, all clients together included.

*Deadlock* is checked in `contracts`, where ownership can always be transferred.
In the others a behaviour may end: every thread over, nothing
pending, no request left within the bound.

*Symmetry* is used for threads, backends, keys, hashes, identities, tabs and processes in runs
without liveness properties; requests, threads of `KeyRegistration` and files of `Anchoring`
are numbered in order of arrival, which breaks their symmetry.

### Properties

- **`NoClash`** (`_send_lock.py`): two live broadcasts of a process never share a
  nonce, across stale reads, expiry, drops and lost answers.
- **`ImplementsWallet`**: the refinement of `NonceWallet`.
- **`ImplementsQueue`**: the refinement of `NonceQueue`, with the accepted transactions above the mined
  count, by nonce, as the queue; a nonce left out or used twice breaks it.
- **`EverySendEnds`**: no failure path keeps the lock.
- **`LogExplainsState`, `IInv`, `HistoryKept`** (`KeyRegistry.sol`): a
  record can be computed from the event log; versions of an identity run 1, 2, 3
  ...; a revocation is lifted only by a different key at a higher version,
  whoever became registrar in between.
- **`SlotsFindEntries`, `EntriesAreForEver`** (`MessageDigest.sol`),
  **`ReceiptsAreTheirEvents`** (`MessageReceipt.sol`).
- **`EthKeyTxIsOnChain`, `OneVersionPerUpload`, `RegisteredWasServed`**
  (`registry.py`, `users.py`): with all failures, the row names executed transactions
  only, an upload adds at most one version, and the contract's log holds only keys that
  the server had served.
- **`SequentialUploadsConverge`, `RegistryCatchesUp`**: where uploads do not overlap
  and nothing fails, database and contract end in agreement.
- **`AnchorIsSound`, `ReceiptIsOwn`** (`files.py`): what a row says of its evidence is
  so, also for rows that share a hash, transactions that revert, or come late; and no node that
  is asked for the proof contradicts it.
- **`QuietEndIsComplete`**: where nothing fails, no evidence is missing.
- **`RecordsFormATree`, `AuditIsAChain`, `EveryFileIsRecorded`** (`files.py`): the log is a tree of whole
  records on any database, a chain on SQLite, and matches the files one to one.
- **`ListedIsDownloadable`**: the two listings and the download rule, three different tests, agree.
- **`FullRevocationIsFinal`, `AccessCanDecrypt`, `OnlyRevocationCutsOff`**: no share that was in flight gives
  revoked access back; whoever has access got a ciphertext sealed for them; a deletion cuts nobody off.
- **`AccountsAreUnique`, `PasswordIsLastSet`, `OldSessionsAreOver`, `SessionsEndByOwner`** (`auth.py`): two
  registrations that both passed their checks make one account; an account opens to the password set
  last and earlier sessions are over, but for a login that overlapped the change; only the user's own
  logout or change of password ends a session, and none comes back.
- **`KeysAreStoredFirst`, `VaultsAreKept`** (`files.js`, `auth.js`, `KeyVault.cpp`, `main.cpp`): nobody sees a key
  before it is on a device; the private half of the served key is on a device, or its user was
  told, unless a mishap came between; and a session works with what its device's vault holds.
  All three with the exception of a vault file whose write failed unnoticed, which section 6 quarrels with.
- **`CalmUseIsAgreed`, `PinsChangeByConsent`** (`crypto.js`, `PinStore.cpp`): an operation uses the pinned key;
  unless the node failed to answer, it encrypts under no revoked key, whatever I say, and uses a
  revoked or contradicted one otherwise only if I was told; a pin is replaced by consent or by a client
  that looked before the pin was there or whose map is not the file's.
- **`OpensExactlyAsSealed`** (`hpke.py`): a file opens under its two keys, its parties and its name, and under
  nothing else.

## 4. Fairness

`SendLock!FairSpec` and `KeyRegistration!FairSpec` assume weak fairness of the
steps of each thread and, in the second, of mining.  Each is justified: daemon
threads are scheduled by the operating system, each RPC call returns or raises
within the provider's timeout, and `wait_for_transaction_receipt` has a timeout of
120 s.  Nothing is assumed of the order in which a `threading.Lock` is granted, nor that a
call succeeds.  `EverySendEnds` holds although a thread may be overtaken, since
every thread sends once.  Mining is fair only in that a chain which
stopped for ever would leave nothing to say about convergence.

## 5. Proofs

For all values of the constants (any number of threads, backends, requests, devices, identities,
keys, accounts, hashes, restarts), from the named assumptions in the modules, which say no more than
that a null is not a value and a bound is a number:

| Theorem | Module | States |
|---|---|---|
| `TypeCorrect`, `InductiveInvariant`, `NoncesNeverClash` | `SendLock_proof` | `[]TypeOK`, `[]IInv`, `[]NoClash` |
| `BroadcastsAreNotRejected`, `QueueRefinement` | `SendLock_proof` | `[]NeverRejected`; `Spec => ImplementsQueue`, with restarts, drops and lost answers allowed |
| `Refinement` | `SendLock_proof` | `Spec => ImplementsWallet` when `MaxRestarts = 0` and answers are not lost |
| `InductiveInvariant`, `LogIsTheHistory`, `HistoryIsKept` | `Contracts_proof` | `KeyRegistry` alone: `[]IInv`, `[]LogExplainsState`, `HistoryKept` |
| `LookupIsExact`, `EntriesStay` | `Contracts_proof` | `MessageDigest` alone: the mapping inverts the array; entries stay |
| `OneReceiptOneEvent`, `ReceiptsStay` | `Contracts_proof` | `MessageReceipt` alone: a receipt iff one event; receipts stay |
| `SlotsAreExact`, `EntriesAreKept`, `ReceiptsMatchEvents`, `RegistryIsExplained` | `Contracts_proof` | the same of `Contracts`, the specification the run `contracts` checks |
| `RegistrationInvariant`, `RegistrationTypeCorrect`, `EthKeyTxNamesExecuted`, `UploadsAddOneVersion`, `RegisteredKeysWereServed` | `KeyRegistration_proof` | `[]IInv` and, from it, the run's four safety properties that hold in any weather |
| `SequentialUploadsAgree` | `KeyRegistration_proof` | `[]SequentialUploadsConverge`, for at most `MaxVersion` uploads |
| `RegistrationsUseQueue`, `RegistrationsUseContract` | `KeyRegistration_proof` | the pool is a `NonceQueue`, the contract's part a behaviour of `KeyRegistry` |
| `AnchoringInvariant`, `AnchoringTypeCorrect`, `AnchorsAreSound`, `ReceiptsAreOwn` | `Anchoring_proof` | `[]IInv`, `[]TypeOK`, `[]AnchorIsSound`, `[]ReceiptIsOwn` |
| `QuietEndsAreComplete` | `Anchoring_proof` | `[]QuietEndIsComplete` |
| `AnchorsUseQueue`, `AnchorsUseContracts` | `Anchoring_proof` | the pool is a `NonceQueue`, the contracts' parts behaviours of `MessageDigest` and `MessageReceipt` |
| `ChainInvariant`, `UsesTheLog`, `LogIsATree`, `LogIsAChain` | `Mailbox_proof` | the log's invariant; the mailbox's steps are steps of the log; so its log is a tree, and a chain on SQLite |
| `MailboxInvariant`, `MailboxTypeCorrect`, `FilesAreRecorded`, `RevocationIsFinal`, `ListingsAreExact`, `CutOffByOwner`, `AccessMeansSealed` | `Mailbox_proof` | `[]MailboxInv` and, from it, the other properties of the run |
| `AuthInvariant`, `AuthTypeCorrect`, `NamesAndAddressesAreUnique`, `PasswordsAreLastSet`, `OldSessionsEnd`, `OwnersEndSessions` | `Auth_proof` | `[]AuthInv` and all properties of the run |
| `ClientsInvariant`, `ClientsTypeCorrect`, `KeysStoredFirst`, `VaultsKept`, `CalmUse`, `SealedFilesOpen`, `PinsByConsent` | `Clients_proof` | `[]IInv` and all properties of the run |

*The send lock.*  `NoClash` is not inductive: that the next broadcast is fresh
depends on what the cache knows.  `IInv` adds `LockInv` (the lock is held by
exactly the thread inside the block, so one choice is in progress at a time),
`SentInv` (what is on the network comes from threads past their broadcast, heads
lag behind the chain), `CacheCovers` and `ChoiceInv`.  `CacheCovers` is the heart: a
live broadcast of this process is below an entry of the current tick, or
known to every backend, or excused.  So whatever node answers, the maximum of the
answer and the cache is above it, or the answer already is; and a tick, which needs
`Propagated`, turns the first case into the second before the entry can expire.
`ChoiceInv` carries the choice over to the broadcast.

*Order.*  That nonces do not clash leaves open that one is skipped, behind which everything waits.
As long as nothing was dropped, lost or restarted (`Tranquil`), `NoncesInv` says that the nonces
broadcast are `0 .. Count - 1` and the mined ones the first of them, and `NextNonceInv` that the
next is `Count`: the entry says so, or there is none and the backends do, which is `CacheCovers`
used the other way round.  So no node has a reason to reject a broadcast, which is
`BroadcastsAreNotRejected`, and the transactions above the mined count form a queue in the order of
their broadcasts, which is `QueueRefinement`.  `Queued` is empty once the tranquil time is over, as
`NonceQueue` promises no order from then on, only that what is mined stays mined.

*Composition.*  `RegistrationsUseQueue` and `AnchorsUseQueue` show that the pools of
`KeyRegistration` and `Anchoring` keep to the same `NonceQueue`.  That is agreement at one
specification, not a product of the modules: that the two allow every queue the allocator produces is
not proved but seen in their actions, which let a thread broadcast at any time, append to the queue until
it is `tangled` exactly as `NonceQueue` does, and insert anywhere afterwards.
`RegistrationsUseContract` and `AnchorsUseContracts` show that the contracts meet there only
transactions of their own modules, so what `Contracts_proof` proves of any caller holds of the server.

*The contracts.*  `KeyRegistry`'s `IInv` says that the last event of each identity carries the
record's version, key and revocation mark, and that the log of each identity
counts versions without a gap.  `Contracts` is by construction a sum of the three, so that their
theorems carry over says nothing new of the code; it ties them to the properties of the run.

*Key registration and anchoring.*  Both rest on a thread sending once and the queue holding
each transaction once (`LifeInv`, `OnceInv`, with `Pools_proof` on what insertion and removal do
to a sequence without repetitions).  In `KeyRegistration`, `KeyInv` carries a key from the session that
loaded it to the thread: where the commit writes nothing, the value loaded had been served before.
`LogInv` ties the contract's log to the executed transactions.  In `Anchoring`, `PhaseInv` says what
each step of a thread has learned from its receipt (`Proven`), `DigestInv` and `ReceiptInv` that the
contracts hold what the executed transactions wrote, one receipt per hash.

What the two promise of the end in calm weather needs an invariant of the way there.  For uploads one after
the other it is `CalmInv` of `KeyRegistration_proof`: one upload is under way at a time (`AloneInv`); it carries the served key and its call
fits the version the contract is at, so it cannot revert (`SteadyInv`); with none pending, contract and row
agree (`SettledInv`).  The theorem asks for at most `MaxVersion` uploads (`Countable`), since the contract's
version is a `uint32` and the checked increment reverts beyond it.  For `Anchoring`, where the threads
overlap in calm weather too, `OutcomeInv` says why a transaction reverted (its hash was there before it)
and `CalmInv` that a thread which ended has stored what its transaction came to.

*The mailbox.*  `ChainInv` adds `LastInv` to the log's properties: on SQLite one transaction at most is
open, and what it read is still the most recent record.  `UsesTheLog` carries the theorem over to the
mailbox.  `MailboxInv` adds `RequestInv` (a request in flight asks for what its handler let through, in
particular owner and recipient differ) and `RowsInv` (access rows belong to existing files and not to
their owners), which is why listings and download agree and why a new file's row cannot
restore access to a cleared one.

*Authentication.*  `AuthInv` adds `RequestInv` (what a request in flight holds), `OutdatedInv` (only
hashes made before this process are out of date, so all logins that will rehash an account verified one and
the same password), `LoginInv` (a login that will open a session already has one of the excuses of
`OldSessionsAreOver`) and `ChangeInv` (what a change has not deactivated when it commits is a login that
overlaps it).

*The clients.*  `IInv` is `VaultInv /\ GateInv`.  `VaultInv` has `StoredInv` (a key that has left its
client is kept, or its file came out broken), `HomeInv` (a phase belongs to a browser or a machine, and
only a machine's vault can be broken) and, as long as there is no
mishap, `CalmVault`: at most one client is at a vault (`SoloInv`), what it holds in memory is what it
stored (`InHandInv`), a session works with its device's record or with one that is broken and unwritten
(`SessionInv`, through `Holds`), and the served key lies
where no client is about to put or delete a record, or is announced or unwritten (`FirmInv`), which is
why it cannot get lost otherwise.  `create` refuses an existing file, broken or not.
`GateInv` has `KnownInv` (every key I know of was stored somewhere first, or unwritten), `FilesInv` and `CalmInv` (in a calm operation the
pin is what the operation holds, and what I was asked is what the registry gives cause for).  `SealedFilesOpen` is algebra over the key schedule.

*Only model-checked:* liveness (`EverySendEnds`, `RegistryCatchesUp`), which the
provers cannot do.  Every invariant and every action property of a passing run is a theorem.  With restarts
or lost answers the allocator is no refinement of `NonceWallet`, and none is claimed; `NonceQueue` it
implements with them, as that one promises order only before the first.

## 6. Where code and documents part

Each of these is shown by a run that TLC ends with a counterexample.

1. *A used nonce is handed back* (`NeverHandsBackUsedNonce`).  `_send_lock.py:67-70` excludes it.
   An entry expires behind a dropped transaction, with a later one pending; by then every node knows that
   one.  The send that fills the gap sets the cache to the gap's nonce + 1, and if the
   pending transaction holds that nonce, a node that has not yet seen the gap filled still answers
   the gap: the larger of answer and cache is the pending nonce.  (A node that has seen it filled answers
   a higher count.)
2. *A key that does not reach the contract* (`UploadEndsUpInRegistry`).  `auth.py:186-188` says a key
   uploaded either way ends up there.  Two overlapping uploads both read version 0 and
   both call `registerKey`; the second reverts.
3. *A changed password comes back* (`ChangedPasswordStays`).  `auth.py:406` says that the caller must log in
   with the new one.  A login that verified the old password rehashes it (`auth.py:284`) and writes the row
   after `change_password` has committed.
4. *An account without a key* (`NoAccountWithoutKey`).  `crypto.js:252-253` reserves `deleteKeyPair` to a
   user who was told.  Registering a name whose record this browser holds puts a new key over it
   (`auth.js:84`) before the server is asked, and deletes it when the name is refused (`auth.js:96`).

Read beside the model, without a run of their own:

- `_send_lock.py:33-36` bounds the wedge behind a dropped nonce by the TTL, but each broadcast restamps the
  entry (line 92), also one that is queued behind the gap.
- `models.py:33-34` calls `eth_key_tx` the most recent transaction; threads store theirs in
  any order (`registry.py:288`).
- `files.py:1109` reads a null hash as "not yet anchored"; a thread that timed out (`contract.py:140`)
  leaves null for a transaction that is mined later.
- `files.py:737-739` sends the owner of a deleted file to `/revoke`, which answers 404 for it
  (`files.py:904`).
- `main.cpp:371-373` says that no path leaves a key in memory only.  `KeyVault::create` looks at the
  stream after opening it, not after writing (`KeyVault.cpp:91-97`): a write that fails is followed by
  the upload of the public key and a session that uses the pair (`main.cpp:331-337`), and the next
  start finds a vault that does not unlock and is not written over.  `WriteVault` has that
  outcome, and without `unwritten` both `KeysAreStoredFirst` and `VaultsAreKept` fail.
- `main.cpp:332` says that a failed upload of the public key can be retried from the key menu.  With a key
  in the session the menu only says so, and the next login offers an upload only if the server has a
  different key (`main.cpp:356`), not if it has none.
- Processes on one machine write whole maps of pins that they read at login (`PinStore.cpp:61`), and two tabs at
  first contact both find no pin (`crypto.js:321`): a pin may be replaced or forgotten without a
  question, against `crypto.js:303-304`.  `PinsChangeByConsent` names these two ways and excludes all others.

## 7. Not modelled, and why

- Gas, fees, chain ids, ABI encoding and signing: the three writers pass gas explicitly,
  so `build_transaction` does no estimate and cannot revert early.
- Block times and numbers, except the receipt's timestamp, which is a sentinel.
- `revoke_key` in `registry.py`: no endpoint calls it; the contract's transaction is modelled.
- The mathematics of X25519, HKDF, AES-GCM, Argon2id, SHA-256 and Keccak: symbols with the
  algebra named in `Hpke` and `Auth`.
- `users.is_active`, which no endpoint changes; token encoding and expiry; the rate limiter, whose windows
  and counters guard no state.
- File metadata, pagination, packing, the ciphertext's way to and from the disk.
- Schemas, middleware, rendering, `verify.js`, `verify-key.js`: stateless.
- Deployment and manual scripts: run once, by hand; their transactions are the contracts' actions.
- Hazards that `PROJECT.json` lists without a property: what the code does there is what section 6 tells
  (order of `eth_key_tx`, rows left null, revocation after deletion, the races over pins), so there is
  nothing to hold.
- Eviction of a transaction at one node only, and a mempool without gossip: assumed away in `SendLock`.
- A repeated share (`files.py:821`): it makes a second copy, and no document promises otherwise.

What could be added with the code as it is: the rate limiter as a counter with windows, two users' key
registrations over one wallet, and the composition of `Auth` with `Mailbox`, whose only link is the
user a token names.
