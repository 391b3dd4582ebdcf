----------------------- MODULE KeyRegistration_proof -----------------------
(***************************************************************************)
(* Proofs about KeyRegistration, for any number of uploads and restarts,   *)
(* any keys and version width, whatever fails.                             *)
(*                                                                         *)
(* KeyInv says that a thread starts only with a key that was served, which *)
(* rests on what a session loaded having been served before; LogInv says   *)
(* that the contract's log is the executed transactions.  In calm weather  *)
(* one upload is under way at a time (AloneInv), and between two of them   *)
(* row and contract agree (SteadyInv, SettledInv).  The last part is       *)
(* composition: with the wallet's order and with the contract.             *)
(***************************************************************************)
EXTENDS KeyRegistration, Pools_proof, FiniteSetTheorems

-----------------------------------------------------------------------------
(* The inductive invariant.                                                *)

Mined(u) == u \in Range(executed) \cup reverted

\* The key is in the row from the commit on, its transaction there from the send on.
Running == {"registered", "thread", "send", "wait", "persist", "done", "failed"}

LifeInv ==
  \A u \in Upload :
    /\ u \in Range(pool) \/ Mined(u) =>
         pc[u] \notin {"idle", "loaded", "registered", "thread", "send"}
    /\ pc[u] = "persist" => u \in Range(executed)

\* A transaction is in one place.
OnceInv ==
  /\ IsInjective(pool) /\ IsInjective(executed)
  /\ \A u \in Upload : u \in Range(pool) => ~Mined(u)
  /\ Range(executed) \cap reverted = {}

\* What is loaded, or on its way to the contract, was served before.
KeyInv ==
  /\ served # {} => publicKey \in served
  /\ publicKey # NoKey => publicKey \in served
  /\ \A u \in Upload :
       /\ loaded[u] # NoKey => loaded[u] \in served
       /\ pc[u] = "loaded" => upKey[u] \in Key
       /\ pc[u] \in Running \/ u \in Range(pool) \/ Mined(u) => upKey[u] \in served

\* The contract's log is the transactions executed.
LogInv ==
  /\ Len(log) = Len(executed) /\ keys[User].version = Len(log)
  /\ \A i \in 1 .. Len(log) : log[i] = R!Registered(User, upKey[executed[i]], i)

RowInv == ethKeyTx # NoUpload => ethKeyTx \in Range(executed)

IInv == TypeOK /\ LifeInv /\ OnceInv /\ KeyInv /\ LogInv /\ RowInv

USE UploadAssumption, BoundAssumption

\* The pool after a broadcast, a drop, a block.
LEMMA EnqueueAdds ==
  ASSUME IInv, NEW u \in Upload, u \notin Range(pool), Enqueue(u)
  PROVE  /\ pool' \in Seq(Upload) /\ IsInjective(pool')
         /\ Range(pool') = Range(pool) \cup {u}
<1>1. pool \in Seq(Upload) /\ IsInjective(pool) /\ Len(pool) \in Nat
  BY DEF IInv, TypeOK, OnceInv
<1>2. PICK i \in 1 .. Len(pool) + 1 : pool' = InsertAt(pool, i, u)
  <2>1. CASE tangled
    BY <2>1 DEF Enqueue
  <2>2. CASE ~tangled
    BY <1>1, <2>2 DEF Enqueue
  <2> QED BY <2>1, <2>2
<1> QED BY <1>1, <1>2, InsertOne

LEMMA DropRemoves ==
  ASSUME IInv, NEW i \in 1 .. Len(pool), pool' = RemoveAt(pool, i)
  PROVE  /\ pool' \in Seq(Upload) /\ IsInjective(pool')
         /\ Range(pool') \subseteq Range(pool)
<1>1. pool \in Seq(Upload) /\ IsInjective(pool)
  BY DEF IInv, TypeOK, OnceInv
<1> QED BY <1>1, RemoveOne

LEMMA MineRemoves ==
  ASSUME IInv, pool # <<>>, pool' = Tail(pool)
  PROVE  /\ pool' \in Seq(Upload) /\ IsInjective(pool')
         /\ Head(pool) \in Upload /\ Head(pool) \in Range(pool)
         /\ Range(pool') = Range(pool) \ {Head(pool)}
<1>1. pool \in Seq(Upload) /\ IsInjective(pool)
  BY DEF IInv, TypeOK, OnceInv
<1> QED BY <1>1, TakeHead

\* A transaction executed is the upload of its place in the sequence.
LEMMA ExecutedAre ==
  ASSUME IInv, NEW i \in 1 .. Len(log)
  PROVE  executed[i] \in Upload /\ executed[i] \in Range(executed)
<1>1. executed \in Seq(Upload) /\ i \in 1 .. Len(executed)
  BY DEF IInv, TypeOK, LogInv
<1> QED BY <1>1, Positions

-----------------------------------------------------------------------------
(* The requests and their threads.                                         *)

LEMMA InitInvariant ==
  ASSUME Init
  PROVE  IInv
<1>1. R!TypeOK /\ keys[User].version = 0 /\ log = <<>>
  <2>1. registrar = Server /\ log = <<>> /\ keys = [id \in {User} |-> R!EmptyRecord]
    BY DEF Init, R!Init
  <2>2. R!EmptyRecord \in R!KeyRecord /\ R!EmptyRecord.version = 0
    BY DEF R!EmptyRecord, R!KeyRecord
  <2>3. log \in Seq(R!Event)
    BY <2>1
  <2>4. keys \in [{User} -> R!KeyRecord] /\ keys[User].version = 0
    BY <2>1, <2>2
  <2> QED BY <2>1, <2>3, <2>4 DEF R!TypeOK
<1>2. pc \in [Upload -> Phase] /\ restarts \in 0 .. MaxRestarts /\ seen \in 0 .. MaxVersion
  BY DEF Init, Phase
<1>3. TypeOK
  <2>1. /\ upKey \in [Upload -> Key \cup {NoKey}] /\ loaded \in [Upload -> Key \cup {NoKey}]
        /\ fn \in [Upload -> {"none", "registerKey", "rotateKey"}]
    BY DEF Init
  <2>2. pool \in Seq(Upload) /\ executed \in Seq(Upload)
    BY DEF Init
  <2> QED BY <1>1, <1>2, <2>1, <2>2 DEF Init, TypeOK
<1>4. Range(pool) = {} /\ Range(executed) = {} /\ IsInjective(pool) /\ IsInjective(executed)
  BY DEF Init, Range, IsInjective
<1>5. LifeInv /\ OnceInv /\ RowInv
  BY <1>4 DEF Init, LifeInv, OnceInv, RowInv, Mined
<1>6. KeyInv
  BY <1>4 DEF Init, KeyInv, Mined, Running
<1>7. LogInv
  BY <1>1 DEF Init, LogInv
<1> QED BY <1>3, <1>5, <1>6, <1>7 DEF IInv

\* An upload that arrives has no transaction, so what it carries is free.
LEMMA ArriveInvariant ==
  ASSUME IInv, NEW u \in Upload, NEW k \in Key, Register(u, k) \/ LoadUser(u, k)
  PROVE  IInv'
<1> USE DEF row, chain, contract
<1>1. /\ pc[u] = "idle" /\ upKey' = [upKey EXCEPT ![u] = k]
      /\ \/ pc' = [pc EXCEPT ![u] = "registered"] /\ publicKey' = k /\ served' = served \cup {k}
            /\ loaded' = loaded /\ exists' = TRUE
         \/ pc' = [pc EXCEPT ![u] = "loaded"] /\ publicKey' = publicKey /\ served' = served
            /\ loaded' = [loaded EXCEPT ![u] = publicKey] /\ exists' = exists
      /\ UNCHANGED <<weather, ethKeyTx, fn, restarts, registrar, keys, log, seen, executed,
                     reverted, pool, tangled>>
  BY DEF Register, LoadUser, Goto
<1>2. u \notin Range(pool) /\ ~Mined(u)
  BY <1>1 DEF IInv, LifeInv
<1>3. /\ pc \in [Upload -> Phase] /\ upKey \in [Upload -> Key \cup {NoKey}]
      /\ loaded \in [Upload -> Key \cup {NoKey}] /\ served \subseteq Key
      /\ publicKey \in Key \cup {NoKey} /\ exists \in BOOLEAN
  BY DEF IInv, TypeOK
<1>4. /\ pc' \in [Upload -> Phase] /\ upKey' \in [Upload -> Key \cup {NoKey}]
      /\ loaded' \in [Upload -> Key \cup {NoKey}] /\ served' \subseteq Key
      /\ publicKey' \in Key \cup {NoKey} /\ exists' \in BOOLEAN
  <2>1. upKey' \in [Upload -> Key \cup {NoKey}]
    BY <1>1, <1>3
  <2>2. loaded' \in [Upload -> Key \cup {NoKey}]
    BY <1>1, <1>3
  <2>3. pc' \in [Upload -> Phase]
    BY <1>1, <1>3 DEF Phase
  <2> QED BY <1>1, <1>3, <2>1, <2>2, <2>3
<1>5. TypeOK'
  BY <1>1, <1>4 DEF IInv, TypeOK, R!TypeOK
<1>6. \A b \in Upload : Mined(b)' <=> Mined(b)
  BY <1>1 DEF Mined
<1>7. LifeInv'
  BY <1>1, <1>2, <1>3, <1>6 DEF IInv, LifeInv
<1>8. OnceInv' /\ RowInv'
  BY <1>1, <1>6 DEF IInv, OnceInv, RowInv
<1>9. KeyInv'
  <2>1. KeyInv
    BY DEF IInv
  <2>2. /\ served' # {} => publicKey' \in served'
        /\ publicKey' # NoKey => publicKey' \in served'
    BY <1>1, <2>1 DEF KeyInv
  <2>3. ASSUME NEW b \in Upload, loaded'[b] # NoKey
        PROVE  loaded'[b] \in served'
    BY <1>1, <1>3, <2>1, <2>3 DEF KeyInv
  <2>4. ASSUME NEW b \in Upload, pc'[b] = "loaded"
        PROVE  upKey'[b] \in Key
    BY <1>1, <1>3, <2>1, <2>4 DEF KeyInv
  <2>5. ASSUME NEW b \in Upload, pc'[b] \in Running \/ b \in Range(pool') \/ Mined(b)'
        PROVE  upKey'[b] \in served'
    <3>1. CASE b = u
      <4>1. pc'[u] \in Running
        BY <1>1, <1>2, <1>6, <2>5, <3>1
      <4>2. served' = served \cup {k} /\ upKey'[u] = k
        BY <1>1, <1>3, <4>1 DEF Running
      <4> QED BY <3>1, <4>2
    <3>2. CASE b # u
      <4>1. pc'[b] = pc[b] /\ upKey'[b] = upKey[b]
        BY <1>1, <1>3, <3>2
      <4>2. upKey[b] \in served
        BY <1>1, <1>6, <2>1, <2>5, <4>1 DEF KeyInv
      <4> QED BY <1>1, <4>1, <4>2
    <3> QED BY <3>1, <3>2
  <2> QED BY <2>2, <2>3, <2>4, <2>5 DEF KeyInv
<1>10. LogInv'
  <2>1. LogInv
    BY DEF IInv
  <2>2. ASSUME NEW i \in 1 .. Len(log)
        PROVE  upKey'[executed[i]] = upKey[executed[i]]
    <3>1. executed[i] # u /\ executed[i] \in Upload
      BY <1>2, ExecutedAre DEF Mined
    <3> QED BY <1>1, <1>3, <3>1
  <2> QED BY <1>1, <2>1, <2>2 DEF LogInv
<1> QED BY <1>5, <1>7, <1>8, <1>9, <1>10 DEF IInv

\* The thread of a registration gets what the row holds, whoever wrote it.
LEMMA StartInvariant ==
  ASSUME IInv, NEW u \in Upload, StartThread(u)
  PROVE  IInv'
<1> USE DEF row, chain, contract
<1>1. /\ pc[u] = "registered" /\ pc' = [pc EXCEPT ![u] = "thread"]
      /\ upKey' = [upKey EXCEPT ![u] = publicKey]
      /\ UNCHANGED <<weather, exists, publicKey, ethKeyTx, served, loaded, fn, restarts,
                     registrar, keys, log, seen, executed, reverted, pool, tangled>>
  BY DEF StartThread, Goto
<1>2. u \notin Range(pool) /\ ~Mined(u)
  BY <1>1 DEF IInv, LifeInv
<1>3. /\ pc \in [Upload -> Phase] /\ upKey \in [Upload -> Key \cup {NoKey}]
      /\ served \subseteq Key
  BY DEF IInv, TypeOK
<1>4. KeyInv /\ publicKey \in served
  <2>1. KeyInv
    BY DEF IInv
  <2>2. upKey[u] \in served
    BY <1>1, <2>1 DEF KeyInv, Running
  <2> QED BY <2>1, <2>2 DEF KeyInv
<1>5. TypeOK'
  <2>1. pc' \in [Upload -> Phase] /\ upKey' \in [Upload -> Key \cup {NoKey}]
    BY <1>1, <1>3, <1>4 DEF Phase
  <2> QED BY <1>1, <2>1 DEF IInv, TypeOK, R!TypeOK
<1>6. \A b \in Upload : Mined(b)' <=> Mined(b)
  BY <1>1 DEF Mined
<1>7. LifeInv'
  BY <1>1, <1>2, <1>3, <1>6 DEF IInv, LifeInv
<1>8. OnceInv' /\ RowInv'
  BY <1>1, <1>6 DEF IInv, OnceInv, RowInv
<1>9. KeyInv'
  <2>1. ASSUME NEW b \in Upload, b # u
        PROVE  pc'[b] = pc[b] /\ upKey'[b] = upKey[b]
    BY <1>1, <1>3, <2>1
  <2>2. pc'[u] = "thread" /\ upKey'[u] \in served
    BY <1>1, <1>3, <1>4
  <2> QED BY <1>1, <1>4, <1>6, <2>1, <2>2 DEF KeyInv
<1>10. LogInv'
  <2>1. LogInv
    BY DEF IInv
  <2>2. ASSUME NEW i \in 1 .. Len(log)
        PROVE  upKey'[executed[i]] = upKey[executed[i]]
    <3>1. executed[i] # u /\ executed[i] \in Upload
      BY <1>2, ExecutedAre DEF Mined
    <3> QED BY <1>1, <1>3, <3>1
  <2> QED BY <1>1, <2>1, <2>2 DEF LogInv
<1> QED BY <1>5, <1>7, <1>8, <1>9, <1>10 DEF IInv

\* Where the commit writes nothing, the session had loaded this very key, which
\* was served before.
LEMMA CommitInvariant ==
  ASSUME IInv, NEW u \in Upload, Commit(u)
  PROVE  IInv'
<1> USE DEF row, chain, contract
<1>1. /\ pc[u] = "loaded" /\ pc' = [pc EXCEPT ![u] = "thread"]
      /\ publicKey' = IF upKey[u] = loaded[u] THEN publicKey ELSE upKey[u]
      /\ served' = served \cup {publicKey'}
      /\ loaded' = [loaded EXCEPT ![u] = NoKey]
      /\ UNCHANGED <<weather, exists, ethKeyTx, upKey, fn, restarts, registrar, keys, log, seen,
                     executed, reverted, pool, tangled>>
  BY DEF Commit, Goto
<1>2. u \notin Range(pool) /\ ~Mined(u)
  BY <1>1 DEF IInv, LifeInv
<1>3. /\ pc \in [Upload -> Phase] /\ upKey \in [Upload -> Key \cup {NoKey}]
      /\ loaded \in [Upload -> Key \cup {NoKey}] /\ served \subseteq Key
  BY DEF IInv, TypeOK
<1>4. KeyInv /\ upKey[u] \in Key
  BY <1>1 DEF IInv, KeyInv
<1>5. upKey[u] \in served' /\ publicKey' \in Key
  <2>1. CASE upKey[u] = loaded[u]
    <3>1. loaded[u] \in served
      BY <1>4, <2>1 DEF KeyInv
    <3>2. publicKey \in served
      BY <1>4, <3>1 DEF KeyInv
    <3> QED BY <1>1, <1>3, <2>1, <3>1, <3>2
  <2>2. CASE upKey[u] # loaded[u]
    BY <1>1, <1>4, <2>2
  <2> QED BY <2>1, <2>2
<1>6. TypeOK'
  <2>1. pc' \in [Upload -> Phase] /\ loaded' \in [Upload -> Key \cup {NoKey}]
        /\ served' \subseteq Key
    BY <1>1, <1>3, <1>5 DEF Phase
  <2> QED BY <1>1, <1>5, <2>1 DEF IInv, TypeOK, R!TypeOK
<1>7. \A b \in Upload : Mined(b)' <=> Mined(b)
  BY <1>1 DEF Mined
<1>8. LifeInv'
  BY <1>1, <1>2, <1>3, <1>7 DEF IInv, LifeInv
<1>9. OnceInv' /\ RowInv' /\ LogInv'
  BY <1>1, <1>7 DEF IInv, OnceInv, RowInv, LogInv
<1>10. KeyInv'
  <2>1. publicKey' \in served'
    BY <1>1
  <2>2. ASSUME NEW b \in Upload
        PROVE  /\ loaded'[b] # NoKey => loaded'[b] \in served'
               /\ pc'[b] = "loaded" => upKey'[b] \in Key
    BY <1>1, <1>3, <1>4 DEF KeyInv
  <2>3. ASSUME NEW b \in Upload, pc'[b] \in Running \/ b \in Range(pool') \/ Mined(b)'
        PROVE  upKey'[b] \in served'
    <3>1. CASE b = u
      BY <1>1, <1>5, <3>1
    <3>2. CASE b # u
      <4>1. pc'[b] = pc[b]
        BY <1>1, <1>3, <3>2
      <4> QED BY <1>1, <1>4, <1>7, <2>3, <4>1 DEF KeyInv
    <3> QED BY <3>1, <3>2
  <2> QED BY <2>1, <2>2, <2>3 DEF KeyInv
<1> QED BY <1>6, <1>8, <1>9, <1>10 DEF IInv

\* A thread moves on, a call fails, a transaction is dropped, a process ends: no
\* key, event or transaction comes of it.
LEMMA NothingNew ==
  ASSUME IInv, exists' \in BOOLEAN, fn' \in [Upload -> {"none", "registerKey", "rotateKey"}],
         restarts' \in 0 .. MaxRestarts, seen' \in 0 .. MaxVersion, tangled' \in BOOLEAN,
         pc' \in [Upload -> Phase],
         \A b \in Upload :
           pc'[b] \in {"idle", "loaded", "registered", "thread", "send"}
             => pc[b] \in {"idle", "loaded", "registered", "thread", "send"},
         \A b \in Upload : pc'[b] = "loaded" => pc[b] = "loaded",
         \A b \in Upload : pc'[b] \in Running => pc[b] \in Running,
         \A b \in Upload : pc'[b] = "persist" => b \in Range(executed),
         ethKeyTx' \in Range(executed) \/ ethKeyTx' = ethKeyTx,
         pool' \in Seq(Upload), IsInjective(pool'), Range(pool') \subseteq Range(pool),
         UNCHANGED <<weather, publicKey, served, upKey, loaded, registrar, keys, log, executed,
                     reverted>>
  PROVE  IInv'
<1>1. ethKeyTx' \in Upload \cup {NoUpload}
  <2>1. executed \in Seq(Upload) /\ ethKeyTx \in Upload \cup {NoUpload}
    BY DEF IInv, TypeOK
  <2>2. \A e \in Range(executed) : e \in Upload
    BY <2>1, Positions
  <2> QED BY <2>1, <2>2
<1>2. TypeOK'
  BY <1>1 DEF IInv, TypeOK, R!TypeOK
<1>3. \A b \in Upload : (Mined(b)' <=> Mined(b)) /\ (b \in Range(pool') => b \in Range(pool))
  BY DEF Mined
<1>4. LifeInv' /\ OnceInv' /\ RowInv'
  <2>1. LifeInv /\ OnceInv /\ RowInv
    BY DEF IInv
  <2>2. LifeInv'
    BY <1>3, <2>1 DEF LifeInv
  <2>3. OnceInv'
    BY <1>3, <2>1 DEF OnceInv
  <2>4. RowInv'
    BY <2>1 DEF RowInv
  <2> QED BY <2>2, <2>3, <2>4
<1>5. KeyInv'
  BY <1>3 DEF IInv, KeyInv
<1>6. LogInv'
  BY DEF IInv, LogInv
<1> QED BY <1>2, <1>4, <1>5, <1>6 DEF IInv

\* The steps of a thread but the commit and the send.
LEMMA ThreadInvariant ==
  ASSUME IInv, NEW u \in Upload,
         ChooseCall(u) \/ ThreadFails(u) \/ GetReceipt(u) \/ Persist(u)
  PROVE  IInv'
<1> USE DEF row, local, chain, contract
<1>1. UNCHANGED <<weather, exists, publicKey, served, upKey, loaded, restarts, registrar, keys, log,
                  seen, executed, reverted, pool, tangled>>
  BY DEF ChooseCall, ThreadFails, GetReceipt, Persist
<1>2. /\ pc \in [Upload -> Phase] /\ fn \in [Upload -> {"none", "registerKey", "rotateKey"}]
      /\ restarts \in 0 .. MaxRestarts /\ seen \in 0 .. MaxVersion /\ exists \in BOOLEAN
      /\ tangled \in BOOLEAN /\ pool \in Seq(Upload) /\ IsInjective(pool)
  BY DEF IInv, TypeOK, OnceInv
<1>3. fn' \in [Upload -> {"none", "registerKey", "rotateKey"}]
  BY <1>2 DEF ChooseCall, ThreadFails, GetReceipt, Persist
<1>4. \E p \in {"send", "persist", "failed", "done"} :
        /\ pc' = [pc EXCEPT ![u] = p]
        /\ pc[u] \in {"registered", "thread", "send", "wait", "persist"}
        /\ p = "send" => pc[u] = "thread"
        /\ p = "persist" => u \in Range(executed)
  BY DEF ChooseCall, ThreadFails, GetReceipt, Persist, Goto
<1>5. PICK p \in {"send", "persist", "failed", "done"} :
        /\ pc' = [pc EXCEPT ![u] = p]
        /\ pc[u] \in {"registered", "thread", "send", "wait", "persist"}
        /\ p = "send" => pc[u] = "thread"
        /\ p = "persist" => u \in Range(executed)
  BY <1>4
<1>6. pc' \in [Upload -> Phase]
  BY <1>2, <1>5 DEF Phase, Terminal
<1>7. ASSUME NEW b \in Upload
      PROVE  pc'[b] = pc[b] \/ (b = u /\ pc'[b] = p)
  <2>1. pc' = [pc EXCEPT ![u] = p]
    BY <1>5
  <2> QED BY <1>2, <2>1
<1>8. LifeInv
  BY DEF IInv
<1>9. /\ \A b \in Upload :
           pc'[b] \in {"idle", "loaded", "registered", "thread", "send"}
             => pc[b] \in {"idle", "loaded", "registered", "thread", "send"}
      /\ \A b \in Upload : pc'[b] = "loaded" => pc[b] = "loaded"
      /\ \A b \in Upload : pc'[b] \in Running => pc[b] \in Running
      /\ \A b \in Upload : pc'[b] = "persist" => b \in Range(executed)
  BY <1>5, <1>7, <1>8 DEF LifeInv, Running
<1>10. ethKeyTx' \in Range(executed) \/ ethKeyTx' = ethKeyTx
  BY <1>8 DEF ChooseCall, ThreadFails, GetReceipt, Persist, Goto, LifeInv
<1> QED BY <1>1, <1>2, <1>3, <1>6, <1>9, <1>10, NothingNew

\* The account without a key, the node that catches up, the drop, the restart.
LEMMA OutsideInvariant ==
  ASSUME IInv, RegisterKeyless \/ CatchUp \/ Drop \/ Restart \/ UNCHANGED vars
  PROVE  IInv'
<1> USE DEF row, local, chain, contract, vars
<1>1. UNCHANGED <<weather, publicKey, served, ethKeyTx, upKey, loaded, fn, registrar, keys, log,
                  executed, reverted>>
  BY DEF RegisterKeyless, CatchUp, Drop, Restart
<1>2. /\ pc \in [Upload -> Phase] /\ fn \in [Upload -> {"none", "registerKey", "rotateKey"}]
      /\ restarts \in 0 .. MaxRestarts /\ seen \in 0 .. MaxVersion /\ exists \in BOOLEAN
      /\ tangled \in BOOLEAN /\ pool \in Seq(Upload) /\ IsInjective(pool)
      /\ keys[User].version \in 0 .. MaxVersion
  BY DEF IInv, TypeOK, OnceInv, R!TypeOK, R!KeyRecord
<1>3. /\ exists' \in BOOLEAN /\ restarts' \in 0 .. MaxRestarts /\ seen' \in 0 .. MaxVersion
      /\ tangled' \in BOOLEAN
  <2>1. exists' \in BOOLEAN /\ tangled' \in BOOLEAN
    BY <1>2 DEF RegisterKeyless, CatchUp, Drop, Restart
  <2>2. restarts' = restarts \/ (restarts' = restarts + 1 /\ restarts < MaxRestarts)
    <3>1. CASE Restart
      BY <3>1 DEF Restart
    <3>2. CASE ~Restart
      BY <3>2 DEF RegisterKeyless, CatchUp, Drop
    <3> QED BY <3>1, <3>2
  <2>3. seen' = seen \/ seen' = keys[User].version
    BY DEF RegisterKeyless, CatchUp, Drop, Restart
  <2> QED BY <1>2, <2>1, <2>2, <2>3
<1>4. \/ pc' = pc
      \/ pc' = [u \in Upload |-> IF pc[u] \in {"idle"} \cup Terminal THEN pc[u] ELSE "killed"]
  BY DEF RegisterKeyless, CatchUp, Drop, Restart
<1>5. pc' \in [Upload -> Phase] /\ \A b \in Upload : pc'[b] = pc[b] \/ pc'[b] = "killed"
  BY <1>2, <1>4 DEF Phase, Terminal
<1>6. LifeInv
  BY DEF IInv
<1>7. /\ \A b \in Upload :
           pc'[b] \in {"idle", "loaded", "registered", "thread", "send"}
             => pc[b] \in {"idle", "loaded", "registered", "thread", "send"}
      /\ \A b \in Upload : pc'[b] = "loaded" => pc[b] = "loaded"
      /\ \A b \in Upload : pc'[b] \in Running => pc[b] \in Running
      /\ \A b \in Upload : pc'[b] = "persist" => b \in Range(executed)
  BY <1>5, <1>6 DEF LifeInv, Running
<1>8. pool' \in Seq(Upload) /\ IsInjective(pool') /\ Range(pool') \subseteq Range(pool)
  <2>1. CASE Drop
    <3>1. PICK i \in 1 .. Len(pool) : pool' = RemoveAt(pool, i)
      BY <2>1 DEF Drop
    <3> QED BY <3>1, DropRemoves
  <2>2. CASE ~Drop
    BY <1>2, <2>2 DEF RegisterKeyless, CatchUp, Restart
  <2> QED BY <2>1, <2>2
<1> QED BY <1>1, <1>2, <1>3, <1>5, <1>7, <1>8, NothingNew

\* An upload that is about to send has no transaction yet, and has its one then.
LEMMA SendInvariant ==
  ASSUME IInv, NEW u \in Upload, Broadcast(u) \/ AnswerLost(u)
  PROVE  IInv'
<1> USE DEF row, local, chain, contract
<1>1. /\ pc[u] = "send" /\ Enqueue(u)
      /\ pc' = [pc EXCEPT ![u] = "wait"] \/ pc' = [pc EXCEPT ![u] = "failed"]
      /\ tangled' \in {tangled, TRUE}
      /\ UNCHANGED <<weather, exists, publicKey, ethKeyTx, served, upKey, loaded, fn, restarts,
                     registrar, keys, log, seen, executed, reverted>>
  BY DEF Broadcast, AnswerLost, Goto
<1>2. u \notin Range(pool) /\ ~Mined(u) /\ upKey[u] \in served
  BY <1>1 DEF IInv, LifeInv, KeyInv, Running
<1>3. /\ pool' \in Seq(Upload) /\ IsInjective(pool')
      /\ Range(pool') \subseteq Range(pool) \cup {u}
  BY <1>1, <1>2, EnqueueAdds
<1>4. pc \in [Upload -> Phase] /\ tangled \in BOOLEAN
  BY DEF IInv, TypeOK
<1>5. TypeOK'
  <2>1. pc' \in [Upload -> Phase] /\ tangled' \in BOOLEAN
    BY <1>1, <1>4 DEF Phase, Terminal
  <2> QED BY <1>1, <1>3, <2>1 DEF IInv, TypeOK, R!TypeOK
<1>6. /\ \A b \in Upload : Mined(b)' <=> Mined(b)
      /\ \A b \in Upload : b \in Range(pool') => b \in Range(pool) \/ b = u
      /\ \A b \in Upload : b # u => pc'[b] = pc[b]
      /\ pc'[u] \in {"wait", "failed"}
  BY <1>1, <1>3, <1>4 DEF Mined
<1>7. LifeInv'
  <2>1. LifeInv
    BY DEF IInv
  <2> QED BY <1>1, <1>6, <2>1 DEF LifeInv
<1>8. OnceInv' /\ RowInv' /\ LogInv'
  BY <1>1, <1>2, <1>3, <1>6 DEF IInv, OnceInv, RowInv, LogInv
<1>9. KeyInv'
  <2>1. KeyInv
    BY DEF IInv
  <2> QED BY <1>1, <1>2, <1>6, <2>1 DEF KeyInv
<1> QED BY <1>5, <1>7, <1>8, <1>9 DEF IInv

-----------------------------------------------------------------------------
(* The contract.                                                           *)

\* What a call the contract executes writes.
LEMMA ExecuteWrites ==
  ASSUME IInv, NEW u \in Upload, upKey[u] \in Key, Execute(u)
  PROVE  /\ R!TypeOK' /\ keys'[User].version = Len(log) + 1 /\ Len(log') = Len(log) + 1
         /\ log'[Len(log) + 1] = R!Registered(User, upKey[u], Len(log) + 1)
         /\ \A i \in 1 .. Len(log) : log'[i] = log[i]
         /\ keys'[User].key = upKey[u] /\ ~keys'[User].revoked
<1> DEFINE v == keys[User].version
           e == R!Registered(User, upKey[u], v + 1)
<1>1. /\ log \in Seq(R!Event) /\ keys \in [{User} -> R!KeyRecord] /\ v = Len(log)
      /\ v \in 0 .. MaxVersion /\ registrar \in {Server} /\ Len(log) \in Nat
  BY DEF IInv, TypeOK, LogInv, R!TypeOK, R!KeyRecord
<1>2. /\ v + 1 \in 1 .. MaxVersion /\ registrar' = registrar
      /\ keys' = [keys EXCEPT ![User] = [key |-> upKey[u], version |-> v + 1, revoked |-> FALSE]]
      /\ log' = Append(log, e)
  <2>1. CASE R!RegisterKey(Server, User, upKey[u])
    BY <1>1, <2>1 DEF R!RegisterKey
  <2>2. CASE R!RotateKey(Server, User, upKey[u])
    BY <1>1, <2>2 DEF R!RotateKey
  <2> QED BY <2>1, <2>2 DEF Execute
<1>3. e \in R!Event
  BY <1>2 DEF R!Event, R!Registered
<1>4. /\ keys' \in [{User} -> R!KeyRecord] /\ keys'[User].version = v + 1
      /\ keys'[User].key = upKey[u] /\ ~keys'[User].revoked
  BY <1>1, <1>2 DEF R!KeyRecord
<1> HIDE DEF e, v
<1>5. /\ log' \in Seq(R!Event) /\ Len(log') = Len(log) + 1 /\ log'[Len(log) + 1] = e
      /\ \A i \in 1 .. Len(log) : log'[i] = log[i]
  BY <1>1, <1>2, <1>3
<1>6. R!TypeOK'
  BY <1>1, <1>2, <1>4, <1>5 DEF R!TypeOK
<1>7. e = R!Registered(User, upKey[u], Len(log) + 1)
  BY <1>1 DEF e
<1> QED BY <1>1, <1>4, <1>5, <1>6, <1>7

LEMMA MineInvariant ==
  ASSUME IInv, Mine
  PROVE  IInv'
<1> DEFINE u == Head(pool)
<1> USE DEF row, local, contract
<1>1. /\ pool # <<>> /\ pool' = Tail(pool)
      /\ UNCHANGED <<weather, exists, publicKey, ethKeyTx, served, pc, upKey, loaded, fn, restarts,
                     seen, tangled>>
      /\ \/ Execute(u) /\ executed' = Append(executed, u) /\ reverted' = reverted
         \/ /\ reverted' = reverted \cup {u}
            /\ UNCHANGED <<registrar, keys, log, executed>>
  BY DEF Mine
<1>2. /\ pool' \in Seq(Upload) /\ IsInjective(pool') /\ u \in Upload /\ u \in Range(pool)
      /\ Range(pool') \subseteq Range(pool) \ {u}
  BY <1>1, MineRemoves
<1> HIDE DEF u
<1>3. /\ ~Mined(u) /\ pc[u] \notin {"idle", "loaded", "registered", "thread", "send"}
      /\ upKey[u] \in served /\ upKey[u] \in Key
  BY <1>2 DEF IInv, TypeOK, OnceInv, LifeInv, KeyInv
<1>4. /\ executed \in Seq(Upload) /\ IsInjective(executed) /\ u \notin Range(executed)
      /\ reverted \subseteq Upload
  BY <1>3 DEF IInv, TypeOK, OnceInv, Mined
<1>5. /\ executed' \in Seq(Upload) /\ IsInjective(executed') /\ reverted' \subseteq Upload
      /\ Range(executed) \subseteq Range(executed')
      /\ Range(executed') \cap reverted' = {}
      /\ Range(executed') \cup reverted' = Range(executed) \cup reverted \cup {u}
  <2>1. CASE Execute(u) /\ executed' = Append(executed, u) /\ reverted' = reverted
    <3>1. /\ executed' \in Seq(Upload) /\ IsInjective(executed')
          /\ Range(executed') = Range(executed) \cup {u}
      BY <1>2, <1>4, <2>1, AppendOne
    <3> QED BY <1>3, <1>4, <2>1, <3>1 DEF IInv, OnceInv, Mined
  <2>2. CASE executed' = executed /\ reverted' = reverted \cup {u}
    BY <1>2, <1>4, <2>2 DEF IInv, OnceInv
  <2> QED BY <1>1, <2>1, <2>2
<1>6. /\ R!TypeOK' /\ LogInv'
  <2>1. LogInv /\ R!TypeOK /\ Len(executed) \in Nat
    BY <1>4 DEF IInv, TypeOK
  <2>2. CASE Execute(u) /\ executed' = Append(executed, u)
    <3>1. /\ R!TypeOK' /\ keys'[User].version = Len(log) + 1 /\ Len(log') = Len(log) + 1
          /\ log'[Len(log) + 1] = R!Registered(User, upKey[u], Len(log) + 1)
          /\ \A i \in 1 .. Len(log) : log'[i] = log[i]
      BY <1>2, <1>3, <2>2, ExecuteWrites
    <3>2. /\ Len(executed') = Len(executed) + 1 /\ executed'[Len(executed) + 1] = u
          /\ \A i \in 1 .. Len(executed) : executed'[i] = executed[i]
      BY <1>2, <1>4, <2>2
    <3>3. ASSUME NEW i \in 1 .. Len(log')
          PROVE  log'[i] = R!Registered(User, upKey'[executed'[i]], i)
      <4>1. CASE i \in 1 .. Len(log)
        BY <1>1, <2>1, <3>1, <3>2, <4>1 DEF LogInv
      <4>2. CASE i = Len(log) + 1
        BY <1>1, <2>1, <3>1, <3>2, <4>2 DEF LogInv
      <4> QED BY <2>1, <3>1, <4>1, <4>2 DEF LogInv
    <3> QED BY <2>1, <3>1, <3>2, <3>3 DEF LogInv
  <2>3. CASE UNCHANGED <<registrar, keys, log, executed>>
    BY <1>1, <2>1, <2>3 DEF LogInv, R!TypeOK
  <2> QED BY <1>1, <2>2, <2>3
<1>7. TypeOK'
  BY <1>1, <1>2, <1>5, <1>6 DEF IInv, TypeOK
<1>8. \A b \in Upload : (Mined(b)' <=> Mined(b) \/ b = u) /\ (b \in Range(pool') => b \in Range(pool))
  BY <1>2, <1>5 DEF Mined
<1>9. LifeInv'
  <2>1. LifeInv
    BY DEF IInv
  <2> QED BY <1>1, <1>3, <1>5, <1>8, <2>1 DEF LifeInv
<1>10. OnceInv'
  <2>1. OnceInv
    BY DEF IInv
  <2> QED BY <1>2, <1>5, <1>8, <2>1 DEF OnceInv
<1>11. RowInv'
  BY <1>1, <1>5 DEF IInv, RowInv
<1>12. KeyInv'
  <2>1. KeyInv
    BY DEF IInv
  <2> QED BY <1>1, <1>3, <1>8, <2>1 DEF KeyInv
<1> QED BY <1>6, <1>7, <1>9, <1>10, <1>11, <1>12 DEF IInv

-----------------------------------------------------------------------------
(* The specification.                                                      *)

LEMMA NextInvariant ==
  ASSUME IInv, [Next]_vars
  PROVE  IInv'
<1>1. ASSUME NEW u \in Upload, ThreadStep(u)
      PROVE  IInv'
  BY <1>1, StartInvariant, CommitInvariant, ThreadInvariant, SendInvariant DEF ThreadStep
<1>2. ASSUME NEW u \in Upload, NEW k \in Key, Register(u, k) \/ LoadUser(u, k)
      PROVE  IInv'
  BY <1>2, ArriveInvariant
<1>3. CASE RegisterKeyless \/ Mine \/ CatchUp \/ Drop \/ Restart \/ UNCHANGED vars
  BY <1>3, OutsideInvariant, MineInvariant
<1> QED BY <1>1, <1>2, <1>3 DEF Next

\* In every reachable state each upload has at most one transaction, in one
\* place, its key was served before its thread began, and the contract's log is
\* the transactions executed. (registry.py; users.py, upload_public_key)
THEOREM RegistrationInvariant ==
  Spec => []IInv
<1>1. Init => IInv
  BY InitInvariant
<1>2. IInv /\ [Next]_vars => IInv'
  BY NextInvariant
<1> QED BY <1>1, <1>2, PTL DEF Spec

\* The row, the threads, the contract and the pool have their types.
\* (models.py, User; KeyRegistry.sol)
THEOREM RegistrationTypeCorrect ==
  Spec => []TypeOK
<1>1. IInv => TypeOK
  BY DEF IInv
<1> QED BY <1>1, RegistrationInvariant, PTL

\* users.eth_key_tx never names a transaction that was not executed, however
\* many uploads overlap and whatever fails.
\* (registry.py, submit_key_registration_background)
THEOREM EthKeyTxNamesExecuted ==
  Spec => []EthKeyTxIsOnChain
<1>1. IInv => EthKeyTxIsOnChain
  BY DEF IInv, RowInv, EthKeyTxIsOnChain
<1> QED BY <1>1, RegistrationInvariant, PTL

\* One upload adds at most one version, and the log is the uploads executed.
\* (registry.py, register_or_rotate_key; KeyRegistry.sol)
THEOREM UploadsAddOneVersion ==
  Spec => []OneVersionPerUpload
<1>1. IInv => OneVersionPerUpload
  BY DEF IInv, OnceInv, LogInv, OneVersionPerUpload
<1> QED BY <1>1, RegistrationInvariant, PTL

\* No key reaches the contract that the database did not serve before.
\* (users.py, upload_public_key; auth.py, register)
THEOREM RegisteredKeysWereServed ==
  Spec => []RegisteredWasServed
<1>1. ASSUME IInv, NEW i \in 1 .. Len(log)
      PROVE  log[i].key \in served
  <2>1. executed[i] \in Upload /\ executed[i] \in Range(executed)
    BY <1>1, ExecutedAre
  <2>2. upKey[executed[i]] \in served
    BY <1>1, <2>1 DEF IInv, KeyInv, Mined
  <2>3. log[i] = R!Registered(User, upKey[executed[i]], i)
    BY <1>1 DEF IInv, LogInv
  <2> QED BY <2>2, <2>3 DEF R!Registered
<1>2. IInv => RegisteredWasServed
  BY <1>1 DEF RegisteredWasServed
<1> QED BY <1>2, RegistrationInvariant, PTL

-----------------------------------------------------------------------------
(* Calm weather: one upload at a time, and none of its calls fails.        *)

Active(u) == pc[u] \notin {"idle"} \cup Terminal

\* An upload whose key the database has and the contract has not yet answered.
Pending(u) == pc[u] \in {"registered", "thread", "send"} \/ (pc[u] = "wait" /\ ~Mined(u))

\* One upload is under way at a time.
AloneInv == \A u, v \in Upload : Active(u) /\ Active(v) => u = v

\* The upload that runs carries the served key, chose the call for the version
\* the contract is at, and is the last one executed if it was executed.
SteadyInv ==
  \A u \in Upload :
    /\ u \in Range(pool) => pc[u] = "wait"
    /\ pc[u] = "wait" => u \in Range(pool) \/ Mined(u)
    /\ pc[u] = "loaded" => loaded[u] = publicKey
    /\ pc[u] \in {"registered", "thread", "send", "wait", "persist"} => publicKey = upKey[u]
    /\ Pending(u) /\ pc[u] \notin {"registered", "thread"} =>
         fn[u] = IF keys[User].version = 0 THEN "registerKey" ELSE "rotateKey"
    /\ pc[u] \in {"wait", "persist"} /\ u \in Range(executed) => u = Latest

\* With no upload pending the contract has the served key, and the row names the
\* transaction that put it there as soon as its thread is over.
SettledInv ==
  /\ ~keys[User].revoked
  /\ publicKey # NoKey /\ (\A u \in Upload : ~Pending(u)) =>
       keys[User].version # 0 /\ keys[User].key = publicKey
  /\ executed # <<>> => ethKeyTx = Latest \/ pc[Latest] \in {"wait", "persist"}

CalmInv == weather = "calm" => AloneInv /\ SteadyInv /\ SettledInv

\* The uploads the contract can count: its version is a uint32.
Countable == IsFiniteSet(Upload) /\ Cardinality(Upload) <= MaxVersion

LEMMA LatestIs ==
  ASSUME IInv, executed # <<>>
  PROVE  Latest \in Upload /\ Latest \in Range(executed)
<1>1. executed \in Seq(Upload) /\ Len(executed) \in 1 .. Len(executed)
  BY DEF IInv, TypeOK
<1> QED BY <1>1, Positions DEF Latest

\* Each version is an upload of its own, so the contract never runs out of them.
LEMMA VersionsSuffice ==
  ASSUME IInv, Countable, NEW u \in Upload, u \notin Range(executed)
  PROVE  keys[User].version < MaxVersion
<1> DEFINE q == Append(executed, u)
           n == Len(executed) + 1
<1>1. executed \in Seq(Upload) /\ IsInjective(executed) /\ n \in Nat /\ n > 0
  BY DEF IInv, TypeOK, OnceInv
<1>2. q \in Seq(Upload) /\ IsInjective(q) /\ Len(q) = n
  BY <1>1, AppendOne
<1> HIDE DEF q, n
<1>3. q \in Injection(1 .. n, Upload)
  BY <1>2 DEF Injection
<1>4. Cardinality(1 .. n) <= Cardinality(Upload)
  BY <1>3, FS_Injection DEF Countable
<1>5. Cardinality(1 .. n) = n
  BY <1>1, FS_Interval
<1>6. Cardinality(Upload) \in Nat
  BY FS_CardinalityType DEF Countable
<1>7. keys[User].version = Len(executed) /\ Len(executed) \in Nat
  BY <1>1 DEF IInv, LogInv, TypeOK
<1> QED BY <1>1, <1>4, <1>5, <1>6, <1>7 DEF Countable, n

\* A request that arrives finds no other under way.
LEMMA ArriveCalm ==
  ASSUME IInv, weather = "calm", AloneInv, SteadyInv, SettledInv,
         NEW u \in Upload, NEW k \in Key, Register(u, k) \/ LoadUser(u, k)
  PROVE  AloneInv' /\ SteadyInv' /\ SettledInv'
<1>1. /\ pc[u] = "idle" /\ \A v \in Upload : ~Active(v)
      /\ upKey' = [upKey EXCEPT ![u] = k]
      /\ \/ pc' = [pc EXCEPT ![u] = "registered"] /\ publicKey' = k /\ loaded' = loaded
         \/ /\ pc' = [pc EXCEPT ![u] = "loaded"] /\ publicKey' = publicKey
            /\ loaded' = [loaded EXCEPT ![u] = publicKey]
      /\ UNCHANGED <<ethKeyTx, fn, keys, executed, reverted, pool>>
  BY DEF Register, LoadUser, Goto, Arrives, Active, chain, contract, row
<1>2. /\ pc \in [Upload -> Phase] /\ upKey \in [Upload -> Key \cup {NoKey}]
      /\ loaded \in [Upload -> Key \cup {NoKey}]
  BY DEF IInv, TypeOK
<1>3. /\ pc'[u] \in {"registered", "loaded"} /\ upKey'[u] = k
      /\ pc'[u] = "registered" => publicKey' = k
      /\ pc'[u] = "loaded" => publicKey' = publicKey /\ loaded'[u] = publicKey
      /\ \A v \in Upload \ {u} : pc'[v] = pc[v] /\ pc[v] \in {"idle"} \cup Terminal
  BY <1>1, <1>2 DEF Active
<1>4. \A v \in Upload : v \notin Range(pool)
  BY <1>1 DEF SteadyInv, Active, Terminal
<1>5. AloneInv'
  BY <1>3 DEF AloneInv, Active
<1>6. SteadyInv'
  <2>1. \A v \in Upload : pc'[v] \notin {"thread", "send", "wait", "persist"}
    BY <1>3 DEF Terminal
  <2>2. \A v \in Upload : pc'[v] = "loaded" => loaded'[v] = publicKey'
    BY <1>3 DEF Terminal
  <2>3. \A v \in Upload : pc'[v] = "registered" => publicKey' = upKey'[v]
    BY <1>3 DEF Terminal
  <2>4. \A v \in Upload : v \notin Range(pool')
    BY <1>1, <1>4
  <2> QED BY <2>1, <2>2, <2>3, <2>4 DEF SteadyInv, Pending
<1>7. SettledInv'
  <2>1. executed # <<>> => ethKeyTx = Latest
    BY <1>1, LatestIs DEF SettledInv, Active, Terminal
  <2>2. \A v \in Upload : ~Pending(v)
    BY <1>1 DEF Pending, Active, Terminal
  <2>3. pc'[u] = "registered" => Pending(u)'
    BY DEF Pending
  <2> QED BY <1>1, <1>3, <2>1, <2>2, <2>3 DEF SettledInv, Latest
<1> QED BY <1>5, <1>6, <1>7

\* What a step of the running upload leaves to be shown.
LEMMA StepOfOne ==
  ASSUME IInv, AloneInv, NEW u \in Upload, Active(u), NEW p \in Phase,
         pc' = [pc EXCEPT ![u] = p]
  PROVE  /\ pc'[u] = p /\ \A v \in Upload \ {u} : pc'[v] = pc[v]
         /\ \A v \in Upload \ {u} : pc[v] \in {"idle"} \cup Terminal
         /\ AloneInv'
<1>1. pc'[u] = p /\ \A v \in Upload \ {u} : pc'[v] = pc[v]
  BY DEF IInv, TypeOK
<1>2. \A v \in Upload \ {u} : pc[v] \in {"idle"} \cup Terminal
  BY DEF AloneInv, Active
<1> QED BY <1>1, <1>2 DEF AloneInv, Active

\* Nobody has written the row since the registration did.
LEMMA StartCalm ==
  ASSUME IInv, AloneInv, SteadyInv, SettledInv, NEW u \in Upload, StartThread(u)
  PROVE  AloneInv' /\ SteadyInv' /\ SettledInv'
<1>1. /\ pc[u] = "registered" /\ pc' = [pc EXCEPT ![u] = "thread"]
      /\ upKey' = [upKey EXCEPT ![u] = publicKey] /\ publicKey = upKey[u]
      /\ UNCHANGED <<publicKey, loaded, ethKeyTx, fn, keys, executed, reverted, pool>>
  BY DEF StartThread, Goto, chain, contract, row, SteadyInv
<1>2. upKey' = upKey
  BY <1>1 DEF IInv, TypeOK
<1>3. /\ pc'[u] = "thread" /\ \A v \in Upload \ {u} : pc'[v] = pc[v]
      /\ \A v \in Upload \ {u} : pc[v] \in {"idle"} \cup Terminal
      /\ AloneInv'
  BY <1>1, StepOfOne DEF Active, Phase, Terminal
<1>4. SteadyInv'
  <2>1. u \notin Range(pool)
    BY <1>1 DEF SteadyInv
  <2> QED BY <1>1, <1>2, <1>3, <2>1 DEF SteadyInv, Pending, Mined, Terminal
<1>5. SettledInv'
  <2>1. Pending(u)'
    BY <1>3 DEF Pending
  <2>2. executed # <<>> => ethKeyTx = Latest
    BY <1>1, <1>3, LatestIs DEF SettledInv, Terminal
  <2> QED BY <1>1, <2>1, <2>2 DEF SettledInv, Latest
<1> QED BY <1>3, <1>4, <1>5

\* The commit stores the key the thread will send, also where it writes nothing.
LEMMA CommitCalm ==
  ASSUME IInv, AloneInv, SteadyInv, SettledInv, NEW u \in Upload, Commit(u)
  PROVE  AloneInv' /\ SteadyInv' /\ SettledInv'
<1>1. /\ pc[u] = "loaded" /\ pc' = [pc EXCEPT ![u] = "thread"]
      /\ publicKey' = IF upKey[u] = loaded[u] THEN publicKey ELSE upKey[u]
      /\ UNCHANGED <<ethKeyTx, upKey, fn, keys, executed, reverted, pool>>
  BY DEF Commit, Goto, chain, contract
<1>2. /\ pc'[u] = "thread" /\ \A v \in Upload \ {u} : pc'[v] = pc[v]
      /\ \A v \in Upload \ {u} : pc[v] \in {"idle"} \cup Terminal
      /\ AloneInv'
  BY <1>1, StepOfOne DEF Active, Phase, Terminal
<1>3. publicKey' = upKey[u]
  BY <1>1 DEF SteadyInv
<1>4. SteadyInv'
  <2>1. u \notin Range(pool)
    BY <1>1 DEF SteadyInv
  <2> QED BY <1>1, <1>2, <1>3, <2>1 DEF SteadyInv, Pending, Mined, Terminal
<1>5. SettledInv'
  <2>1. Pending(u)'
    BY <1>2 DEF Pending
  <2>2. executed # <<>> => ethKeyTx = Latest
    BY <1>1, <1>2, LatestIs DEF SettledInv, Terminal
  <2> QED BY <1>1, <2>1, <2>2 DEF SettledInv, Latest
<1> QED BY <1>2, <1>4, <1>5

LEMMA ChooseCalm ==
  ASSUME IInv, weather = "calm", AloneInv, SteadyInv, SettledInv, NEW u \in Upload, ChooseCall(u)
  PROVE  AloneInv' /\ SteadyInv' /\ SettledInv'
<1>1. /\ pc[u] = "thread" /\ pc' = [pc EXCEPT ![u] = "send"]
      /\ fn' = [fn EXCEPT ![u] = IF keys[User].version = 0 THEN "registerKey" ELSE "rotateKey"]
      /\ UNCHANGED <<publicKey, loaded, ethKeyTx, upKey, keys, executed, reverted, pool>>
  BY DEF ChooseCall, Goto, chain, contract, row
<1>2. /\ pc'[u] = "send" /\ \A v \in Upload \ {u} : pc'[v] = pc[v]
      /\ \A v \in Upload \ {u} : pc[v] \in {"idle"} \cup Terminal
      /\ AloneInv'
  BY <1>1, StepOfOne DEF Active, Phase, Terminal
<1>3. fn'[u] = IF keys[User].version = 0 THEN "registerKey" ELSE "rotateKey"
  BY <1>1 DEF IInv, TypeOK
<1>4. SteadyInv'
  <2>1. u \notin Range(pool)
    BY <1>1 DEF SteadyInv
  <2> QED BY <1>1, <1>2, <1>3, <2>1 DEF SteadyInv, Pending, Mined, Terminal
<1>5. SettledInv'
  <2>1. Pending(u)'
    BY <1>2 DEF Pending
  <2>2. executed # <<>> => ethKeyTx = Latest
    BY <1>1, <1>2, LatestIs DEF SettledInv, Terminal
  <2> QED BY <1>1, <2>1, <2>2 DEF SettledInv, Latest
<1> QED BY <1>2, <1>4, <1>5

LEMMA SendCalm ==
  ASSUME IInv, AloneInv, SteadyInv, SettledInv, NEW u \in Upload, Broadcast(u)
  PROVE  AloneInv' /\ SteadyInv' /\ SettledInv'
<1>1. /\ pc[u] = "send" /\ pc' = [pc EXCEPT ![u] = "wait"] /\ Enqueue(u)
      /\ UNCHANGED <<publicKey, loaded, ethKeyTx, upKey, fn, keys, executed, reverted>>
  BY DEF Broadcast, Goto, chain, contract, row, local
<1>2. /\ pc'[u] = "wait" /\ \A v \in Upload \ {u} : pc'[v] = pc[v]
      /\ \A v \in Upload \ {u} : pc[v] \in {"idle"} \cup Terminal
      /\ AloneInv'
  BY <1>1, StepOfOne DEF Active, Phase, Terminal
<1>3. u \notin Range(pool) /\ ~Mined(u)
  BY <1>1 DEF IInv, LifeInv
<1>4. Range(pool') = Range(pool) \cup {u}
  BY <1>1, <1>3, EnqueueAdds
<1>5. Pending(u) /\ Pending(u)'
  BY <1>1, <1>2, <1>3 DEF Pending, Mined
<1>6. SteadyInv'
  BY <1>1, <1>2, <1>3, <1>4, <1>5 DEF SteadyInv, Pending, Mined, Terminal, Latest
<1>7. SettledInv'
  <2>1. executed # <<>> => ethKeyTx = Latest
    BY <1>1, <1>2, LatestIs DEF SettledInv, Terminal
  <2> QED BY <1>1, <1>5, <2>1 DEF SettledInv, Latest
<1> QED BY <1>2, <1>6, <1>7

\* The answer to an upload executed, or to one that carried the key on chain.
LEMMA AnswerCalm ==
  ASSUME IInv, AloneInv, SteadyInv, SettledInv, NEW u \in Upload, GetReceipt(u) \/ Persist(u)
  PROVE  AloneInv' /\ SteadyInv' /\ SettledInv'
<1>1. /\ pc[u] \in {"wait", "persist"}
      /\ UNCHANGED <<publicKey, loaded, upKey, fn, keys, executed, reverted, pool>>
      /\ \/ /\ u \in Range(executed) /\ ethKeyTx' = ethKeyTx
            /\ pc[u] = "wait" /\ pc' = [pc EXCEPT ![u] = "persist"]
         \/ /\ u \in reverted /\ ethKeyTx' = ethKeyTx
            /\ pc[u] = "wait" /\ pc' = [pc EXCEPT ![u] = "failed"]
         \/ /\ ethKeyTx' = u
            /\ pc[u] = "persist" /\ pc' = [pc EXCEPT ![u] = "done"]
  BY DEF GetReceipt, Persist, Goto, chain, contract, row, local
<1>2. PICK p \in {"persist", "failed", "done"} :
        /\ pc' = [pc EXCEPT ![u] = p]
        /\ p = "persist" => u \in Range(executed) /\ ethKeyTx' = ethKeyTx
        /\ p = "failed" => u \in reverted /\ ethKeyTx' = ethKeyTx
        /\ p = "done" => u \in Range(executed) /\ ethKeyTx' = u
  BY <1>1 DEF IInv, LifeInv
<1>3. /\ pc'[u] = p /\ \A v \in Upload \ {u} : pc'[v] = pc[v]
      /\ \A v \in Upload \ {u} : pc[v] \in {"idle"} \cup Terminal
      /\ AloneInv'
  BY <1>1, <1>2, StepOfOne DEF Active, Phase, Terminal
<1>4. Mined(u) /\ ~Pending(u) /\ ~Pending(u)' /\ u \notin Range(pool)
  BY <1>1, <1>2, <1>3 DEF Pending, Mined, IInv, OnceInv
<1>5. \A v \in Upload : ~Pending(v) /\ ~Pending(v)'
  BY <1>3, <1>4 DEF Pending, Terminal
<1>6. u \in Range(executed) => u = Latest /\ executed # <<>>
  BY <1>1 DEF SteadyInv, Range
<1>7. SteadyInv'
  BY <1>1, <1>2, <1>3, <1>4, <1>5, <1>6 DEF SteadyInv, Mined, Terminal, Latest
<1>8. SettledInv'
  <2>1. ASSUME executed # <<>>
        PROVE  ethKeyTx' = Latest \/ pc'[Latest] \in {"wait", "persist"}
    <3>1. CASE p \in {"persist", "done"}
      BY <1>2, <1>3, <1>6, <3>1
    <3>2. CASE p = "failed"
      <4>1. Latest # u /\ Latest \in Upload
        BY <1>2, <2>1, <3>2, LatestIs DEF IInv, OnceInv
      <4> QED BY <1>2, <1>3, <2>1, <3>2, <4>1 DEF SettledInv, Terminal
    <3> QED BY <3>1, <3>2
  <2> QED BY <1>1, <1>5, <2>1 DEF SettledInv, Latest
<1> QED BY <1>3, <1>7, <1>8

\* The block executes the upload's call, or turns away a key it already has.
LEMMA MineCalm ==
  ASSUME IInv, Countable, AloneInv, SteadyInv, SettledInv, Mine
  PROVE  AloneInv' /\ SteadyInv' /\ SettledInv'
<1>0. PICK u \in Upload : u = Head(pool)
  BY MineRemoves DEF Mine
<1>1. /\ pool # <<>> /\ pool' = Tail(pool)
      /\ UNCHANGED <<publicKey, loaded, ethKeyTx, upKey, fn, pc>>
      /\ \/ Execute(u) /\ executed' = Append(executed, u) /\ reverted' = reverted
         \/ /\ ~R!Callable(fn[u], User, upKey[u]) /\ reverted' = reverted \cup {u}
            /\ UNCHANGED <<keys, executed>>
  BY <1>0 DEF Mine, row, local, contract
<1>2. u \in Upload /\ u \in Range(pool) /\ Range(pool') = Range(pool) \ {u}
  BY <1>0, <1>1, MineRemoves
<1>3. pc[u] = "wait" /\ ~Mined(u) /\ Pending(u)
  BY <1>2 DEF SteadyInv, IInv, OnceInv, Pending
<1>4. /\ fn[u] = IF keys[User].version = 0 THEN "registerKey" ELSE "rotateKey"
      /\ publicKey = upKey[u] /\ upKey[u] \in Key
  BY <1>2, <1>3 DEF SteadyInv, IInv, TypeOK, KeyInv, Running
<1>5. \A v \in Upload \ {u} : pc[v] \in {"idle"} \cup Terminal
  BY <1>2, <1>3 DEF AloneInv, Active, Terminal
<1>6. AloneInv'
  BY <1>1 DEF AloneInv, Active
<1>7. keys[User].version \in 0 .. MaxVersion - 1
  <2>1. keys[User].version < MaxVersion
    BY <1>2, <1>3, VersionsSuffice DEF Mined
  <2>2. keys[User].version \in Nat
    BY DEF IInv, TypeOK, R!TypeOK, R!KeyRecord
  <2> QED BY <2>1, <2>2
<1>8. executed \in Seq(Upload) /\ Len(executed) \in Nat
  BY DEF IInv, TypeOK
<1>9. CASE Execute(u) /\ executed' = Append(executed, u) /\ reverted' = reverted
  <2>1. /\ keys'[User].version = Len(log) + 1 /\ keys'[User].key = upKey[u]
        /\ ~keys'[User].revoked
    BY <1>2, <1>4, <1>9, ExecuteWrites
  <2>2. keys'[User].version # 0
    BY <1>8, <2>1 DEF IInv, LogInv
  <2>3. /\ executed' # <<>> /\ Latest' = u /\ u \in Range(executed')
        /\ Range(executed') = Range(executed) \cup {u}
    <3>1. Len(executed') = Len(executed) + 1 /\ executed'[Len(executed) + 1] = u
      BY <1>2, <1>8, <1>9
    <3>2. Range(executed') = Range(executed) \cup {u}
      BY <1>2, <1>3, <1>8, <1>9, AppendOne DEF IInv, OnceInv, Mined
    <3> QED BY <1>8, <3>1, <3>2 DEF Latest
  <2>4. Mined(u)' /\ \A v \in Upload \ {u} : Mined(v)' <=> Mined(v)
    BY <1>9, <2>3 DEF Mined
  <2>5. SteadyInv'
    <3>1. ASSUME NEW v \in Upload, v # u
          PROVE  /\ v \notin Range(pool') /\ pc'[v] \in {"idle"} \cup Terminal
      BY <1>1, <1>2, <1>5, <3>1 DEF SteadyInv, Terminal
    <3>2. ~Pending(u)'
      BY <1>1, <1>3, <2>4 DEF Pending
    <3> QED BY <1>1, <1>2, <1>3, <1>4, <2>3, <2>4, <3>1, <3>2 DEF SteadyInv, Pending, Terminal
  <2>6. SettledInv'
    BY <1>1, <1>3, <1>4, <2>1, <2>2, <2>3 DEF SettledInv
  <2> QED BY <1>6, <2>5, <2>6
<1>10. CASE /\ ~R!Callable(fn[u], User, upKey[u]) /\ reverted' = reverted \cup {u}
            /\ UNCHANGED <<keys, executed>>
  <2>1. keys[User].version # 0 /\ keys[User].key = upKey[u]
    <3>1. CASE keys[User].version = 0
      <4>1. fn[u] = "registerKey"
        BY <1>4, <3>1
      <4> QED BY <1>10, <3>1, <4>1 DEF R!Callable
    <3>2. CASE keys[User].version # 0
      <4>1. fn[u] = "rotateKey" /\ keys[User].version \in 1 .. MaxVersion - 1
        BY <1>4, <1>7, <3>2
      <4>2. keys[User].key = upKey[u]
        BY <1>10, <4>1 DEF R!Callable
      <4> QED BY <3>2, <4>2
    <3> QED BY <3>1, <3>2
  <2>2. Mined(u)' /\ \A v \in Upload \ {u} : Mined(v)' <=> Mined(v)
    BY <1>10 DEF Mined
  <2>3. SteadyInv'
    <3>1. ASSUME NEW v \in Upload, v # u
          PROVE  /\ v \notin Range(pool') /\ pc'[v] \in {"idle"} \cup Terminal
      BY <1>1, <1>2, <1>5, <3>1 DEF SteadyInv, Terminal
    <3>2. ~Pending(u)'
      BY <1>1, <1>3, <2>2 DEF Pending
    <3>3. u \notin Range(executed')
      BY <1>3, <1>10 DEF Mined
    <3> QED BY <1>1, <1>2, <1>3, <1>4, <2>2, <3>1, <3>2, <3>3 DEF SteadyInv, Pending, Terminal
  <2>4. SettledInv'
    BY <1>1, <1>4, <1>10, <2>1 DEF SettledInv, Latest
  <2> QED BY <1>6, <2>3, <2>4
<1> QED BY <1>1, <1>9, <1>10

LEMMA CalmStep ==
  ASSUME IInv, Countable, CalmInv, [Next]_vars
  PROVE  CalmInv'
<1> SUFFICES ASSUME weather' = "calm"
             PROVE  AloneInv' /\ SteadyInv' /\ SettledInv'
  BY DEF CalmInv
<1>1. weather = "calm"
  BY DEF Next, Register, LoadUser, ThreadStep, StartThread, Commit, ChooseCall, Broadcast,
         AnswerLost, ThreadFails, GetReceipt, Persist, RegisterKeyless, Mine, CatchUp, Drop, Restart,
         vars, local
<1>2. AloneInv /\ SteadyInv /\ SettledInv
  BY <1>1 DEF CalmInv
<1>3. ~CatchUp /\ ~Drop /\ ~Restart /\ \A u \in Upload : ~AnswerLost(u) /\ ~ThreadFails(u)
  BY <1>1 DEF CatchUp, Drop, Restart, AnswerLost, ThreadFails
<1>4. ASSUME NEW u \in Upload, NEW k \in Key, Register(u, k) \/ LoadUser(u, k)
      PROVE  AloneInv' /\ SteadyInv' /\ SettledInv'
  BY <1>1, <1>2, <1>4, ArriveCalm
<1>5. ASSUME NEW u \in Upload, ThreadStep(u)
      PROVE  AloneInv' /\ SteadyInv' /\ SettledInv'
  BY <1>1, <1>2, <1>3, <1>5, StartCalm, CommitCalm, ChooseCalm, SendCalm, AnswerCalm DEF ThreadStep
<1>6. CASE Mine
  BY <1>2, <1>6, MineCalm
<1>7. CASE RegisterKeyless \/ UNCHANGED vars
  <2>1. UNCHANGED <<publicKey, ethKeyTx, pc, upKey, loaded, fn, keys, pool, executed, reverted>>
    BY <1>7 DEF RegisterKeyless, vars, row, local, chain, contract
  <2> QED BY <1>2, <2>1 DEF AloneInv, SteadyInv, SettledInv, Active, Pending, Mined, Latest
<1> QED BY <1>3, <1>4, <1>5, <1>6, <1>7 DEF Next

\* Uploads that come one after the other, as many as a uint32 can count, leave
\* the served key in the contract and its transaction in the row.
\* (users.py, upload_public_key; registry.py, register_or_rotate_key)
THEOREM SequentialUploadsAgree ==
  ASSUME Countable
  PROVE  Spec => []SequentialUploadsConverge
<1>1. Init => CalmInv
  <2>1. ASSUME Init
        PROVE  AloneInv /\ SteadyInv /\ SettledInv
    <3>1. /\ Range(pool) = {} /\ executed = <<>> /\ publicKey = NoKey
          /\ \A u \in Upload : pc[u] = "idle"
      BY <2>1 DEF Init, Range
    <3>2. ~keys[User].revoked
      BY <2>1 DEF Init, R!Init, R!EmptyRecord
    <3> QED BY <3>1, <3>2 DEF AloneInv, SteadyInv, SettledInv, Active, Pending
  <2> QED BY <2>1 DEF CalmInv
<1>2. IInv /\ CalmInv /\ [Next]_vars => CalmInv'
  BY CalmStep
<1>3. ASSUME IInv, CalmInv, weather = "calm", Quiescent, publicKey # NoKey
      PROVE  /\ keys[User].key = publicKey /\ ~keys[User].revoked
             /\ ethKeyTx = Latest
  <2>1. \A u \in Upload : pc[u] \in {"idle"} \cup Terminal
    BY <1>3 DEF Quiescent
  <2>2. SettledInv
    BY <1>3 DEF CalmInv
  <2>3. keys[User].version # 0 /\ keys[User].key = publicKey /\ ~keys[User].revoked
    BY <1>3, <2>1, <2>2 DEF SettledInv, Pending, Terminal
  <2>4. executed # <<>>
    BY <1>3, <2>3 DEF IInv, LogInv
  <2> QED BY <1>3, <2>1, <2>2, <2>3, <2>4, LatestIs DEF SettledInv, Terminal
<1>4. IInv /\ CalmInv => SequentialUploadsConverge
  BY <1>3 DEF SequentialUploadsConverge
<1> QED BY <1>1, <1>2, <1>4, RegistrationInvariant, PTL DEF Spec

-----------------------------------------------------------------------------
(* The composition: the wallet and the contract.                           *)

LEMMA RegistrationQueueStep ==
  ASSUME IInv, [Next]_vars
  PROVE  [Queue!Next]_(Queue!vars)
<1> USE DEF Queue!Next, Queue!Send, Queue!Mine, Queue!Upset, Queue!vars
<1>1. /\ pool \in Seq(Upload) /\ executed \in Seq(Upload) /\ IsInjective(executed)
      /\ tangled \in BOOLEAN /\ Len(pool) \in Nat
  BY DEF IInv, TypeOK, OnceInv
<1>2. ASSUME NEW u \in Upload, Broadcast(u) \/ AnswerLost(u)
      PROVE  Queue!Next
  <2>1. /\ pc[u] = "send" /\ Enqueue(u) /\ UNCHANGED <<executed, reverted>>
        /\ tangled' = tangled \/ tangled' = TRUE
    BY <1>2 DEF Broadcast, AnswerLost, Goto, chain
  <2>2. CASE tangled' = TRUE
    BY <2>1, <2>2
  <2>3. CASE tangled' # TRUE
    <3>1. ~tangled /\ tangled' = tangled
      BY <1>1, <2>1, <2>3
    <3>2. pool' = Append(pool, u)
      BY <1>1, <2>1, <3>1, InsertedLast DEF Enqueue
    <3>3. u \notin Range(pool) \cup (Range(executed) \cup reverted)
      BY <2>1 DEF IInv, LifeInv, Mined
    <3>4. Queue!Send(u)
      BY <2>1, <3>2, <3>3 DEF Range, Queue!Range
    <3> QED BY <3>1, <3>4
  <2> QED BY <2>2, <2>3
<1>3. CASE Mine
  <2>1. /\ pool # <<>> /\ pool' = Tail(pool) /\ tangled' = tangled
        /\ \/ executed' = Append(executed, Head(pool)) /\ reverted' = reverted
           \/ executed' = executed /\ reverted' = reverted \cup {Head(pool)}
    BY <1>3 DEF Mine
  <2>2. Head(pool) \in Upload /\ Head(pool) \notin Range(executed)
    BY <2>1, MineRemoves DEF IInv, OnceInv, Mined
  <2>3. Range(Append(executed, Head(pool))) = Range(executed) \cup {Head(pool)}
    BY <1>1, <2>2, AppendOne
  <2>4. (Range(executed) \cup reverted)' = (Range(executed) \cup reverted) \cup {Head(pool)}
    BY <2>1, <2>3
  <2>5. CASE tangled
    BY <2>1, <2>4, <2>5
  <2>6. CASE ~tangled
    BY <2>1, <2>4, <2>6
  <2> QED BY <2>5, <2>6
<1>4. CASE Drop \/ Restart
  BY <1>4 DEF Drop, Restart, chain
<1>5. CASE UNCHANGED <<pool, executed, reverted, tangled>>
  BY <1>5
<1> QED
  BY <1>2, <1>3, <1>4, <1>5
     DEF Next, ThreadStep, Register, LoadUser, StartThread, Commit, ChooseCall, ThreadFails,
         GetReceipt, Persist, RegisterKeyless, CatchUp, vars, chain

\* The registrations keep the order module SendLock proves of the allocator:
\* until a drop, a lost answer or a restart they are mined in the order of their
\* broadcasts, each once. (_send_lock.py; registry.py, _send)
THEOREM RegistrationsUseQueue ==
  Spec => UsesQueue
<1>1. Init => Queue!Init
  BY DEF Init, Queue!Init, Range
<1>2. IInv /\ [Next]_vars => [Queue!Next]_(Queue!vars)
  BY RegistrationQueueStep
<1> QED BY <1>1, <1>2, RegistrationInvariant, PTL DEF Spec, UsesQueue, Queue!Spec

LEMMA ContractStep ==
  ASSUME IInv, [Next]_vars
  PROVE  [R!Next]_(R!vars)
<1>1. CASE Mine
  <2>1. /\ pool # <<>> /\ pool' = Tail(pool)
        /\ Execute(Head(pool)) \/ UNCHANGED contract
    BY <1>1 DEF Mine
  <2>2. Head(pool) \in Upload /\ Head(pool) \in Range(pool)
    BY <2>1, MineRemoves
  <2>3. upKey[Head(pool)] \in Key
    BY <2>2 DEF IInv, TypeOK, KeyInv
  <2>4. CASE UNCHANGED contract
    BY <2>4 DEF contract, R!vars
  <2>5. CASE Execute(Head(pool))
    BY <2>3, <2>5 DEF Execute, R!Next
  <2> QED BY <2>1, <2>4, <2>5
<1>2. CASE UNCHANGED contract
  BY <1>2 DEF contract, R!vars
<1> QED
  BY <1>1, <1>2
     DEF Next, ThreadStep, Register, LoadUser, StartThread, Commit, ChooseCall, Broadcast,
         AnswerLost,
         ThreadFails, GetReceipt, Persist, RegisterKeyless, CatchUp, Drop, Restart, vars, chain

\* What the server sends is within what the contract's own module describes, so
\* what is proved of every transaction there holds of the server's.
\* (registry.py, register_or_rotate_key; KeyRegistry.sol)
THEOREM RegistrationsUseContract ==
  Spec => UsesContract
<1>1. Init => R!Init
  BY DEF Init
<1>2. IInv /\ [Next]_vars => [R!Next]_(R!vars)
  BY ContractStep
<1> QED BY <1>1, <1>2, RegistrationInvariant, PTL DEF Spec, UsesContract, R!Spec
=============================================================================
