--------------------------- MODULE Mailbox_proof ---------------------------
(***************************************************************************)
(* Proofs about AuditChain and Mailbox, for any number of requests, files  *)
(* and users.                                                              *)
(***************************************************************************)
EXTENDS Mailbox, SequenceTheorems, TLAPS

-----------------------------------------------------------------------------
(* The audit log.                                                          *)

\* What was read is a record or the mark of an empty log.
LEMMA MostRecentFacts ==
  ASSUME ChainTypeOK, NEW x \in MostRecent
  PROVE  /\ x \in records \cup {NoRecord}
         /\ x = NoRecord => records = {}
         /\ x # NoRecord => x \in records /\ \A y \in records : y.block_index <= x.block_index
<1>1. NoRecord \notin records
  BY RecordAssumption DEF ChainTypeOK
<1> QED
  BY <1>1 DEF MostRecent

\* The record appended: whole, and one further than the one it continues.
LEMMA NextRecordFacts ==
  ASSUME ChainTypeOK, RecordsFormATree, NEW x \in records \cup {NoRecord}, NEW f \in File
  PROVE  /\ NextRecord(x, f) \in Record
         /\ NextRecord(x, f).file = f
         /\ NextRecord(x, f).previous_hash = IF x = NoRecord THEN Genesis ELSE x.block_hash
         /\ NextRecord(x, f).block_hash = Append(NextRecord(x, f).previous_hash, f)
         /\ NextRecord(x, f).block_index = Len(NextRecord(x, f).previous_hash) + 1
<1>1. CASE x = NoRecord
  <2>1. NextRecord(x, f) = [file |-> f, previous_hash |-> <<>>, block_hash |-> Append(<<>>, f), block_index |-> 1]
    BY <1>1 DEF NextRecord, Genesis
  <2>2. <<>> \in Seq(File) /\ Append(<<>>, f) \in Seq(File) /\ Len(<<>>) = 0
    OBVIOUS
  <2> QED
    BY <1>1, <2>1, <2>2 DEF Record, Genesis
<1>2. CASE x # NoRecord
  <2>1. x \in Record /\ x \in records
    BY <1>2 DEF ChainTypeOK
  <2>2. x.block_hash \in Seq(File) /\ x.previous_hash \in Seq(File) /\ x.file \in File /\ x.block_index \in Nat
    BY <2>1 DEF Record
  <2>3. x.block_hash = Append(x.previous_hash, x.file) /\ x.block_index = Len(x.previous_hash) + 1
    BY <2>1 DEF RecordsFormATree
  <2>4. Len(x.block_hash) = x.block_index
    BY <2>2, <2>3
  <2>5. NextRecord(x, f) = [file |-> f, previous_hash |-> x.block_hash,
                            block_hash |-> Append(x.block_hash, f), block_index |-> x.block_index + 1]
    BY <1>2 DEF NextRecord
  <2>6. Append(x.block_hash, f) \in Seq(File) /\ x.block_index + 1 \in Nat
    BY <2>2
  <2> QED
    BY <1>2, <2>2, <2>4, <2>5, <2>6 DEF Record
<1> QED
  BY <1>1, <1>2

\* An empty log is a chain.
LEMMA ChainStarts ==
  ASSUME ChainInit
  PROVE  ChainInv
<1>1. ChainTypeOK
  BY EngineAssumption DEF ChainInit, ChainTypeOK
<1>2. RecordsFormATree /\ AuditIsAChain /\ LastInv
  BY DEF ChainInit, RecordsFormATree, AuditIsAChain, LastInv
<1> QED
  BY <1>1, <1>2 DEF ChainInv

\* A transaction that opens on SQLite is the only one, and has just read.
LEMMA BeginKeeps ==
  ASSUME ChainInv, NEW r \in Request, BeginAppend(r)
  PROVE  ChainInv'
<1> USE DEF ChainInv
<1>1. PICK x \in MostRecent : last' = [last EXCEPT ![r] = x]
  BY DEF BeginAppend
<1>2. /\ open' = open \cup {r} /\ engine' = engine /\ records' = records
      /\ engine = "sqlite" => open = {}
  BY DEF BeginAppend, MayWrite
<1>3. x \in records \cup {NoRecord} /\ x \in Record \cup {NoRecord}
  BY <1>1, MostRecentFacts DEF ChainTypeOK
<1>4. last'[r] = x /\ \A s \in Request : s # r => last'[s] = last[s]
  BY <1>1 DEF ChainTypeOK
<1>5. ChainTypeOK'
  BY <1>1, <1>2, <1>3 DEF ChainTypeOK
<1>6. RecordsFormATree' /\ AuditIsAChain'
  BY <1>2 DEF RecordsFormATree, AuditIsAChain
<1>7. MostRecent' = MostRecent
  BY <1>2 DEF MostRecent
<1>8. \A s \in Request : last'[s] \in records' \cup {NoRecord}
  BY <1>2, <1>3, <1>4 DEF LastInv
<1>9. engine' = "sqlite" => \A s, t \in open' : s = t /\ last'[s] \in MostRecent'
  BY <1>1, <1>2, <1>4, <1>7
<1> QED
  BY <1>5, <1>6, <1>8, <1>9 DEF LastInv

\* A transaction that ends without a record leaves the log as it was.
LEMMA RollbackKeeps ==
  ASSUME ChainInv, NEW r \in Request, Rollback(r)
  PROVE  ChainInv'
<1> USE DEF ChainInv
<1>1. /\ open' = open \ {r} /\ engine' = engine /\ records' = records
      /\ last' = [last EXCEPT ![r] = NoRecord]
  BY DEF Rollback, EndTransaction
<1>2. ChainTypeOK'
  BY <1>1 DEF ChainTypeOK
<1>3. RecordsFormATree' /\ AuditIsAChain'
  BY <1>1 DEF RecordsFormATree, AuditIsAChain
<1>4. MostRecent' = MostRecent
  BY <1>1 DEF MostRecent
<1>5. \A s \in Request : last'[s] = IF s = r THEN NoRecord ELSE last[s]
  BY <1>1 DEF ChainTypeOK
<1>6. \A s \in Request : last'[s] \in records' \cup {NoRecord}
  BY <1>1, <1>5 DEF LastInv
<1>7. ASSUME engine' = "sqlite", NEW s \in open', NEW t \in open'
      PROVE  s = t /\ last'[s] \in MostRecent'
  <2>1. s \in open /\ t \in open /\ s # r /\ s \in Request
    BY <1>1, <1>7 DEF ChainTypeOK
  <2> QED
    BY <2>1, <1>1, <1>4, <1>5, <1>7 DEF LastInv
<1> QED
  BY <1>2, <1>3, <1>6, <1>7 DEF LastInv

\* What an append does on SQLite: the transaction was the only one, so that its
\* record continues the most recent one, and no other does.
LEMMA AppendKeeps ==
  ASSUME ChainInv, NEW r \in Request, NEW f \in File, AppendRecord(r, f)
  PROVE  ChainInv'
<1> USE DEF ChainInv
<1> DEFINE new == NextRecord(last[r], f)
<1>1. /\ r \in open /\ open' = open \ {r} /\ engine' = engine
      /\ last' = [last EXCEPT ![r] = NoRecord]
      /\ records' = records \cup {new}
  BY DEF AppendRecord, EndTransaction
<1>2. last[r] \in records \cup {NoRecord}
  BY DEF LastInv
<1>3. /\ new \in Record
      /\ new.file = f
      /\ new.previous_hash = IF last[r] = NoRecord THEN Genesis ELSE last[r].block_hash
      /\ new.block_hash = Append(new.previous_hash, f)
      /\ new.block_index = Len(new.previous_hash) + 1
  BY <1>2, NextRecordFacts
<1> HIDE DEF new
<1>4. ChainTypeOK'
  BY <1>1, <1>3 DEF ChainTypeOK
<1>5. RecordsFormATree'
  <2>1. ASSUME NEW x \in records
        PROVE  /\ x.previous_hash = Genesis \/ \E y \in records' : y.block_hash = x.previous_hash
               /\ x.block_hash = Append(x.previous_hash, x.file)
               /\ x.block_index = Len(x.previous_hash) + 1
    BY <1>1 DEF RecordsFormATree
  <2>2. new.previous_hash = Genesis \/ \E y \in records' : y.block_hash = new.previous_hash
    BY <1>1, <1>2, <1>3
  <2> QED
    BY <2>1, <2>2, <1>1, <1>3 DEF RecordsFormATree
<1>6. ASSUME engine = "sqlite", NEW x \in records
      PROVE  x.previous_hash # new.previous_hash
  <2>1. last[r] \in MostRecent
    BY <1>1, <1>6 DEF LastInv
  <2>2. last[r] \in records /\ x.block_index <= last[r].block_index /\ last[r] # NoRecord
    BY <2>1, <1>6, MostRecentFacts, RecordAssumption DEF ChainTypeOK
  <2>3. last[r] \in Record /\ x \in Record
    BY <2>2, <1>6 DEF ChainTypeOK
  <2>4. /\ last[r].block_hash = Append(last[r].previous_hash, last[r].file)
        /\ last[r].block_index = Len(last[r].previous_hash) + 1
        /\ x.block_index = Len(x.previous_hash) + 1
    BY <2>2, <1>6 DEF RecordsFormATree
  <2>5. last[r].previous_hash \in Seq(File) /\ last[r].file \in File /\ x.previous_hash \in Seq(File)
    BY <2>3 DEF Record
  <2>6. Len(new.previous_hash) = Len(last[r].previous_hash) + 1
    BY <2>2, <2>4, <2>5, <1>3
  <2>7. Len(last[r].previous_hash) \in Nat /\ Len(x.previous_hash) \in Nat
    BY <2>5
  <2> QED
    BY <2>2, <2>4, <2>6, <2>7
<1>7. AuditIsAChain'
  BY <1>1, <1>6 DEF AuditIsAChain
<1>8. \A s \in Request : last'[s] = IF s = r THEN NoRecord ELSE last[s]
  BY <1>1 DEF ChainTypeOK
<1>9. \A s \in Request : last'[s] \in records' \cup {NoRecord}
  BY <1>1, <1>8 DEF LastInv
<1>10. engine' = "sqlite" => open' = {}
  BY <1>1 DEF LastInv
<1> QED
  BY <1>4, <1>5, <1>7, <1>9, <1>10 DEF LastInv

\* Every step of the log keeps the invariant.
LEMMA ChainStep ==
  ASSUME ChainInv, [ChainNext]_chainVars
  PROVE  ChainInv'
<1>1. ASSUME NEW r \in Request, BeginAppend(r)
      PROVE  ChainInv'
  BY <1>1, BeginKeeps
<1>2. ASSUME NEW r \in Request, NEW f \in File, AppendRecord(r, f)
      PROVE  ChainInv'
  BY <1>2, AppendKeeps
<1>3. ASSUME NEW r \in Request, Rollback(r)
      PROVE  ChainInv'
  BY <1>3, RollbackKeeps
<1>4. CASE UNCHANGED chainVars
  BY <1>4 DEF chainVars, ChainInv, ChainTypeOK, RecordsFormATree, AuditIsAChain, LastInv, MostRecent
<1> QED
  BY <1>1, <1>2, <1>3, <1>4 DEF ChainNext

\* The audit log's invariant, for every database it considers.
THEOREM ChainInvariant == ChainSpec => []ChainInv
<1>1. ChainInit => ChainInv
  BY ChainStarts
<1>2. ChainInv /\ [ChainNext]_chainVars => ChainInv'
  BY ChainStep
<1> QED
  BY <1>1, <1>2, PTL DEF ChainSpec

-----------------------------------------------------------------------------
(* The mailbox.                                                            *)

\* A handler's step is a step of the audit log or leaves it alone.
LEMMA StepOfTheLog ==
  ASSUME [Next]_vars
  PROVE  [ChainNext]_chainVars
<1>1. CASE UNCHANGED vars
  BY <1>1 DEF vars
<1>2. ASSUME NEW r \in Request, Flush(r)
      PROVE  ChainNext
  BY <1>2 DEF Flush, ChainNext
<1>3. ASSUME NEW r \in Request, Commit(r)
      PROVE  ChainNext
  BY <1>3 DEF Commit, ChainNext
<1>4. ASSUME NEW r \in Request, Fails(r)
      PROVE  [ChainNext]_chainVars
  BY <1>4 DEF Fails, ChainNext
<1>5. ASSUME NEW r \in Request, NEW u \in User, NEW v \in User, UploadFile(r, u, v)
      PROVE  UNCHANGED chainVars
  BY <1>5 DEF UploadFile
<1>6. ASSUME NEW r \in Request, NEW u \in User, NEW f \in File,
             \/ DeleteFile(r, u, f) \/ DownloadFile(r, u, f)
             \/ \E v \in User : ShareFile(r, u, f, v)
             \/ \E v \in User \cup {NoUser} : RevokeAccess(r, u, f, v)
      PROVE  UNCHANGED chainVars
  BY <1>6 DEF DeleteFile, DownloadFile, ShareFile, RevokeAccess
<1>7. ASSUME NEW r \in Request, ShareGuard(r) \/ DeleteCommit(r) \/ RevokeCommit(r) \/ DownloadMark(r)
      PROVE  UNCHANGED chainVars
  BY <1>7 DEF ShareGuard, DeleteCommit, RevokeCommit, DownloadMark
<1> QED
  BY <1>1, <1>2, <1>3, <1>4, <1>5, <1>6, <1>7 DEF Next

\* The mailbox's handlers use the audit log as its specification says.
THEOREM UsesTheLog == Spec => ChainSpec
<1>1. Init => ChainInit
  BY DEF Init
<1>2. [Next]_vars => [ChainNext]_chainVars
  BY StepOfTheLog
<1> QED
  BY <1>1, <1>2, PTL DEF Spec, ChainSpec

\* The log of every mailbox is a tree of whole records.
THEOREM LogIsATree == Spec => []RecordsFormATree
<1>1. ChainInv => RecordsFormATree
  BY DEF ChainInv
<1> QED
  BY <1>1, UsesTheLog, ChainInvariant, PTL

\* On SQLite the log of every mailbox is a chain.
THEOREM LogIsAChain == Spec => []AuditIsAChain
<1>1. ChainInv => AuditIsAChain
  BY DEF ChainInv
<1> QED
  BY <1>1, UsesTheLog, ChainInvariant, PTL

-----------------------------------------------------------------------------
(* Who has access.                                                         *)

RequestsTyped == pc \in [Request -> Phase] /\ req \in [Request -> Asks \cup {NoRequest}]

OwnersStay == \A f \in File : Exists(f) => owner'[f] = owner[f]

\* A request that goes on asks for the same, and one that ends for nothing.
LEMMA GotoKeeps ==
  ASSUME RequestsTyped, RequestInv, NEW r \in Request, NEW from, NEW to, Goto(r, from, to), OwnersStay,
         to = "ended" \/ (from \in {"guard", "flush"} /\ to \in {"flush", "commit"})
  PROVE  RequestsTyped' /\ RequestInv'
<1>1. /\ pc[r] = from /\ pc' = [pc EXCEPT ![r] = to]
      /\ req' = IF to = "ended" THEN [req EXCEPT ![r] = NoRequest] ELSE req
  BY DEF Goto
<1>2. RequestsTyped'
  BY <1>1 DEF RequestsTyped, Phase
<1>3. \A s \in Request : pc'[s] = IF s = r THEN to ELSE pc[s]
  BY <1>1 DEF RequestsTyped
<1>4. \A s \in Request : s # r => req'[s] = req[s]
  BY <1>1 DEF RequestsTyped
<1>5. ASSUME NEW s \in Request
      PROVE  /\ pc'[s] \in {"guard", "flush", "commit"} =>
                  req'[s].user \in User /\ req'[s].to \in User /\ req'[s].user # req'[s].to
             /\ pc'[s] \in {"delete", "revoke"} =>
                  req'[s].user \in User /\ req'[s].file \in File /\ owner'[req'[s].file] = req'[s].user
             /\ pc'[s] = "mark" => req'[s].user \in User
  <2>1. CASE s # r
    <3>1. pc'[s] = pc[s] /\ req'[s] = req[s]
      BY <2>1, <1>3, <1>4
    <3>2. req[s].file \in File /\ owner[req[s].file] \in User => owner'[req[s].file] = owner[req[s].file]
      BY UserAssumption DEF OwnersStay, Exists
    <3> QED
      BY <3>1, <3>2 DEF RequestInv
  <2>2. CASE s = r /\ to = "ended"
    BY <2>2, <1>3
  <2>3. CASE s = r /\ to # "ended"
    BY <2>3, <1>1, <1>3 DEF RequestInv
  <2> QED
    BY <2>1, <2>2, <2>3
<1> QED
  BY <1>2, <1>5 DEF RequestInv

\* A request that arrives asks for what its handler has let through.
LEMMA ArriveKeeps ==
  ASSUME RequestsTyped, RequestInv, UNCHANGED owner,
         NEW r \in Request, NEW op \in {"upload", "share", "delete", "revoke", "download"},
         NEW u \in User, NEW f \in File \cup {0}, NEW to \in User \cup {NoUser}, NEW next \in Phase,
         Arrive(r, op, u, f, to, next),
         next \in {"guard", "flush", "commit"} => to \in User /\ u # to,
         next \in {"delete", "revoke"} => f \in File /\ owner[f] = u
  PROVE  RequestsTyped' /\ RequestInv'
<1> DEFINE new == [op |-> op, user |-> u, file |-> f, to |-> to]
<1>1. /\ pc' = [pc EXCEPT ![r] = next]
      /\ req' = IF next = "ended" THEN req ELSE [req EXCEPT ![r] = new]
  BY DEF Arrive
<1>2. new \in Asks /\ new.user = u /\ new.file = f /\ new.to = to
  BY DEF Asks
<1> HIDE DEF new
<1>3. RequestsTyped'
  BY <1>1, <1>2 DEF RequestsTyped
<1>4. /\ \A s \in Request : pc'[s] = IF s = r THEN next ELSE pc[s]
      /\ \A s \in Request : s # r => req'[s] = req[s]
      /\ next # "ended" => req'[r] = new
  BY <1>1 DEF RequestsTyped
<1>5. ASSUME NEW s \in Request
      PROVE  /\ pc'[s] \in {"guard", "flush", "commit"} =>
                  req'[s].user \in User /\ req'[s].to \in User /\ req'[s].user # req'[s].to
             /\ pc'[s] \in {"delete", "revoke"} =>
                  req'[s].user \in User /\ req'[s].file \in File /\ owner'[req'[s].file] = req'[s].user
             /\ pc'[s] = "mark" => req'[s].user \in User
  <2>1. CASE s # r
    BY <2>1, <1>4 DEF RequestInv
  <2>2. CASE s = r
    BY <2>2, <1>2, <1>4
  <2> QED
    BY <2>1, <2>2
<1> QED
  BY <1>3, <1>5 DEF RequestInv

\* The mailbox starts empty.
LEMMA MailboxStarts ==
  ASSUME Init
  PROVE  MailboxInv
<1>1. ChainTypeOK /\ records = {}
  BY ChainStarts DEF Init, ChainInv, ChainInit
<1>2. TypeOK
  BY <1>1 DEF Init, TypeOK, Phase
<1>3. RequestInv /\ RowsInv
  BY DEF Init, RequestInv, RowsInv
<1>4. EveryFileIsRecorded
  BY <1>1 DEF Init, EveryFileIsRecorded, Exists
<1>5. FullRevocationIsFinal /\ AccessCanDecrypt
  BY DEF Init, FullRevocationIsFinal, AccessCanDecrypt
<1> QED
  BY <1>2, <1>3, <1>4, <1>5 DEF MailboxInv

\* Rows and records that stay keep what is said of them.
LEMMA RowsKept ==
  ASSUME MailboxInv, UNCHANGED <<rows, records>>, ChainTypeOK', RequestsTyped', RequestInv'
  PROVE  MailboxInv'
<1> USE DEF MailboxInv, rows
<1>1. TypeOK'
  BY DEF TypeOK, RequestsTyped
<1>2. RowsInv'
  BY DEF RowsInv, Exists
<1>3. EveryFileIsRecorded'
  BY DEF EveryFileIsRecorded, Exists
<1>4. FullRevocationIsFinal' /\ AccessCanDecrypt'
  BY DEF FullRevocationIsFinal, AccessCanDecrypt, Targets
<1> QED
  BY <1>1, <1>2, <1>3, <1>4

\* Every arrival.
LEMMA ArrivalsKeep ==
  ASSUME MailboxInv, NEW r \in Request, NEW u \in User,
         \/ \E v \in User : UploadFile(r, u, v)
         \/ \E f \in File : \/ DeleteFile(r, u, f) \/ DownloadFile(r, u, f)
                            \/ \E v \in User : ShareFile(r, u, f, v)
                            \/ \E v \in User \cup {NoUser} : RevokeAccess(r, u, f, v)
  PROVE  MailboxInv'
<1>1. UNCHANGED <<chainVars, rows>>
  BY DEF UploadFile, DeleteFile, DownloadFile, ShareFile, RevokeAccess
<1>2. UNCHANGED owner /\ UNCHANGED records /\ ChainTypeOK' /\ RequestsTyped /\ RequestInv
  BY <1>1 DEF rows, chainVars, MailboxInv, TypeOK, ChainTypeOK, RequestsTyped
<1>3. ASSUME NEW v \in User, UploadFile(r, u, v)
      PROVE  RequestsTyped' /\ RequestInv'
  <2> DEFINE next == IF u = v THEN "ended" ELSE "flush"
  <2>1. Arrive(r, "upload", u, 0, v, next) /\ next \in Phase
    BY <1>3 DEF UploadFile, Phase
  <2> QED
    BY <2>1, <1>2, ArriveKeeps
<1>4. ASSUME NEW f \in File, DeleteFile(r, u, f)
      PROVE  RequestsTyped' /\ RequestInv'
  <2> DEFINE next == IF OwnsActive(u, f) THEN "delete" ELSE "ended"
  <2>1. Arrive(r, "delete", u, f, NoUser, next) /\ next \in Phase
    BY <1>4 DEF DeleteFile, Phase
  <2>2. next = "delete" => owner[f] = u
    BY DEF OwnsActive
  <2>3. next \in {"delete", "ended"}
    OBVIOUS
  <2> HIDE DEF next
  <2> QED
    BY <2>1, <2>2, <2>3, <1>2, ArriveKeeps
<1>5. ASSUME NEW f \in File, DownloadFile(r, u, f)
      PROVE  RequestsTyped' /\ RequestInv'
  <2> DEFINE next == IF ~MayRead(u, f) THEN "ended"
                     ELSE IF owner[f] = u \/ <<f, u>> \in isRead THEN "ended" ELSE "mark"
  <2>1. Arrive(r, "download", u, f, NoUser, next)
    BY <1>5 DEF DownloadFile
  <2>2. next \in {"mark", "ended"} /\ next \in Phase
    BY DEF Phase
  <2> HIDE DEF next
  <2> QED
    BY <2>1, <2>2, <1>2, ArriveKeeps
<1>6. ASSUME NEW f \in File, NEW v \in User, ShareFile(r, u, f, v)
      PROVE  RequestsTyped' /\ RequestInv'
  <2> DEFINE next == IF MayRead(u, f) /\ u # v THEN "guard" ELSE "ended"
  <2>1. Arrive(r, "share", u, f, v, next)
    BY <1>6 DEF ShareFile
  <2>2. next \in {"guard", "ended"} /\ next \in Phase /\ (next = "guard" => u # v)
    BY DEF Phase
  <2> HIDE DEF next
  <2> QED
    BY <2>1, <2>2, <1>2, ArriveKeeps
<1>7. ASSUME NEW f \in File, NEW v \in User \cup {NoUser}, RevokeAccess(r, u, f, v)
      PROVE  RequestsTyped' /\ RequestInv'
  <2> DEFINE next == IF OwnsActive(u, f) /\ (v = NoUser \/ Targets(f, v) # {}) THEN "revoke" ELSE "ended"
  <2>1. Arrive(r, "revoke", u, f, v, next)
    BY <1>7 DEF RevokeAccess
  <2>2. next \in {"revoke", "ended"} /\ next \in Phase /\ (next = "revoke" => owner[f] = u)
    BY DEF Phase, OwnsActive
  <2> HIDE DEF next
  <2> QED
    BY <2>1, <2>2, <1>2, ArriveKeeps
<1>8. RequestsTyped' /\ RequestInv'
  BY <1>3, <1>4, <1>5, <1>6, <1>7
<1> QED
  BY <1>1, <1>2, <1>8, RowsKept

\* The steps that touch no row.
LEMMA PassingStepsKeep ==
  ASSUME MailboxInv, ChainTypeOK', NEW r \in Request, ShareGuard(r) \/ Flush(r) \/ Fails(r)
  PROVE  MailboxInv'
<1>1. UNCHANGED rows /\ RequestsTyped /\ RequestInv /\ OwnersStay
  BY DEF ShareGuard, Flush, Fails, MailboxInv, TypeOK, RequestsTyped, OwnersStay, rows
<1>2. CASE ShareGuard(r)
  <2> DEFINE to == IF <<req[r].file, req[r].to>> \in access THEN "ended" ELSE "flush"
  <2>1. Goto(r, "guard", to) /\ to \in {"ended", "flush"} /\ UNCHANGED records
    BY <1>2 DEF ShareGuard, chainVars
  <2> HIDE DEF to
  <2>2. RequestsTyped' /\ RequestInv'
    BY <2>1, <1>1, GotoKeeps
  <2> QED
    BY <2>1, <2>2, <1>1, RowsKept
<1>3. CASE Flush(r)
  <2>1. Goto(r, "flush", "commit") /\ UNCHANGED records
    BY <1>3 DEF Flush, BeginAppend
  <2>2. RequestsTyped' /\ RequestInv'
    BY <2>1, <1>1, GotoKeeps
  <2> QED
    BY <2>1, <2>2, <1>1, RowsKept
<1>4. CASE Fails(r)
  <2>1. Goto(r, pc[r], "ended") /\ UNCHANGED records
    BY <1>4 DEF Fails, Rollback, chainVars
  <2>2. RequestsTyped' /\ RequestInv'
    BY <2>1, <1>1, GotoKeeps
  <2> QED
    BY <2>1, <2>2, <1>1, RowsKept
<1> QED
  BY <1>2, <1>3, <1>4

\* A commit brings a file nobody had, its record, and access for the one it was
\* sealed for.
LEMMA CommitKeeps ==
  ASSUME MailboxInv, ChainTypeOK', NEW r \in Request, Commit(r)
  PROVE  MailboxInv'
<1> DEFINE u == req[r].user
<1> DEFINE v == req[r].to
<1>1. PICK f \in File :
        /\ ~Exists(f)
        /\ AppendRecord(r, f)
        /\ owner' = [owner EXCEPT ![f] = u]
        /\ sealed' = [sealed EXCEPT ![f] = v]
        /\ access' = access \cup {<<f, v>>}
  BY DEF Commit
<1>2. Goto(r, "commit", "ended") /\ UNCHANGED <<deleted, isRead, cleared>>
  BY DEF Commit
<1>3. u \in User /\ v \in User /\ u # v
  BY <1>2 DEF MailboxInv, RequestInv, Goto
<1> HIDE DEF u, v
<1>4. TypeOK /\ RequestsTyped /\ RequestInv
  BY DEF MailboxInv, TypeOK, RequestsTyped
<1>5. /\ \A g \in File : owner'[g] = IF g = f THEN u ELSE owner[g]
      /\ \A g \in File : sealed'[g] = IF g = f THEN v ELSE sealed[g]
  BY <1>1, <1>4 DEF TypeOK
<1>6. \A g \in File : Exists(g)' <=> Exists(g) \/ g = f
  BY <1>3, <1>5, UserAssumption DEF Exists
<1>7. OwnersStay
  BY <1>1, <1>5 DEF OwnersStay
<1>8. RequestsTyped' /\ RequestInv'
  BY <1>2, <1>4, <1>7, GotoKeeps
<1>9. TypeOK'
  BY <1>1, <1>2, <1>3, <1>4, <1>8 DEF TypeOK, RequestsTyped
<1>10. \A a \in access : a[1] \in File /\ a[1] # f
  BY <1>1, <1>4 DEF MailboxInv, RowsInv, TypeOK
<1>11. RowsInv'
  <2>1. \A a \in access' : Exists(a[1])' /\ owner'[a[1]] # a[2]
    <3>1. ASSUME NEW a \in access
          PROVE  Exists(a[1])' /\ owner'[a[1]] # a[2]
      BY <3>1, <1>5, <1>6, <1>10 DEF MailboxInv, RowsInv
    <3>2. Exists(f)' /\ owner'[f] # v
      BY <1>3, <1>5, <1>6
    <3> QED
      BY <3>1, <3>2, <1>1
  <2>2. \A g \in cleared' : Exists(g)'
    BY <1>2, <1>4, <1>6 DEF MailboxInv, RowsInv, TypeOK
  <2> QED
    BY <2>1, <2>2 DEF RowsInv
<1>12. /\ records' = records \cup {NextRecord(last[r], f)}
       /\ NextRecord(last[r], f).file = f
       /\ \A x \in records : x.file # f
  BY <1>1 DEF AppendRecord, NextRecord
<1>13. EveryFileIsRecorded'
  <2>1. {x.file : x \in records'} = {x.file : x \in records} \cup {f}
    BY <1>12
  <2>2. {g \in File : Exists(g)'} = {g \in File : Exists(g)} \cup {f}
    BY <1>6
  <2>3. \A x, y \in records' : x.file = y.file => x = y
    BY <1>12 DEF MailboxInv, EveryFileIsRecorded
  <2> QED
    BY <2>1, <2>2, <2>3 DEF MailboxInv, EveryFileIsRecorded
<1>14. FullRevocationIsFinal'
  <2>1. f \notin cleared
    BY <1>1 DEF MailboxInv, RowsInv
  <2>2. \A g \in cleared : Targets(g, NoUser)' = Targets(g, NoUser)
    BY <2>1, <1>1 DEF Targets
  <2> QED
    BY <2>2, <1>2 DEF MailboxInv, FullRevocationIsFinal
<1>15. AccessCanDecrypt'
  BY <1>1, <1>5, <1>10 DEF MailboxInv, AccessCanDecrypt
<1> QED
  BY <1>8, <1>9, <1>11, <1>13, <1>14, <1>15 DEF MailboxInv

\* Deletion, revocation and reading take access away or leave it.
LEMMA WritesKeep ==
  ASSUME MailboxInv, NEW r \in Request, DeleteCommit(r) \/ RevokeCommit(r) \/ DownloadMark(r)
  PROVE  MailboxInv'
<1>1. /\ UNCHANGED <<chainVars, owner, sealed>>
      /\ access' \subseteq access
      /\ Goto(r, pc[r], "ended")
  BY DEF DeleteCommit, RevokeCommit, DownloadMark, Goto
<1>2. TypeOK /\ RequestsTyped /\ RequestInv /\ OwnersStay
  BY <1>1 DEF MailboxInv, TypeOK, RequestsTyped, OwnersStay
<1>3. RequestsTyped' /\ RequestInv'
  BY <1>1, <1>2, GotoKeeps
<1>4. ChainTypeOK' /\ records' = records
  BY <1>1, <1>2 DEF TypeOK, ChainTypeOK, chainVars
<1>5. deleted' \subseteq File /\ isRead' \subseteq access' /\ cleared' \subseteq File
  <2>1. CASE DeleteCommit(r)
    BY <2>1, <1>2 DEF DeleteCommit, Goto, TypeOK, RequestInv
  <2>2. CASE RevokeCommit(r)
    BY <2>2, <1>2 DEF RevokeCommit, Goto, TypeOK, RequestInv
  <2>3. CASE DownloadMark(r)
    BY <2>3, <1>2 DEF DownloadMark, TypeOK
  <2> QED
    BY <2>1, <2>2, <2>3
<1>6. TypeOK'
  BY <1>1, <1>2, <1>3, <1>4, <1>5 DEF TypeOK, RequestsTyped
<1>7. EveryFileIsRecorded' /\ AccessCanDecrypt'
  BY <1>1, <1>4 DEF MailboxInv, EveryFileIsRecorded, AccessCanDecrypt, Exists
<1>8. ASSUME NEW g \in cleared'
      PROVE  Exists(g)' /\ Targets(g, NoUser)' = {}
  <2>1. CASE g \in cleared
    BY <2>1, <1>1 DEF MailboxInv, RowsInv, FullRevocationIsFinal, Exists, Targets
  <2>2. CASE g \notin cleared
    <3>1. RevokeCommit(r) /\ req[r].to = NoUser /\ g = req[r].file
      BY <2>2 DEF DeleteCommit, RevokeCommit, DownloadMark
    <3>2. Exists(g)
      BY <3>1, <1>2, UserAssumption DEF RevokeCommit, Goto, RequestInv, Exists
    <3>3. access' = access \ Targets(g, NoUser)
      BY <3>1 DEF RevokeCommit
    <3> QED
      BY <3>2, <3>3, <1>1 DEF Targets, Exists
  <2> QED
    BY <2>1, <2>2
<1>9. RowsInv'
  BY <1>1, <1>8 DEF MailboxInv, RowsInv, Exists
<1>10. FullRevocationIsFinal'
  BY <1>8 DEF FullRevocationIsFinal
<1> QED
  BY <1>3, <1>6, <1>7, <1>9, <1>10 DEF MailboxInv

\* Every step keeps the mailbox's invariant.
LEMMA MailboxStep ==
  ASSUME ChainInv, MailboxInv, [Next]_vars
  PROVE  MailboxInv'
<1>1. ChainTypeOK'
  BY StepOfTheLog, ChainStep DEF ChainInv
<1>2. CASE UNCHANGED vars
  <2>1. UNCHANGED <<rows, records>> /\ UNCHANGED <<owner, pc, req>>
    BY <1>2 DEF vars, rows, chainVars
  <2>2. RequestsTyped' /\ RequestInv'
    BY <2>1 DEF MailboxInv, TypeOK, RequestsTyped, RequestInv
  <2> QED
    BY <2>1, <2>2, <1>1, RowsKept
<1>3. ASSUME NEW r \in Request, NEW u \in User, NEW v \in User, UploadFile(r, u, v)
      PROVE  MailboxInv'
  BY <1>3, ArrivalsKeep
<1>4. ASSUME NEW r \in Request, NEW u \in User, NEW f \in File,
             \/ DeleteFile(r, u, f) \/ DownloadFile(r, u, f)
             \/ \E v \in User : ShareFile(r, u, f, v)
             \/ \E v \in User \cup {NoUser} : RevokeAccess(r, u, f, v)
      PROVE  MailboxInv'
  BY <1>4, ArrivalsKeep
<1>5. ASSUME NEW r \in Request, ShareGuard(r) \/ Flush(r) \/ Fails(r)
      PROVE  MailboxInv'
  BY <1>5, <1>1, PassingStepsKeep
<1>6. ASSUME NEW r \in Request, Commit(r)
      PROVE  MailboxInv'
  BY <1>6, <1>1, CommitKeeps
<1>7. ASSUME NEW r \in Request, DeleteCommit(r) \/ RevokeCommit(r) \/ DownloadMark(r)
      PROVE  MailboxInv'
  BY <1>7, WritesKeep
<1> QED
  BY <1>2, <1>3, <1>4, <1>5, <1>6, <1>7 DEF Next

\* The mailbox's invariant, for any number of requests, files and users.
THEOREM MailboxInvariant == Spec => []MailboxInv
<1>1. Init => ChainInv /\ MailboxInv
  BY ChainStarts, MailboxStarts DEF Init
<1>2. ChainInv /\ MailboxInv /\ [Next]_vars => (ChainInv /\ MailboxInv)'
  BY StepOfTheLog, ChainStep, MailboxStep
<1> QED
  BY <1>1, <1>2, PTL DEF Spec

\* Files and audit records match one to one.
THEOREM FilesAreRecorded == Spec => []EveryFileIsRecorded
<1>1. MailboxInv => EveryFileIsRecorded
  BY DEF MailboxInv
<1> QED
  BY <1>1, MailboxInvariant, PTL

\* The rows, the requests and what each has read keep their types.
THEOREM MailboxTypeCorrect == Spec => []TypeOK
<1>1. MailboxInv => TypeOK
  BY DEF MailboxInv
<1> QED
  BY <1>1, MailboxInvariant, PTL

\* Whoever has access to a file got a ciphertext sealed for them.
THEOREM AccessMeansSealed == Spec => []AccessCanDecrypt
<1>1. MailboxInv => AccessCanDecrypt
  BY DEF MailboxInv
<1> QED
  BY <1>1, MailboxInvariant, PTL

\* A file revoked for all recipients stays without any.
THEOREM RevocationIsFinal == Spec => []FullRevocationIsFinal
<1>1. MailboxInv => FullRevocationIsFinal
  BY DEF MailboxInv
<1> QED
  BY <1>1, MailboxInvariant, PTL

\* What a user is shown is what the user can download: nobody is a recipient of
\* a file of their own, where the two tests would differ.
THEOREM ListingsAreExact == Spec => []ListedIsDownloadable
<1>1. ASSUME MailboxInv, NEW u \in User, NEW f \in File
      PROVE  f \in ListedShared(u) \cup ListedOwned(u) <=> MayRead(u, f)
  <2>1. <<f, u>> \in access => Exists(f) /\ owner[f] # u
    BY <1>1 DEF MailboxInv, RowsInv
  <2>2. owner[f] = u => Exists(f)
    BY UserAssumption DEF Exists
  <2> QED
    BY <2>1, <2>2 DEF ListedShared, ListedOwned, MayRead
<1>2. MailboxInv => ListedIsDownloadable
  BY <1>1 DEF ListedIsDownloadable, ListedShared, ListedOwned
<1> QED
  BY <1>2, MailboxInvariant, PTL

\* Only a revocation its owner asked for cuts a recipient off.
THEOREM CutOffByOwner == Spec => OnlyRevocationCutsOff
<1>1. ASSUME MailboxInv, [Next]_vars, NEW a \in access \ access'
      PROVE  \E r \in Request : /\ pc[r] = "revoke" /\ req[r].user = owner[a[1]]
                                /\ req[r].file = a[1] /\ req[r].to \in {NoUser, a[2]}
  <2>1. PICK r \in Request : RevokeCommit(r)
    BY ZenonT(60), <1>1 DEF Next, vars, rows, UploadFile, DeleteFile, DownloadFile, ShareFile, RevokeAccess,
                ShareGuard, Flush, Commit, DeleteCommit, DownloadMark, Fails
  <2>2. pc[r] = "revoke" /\ a \in Targets(req[r].file, req[r].to)
    BY <2>1, <1>1 DEF RevokeCommit, Goto
  <2>3. owner[req[r].file] = req[r].user
    BY <2>2, <1>1 DEF MailboxInv, RequestInv
  <2> QED
    BY <2>2, <2>3 DEF Targets
<1>2. MailboxInv /\ [Next]_vars =>
        [\A a \in access \ access' :
           \E r \in Request : /\ pc[r] = "revoke" /\ req[r].user = owner[a[1]]
                              /\ req[r].file = a[1] /\ req[r].to \in {NoUser, a[2]}]_vars
  BY <1>1
<1> QED
  BY <1>2, MailboxInvariant, PTL DEF Spec, OnlyRevocationCutsOff

=============================================================================
