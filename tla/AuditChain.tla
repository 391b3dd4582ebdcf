----------------------------- MODULE AuditChain -----------------------------
(***************************************************************************)
(* The audit log blockchain_records: _append_blockchain_record of          *)
(* routers/files.py, and the database transaction in which upload_file and *)
(* share_file call it.                                                     *)
(*                                                                         *)
(* SHA-256 is taken for collision-free, and every file has a message_hash  *)
(* of its own, so a block_hash stands for all that went into it: the files *)
(* from the genesis block's to its own.                                    *)
(***************************************************************************)
EXTENDS Integers, Sequences, FiniteSets

CONSTANTS
  Request,  \* requests, each handled by a thread with a session of its own
  File,     \* files.id
  NoRecord, \* a select on the empty log
  Engines   \* the databases considered (DATABASE_URL), some of:
            \*   "sqlite": the first INSERT takes the write lock, until the
            \*     transaction ends
            \*   "concurrent": transactions write side by side

Record == [file : File, previous_hash : Seq(File), block_hash : Seq(File), block_index : Nat]

ASSUME RecordAssumption == NoRecord \notin Record
ASSUME EngineAssumption == Engines \subseteq {"sqlite", "concurrent"}

VARIABLES
  engine,  \* the database of this behaviour
  open,    \* the requests whose transaction has written and not ended
  last,    \* last[r]: `last`, as r's transaction read it
  records  \* the rows of blockchain_records

chainVars == <<engine, open, last, records>>

Genesis == <<>>   \* "0" * 64

ChainInit ==
  /\ engine \in Engines
  /\ open = {}
  /\ last = [r \in Request |-> NoRecord]
  /\ records = {}

\* SQLite has one writer at a time.
MayWrite == engine = "sqlite" => open = {}

\* order_by(block_index.desc()).limit(1): which of several records with the
\* largest index is up to the database.
MostRecent ==
  IF records = {} THEN {NoRecord}
  ELSE {x \in records : \A y \in records : y.block_index <= x.block_index}

\* Slip: the log is read before the flush.
BeginAppend_NoFlush(r) ==
  /\ r \notin open
  /\ open' = open \cup {r}
  /\ \E x \in MostRecent : last' = [last EXCEPT ![r] = x]
  /\ UNCHANGED <<engine, records>>

\* flush() inserts the file, then the most recent record is read.
BeginAppend(r) ==
  /\ r \notin open /\ MayWrite
  /\ open' = open \cup {r}
  /\ \E x \in MostRecent : last' = [last EXCEPT ![r] = x]
  /\ UNCHANGED <<engine, records>>

\* Slip: the index is counted, not taken from the record before.
NextRecord_Counted(x, f) ==
  LET previous == IF x = NoRecord THEN Genesis ELSE x.block_hash
  IN  [file |-> f, previous_hash |-> previous, block_hash |-> Append(previous, f),
       block_index |-> Cardinality(records) + 1]

NextRecord(x, f) ==
  LET previous == IF x = NoRecord THEN Genesis ELSE x.block_hash
  IN  [file |-> f, previous_hash |-> previous, block_hash |-> Append(previous, f),
       block_index |-> IF x = NoRecord THEN 1 ELSE x.block_index + 1]

EndTransaction(r) ==
  /\ r \in open
  /\ open' = open \ {r}
  /\ last' = [last EXCEPT ![r] = NoRecord]
  /\ UNCHANGED engine

\* commit(), with the record added. blockchain_records.file_id is unique.
AppendRecord(r, f) ==
  /\ EndTransaction(r)
  /\ \A x \in records : x.file # f
  /\ records' = records \cup {NextRecord(last[r], f)}

\* An exception or the end of the process.
Rollback(r) == EndTransaction(r) /\ UNCHANGED records

ChainNext ==
  \E r \in Request : \/ BeginAppend(r)
                     \/ \E f \in File : AppendRecord(r, f)
                     \/ Rollback(r)

ChainSpec == ChainInit /\ [][ChainNext]_chainVars

-----------------------------------------------------------------------------
ChainTypeOK ==
  /\ engine \in Engines
  /\ open \subseteq Request
  /\ last \in [Request -> Record \cup {NoRecord}]
  /\ records \subseteq Record

\* Whatever the database lets transactions do side by side, the log is a tree
\* of whole records: each continues the genesis block or a record that is
\* there, hashes its file on top of it, and is numbered by its distance from
\* the genesis block. (files.py, _append_blockchain_record)
RecordsFormATree ==
  \A x \in records :
    /\ x.previous_hash = Genesis \/ \E y \in records : y.block_hash = x.previous_hash
    /\ x.block_hash = Append(x.previous_hash, x.file)
    /\ x.block_index = Len(x.previous_hash) + 1

\* On SQLite no two records continue the same one, so that the tree is a chain,
\* although uploads and shares overlap and fail: the flush before the select
\* takes the write lock. (files.py, _append_blockchain_record)
AuditIsAChain ==
  engine = "sqlite" =>
    \A x, y \in records : x.previous_hash = y.previous_hash => x = y

-----------------------------------------------------------------------------
(* What makes them inductive.                                              *)

\* On SQLite one transaction is open, and what it read is still the most
\* recent record; on any database it is a record that is still there.
LastInv ==
  /\ \A r \in Request : last[r] \in records \cup {NoRecord}
  /\ engine = "sqlite" =>
       \A r, s \in open : r = s /\ last[r] \in MostRecent

ChainInv == ChainTypeOK /\ RecordsFormATree /\ AuditIsAChain /\ LastInv
=============================================================================
