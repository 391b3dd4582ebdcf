------------------------------ MODULE Mailbox ------------------------------
(***************************************************************************)
(* The /files API of routers/files.py: upload, share, delete, revoke and   *)
(* download, with the handlers of several requests interleaving at their   *)
(* database statements, on top of the audit log of module AuditChain.      *)
(*                                                                         *)
(* A handler's select sees what is committed; the first INSERT, UPDATE or  *)
(* DELETE opens its transaction.  A handler that writes by its commit only *)
(* does so in one step, which waits for the write lock.                    *)
(***************************************************************************)
EXTENDS AuditChain

CONSTANTS
  User,   \* users.id; accounts are neither deactivated nor removed
  NoUser  \* no owner before the file exists; "all recipients" in a revocation

ASSUME UserAssumption == NoUser \notin User

VARIABLES
  \* the rows
  owner,     \* files.owner_id, NoUser before the row is committed
  deleted,   \* the files with is_deleted
  sealed,    \* sealed[f]: for whom its uploader encrypted files.ciphertext
  access,    \* file_access, as pairs <<file_id, recipient_id>>
  isRead,    \* ... those with is_read
  \* the requests
  pc, req,   \* where request r stands; what it asks for
  \* history
  cleared    \* the files whose access was revoked for all recipients

rows == <<owner, deleted, sealed, access, isRead, cleared>>
vars == <<chainVars, rows, pc, req>>

Phase == {"idle", "guard", "flush", "commit", "delete", "revoke", "mark", "ended"}

NoRequest == [op |-> "none", user |-> NoUser, file |-> 0, to |-> NoUser]
Asks == [op : {"upload", "share", "delete", "revoke", "download"},
         user : User, file : File \cup {0}, to : User \cup {NoUser}]

Init ==
  /\ ChainInit
  /\ owner = [f \in File |-> NoUser]
  /\ sealed = [f \in File |-> NoUser]
  /\ deleted = {} /\ access = {} /\ isRead = {} /\ cleared = {}
  /\ pc = [r \in Request |-> "idle"]
  /\ req = [r \in Request |-> NoRequest]

Exists(f) == owner[f] # NoUser

\* Requests are numbered in the order they arrive.
Arrive(r, op, u, f, to, next) ==
  /\ pc[r] = "idle" /\ \A s \in Request : s < r => pc[s] # "idle"
  /\ pc' = [pc EXCEPT ![r] = next]
  /\ req' = IF next = "ended" THEN req
            ELSE [req EXCEPT ![r] = [op |-> op, user |-> u, file |-> f, to |-> to]]

Goto(r, from, to) ==
  /\ pc[r] = from
  /\ pc' = [pc EXCEPT ![r] = to]
  /\ req' = IF to = "ended" THEN [req EXCEPT ![r] = NoRequest] ELSE req

-----------------------------------------------------------------------------
(* Who may do what.                                                        *)

\* _load_active_file and _require_owner.
OwnsActive(u, f) == Exists(f) /\ owner[f] = u /\ f \notin deleted

\* The rule shared by share_file, download_file and get_blockchain_proof.
MayRead(u, f) ==
  /\ Exists(f)
  /\ IF owner[f] = u THEN f \notin deleted ELSE <<f, u>> \in access

\* GET /files/shared and GET /files/owned.
ListedShared(u) == {f \in File : Exists(f) /\ <<f, u>> \in access}
ListedOwned(u) == {f \in File : owner[f] = u /\ f \notin deleted}

-----------------------------------------------------------------------------
(* POST /files/upload and POST /files/{id}/share.                          *)

\* Slip: uploads to oneself are let through.
UploadFile_ToSelf(r, u, v) ==
  /\ Arrive(r, "upload", u, 0, v, "flush")
  /\ UNCHANGED <<chainVars, rows>>

UploadFile(r, u, v) ==
  /\ Arrive(r, "upload", u, 0, v, IF u = v THEN "ended" ELSE "flush")
  /\ UNCHANGED <<chainVars, rows>>

\* The original is loaded, and the access row of a sharer who is not its owner.
ShareFile(r, u, f, v) ==
  /\ Arrive(r, "share", u, f, v, IF MayRead(u, f) /\ u # v THEN "guard" ELSE "ended")
  /\ UNCHANGED <<chainVars, rows>>

\* The new recipient must not have an access row for the original.
ShareGuard(r) ==
  /\ Goto(r, "guard", IF <<req[r].file, req[r].to>> \in access THEN "ended" ELSE "flush")
  /\ UNCHANGED <<chainVars, rows>>

Flush(r) ==
  /\ Goto(r, "flush", "commit")
  /\ BeginAppend(r)
  /\ UNCHANGED rows

\* Slip: a share adds an access row to the original.
Commit_OriginalShared(r) ==
  /\ Goto(r, "commit", "ended")
  /\ IF req[r].op = "share"
     THEN access' = access \cup {<<req[r].file, req[r].to>>} /\ Rollback(r) /\ UNCHANGED <<owner, sealed>>
     ELSE \E f \in File : /\ ~Exists(f) /\ \A g \in File : g < f => Exists(g)
                          /\ AppendRecord(r, f)
                          /\ owner' = [owner EXCEPT ![f] = req[r].user]
                          /\ sealed' = [sealed EXCEPT ![f] = req[r].to]
                          /\ access' = access \cup {<<f, req[r].to>>}
  /\ UNCHANGED <<deleted, isRead, cleared>>

\* Slip: a share appends no audit record.
Commit_SharesUnrecorded(r) ==
  /\ Goto(r, "commit", "ended")
  /\ \E f \in File :
       /\ ~Exists(f) /\ \A g \in File : g < f => Exists(g)
       /\ IF req[r].op = "share" THEN Rollback(r) ELSE AppendRecord(r, f)
       /\ owner' = [owner EXCEPT ![f] = req[r].user]
       /\ sealed' = [sealed EXCEPT ![f] = req[r].to]
       /\ access' = access \cup {<<f, req[r].to>>}
  /\ UNCHANGED <<deleted, isRead, cleared>>

\* A new file, sealed by the uploader or sharer for the one recipient who gets
\* an access row, and its audit record become visible together.
Commit(r) ==
  /\ Goto(r, "commit", "ended")
  /\ \E f \in File :
       /\ ~Exists(f) /\ \A g \in File : g < f => Exists(g)
       /\ AppendRecord(r, f)
       /\ owner' = [owner EXCEPT ![f] = req[r].user]
       /\ sealed' = [sealed EXCEPT ![f] = req[r].to]
       /\ access' = access \cup {<<f, req[r].to>>}
  /\ UNCHANGED <<deleted, isRead, cleared>>

-----------------------------------------------------------------------------
(* DELETE /files/{id} and POST /files/{id}/revoke.                         *)

DeleteFile(r, u, f) ==
  /\ Arrive(r, "delete", u, f, NoUser, IF OwnsActive(u, f) THEN "delete" ELSE "ended")
  /\ UNCHANGED <<chainVars, rows>>

\* Slip: deletion cuts the recipients off.
DeleteCommit_Cascades(r) ==
  /\ Goto(r, "delete", "ended") /\ MayWrite
  /\ deleted' = deleted \cup {req[r].file}
  /\ access' = {a \in access : a[1] # req[r].file}
  /\ UNCHANGED <<chainVars, owner, sealed, isRead, cleared>>

DeleteCommit(r) ==
  /\ Goto(r, "delete", "ended") /\ MayWrite
  /\ deleted' = deleted \cup {req[r].file}
  /\ UNCHANGED <<chainVars, owner, sealed, access, isRead, cleared>>

Targets(f, v) == {a \in access : a[1] = f /\ (v = NoUser \/ a[2] = v)}

\* The file, and then the rows to delete, are loaded: no row of an existing
\* file comes up in between. Without a recipient there may be none to delete.
RevokeAccess(r, u, f, v) ==
  /\ Arrive(r, "revoke", u, f, v,
            IF OwnsActive(u, f) /\ (v = NoUser \/ Targets(f, v) # {}) THEN "revoke" ELSE "ended")
  /\ UNCHANGED <<chainVars, rows>>

\* Rows another revocation has deleted meanwhile are passed over.
RevokeCommit(r) ==
  /\ Goto(r, "revoke", "ended") /\ MayWrite
  /\ access' = access \ Targets(req[r].file, req[r].to)
  /\ isRead' = isRead \cap access'
  /\ cleared' = IF req[r].to = NoUser THEN cleared \cup {req[r].file} ELSE cleared
  /\ UNCHANGED <<chainVars, owner, deleted, sealed>>

-----------------------------------------------------------------------------
(* GET /files/{id}/download.                                               *)

DownloadFile(r, u, f) ==
  /\ Arrive(r, "download", u, f, NoUser,
            IF ~MayRead(u, f) THEN "ended"
            ELSE IF owner[f] = u \/ <<f, u>> \in isRead THEN "ended" ELSE "mark")
  /\ UNCHANGED <<chainVars, rows>>

\* Slip: a row deleted meanwhile is marked all the same.
DownloadMark_Unchecked(r) ==
  /\ Goto(r, "mark", "ended") /\ MayWrite
  /\ isRead' = isRead \cup {<<req[r].file, req[r].user>>}
  /\ UNCHANGED <<chainVars, owner, deleted, sealed, access, cleared>>

\* The UPDATE of a row that was deleted meanwhile matches nothing, which
\* SQLAlchemy reports as an error: no payload is returned.
DownloadMark(r) ==
  LET row == <<req[r].file, req[r].user>>
  IN  /\ Goto(r, "mark", "ended") /\ MayWrite
      /\ isRead' = IF row \in access THEN isRead \cup {row} ELSE isRead
      /\ UNCHANGED <<chainVars, owner, deleted, sealed, access, cleared>>

\* An exception, the write lock's timeout, or the end of the process.
Fails(r) ==
  /\ pc[r] \notin {"idle", "ended"} /\ Goto(r, pc[r], "ended")
  /\ IF r \in open THEN Rollback(r) ELSE UNCHANGED chainVars
  /\ UNCHANGED rows

Next ==
  \E r \in Request :
    \/ \E u, v \in User : UploadFile(r, u, v)
    \/ \E u \in User, f \in File :
         \/ DeleteFile(r, u, f) \/ DownloadFile(r, u, f)
         \/ \E v \in User : ShareFile(r, u, f, v)
         \/ \E v \in User \cup {NoUser} : RevokeAccess(r, u, f, v)
    \/ ShareGuard(r) \/ Flush(r) \/ Commit(r)
    \/ DeleteCommit(r) \/ RevokeCommit(r) \/ DownloadMark(r) \/ Fails(r)

Spec == Init /\ [][Next]_vars

-----------------------------------------------------------------------------
TypeOK ==
  /\ ChainTypeOK
  /\ owner \in [File -> User \cup {NoUser}]
  /\ sealed \in [File -> User \cup {NoUser}]
  /\ deleted \subseteq File
  /\ access \subseteq File \X User
  /\ isRead \subseteq access
  /\ cleared \subseteq File
  /\ pc \in [Request -> Phase]
  /\ req \in [Request -> Asks \cup {NoRequest}]

\* The files there are and the audit log's records match one to one, whatever
\* request fails where. (upload_file, share_file)
EveryFileIsRecorded ==
  /\ {x.file : x \in records} = {f \in File : Exists(f)}
  /\ \A x, y \in records : x.file = y.file => x = y

\* A user's two listings show exactly the files the user can download,
\* although listings, download and deletion test different things.
\* (list_shared_files, list_owned_files, download_file)
ListedIsDownloadable ==
  \A u \in User : ListedShared(u) \cup ListedOwned(u) = {f \in File : MayRead(u, f)}

\* Once access was revoked for all recipients, nobody gets it again, not by a
\* share that had passed its checks before. (revoke_access, share_file)
FullRevocationIsFinal == \A f \in cleared : Targets(f, NoUser) = {}

\* Whoever has access can decrypt: the ciphertext was sealed for them.
\* (share_file: a row of its own for each recipient)
AccessCanDecrypt == \A a \in access : sealed[a[1]] = a[2]

\* A recipient loses a file only by a revocation that its owner asked for, not
\* by its deletion. (delete_file, revoke_access)
OnlyRevocationCutsOff ==
  [][\A a \in access \ access' :
       \E r \in Request : /\ pc[r] = "revoke" /\ req[r].user = owner[a[1]]
                          /\ req[r].file = a[1] /\ req[r].to \in {NoUser, a[2]}]_vars

-----------------------------------------------------------------------------
(* What makes the invariants inductive.                                    *)

\* A request in flight asks for what its handler has let through.
RequestInv ==
  \A r \in Request :
    /\ pc[r] \in {"guard", "flush", "commit"} =>
         req[r].user \in User /\ req[r].to \in User /\ req[r].user # req[r].to
    /\ pc[r] \in {"delete", "revoke"} =>
         req[r].user \in User /\ req[r].file \in File /\ owner[req[r].file] = req[r].user
    /\ pc[r] = "mark" => req[r].user \in User

\* Access is given to existing files only, and to others than their owners.
RowsInv ==
  /\ \A a \in access : Exists(a[1]) /\ owner[a[1]] # a[2]
  /\ \A f \in cleared : Exists(f)

MailboxInv ==
  /\ TypeOK /\ RequestInv /\ RowsInv
  /\ EveryFileIsRecorded /\ FullRevocationIsFinal /\ AccessCanDecrypt

=============================================================================
