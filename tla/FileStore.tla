------------------------------ MODULE FileStore ------------------------------
(***************************************************************************)
(* The state the services share: the PostgreSQL tables (session, blob,     *)
(* file, usage, outbox, audit) and the object storage (multipart uploads,  *)
(* objects, presigned part URLs), with the repository operations on them.  *)
(*                                                                         *)
(* One tenant and one bucket.  Object keys are planned from the session    *)
(* id, so a key IS a session.  A content stands for its SHA-256.  Every    *)
(* generated id (file, blob, fallback completion token) is named after the *)
(* request that generates it, which needs at most one of each kind.        *)
(* File sizes are one unit each.                                           *)
(***************************************************************************)
EXTENDS UploadSession, FiniteSets

CONSTANTS
    Sessions,   \* upload session ids (and so object keys)
    Requests,   \* requests the upload service handles (and the ids they generate)
    Keys,       \* Idempotency-Key header values
    Contents,   \* object contents
    MaxParts    \* bound on total_parts of a DIRECT session

ASSUME StoreAssumption ==
    /\ Nil \notin Sessions \cup Requests \cup Keys \cup Contents
    /\ Keys \cap Requests = {}
    /\ IsFiniteSet(Requests)
    /\ MaxParts \in Nat \ {0}

VARIABLES
    session,    \* upload.upload_sessions
    blobs,      \* file.blob_objects
    files,      \* file.file_assets
    usage,      \* tenant.tenant_usage
    outbox,     \* infra.outbox_events, as enqueued
    audit,      \* audit records of file deletions
    recon,      \* sums read by a running ReconcileTenantUsage statement, or Nil
    mpu,        \* provider: the multipart upload behind a session
    parts,      \* provider: number of parts of that upload received
    object,     \* provider: the object stored under a session's key
    issued      \* sessions whose part upload URLs a client holds

tables == <<session, blobs, files, usage, outbox, audit, recon>>
provider == <<mpu, parts, object, issued>>
storeVars == <<session, blobs, files, usage, outbox, audit, recon,
               mpu, parts, object, issued>>

Hash == Contents \cup {Nil}
Token == Keys \cup Requests \cup {Nil}
FileId == Requests \cup {Nil}

SessionRow ==
    [status : SessionStatus \cup {"ABSENT"}, mode : SessionMode, hash : Hash,
     total : 0..MaxParts, upload : BOOLEAN, token : Token, file : FileId]

\* The rows that are not there yet.
NoSession == [status |-> "ABSENT", mode |-> "INLINE", hash |-> Nil, total |-> 1,
              upload |-> FALSE, token |-> Nil, file |-> Nil]
NoBlob == [key |-> Nil, hash |-> Nil, ref |-> 0, deleted |-> FALSE]
NoFile == [status |-> "ABSENT", key |-> Nil, blob |-> Nil, hash |-> Nil]

BlobRow == [key : Sessions \cup {Nil}, hash : Hash, ref : Nat, deleted : BOOLEAN]
FileRow == {NoFile} \cup
    [status : {"ACTIVE", "DELETED"}, key : Sessions, blob : Requests, hash : Hash]
Usage == [bytes : Nat, count : Nat]
EventType == {"upload.session.completed", "upload.session.failed",
              "file.asset.delete_requested"}
Event == EventType \X (Sessions \cup Requests) \X Requests

StoreTypeOK ==
    /\ session \in [Sessions -> SessionRow]
    /\ blobs \in [Requests -> BlobRow]
    /\ files \in [Requests -> FileRow]
    /\ usage \in Usage
    /\ outbox \subseteq Event
    /\ audit \subseteq Requests
    /\ recon \in Nat \cup {Nil}
    /\ mpu \in [Sessions -> {"none", "open", "closed"}]
    /\ parts \in [Sessions -> 0..MaxParts]
    /\ object \in [Sessions -> Hash]
    /\ issued \subseteq Sessions

\* The empty database and the empty bucket.
StoreInit ==
    /\ session = [s \in Sessions |-> NoSession]
    /\ blobs = [b \in Requests |-> NoBlob]
    /\ files = [f \in Requests |-> NoFile]
    /\ usage = [bytes |-> 0, count |-> 0]
    /\ outbox = {}
    /\ audit = {}
    /\ recon = Nil
    /\ mpu = [s \in Sessions |-> "none"]
    /\ parts = [s \in Sessions |-> 0]
    /\ object = [s \in Sessions |-> Nil]
    /\ issued = {}

------------------------------------------------------------------------------
(* Repository operations. *)

\* GetByID succeeds: the row exists and passes Session.Validate.
Readable(s) == session[s].status # "ABSENT" /\ Validate(session[s])

\* Save: a full-row UPDATE by primary key, with no condition on the row it
\* replaces.
Save(s, row) == session' = [session EXCEPT ![s] = row]

\* ConfirmCompletionOwner: the row, locked, if its token is still this one.
OwnerConfirmed(s, token) == session[s].token = token /\ Readable(s)

ActiveFiles == {f \in Requests : files[f].status = "ACTIVE"}
DeletedFiles == {f \in Requests : files[f].status = "DELETED"}
FilesOf(b) == {f \in ActiveFiles : files[f].blob = b}

\* LookupByHash: the undeleted blobs of this hash that an ACTIVE file refers to.
LookupByHash(hash) ==
    {b \in Requests : /\ blobs[b].key # Nil
                      /\ blobs[b].hash = hash
                      /\ ~blobs[b].deleted
                      /\ FilesOf(b) # {}}

\* The UNIQUE constraints uq_blob_objects_object_locator and
\* uq_blob_objects_hash (NULL hashes do not collide).
BlobUnique(b, key, hash) ==
    \A c \in Requests \ {b} :
        /\ blobs[c].key # key
        /\ hash # Nil => blobs[c].hash # hash

\* Mutant of UpsertAndReference: the conflict branch takes the new row's count.
UpsertResetsCount(b, key, hash) ==
    blobs' = [blobs EXCEPT ![b] = [key |-> key, hash |-> hash, ref |-> 1,
                                   deleted |-> blobs[b].deleted]]

\* Upsert by blob id, then AdjustReferenceCount(+1).  The conflict branch
\* moves the row to the new key and leaves reference_count and deleted_at.
UpsertAndReference(b, key, hash) ==
    blobs' = [blobs EXCEPT ![b] = [key |-> key, hash |-> hash,
                                   ref |-> blobs[b].ref + 1,
                                   deleted |-> blobs[b].deleted]]

\* Mutants of CreateFileAsset: the INSERT is skipped; the file takes its
\* locator from the blob it was deduplicated against.
CreateFileAssetSkipped(f, key, b, hash) == UNCHANGED files
CreateFileAsset(f, key, b, hash) ==
    files' = [files EXCEPT ![f] = [status |-> "ACTIVE", key |-> key,
                                   blob |-> b, hash |-> hash]]

\* Mutant of ApplyDelta: the wrong column.
ApplyDeltaToCount == usage' = [usage EXCEPT !.count = @ + 1]

\* ApplyDelta: bytes only, the file count is not touched.
ApplyDelta == usage' = [usage EXCEPT !.bytes = @ + 1]

\* Mutant of Decrement: no GREATEST.
DecrementUnclamped(n) == n - 1

\* GREATEST(n - 1, 0).
Decrement(n) == IF n > 0 THEN n - 1 ELSE 0

\* Mutant of Enqueue: the deletion event is published outside the transaction
\* and lost.
EnqueueUploadsOnly(type, id, by) ==
    outbox' = IF type = "file.asset.delete_requested" THEN outbox
              ELSE outbox \cup {<<type, id, by>>}

Enqueue(type, id, by) == outbox' = outbox \cup {<<type, id, by>>}
==============================================================================
