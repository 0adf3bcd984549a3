---------------------------- MODULE UploadSession ----------------------------
(***************************************************************************)
(* domain.Session of the upload service: one row of                        *)
(* upload.upload_sessions and the in-memory transitions the handlers apply *)
(* to a copy of it.  The operators are pure; who writes the copy back, and *)
(* when, is the business of UploadService and MaintenanceJobs.             *)
(*                                                                         *)
(* A row keeps the fields the guards read: status, mode, declared hash,    *)
(* number of parts, whether provider_upload_id is set, completion token    *)
(* and file id.  The timestamps and failure texts travel with the status   *)
(* they explain and are left out.                                          *)
(***************************************************************************)
EXTENDS Naturals

CONSTANT Nil   \* NULL / the empty string

SessionStatus == {"INITIATED", "UPLOADING", "COMPLETING", "COMPLETED",
                  "ABORTED", "EXPIRED", "FAILED"}
SessionMode == {"INLINE", "PRESIGNED_SINGLE", "DIRECT"}

\* Statuses in which content may still be sent.
Pending == {"INITIATED", "UPLOADING"}
\* Statuses the multipart cleanup and an idempotent abort recognise.
Dead == {"ABORTED", "EXPIRED", "FAILED"}
Terminal == Dead \cup {"COMPLETED"}

RequiresContentHash(mode) == mode \in {"PRESIGNED_SINGLE", "DIRECT"}
RequiresProviderUploadID(mode) == mode = "DIRECT"

\* Session.Validate.  Every read of a row goes through NewSession, so a row
\* for which this is false cannot be loaded by any handler.
Validate(row) ==
    /\ RequiresContentHash(row.mode) => row.hash # Nil
    /\ row.upload <=> RequiresProviderUploadID(row.mode)
    /\ IF RequiresProviderUploadID(row.mode) THEN row.total >= 1 ELSE row.total = 1
    /\ row.status = "COMPLETING" => row.token # Nil
    /\ row.status = "COMPLETED" => row.file # Nil

\* NewSession for a freshly created session.
NewSession(mode, hash, total) ==
    [status |-> "INITIATED", mode |-> mode, hash |-> hash, total |-> total,
     upload |-> RequiresProviderUploadID(mode), token |-> Nil, file |-> Nil]

MarkUploading(row) == [row EXCEPT !.status = "UPLOADING"]

\* The ownership AcquireCompletion reports to a caller that presents token.
Ownership(row, token) ==
    CASE row.status \in Pending -> "ACQUIRED"
      [] row.status = "COMPLETING" /\ row.token = token -> "HELD_BY_CALLER"
      [] row.status = "COMPLETING" /\ row.token # token -> "HELD_BY_ANOTHER"
      [] row.status = "COMPLETED" -> "ALREADY_DONE"
      [] OTHER -> "STATE_CONFLICT"

AcquireCompletion(row, token) ==
    IF row.status \in Pending
    THEN [row EXCEPT !.status = "COMPLETING", !.token = token]
    ELSE row

\* Mutant of MarkCompleted: the status is not advanced.
MarkCompletedKeepsStatus(row, file) == [row EXCEPT !.file = file]

MarkCompleted(row, file) == [row EXCEPT !.status = "COMPLETED", !.file = file]

MarkFailed(row) == [row EXCEPT !.status = "FAILED"]

\* Abort is refused while completing and once completed, and is a no-op on
\* a session that is already dead.
MayAbort(row) == row.status \in Pending \cup Dead
Abort(row) == IF row.status \in Pending THEN [row EXCEPT !.status = "ABORTED"] ELSE row
==============================================================================
