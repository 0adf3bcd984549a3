--------------------------- MODULE MaintenanceJobs ---------------------------
(***************************************************************************)
(* The maintenance jobs of the job service and the file deletion of the    *)
(* admin service.                                                          *)
(*                                                                         *)
(* A job works through a batch of rows it has locked (FOR UPDATE SKIP      *)
(* LOCKED); the model takes one row per step, a batch being consecutive    *)
(* steps.  A cutoff (expires_at, updated_at, deleted_at) may have passed   *)
(* at any step, except as RetentionElapsed and OrphanElapsed say.          *)
(***************************************************************************)
EXTENDS UploadService

CONSTANT Jobs   \* the jobs the scheduler runs

ASSUME JobsAssumption ==
    Jobs \subseteq {"expire", "repair", "multipart", "finalize", "orphan", "reconcile"}

\* Retention (days) and the orphan cutoff (a day) exceed the life of any
\* request.  So a file that is finalized was deleted before every request
\* still in flight started: here, before those that found its blob by hash.
RetentionElapsed(f) ==
    \A p \in Requests : InFlight(p) /\ req[p].hit = files[f].blob => f \in req[p].gone

\* A blob is orphaned by a deletion that stamps updated_at.  So no request that
\* found it while it still had a file is in flight.
OrphanElapsed(b) == \A p \in Requests : InFlight(p) => req[p].hit # b

------------------------------------------------------------------------------
\* Mutants of Expire: no condition on the status; COMPLETING is left out.
ExpireAnyStatus(s) ==
    /\ "expire" \in Jobs
    /\ session[s].status \notin {"ABSENT", "EXPIRED"}
    /\ Save(s, [session[s] EXCEPT !.status = "EXPIRED", !.token = Nil])
    /\ UNCHANGED <<blobs, files, usage, outbox, audit, recon, provider, req>>
ExpirePendingOnly(s) ==
    /\ "expire" \in Jobs
    /\ session[s].status \in Pending
    /\ Save(s, [session[s] EXCEPT !.status = "EXPIRED", !.token = Nil])
    /\ UNCHANGED <<blobs, files, usage, outbox, audit, recon, provider, req>>

\* ExpirePendingSessions.
Expire(s) ==
    /\ "expire" \in Jobs
    /\ session[s].status \in Pending \cup {"COMPLETING"}
    /\ Save(s, [session[s] EXCEPT !.status = "EXPIRED", !.token = Nil])
    /\ UNCHANGED <<blobs, files, usage, outbox, audit, recon, provider, req>>

\* The row RepairStuckCompleting writes.
Repaired(row) ==
    [row EXCEPT !.status = IF row.file # Nil THEN "COMPLETED" ELSE "FAILED"]

\* RepairStuckCompleting.
Repair(s) ==
    /\ "repair" \in Jobs
    /\ session[s].status = "COMPLETING"
    /\ Save(s, Repaired(session[s]))
    /\ UNCHANGED <<blobs, files, usage, outbox, audit, recon, provider, req>>

\* Mutant of Cleanable: expired sessions are left out.
CleanableUnlessExpired(s) == session[s].status \in {"ABORTED", "FAILED"} /\ session[s].upload

\* A dead session whose multipart upload is still recorded.
Cleanable(s) == session[s].status \in Dead /\ session[s].upload

\* Mutant of CleanupMultipart: the provider is not told.
CleanupWithoutAbort(s) ==
    /\ "multipart" \in Jobs
    /\ Cleanable(s)
    /\ Save(s, [session[s] EXCEPT !.upload = FALSE])
    /\ UNCHANGED <<blobs, files, usage, outbox, audit, recon, provider, req>>

\* CleanupMultipartUploads: abort at the provider, then forget the upload id.
CleanupMultipart(s) ==
    /\ "multipart" \in Jobs
    /\ Cleanable(s)
    /\ mpu' = [mpu EXCEPT ![s] = "closed"]
    /\ Save(s, [session[s] EXCEPT !.upload = FALSE])
    /\ UNCHANGED <<blobs, files, usage, outbox, audit, recon, parts, object, issued, req>>

\* The same, stopped or rolled back after the provider call.
CleanupMultipartRollback(s) ==
    /\ "multipart" \in Jobs
    /\ Cleanable(s)
    /\ mpu' = [mpu EXCEPT ![s] = "closed"]
    /\ UNCHANGED <<tables, parts, object, issued, req>>

\* Delete the object under the blob's current key, then set deleted_at; the
\* transaction holds the blob's row lock throughout.
ReclaimBlob(b) ==
    /\ object' = [object EXCEPT ![blobs[b].key] = Nil]
    /\ blobs' = [blobs EXCEPT ![b].deleted = TRUE]
    /\ UNCHANGED <<session, files, usage, outbox, audit, recon, mpu, parts, issued, req>>

\* The object is deleted but the transaction does not commit.
ReclaimRollback(b) ==
    /\ object' = [object EXCEPT ![blobs[b].key] = Nil]
    /\ UNCHANGED <<tables, mpu, parts, issued, req>>

\* Mutant of Unreferenced: the reference count is not checked again.
UnreferencedAnyCount(b) == blobs[b].key # Nil /\ ~blobs[b].deleted

Unreferenced(b) ==
    /\ blobs[b].key # Nil
    /\ blobs[b].ref = 0
    /\ ~blobs[b].deleted

\* FinalizeDeletedFiles for the blob of a deleted file.
FinalizeDelete(f) ==
    LET b == files[f].blob IN
    /\ "finalize" \in Jobs
    /\ files[f].status = "DELETED"
    /\ Unreferenced(b)
    /\ RetentionElapsed(f)
    /\ ReclaimBlob(b) \/ ReclaimRollback(b)

\* CleanupOrphanBlobs.
CleanupOrphan(b) ==
    /\ "orphan" \in Jobs
    /\ Unreferenced(b)
    /\ FilesOf(b) = {}
    /\ OrphanElapsed(b)
    /\ ReclaimBlob(b) \/ ReclaimRollback(b)

\* ReconcileTenantUsage: the sums belong to the statement's snapshot; they are
\* written once the usage row's lock is granted, after any transaction that
\* held it has committed.
ReconcileRead ==
    /\ "reconcile" \in Jobs
    /\ recon = Nil
    /\ recon' = Cardinality(ActiveFiles)
    /\ UNCHANGED <<session, blobs, files, usage, outbox, audit, provider, req>>

\* Mutant of ReconcileWrite: the file count is left alone.
ReconcileWriteBytes ==
    /\ recon # Nil
    /\ usage' = [usage EXCEPT !.bytes = recon]
    /\ recon' = Nil
    /\ UNCHANGED <<session, blobs, files, outbox, audit, provider, req>>

ReconcileWrite ==
    /\ recon # Nil
    /\ usage' = [bytes |-> recon, count |-> recon]
    /\ recon' = Nil
    /\ UNCHANGED <<session, blobs, files, outbox, audit, provider, req>>

------------------------------------------------------------------------------
\* The admin service's DeleteFile: MarkDeleted, the audit record and the
\* event, one transaction.  A repeated delete changes nothing.
DeleteFile(f) ==
    LET b == files[f].blob IN
    /\ files[f].status = "ACTIVE"
    /\ files' = [files EXCEPT ![f].status = "DELETED"]
    /\ blobs' = [blobs EXCEPT ![b].ref = Decrement(@)]
    /\ usage' = [bytes |-> Decrement(usage.bytes), count |-> Decrement(usage.count)]
    /\ audit' = audit \cup {f}
    /\ Enqueue("file.asset.delete_requested", f, f)
    /\ UNCHANGED <<session, recon, provider, req>>

------------------------------------------------------------------------------
JobsNext ==
    \/ \E s \in Sessions : \/ Expire(s) \/ Repair(s)
                           \/ CleanupMultipart(s) \/ CleanupMultipartRollback(s)
    \/ \E f \in Requests : FinalizeDelete(f) \/ CleanupOrphan(f) \/ DeleteFile(f)
    \/ ReconcileRead \/ ReconcileWrite
==============================================================================
