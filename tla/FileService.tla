----------------------------- MODULE FileService -----------------------------
(***************************************************************************)
(* The whole file service: upload requests, clients, maintenance jobs and  *)
(* admin deletions over one database and one bucket, and what must hold    *)
(* of them together.                                                       *)
(***************************************************************************)
EXTENDS MaintenanceJobs

vars == <<session, blobs, files, usage, outbox, audit, recon,
          mpu, parts, object, issued, req>>

Init == StoreInit /\ ServiceInit

Next == ServiceNext \/ JobsNext

Spec == Init /\ [][Next]_vars

\* The scheduler runs every job again and again, and a batch takes the oldest
\* rows first, so a row that stays eligible is reached.
JobsFairness ==
    /\ \A s \in Sessions : WF_vars(Expire(s)) /\ WF_vars(CleanupMultipart(s))
    /\ WF_vars(ReconcileRead) /\ WF_vars(ReconcileWrite)

FairSpec == Spec /\ JobsFairness

------------------------------------------------------------------------------
\* Every variable keeps its type.
TypeOK ==
    /\ StoreTypeOK
    /\ req \in [Requests -> Request]

------------------------------------------------------------------------------
(* Safety under every interleaving: all endpoints may overlap. *)

\* A session carries a file id exactly when it is COMPLETED: no stale Save,
\* expiry or repair ever leaves a file id on an unfinished session or takes
\* it from a finished one.  (So the branch of RepairStuckCompleting that turns
\* a COMPLETING row with a file id into COMPLETED is never taken.)
CompletedIffBound ==
    \A s \in Sessions : session[s].status = "COMPLETED" <=> session[s].file # Nil

\* The file id of a session names a file that exists and was made from that
\* session's object, however completions, jobs and deletions interleave.
BoundFileExists ==
    \A s \in Sessions : session[s].file # Nil =>
        /\ files[session[s].file].status # "ABSENT"
        /\ files[session[s].file].key = s

\* A handler's copy of a session is as consistent as the row it was read from,
\* and stays so while the tables change under it: what makes CompletedIffBound
\* and BoundFileExists survive a full-row Save of an old copy.
SnapshotSound ==
    \A p \in Requests :
        /\ req[p].snap.status = "COMPLETED" <=> req[p].snap.file # Nil
        /\ req[p].snap.file # Nil =>
              /\ files[req[p].snap.file].status # "ABSENT"
              /\ files[req[p].snap.file].key = req[p].s

\* A file exists only once the request that generated its id has returned: the
\* commit that creates it is the request's last step.
FreshIds ==
    \A p \in Requests : files[p].status # "ABSENT" => req[p].pc = "done"

\* reference_count is the number of ACTIVE files of the blob, so commit and
\* MarkDeleted (with its GREATEST clamp) never drift apart.
RefCountExact ==
    \A b \in Requests : blobs[b].ref = Cardinality(FilesOf(b))

\* used_storage_bytes is the size of the ACTIVE files as long as only commit
\* and MarkDeleted write it (no reconciliation running).
UsageBytesExact == usage.bytes = Cardinality(ActiveFiles)

\* A DIRECT session that is completed, or whose upload id the cleanup job has
\* erased, has no upload left open at the provider: a row never stops pointing
\* at an upload that still holds parts.
NoUploadForgotten ==
    \A s \in Sessions :
        /\ session[s].status # "ABSENT"
        /\ session[s].mode = "DIRECT"
        /\ session[s].status = "COMPLETED" \/ ~session[s].upload
        => mpu[s] = "closed"

\* The object behind an ACTIVE file of a DIRECT session is the one whose hash
\* was verified: assembly closes the upload, nobody can write the key again,
\* and no job reclaims it while the file is ACTIVE.
DirectContentVerified ==
    \A f \in ActiveFiles :
        session[files[f].key].mode = "DIRECT" => object[files[f].key] = files[f].hash

\* Exactly the files that exist have been announced, and exactly the deleted
\* ones have an audit record and a deletion event.
EventsMatchFiles ==
    \A f \in Requests :
        /\ files[f].status # "ABSENT" <=>
              \E s \in Sessions : <<"upload.session.completed", s, f>> \in outbox
        /\ files[f].status = "DELETED" <=> f \in audit
        /\ f \in audit <=> <<"file.asset.delete_requested", f, f>> \in outbox

------------------------------------------------------------------------------
(* Safety when clients let only completions overlap on a session. *)

\* One upload session ends in at most one file (docs: at most one file_id).
OneFilePerSession ==
    \A f, g \in Requests :
        files[f].status # "ABSENT" /\ files[f].key = files[g].key => f = g

\* A completed session is final: no handler or job changes its row again.
CompletedIsFinal ==
    [][\A s \in Sessions :
          session[s].status = "COMPLETED" => session'[s] = session[s]]_vars

\* Completion implements the write-once register.
Register == INSTANCE CompletionRegister WITH
    chosen <- [s \in Sessions |-> session[s].file],
    answer <- [p \in Requests |->
                  IF req[p].res # Nil THEN <<req[p].s, req[p].res>> ELSE Nil]

RegisterSpec == Register!Spec

\* An ACTIVE file can be read: the object under the file's own key is stored,
\* although deduplication moves the blob to the newest key and the jobs delete
\* whatever the blob's key is at that time.
ActiveFileReadable ==
    \A f \in ActiveFiles : object[files[f].key] # Nil

------------------------------------------------------------------------------
(* Liveness under JobsFairness: every endpoint may overlap. *)

\* Every session that was created is in the end in a terminal status for good,
\* although stale Saves may revive a terminal one.
SessionsSettle ==
    \A s \in Sessions :
        session[s].status # "ABSENT" ~> [](session[s].status \in Terminal)

\* The multipart upload of a stored session is in the end completed or aborted
\* at the provider.
UploadsGetClosed ==
    \A s \in Sessions :
        session[s].status # "ABSENT" /\ session[s].mode = "DIRECT" ~> mpu[s] = "closed"

\* Reconciliation in the end repairs the usage row: bytes and count are those
\* of the ACTIVE files, once uploads and deletions are over.
UsageReconciled ==
    <>[](usage = [bytes |-> Cardinality(ActiveFiles), count |-> Cardinality(ActiveFiles)])
==============================================================================
