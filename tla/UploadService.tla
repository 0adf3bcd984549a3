---------------------------- MODULE UploadService ----------------------------
(***************************************************************************)
(* The upload service: creation of sessions, the client's uploads to the   *)
(* provider, and the requests that work on an existing session (complete,  *)
(* abort, inline content, list parts).                                     *)
(*                                                                         *)
(* A request is one-shot.  It takes one step per database transaction or   *)
(* provider call, and other requests, jobs and clients run between them.   *)
(* A call that is refused before it changes anything is not a step.        *)
(***************************************************************************)
EXTENDS FileStore

CONSTANTS
    Modes,      \* upload modes in use (allowed_modes)
    Ops,        \* endpoints the clients call on a session
    Overlap     \* endpoints that clients call while another call of these
                \* is in flight on the same session

ASSUME ServiceAssumption ==
    /\ Modes \subseteq SessionMode
    /\ Ops \subseteq {"complete", "abort", "inline", "list"}
    /\ Overlap \subseteq Ops

VARIABLE req    \* the requests and the local variables of their handlers

\* A declared hash that ContentHash.Validate rejects.
Malformed == "malformed"

Idle == [op |-> "none", s |-> Nil, pc |-> "idle", tok |-> Nil, hash |-> Nil,
         hit |-> Nil, gone |-> {}, snap |-> NoSession, res |-> Nil]

Request == {Idle} \cup
    [op : {"none", "complete", "abort", "inline", "list"},
     s : Sessions,
     pc : {"parts", "assemble", "verify", "commit", "fail",
           "put", "observe", "save", "cancel", "done"},
     tok : Token,        \* completion token
     hash : Hash,        \* expected hash, after verification the canonical one
     hit : FileId,       \* blob found by LookupByHash
     gone : SUBSET Requests,  \* files deleted before the request started
     snap : SessionRow,  \* the handler's copy of the session
     res : FileId]       \* file id answered to the client

InFlight(p) == req[p].pc \notin {"idle", "done"}

\* A call of op on s may start: it overlaps no other call on s unless the
\* clients let both endpoints overlap.
MayStart(p, op, s) ==
    /\ op \in Ops
    /\ req[p].pc = "idle"
    /\ \A q \in Requests : InFlight(q) /\ req[q].s = s => {op, req[q].op} \subseteq Overlap

Goto(p, label) == req' = [req EXCEPT ![p].pc = label]

\* The handler returns; only the session and the answer are remembered.
Return(p, s, answer) ==
    req' = [req EXCEPT ![p] = [Idle EXCEPT !.pc = "done", !.s = s, !.res = answer]]

------------------------------------------------------------------------------
(* CreateUploadSession.  A reusable session (FindReusable) is handed back  *)
(* without any state change.                                               *)

\* The multipart upload is created at the provider, then the row is stored.
Create(s, mode, hash, total) ==
    LET row == NewSession(mode, hash, total) IN
    /\ session[s].status = "ABSENT" /\ mpu[s] = "none"
    /\ Validate(row)
    /\ Save(s, row)
    /\ mpu' = IF mode = "DIRECT" THEN [mpu EXCEPT ![s] = "open"] ELSE mpu
    /\ UNCHANGED <<blobs, files, usage, outbox, audit, recon, parts, object, issued, req>>

\* The provider created the upload but the row is never stored: NewSession
\* rejects the parameters, the INSERT fails, or the process stops.
CreateFails(s) ==
    /\ "DIRECT" \in Modes
    /\ session[s].status = "ABSENT" /\ mpu[s] = "none"
    /\ mpu' = [mpu EXCEPT ![s] = "open"]
    /\ UNCHANGED <<tables, parts, object, issued, req>>

\* PresignMultipartParts hands out part URLs while content is expected.
PresignParts(s) ==
    /\ Readable(s)
    /\ session[s].mode = "DIRECT"
    /\ session[s].status \in Pending
    /\ s \notin issued
    /\ issued' = issued \cup {s}
    /\ UNCHANGED <<tables, mpu, parts, object, req>>

\* A client uploads one more part through a URL it holds, at any later time.
ClientUploadPart(s) ==
    /\ s \in issued
    /\ mpu[s] = "open"
    /\ parts[s] < session[s].total
    /\ parts' = [parts EXCEPT ![s] = @ + 1]
    /\ UNCHANGED <<tables, mpu, object, issued, req>>

\* A client PUTs content c through the URL it got when the session was created.
ClientPutObject(s, c) ==
    /\ session[s].status # "ABSENT"
    /\ session[s].mode = "PRESIGNED_SINGLE"
    /\ object' = [object EXCEPT ![s] = c]
    /\ UNCHANGED <<tables, mpu, parts, issued, req>>

------------------------------------------------------------------------------
(* CompleteUploadSession. *)

\* resolveExpectedContentHash: the declared hash must be well formed and
\* agree with the session's.
HashAccepted(row, declared) ==
    /\ declared # Malformed
    /\ (row.hash # Nil /\ declared # Nil) => row.hash = declared

\* Mutant of ExpectedHash: the hash stored with the session is ignored.
DeclaredHashOnly(row, declared) == declared

ExpectedHash(row, declared) == IF declared # Nil THEN declared ELSE row.hash

\* Phase A, one transaction: take the completion for this token, or learn
\* that it is held or done.  HELD_BY_ANOTHER and STATE_CONFLICT are refused.
AcquireStep(p, s, token, declared) ==
    LET row == session[s]
        owner == Ownership(row, token)
    IN
    /\ MayStart(p, "complete", s)
    /\ Readable(s)
    /\ \/ /\ owner = "ALREADY_DONE"
          /\ Return(p, s, row.file)
          /\ UNCHANGED session
       \/ /\ owner \in {"ACQUIRED", "HELD_BY_CALLER"}
          /\ Save(s, AcquireCompletion(row, token))
          /\ req' = [req EXCEPT ![p] =
                [Idle EXCEPT !.op = "complete", !.s = s, !.tok = token, !.gone = DeletedFiles,
                    !.pc = IF ~HashAccepted(row, declared) THEN "fail"
                           ELSE IF row.mode = "DIRECT" THEN "parts" ELSE "verify",
                    !.hash = IF HashAccepted(row, declared)
                             THEN ExpectedHash(row, declared) ELSE Nil]]
    /\ UNCHANGED <<blobs, files, usage, outbox, audit, recon, provider>>

\* completionToken: the idempotency key, or a fresh id.
CompleteStart(p, s) ==
    \E token \in Keys \cup {p}, declared \in Hash \cup {Malformed} :
        AcquireStep(p, s, token, declared)

\* Phase B, DIRECT: list the provider's parts.  Too few parts end the request
\* without ending the session; an unknown upload is a terminal failure.
CompleteListParts(p) ==
    LET s == req[p].s IN
    /\ req[p].pc = "parts"
    /\ IF mpu[s] # "open" THEN Goto(p, "fail")
       ELSE IF parts[s] < session[s].total THEN Return(p, s, Nil)
       ELSE Goto(p, "assemble")
    /\ UNCHANGED storeVars

\* CompleteMultipartUpload: the provider assembles the object, or the upload
\* is gone, or it rejects the parts (too small, replaced since listed).
CompleteAssemble(p) ==
    LET s == req[p].s IN
    /\ req[p].pc = "assemble"
    /\ \/ /\ mpu[s] = "open"
          /\ mpu' = [mpu EXCEPT ![s] = "closed"]
          /\ \E c \in Contents : object' = [object EXCEPT ![s] = c]
          /\ Goto(p, "verify")
       \/ /\ Goto(p, "fail")
          /\ UNCHANGED <<mpu, object>>
    /\ UNCHANGED <<tables, parts, issued>>

\* HeadObject and ComputeSHA256, resolveCanonicalHash, LookupByHash.  The
\* content is hashed if a hash is expected; otherwise the provider may or may
\* not report a checksum.  A missing object ends the request, a mismatch is a
\* terminal failure.
CompleteVerify(p) ==
    LET s == req[p].s
        expected == req[p].hash
    IN
    /\ req[p].pc = "verify"
    /\ \/ /\ object[s] = Nil
          /\ Return(p, s, Nil)
       \/ /\ object[s] # Nil
          /\ expected \notin {Nil, object[s]}
          /\ Goto(p, "fail")
       \/ /\ object[s] # Nil
          /\ expected \in {Nil, object[s]}
          /\ \E canonical \in {expected, object[s]} :
               \E hit \in IF canonical # Nil /\ LookupByHash(canonical) # {}
                          THEN LookupByHash(canonical) ELSE {Nil} :
                   req' = [req EXCEPT ![p].pc = "commit", ![p].hash = canonical,
                                      ![p].hit = hit]
    /\ UNCHANGED storeVars

\* Phase C, one transaction: confirm the owner, write blob, file, usage,
\* session and event.  Any refusal rolls everything back and leaves the
\* session as it is.
CompleteCommit(p) ==
    LET s == req[p].s
        row == session[s]
        b == IF req[p].hit # Nil THEN req[p].hit ELSE p
    IN
    /\ req[p].pc = "commit"
    /\ \/ /\ ~OwnerConfirmed(s, req[p].tok)
          /\ Return(p, s, Nil)
          /\ UNCHANGED tables
       \/ /\ OwnerConfirmed(s, req[p].tok)
          /\ row.status = "COMPLETED"
          /\ Return(p, s, row.file)
          /\ UNCHANGED tables
       \/ /\ OwnerConfirmed(s, req[p].tok)
          /\ row.status # "COMPLETED"
          /\ row.status # "COMPLETING" \/ ~BlobUnique(b, s, req[p].hash)
          /\ Return(p, s, Nil)
          /\ UNCHANGED tables
       \/ /\ OwnerConfirmed(s, req[p].tok)
          /\ row.status = "COMPLETING"
          /\ BlobUnique(b, s, req[p].hash)
          /\ UpsertAndReference(b, s, req[p].hash)
          /\ CreateFileAsset(p, s, b, req[p].hash)
          /\ ApplyDelta
          /\ Save(s, MarkCompleted(row, p))
          /\ Enqueue("upload.session.completed", s, p)
          /\ Return(p, s, p)
          /\ UNCHANGED <<audit, recon>>
    /\ UNCHANGED provider

\* Mutant of CompleteFail: the session's status is not looked at again.
CompleteFailAnyStatus(p) ==
    LET s == req[p].s IN
    /\ req[p].pc = "fail"
    /\ IF OwnerConfirmed(s, req[p].tok)
       THEN Save(s, MarkFailed(session[s])) /\ Enqueue("upload.session.failed", s, p)
       ELSE UNCHANGED <<session, outbox>>
    /\ Return(p, s, Nil)
    /\ UNCHANGED <<blobs, files, usage, audit, recon, provider>>

\* finalizeFailure, one transaction, after a terminal failure.
CompleteFail(p) ==
    LET s == req[p].s IN
    /\ req[p].pc = "fail"
    /\ IF OwnerConfirmed(s, req[p].tok) /\ session[s].status = "COMPLETING"
       THEN Save(s, MarkFailed(session[s])) /\ Enqueue("upload.session.failed", s, p)
       ELSE UNCHANGED <<session, outbox>>
    /\ Return(p, s, Nil)
    /\ UNCHANGED <<blobs, files, usage, audit, recon, provider>>

------------------------------------------------------------------------------
(* The handlers that read a row, change their copy and save it whole.      *)

ReadInto(p, op, s, row, label) ==
    /\ MayStart(p, op, s)
    /\ Readable(s)
    /\ req' = [req EXCEPT ![p] = [Idle EXCEPT !.op = op, !.s = s, !.pc = label, !.snap = row]]
    /\ UNCHANGED storeVars

\* AbortUploadSession: GetByID, Session.Abort on the copy.
AbortRead(p, s) ==
    /\ MayAbort(session[s])
    /\ ReadInto(p, "abort", s, Abort(session[s]), "save")

\* UploadInlineContent: GetByID and the mode check.
InlineRead(p, s) ==
    /\ session[s].mode = "INLINE"
    /\ ReadInto(p, "inline", s, session[s], "put")

\* The content is stored before MarkUploading looks at the status.
InlinePut(p) ==
    LET s == req[p].s IN
    /\ req[p].pc = "put"
    /\ \E c \in Contents : object' = [object EXCEPT ![s] = c]
    /\ IF req[p].snap.status \in Pending
       THEN req' = [req EXCEPT ![p].pc = "save", ![p].snap = MarkUploading(req[p].snap)]
       ELSE Return(p, s, Nil)
    /\ UNCHANGED <<tables, mpu, parts, issued>>

\* ListUploadedParts of a DIRECT session: GetByID.
ListRead(p, s) ==
    /\ session[s].mode = "DIRECT"
    /\ ReadInto(p, "list", s, session[s], "observe")

\* The provider's list; the session is saved only if parts were found and
\* the copy was still pending.
ListObserve(p) ==
    LET s == req[p].s IN
    /\ req[p].pc = "observe"
    /\ IF mpu[s] = "open" /\ parts[s] > 0 /\ req[p].snap.status \in Pending
       THEN req' = [req EXCEPT ![p].pc = "save", ![p].snap = MarkUploading(req[p].snap)]
       ELSE Return(p, s, Nil)
    /\ UNCHANGED storeVars

\* The common Save of the copy; an abort then turns to the provider.
SaveCopy(p) ==
    LET s == req[p].s
        row == req[p].snap
    IN
    /\ req[p].pc = "save"
    /\ Save(s, row)
    /\ IF req[p].op = "abort" /\ row.mode = "DIRECT" /\ row.upload
       THEN Goto(p, "cancel") ELSE Return(p, s, Nil)
    /\ UNCHANGED <<blobs, files, usage, outbox, audit, recon, provider>>

\* Abort's best-effort AbortMultipartUpload.
AbortCancel(p) ==
    LET s == req[p].s IN
    /\ req[p].pc = "cancel"
    /\ mpu' = [mpu EXCEPT ![s] = "closed"]
    /\ Return(p, s, Nil)
    /\ UNCHANGED <<tables, parts, object, issued>>

\* A request ends between two of its steps: the process stops, the context is
\* cancelled, or a database or provider call fails with an error that is not
\* terminal.
Interrupt(p) ==
    /\ InFlight(p)
    /\ Return(p, req[p].s, Nil)
    /\ UNCHANGED storeVars

------------------------------------------------------------------------------
ServiceInit == req = [p \in Requests |-> Idle]

RequestStep(p) ==
    \/ CompleteListParts(p) \/ CompleteAssemble(p) \/ CompleteVerify(p)
    \/ CompleteCommit(p) \/ CompleteFail(p)
    \/ InlinePut(p) \/ ListObserve(p) \/ SaveCopy(p) \/ AbortCancel(p)
    \/ Interrupt(p)

RequestStart(p, s) ==
    CompleteStart(p, s) \/ AbortRead(p, s) \/ InlineRead(p, s) \/ ListRead(p, s)

SessionStep(s) ==
    \/ \E mode \in Modes, hash \in Hash, total \in 0..MaxParts : Create(s, mode, hash, total)
    \/ CreateFails(s)
    \/ PresignParts(s)
    \/ ClientUploadPart(s)
    \/ \E c \in Contents : ClientPutObject(s, c)

ServiceNext ==
    \/ \E s \in Sessions : SessionStep(s)
    \/ \E p \in Requests, s \in Sessions : RequestStart(p, s)
    \/ \E p \in Requests : RequestStep(p)
==============================================================================
