------------------------- MODULE FileService_proofs --------------------------
(***************************************************************************)
(* Theorems about FileService, for every number of sessions and requests,  *)
(* every set of modes, endpoints and jobs, and every interleaving: types;  *)
(* sessions and the files they name; reference counts and usage; events;   *)
(* provider uploads; the content of DIRECT files.                          *)
(*                                                                         *)
(* Each part has an invariant of its own, built on the one before.         *)
(* Full-row saves write old copies back, so every invariant says of the    *)
(* copies that requests hold what it says of the rows.                     *)
(***************************************************************************)
EXTENDS FileService, TLAPS, FiniteSetTheorems

------------------------------------------------------------------------------
(* Types. *)

\* The copy operations of domain.Session stay within the row type.
LEMMA RowTypes ==
    ASSUME NEW row \in SessionRow
    PROVE  /\ MarkUploading(row) \in SessionRow
           /\ MarkFailed(row) \in SessionRow
           /\ Abort(row) \in SessionRow
           /\ \A t \in Token : AcquireCompletion(row, t) \in SessionRow
           /\ \A f \in FileId : MarkCompleted(row, f) \in SessionRow
           /\ Repaired(row) \in SessionRow
           /\ [row EXCEPT !.status = "EXPIRED", !.token = Nil] \in SessionRow
           /\ [row EXCEPT !.upload = FALSE] \in SessionRow
  BY DEF SessionRow, SessionStatus, MarkUploading, MarkFailed, Abort, AcquireCompletion,
         MarkCompleted, Repaired, Token, FileId

\* The row of a request that has started names a session.
LEMMA InFlightType ==
    ASSUME TypeOK, NEW p \in Requests, req[p].pc # "idle"
    PROVE  /\ req[p].s \in Sessions
           /\ req[p].snap \in SessionRow
           /\ req[p].hash \in Hash
           /\ req[p].hit \in FileId
           /\ req[p].tok \in Token
           /\ session[req[p].s] \in SessionRow
  <1>1. req[p] \in Request
    BY DEF TypeOK
  <1>2. req[p] # Idle
    BY DEF Idle
  <1>. QED
    BY <1>1, <1>2 DEF Request, TypeOK, StoreTypeOK

\* Return leaves the requests well typed.
LEMMA ReturnType ==
    ASSUME req \in [Requests -> Request], NEW p \in Requests,
           NEW s \in Sessions, NEW a \in FileId, Return(p, s, a)
    PROVE  req' \in [Requests -> Request]
  <1>1. NoSession \in SessionRow
    <2>1. 1 \in 0..MaxParts
      BY StoreAssumption DEF StoreAssumption
    <2>. QED
      BY <2>1 DEF NoSession, SessionRow, SessionMode, Hash, Token, FileId
  <1>2. [Idle EXCEPT !.pc = "done", !.s = s, !.res = a] \in Request
    BY <1>1 DEF Idle, Request, Hash, Token, FileId
  <1>. QED
    BY <1>2 DEF Return

\* So does a jump to another label of the handler.
LEMMA GotoType ==
    ASSUME TypeOK, NEW p \in Requests, InFlight(p),
           NEW label \in {"assemble", "verify", "fail", "cancel"}, Goto(p, label)
    PROVE  req' \in [Requests -> Request]
  <1>1. req[p] \in Request \ {Idle}
    BY DEF TypeOK, InFlight, Idle
  <1>2. [req[p] EXCEPT !.pc = label] \in Request
    BY <1>1 DEF Request
  <1>. QED
    BY <1>2 DEF Goto, TypeOK

\* The initial state is well typed.
LEMMA TypeInit ==
    Init => TypeOK
  <1>1. NoSession \in SessionRow
    BY StoreAssumption DEF StoreAssumption, NoSession, SessionRow, SessionMode, Hash, Token, FileId
  <1>. QED
    BY <1>1, StoreAssumption DEF StoreAssumption, Init, StoreInit, ServiceInit, TypeOK, StoreTypeOK,
       NoBlob, BlobRow, FileRow, Usage, Request, Hash

\* Creation, presigning and the clients' uploads.
LEMMA SessionStepType ==
    ASSUME TypeOK, NEW s \in Sessions, SessionStep(s)
    PROVE  TypeOK'
  <1>. USE DEF TypeOK, StoreTypeOK
  <1>1. ASSUME NEW mode \in Modes, NEW hash \in Hash, NEW total \in 0..MaxParts,
               Create(s, mode, hash, total)
        PROVE  TypeOK'
    <2>1. mode \in SessionMode
      BY ServiceAssumption DEF ServiceAssumption
    <2>2. NewSession(mode, hash, total) \in SessionRow
      BY <2>1 DEF NewSession, SessionRow, SessionStatus, SessionMode, Token, FileId,
             RequiresProviderUploadID
    <2>. QED
      BY <1>1, <2>2 DEF Create, Save
  <1>2. CASE CreateFails(s)
    BY <1>2 DEF CreateFails, tables
  <1>3. CASE PresignParts(s)
    BY <1>3 DEF PresignParts, tables
  <1>4. CASE ClientUploadPart(s)
    <2>1. parts[s] + 1 \in 0..MaxParts
      BY <1>4, StoreAssumption DEF StoreAssumption, ClientUploadPart, SessionRow
    <2>. QED
      BY <1>4, <2>1 DEF ClientUploadPart, tables
  <1>5. ASSUME NEW c \in Contents, ClientPutObject(s, c)
        PROVE  TypeOK'
    BY <1>5 DEF ClientPutObject, tables, Hash
  <1>. QED
    BY <1>1, <1>2, <1>3, <1>4, <1>5 DEF SessionStep

\* The first step of a request.
LEMMA RequestStartType ==
    ASSUME TypeOK, NEW p \in Requests, NEW s \in Sessions, RequestStart(p, s)
    PROVE  TypeOK'
  <1>0. session[s] \in SessionRow /\ NoSession \in SessionRow
    BY StoreAssumption DEF StoreAssumption, TypeOK, StoreTypeOK, NoSession, SessionRow,
           SessionMode, Hash, Token, FileId
  <1>1. CASE CompleteStart(p, s)
    <2>1. PICK token \in Keys \cup {p}, declared \in Hash \cup {Malformed} :
              AcquireStep(p, s, token, declared)
      BY <1>1 DEF CompleteStart
    <2>2. CASE Return(p, s, session[s].file) /\ UNCHANGED session
      <3>1. session[s].file \in FileId
        BY <1>0 DEF SessionRow
      <3>2. req' \in [Requests -> Request]
        BY <2>2, <3>1, ReturnType DEF TypeOK
      <3>. QED
        BY <2>1, <2>2, <3>2 DEF AcquireStep, TypeOK, StoreTypeOK, provider
    <2>3. CASE ~UNCHANGED session \/ ~Return(p, s, session[s].file)
      <3>1. token \in Token
        BY DEF Token
      <3>2. AcquireCompletion(session[s], token) \in SessionRow
        BY <1>0, <3>1, RowTypes
      <3>3. HashAccepted(session[s], declared) => ExpectedHash(session[s], declared) \in Hash
        BY <1>0 DEF HashAccepted, ExpectedHash, SessionRow
      <3>4. session' = [session EXCEPT ![s] = AcquireCompletion(session[s], token)]
        BY <2>1, <2>3 DEF AcquireStep, Save
      <3>5. PICK label \in {"fail", "parts", "verify"}, h \in Hash :
              req' = [req EXCEPT ![p] = [Idle EXCEPT !.op = "complete", !.s = s, !.tok = token,
                                                     !.gone = DeletedFiles, !.pc = label, !.hash = h]]
        BY <2>1, <2>3, <3>3 DEF AcquireStep, Hash
      <3>6. [Idle EXCEPT !.op = "complete", !.s = s, !.tok = token,
                         !.gone = DeletedFiles, !.pc = label, !.hash = h] \in Request
        BY <1>0, <3>1 DEF Idle, Request, FileId, DeletedFiles
      <3>. QED
        BY <2>1, <3>2, <3>4, <3>5, <3>6 DEF AcquireStep, TypeOK, StoreTypeOK, provider
    <2>. QED
      BY <2>2, <2>3
  <1>2. ASSUME NEW op \in {"abort", "inline", "list"}, NEW row \in SessionRow,
               NEW label \in {"save", "put", "observe"}, ReadInto(p, op, s, row, label)
        PROVE  TypeOK'
    <2>1. [Idle EXCEPT !.op = op, !.s = s, !.pc = label, !.snap = row] \in Request
      BY DEF Idle, Request, Hash, Token, FileId
    <2>. QED
      BY <1>2, <2>1 DEF ReadInto, TypeOK, StoreTypeOK, storeVars
  <1>3. CASE AbortRead(p, s)
    BY <1>0, <1>2, <1>3, RowTypes DEF AbortRead
  <1>4. CASE InlineRead(p, s)
    BY <1>0, <1>2, <1>4 DEF InlineRead
  <1>5. CASE ListRead(p, s)
    BY <1>0, <1>2, <1>5 DEF ListRead
  <1>. QED
    BY <1>1, <1>3, <1>4, <1>5 DEF RequestStart

\* The further steps of a request.
LEMMA RequestStepType ==
    ASSUME TypeOK, NEW p \in Requests, RequestStep(p)
    PROVE  TypeOK'
  <1>. DEFINE s == req[p].s
  <1>0. InFlight(p) /\ req[p].pc # "idle"
    BY DEF RequestStep, CompleteListParts, CompleteAssemble, CompleteVerify, CompleteCommit,
           CompleteFail, InlinePut, ListObserve, SaveCopy, AbortCancel, Interrupt, InFlight
  <1>t. /\ s \in Sessions
        /\ req[p].snap \in SessionRow
        /\ req[p].hash \in Hash
        /\ req[p].hit \in FileId
        /\ req[p].tok \in Token
        /\ session[s] \in SessionRow
    BY <1>0, InFlightType
  <1>r. \A a \in FileId : Return(p, s, a) => req' \in [Requests -> Request]
    BY <1>t, ReturnType DEF TypeOK
  <1>n. Nil \in FileId /\ p \in FileId /\ session[s].file \in FileId
    BY <1>t DEF FileId, SessionRow
  <1>u. ASSUME NEW row \in SessionRow,
               req' = [req EXCEPT ![p].pc = "save", ![p].snap = row]
        PROVE  req' \in [Requests -> Request]
    <2>1. req[p] \in Request \ {Idle}
      BY <1>0 DEF TypeOK, Idle
    <2>2. [[req[p] EXCEPT !.pc = "save"] EXCEPT !.snap = row] \in Request
      BY <2>1 DEF Request
    <2>. QED
      BY <1>u, <2>2 DEF TypeOK
  <1>1. CASE CompleteListParts(p)
    <2>1. req' \in [Requests -> Request]
      BY <1>1, <1>0, <1>r, <1>n, GotoType DEF CompleteListParts
    <2>. QED
      BY <1>1, <2>1 DEF CompleteListParts, storeVars, TypeOK, StoreTypeOK
  <1>2. CASE CompleteAssemble(p)
    <2>1. req' \in [Requests -> Request]
      BY <1>2, <1>0, GotoType DEF CompleteAssemble
    <2>. QED
      BY <1>2, <1>t, <2>1 DEF CompleteAssemble, tables, TypeOK, StoreTypeOK, Hash
  <1>3. CASE CompleteVerify(p)
    <2>1. req' \in [Requests -> Request]
      <3>1. CASE Return(p, s, Nil)
        BY <3>1, <1>r, <1>n
      <3>2. CASE Goto(p, "fail")
        BY <3>2, <1>0, GotoType
      <3>3. ASSUME NEW canonical \in {req[p].hash, object[s]},
                   NEW hit \in IF canonical # Nil /\ LookupByHash(canonical) # {}
                               THEN LookupByHash(canonical) ELSE {Nil},
                   req' = [req EXCEPT ![p].pc = "commit", ![p].hash = canonical, ![p].hit = hit]
            PROVE  req' \in [Requests -> Request]
        <4>1. canonical \in Hash /\ hit \in FileId
          BY <1>t DEF TypeOK, StoreTypeOK, LookupByHash, FileId
        <4>2. req[p] \in Request \ {Idle}
          BY <1>0 DEF TypeOK, Idle
        <4>3. [[[req[p] EXCEPT !.pc = "commit"] EXCEPT !.hash = canonical] EXCEPT !.hit = hit] \in Request
          BY <4>1, <4>2 DEF Request
        <4>. QED
          BY <3>3, <4>3 DEF TypeOK
      <3>. QED
        BY <1>3, <3>1, <3>2, <3>3 DEF CompleteVerify
    <2>. QED
      BY <1>3, <2>1 DEF CompleteVerify, storeVars, TypeOK, StoreTypeOK
  <1>4. CASE CompleteCommit(p)
    <2>. DEFINE b == IF req[p].hit # Nil THEN req[p].hit ELSE p
    <2>1. b \in Requests
      BY <1>t DEF FileId
    <2>2. req' \in [Requests -> Request]
      BY <1>4, <1>r, <1>n DEF CompleteCommit
    <2>3. CASE UNCHANGED tables
      BY <1>4, <2>2, <2>3 DEF CompleteCommit, tables, provider, TypeOK, StoreTypeOK
    <2>4. CASE /\ UpsertAndReference(b, s, req[p].hash)
               /\ CreateFileAsset(p, s, b, req[p].hash)
               /\ ApplyDelta
               /\ Save(s, MarkCompleted(session[s], p))
               /\ Enqueue("upload.session.completed", s, p)
               /\ UNCHANGED <<audit, recon>>
      <3>1. session' \in [Sessions -> SessionRow]
        BY <2>4, <1>t, <1>n, RowTypes DEF Save, TypeOK, StoreTypeOK
      <3>2. blobs' \in [Requests -> BlobRow]
        <4>1. blobs[b] \in BlobRow
          BY <2>1 DEF TypeOK, StoreTypeOK
        <4>2. blobs[b].ref \in Nat /\ blobs[b].deleted \in BOOLEAN
          BY <4>1 DEF BlobRow
        <4>3. [key |-> s, hash |-> req[p].hash, ref |-> blobs[b].ref + 1,
               deleted |-> blobs[b].deleted] \in BlobRow
          BY <4>2, <1>t DEF BlobRow
        <4>. QED
          BY <2>4, <4>3 DEF UpsertAndReference, TypeOK, StoreTypeOK
      <3>3. files' \in [Requests -> FileRow]
        <4>1. [status |-> "ACTIVE", key |-> s, blob |-> b, hash |-> req[p].hash] \in FileRow
          BY <2>1, <1>t DEF FileRow
        <4>. QED
          BY <2>4, <4>1 DEF CreateFileAsset, TypeOK, StoreTypeOK
      <3>4. usage' \in Usage
        BY <2>4 DEF ApplyDelta, Usage, TypeOK, StoreTypeOK
      <3>5. outbox' \subseteq Event
        BY <2>4, <1>t DEF Enqueue, Event, EventType, TypeOK, StoreTypeOK
      <3>. QED
        BY <1>4, <2>2, <2>4, <3>1, <3>2, <3>3, <3>4, <3>5
           DEF CompleteCommit, provider, TypeOK, StoreTypeOK
    <2>. QED
      BY <1>4, <2>3, <2>4 DEF CompleteCommit
  <1>5. CASE CompleteFail(p)
    <2>1. req' \in [Requests -> Request]
      BY <1>5, <1>r, <1>n DEF CompleteFail
    <2>2. session' \in [Sessions -> SessionRow]
      BY <1>5, <1>t, RowTypes DEF CompleteFail, Save, TypeOK, StoreTypeOK
    <2>3. outbox' \subseteq Event
      BY <1>5, <1>t DEF CompleteFail, Enqueue, Event, EventType, TypeOK, StoreTypeOK
    <2>. QED
      BY <1>5, <2>1, <2>2, <2>3 DEF CompleteFail, provider, TypeOK, StoreTypeOK
  <1>6. CASE InlinePut(p)
    <2>1. req' \in [Requests -> Request]
      BY <1>6, <1>r, <1>n, <1>t, <1>u, RowTypes DEF InlinePut
    <2>. QED
      BY <1>6, <1>t, <2>1 DEF InlinePut, tables, TypeOK, StoreTypeOK, Hash
  <1>7. CASE ListObserve(p)
    <2>1. req' \in [Requests -> Request]
      BY <1>7, <1>r, <1>n, <1>t, <1>u, RowTypes DEF ListObserve
    <2>. QED
      BY <1>7, <2>1 DEF ListObserve, storeVars, TypeOK, StoreTypeOK
  <1>8. CASE SaveCopy(p)
    <2>1. req' \in [Requests -> Request]
      BY <1>8, <1>0, <1>r, <1>n, GotoType DEF SaveCopy
    <2>. QED
      BY <1>8, <1>t, <2>1 DEF SaveCopy, Save, provider, TypeOK, StoreTypeOK
  <1>9. CASE AbortCancel(p)
    <2>1. req' \in [Requests -> Request]
      BY <1>9, <1>r, <1>n DEF AbortCancel
    <2>. QED
      BY <1>9, <1>t, <2>1 DEF AbortCancel, tables, TypeOK, StoreTypeOK
  <1>10. CASE Interrupt(p)
    <2>1. req' \in [Requests -> Request]
      BY <1>10, <1>r, <1>n DEF Interrupt
    <2>. QED
      BY <1>10, <2>1 DEF Interrupt, storeVars, TypeOK, StoreTypeOK
  <1>. QED
    BY <1>1, <1>2, <1>3, <1>4, <1>5, <1>6, <1>7, <1>8, <1>9, <1>10 DEF RequestStep

\* The jobs and the admin's deletion.
LEMMA JobsType ==
    ASSUME TypeOK, JobsNext
    PROVE  TypeOK'
  <1>1. ASSUME NEW s \in Sessions,
               \/ Expire(s) \/ Repair(s)
               \/ CleanupMultipart(s) \/ CleanupMultipartRollback(s)
        PROVE  TypeOK'
    <2>0. session[s] \in SessionRow
      BY DEF TypeOK, StoreTypeOK
    <2>1. session' \in [Sessions -> SessionRow]
      BY <1>1, <2>0, RowTypes DEF Expire, Repair, CleanupMultipart, CleanupMultipartRollback,
             Save, tables, TypeOK, StoreTypeOK
    <2>2. mpu' \in [Sessions -> {"none", "open", "closed"}]
      BY <1>1 DEF Expire, Repair, CleanupMultipart, CleanupMultipartRollback, provider,
             TypeOK, StoreTypeOK
    <2>3. UNCHANGED <<blobs, files, usage, outbox, audit, recon, parts, object, issued, req>>
      BY <1>1 DEF Expire, Repair, CleanupMultipart, CleanupMultipartRollback, provider, tables
    <2>. QED
      BY <2>1, <2>2, <2>3 DEF TypeOK, StoreTypeOK
  <1>2. ASSUME NEW b \in Requests, Unreferenced(b), ReclaimBlob(b) \/ ReclaimRollback(b)
        PROVE  TypeOK'
    <2>0. blobs[b] \in BlobRow
      BY DEF TypeOK, StoreTypeOK
    <2>1. blobs[b].key \in Sessions
      BY <1>2, <2>0 DEF Unreferenced, BlobRow
    <2>2. object' \in [Sessions -> Hash]
      BY <1>2, <2>1 DEF ReclaimBlob, ReclaimRollback, Hash, TypeOK, StoreTypeOK
    <2>3. blobs' \in [Requests -> BlobRow]
      <3>1. [blobs[b] EXCEPT !.deleted = TRUE] \in BlobRow
        BY <2>0 DEF BlobRow
      <3>2. CASE ReclaimBlob(b)
        BY <3>1, <3>2 DEF ReclaimBlob, TypeOK, StoreTypeOK
      <3>3. CASE ReclaimRollback(b)
        BY <3>3 DEF ReclaimRollback, tables, TypeOK, StoreTypeOK
      <3>. QED
        BY <1>2, <3>2, <3>3
    <2>. QED
      BY <1>2, <2>2, <2>3 DEF ReclaimBlob, ReclaimRollback, tables, TypeOK, StoreTypeOK
  <1>3. ASSUME NEW f \in Requests, FinalizeDelete(f)
        PROVE  TypeOK'
    <2>1. files[f].blob \in Requests
      BY <1>3 DEF FinalizeDelete, TypeOK, StoreTypeOK, FileRow, NoFile
    <2>. QED
      BY <1>2, <1>3, <2>1 DEF FinalizeDelete
  <1>4. ASSUME NEW b \in Requests, CleanupOrphan(b)
        PROVE  TypeOK'
    BY <1>2, <1>4 DEF CleanupOrphan
  <1>5. ASSUME NEW f \in Requests, DeleteFile(f)
        PROVE  TypeOK'
    <2>1. files[f] \in FileRow \ {NoFile}
      BY <1>5 DEF DeleteFile, TypeOK, StoreTypeOK, FileRow, NoFile
    <2>2. files[f].blob \in Requests
      BY <2>1 DEF FileRow
    <2>3. files' \in [Requests -> FileRow]
      BY <1>5, <2>1 DEF DeleteFile, FileRow, TypeOK, StoreTypeOK
    <2>4. \A n \in Nat : Decrement(n) \in Nat
      BY DEF Decrement
    <2>5. blobs' \in [Requests -> BlobRow]
      BY <1>5, <2>2, <2>4 DEF DeleteFile, BlobRow, TypeOK, StoreTypeOK
    <2>6. usage' \in Usage
      BY <1>5, <2>4 DEF DeleteFile, Usage, TypeOK, StoreTypeOK
    <2>7. outbox' \subseteq Event
      BY <1>5 DEF DeleteFile, Enqueue, Event, EventType, TypeOK, StoreTypeOK
    <2>. QED
      BY <1>5, <2>3, <2>5, <2>6, <2>7 DEF DeleteFile, provider, TypeOK, StoreTypeOK
  <1>6. CASE ReconcileRead
    <2>1. Cardinality(ActiveFiles) \in Nat
      BY StoreAssumption, FS_Subset, FS_CardinalityType DEF StoreAssumption, ActiveFiles
    <2>. QED
      BY <1>6, <2>1 DEF ReconcileRead, provider, TypeOK, StoreTypeOK
  <1>7. CASE ReconcileWrite
    BY <1>7 DEF ReconcileWrite, provider, Usage, TypeOK, StoreTypeOK
  <1>. QED
    BY <1>1, <1>3, <1>4, <1>5, <1>6, <1>7 DEF JobsNext

\* Every step of the service keeps the types.
LEMMA TypeStep ==
    TypeOK /\ [Next]_vars => TypeOK'
  <1>1. ASSUME TypeOK, Next
        PROVE  TypeOK'
    BY <1>1, SessionStepType, RequestStartType, RequestStepType, JobsType DEF Next, ServiceNext
  <1>2. ASSUME TypeOK, UNCHANGED vars
        PROVE  TypeOK'
    BY <1>2 DEF vars, TypeOK, StoreTypeOK
  <1>. QED
    BY <1>1, <1>2

\* Type correctness: in every behaviour of the services, the jobs and the
\* clients, rows, provider state and the handlers' variables keep their types;
\* in particular a request in flight always works on a session and a stored
\* file always refers to a blob and a key.
THEOREM TypeCorrect ==
    Spec => []TypeOK
  BY TypeInit, TypeStep, PTL DEF Spec

------------------------------------------------------------------------------
(***************************************************************************)
(* What binds sessions to files and files to blobs, for every interleaving *)
(* of requests, clients, jobs and deletions.                               *)
(*                                                                         *)
(* CompletedIffBound and BoundFileExists are not inductive: a handler may  *)
(* save a copy of the row that it read long ago.  Binding adds that every  *)
(* such copy is sound against the files as they are NOW (SnapshotSound),   *)
(* which holds because files are never removed or re-keyed, and this in    *)
(* turn because the id a commit creates is fresh (FreshIds).               *)
(***************************************************************************)

Binding == TypeOK /\ CompletedIffBound /\ BoundFileExists /\ SnapshotSound /\ FreshIds

\* Row row of session s agrees with the files fs.
Sound(fs, row, s) ==
    /\ row.status = "COMPLETED" <=> row.file # Nil
    /\ row.file # Nil => fs[row.file].status # "ABSENT" /\ fs[row.file].key = s

\* Files that exist keep existing, under the same key.
FilesKept ==
    \A f \in Requests : files[f].status # "ABSENT" =>
        files'[f].status # "ABSENT" /\ files'[f].key = files[f].key

\* The transitions of domain.Session keep a row sound.
LEMMA RowSound ==
    ASSUME NEW fs, NEW s, NEW row \in SessionRow, Sound(fs, row, s)
    PROVE  /\ row.status \in Pending => Sound(fs, MarkUploading(row), s)
           /\ Sound(fs, Abort(row), s)
           /\ \A t \in Token : Sound(fs, AcquireCompletion(row, t), s)
           /\ row.status = "COMPLETING" => Sound(fs, MarkFailed(row), s)
           /\ row.status = "COMPLETING" => Sound(fs, Repaired(row), s)
           /\ row.status \in Pending \cup {"COMPLETING"} =>
                Sound(fs, [row EXCEPT !.status = "EXPIRED", !.token = Nil], s)
           /\ Sound(fs, [row EXCEPT !.upload = FALSE], s)
  BY DEF Sound, SessionRow, Pending, MarkUploading, Abort, AcquireCompletion, MarkFailed, Repaired

\* A sound row stays sound while files are only added.
LEMMA SoundKept ==
    ASSUME NEW row \in SessionRow, NEW s, Sound(files, row, s), FilesKept
    PROVE  Sound(files', row, s)
  BY DEF Sound, FilesKept, SessionRow, FileId

\* Binding, with soundness of rows and copies spelled out.
LEMMA BindingSound ==
    Binding <=> /\ TypeOK /\ FreshIds
                /\ \A s \in Sessions : Sound(files, session[s], s)
                /\ \A p \in Requests : Sound(files, req[p].snap, req[p].s)
  BY DEF Binding, CompletedIffBound, BoundFileExists, SnapshotSound, Sound

\* A request's copy of its session is a row.
LEMMA CopyType ==
    ASSUME TypeOK, NEW p \in Requests
    PROVE  req[p].snap \in SessionRow
  <1>1. NoSession \in SessionRow
    BY StoreAssumption DEF StoreAssumption, NoSession, SessionRow, SessionMode, Hash, Token, FileId
  <1>. QED
    BY <1>1 DEF TypeOK, Request, Idle

\* What it takes for a step to preserve Binding: files are kept, a new file's
\* request has returned, and the rows and copies that change are sound.
LEMMA BindingFrom ==
    ASSUME Binding, TypeOK', FilesKept, FreshIds',
           \A s \in Sessions : session'[s] = session[s] \/ Sound(files', session'[s], s),
           \A p \in Requests :
              \/ req'[p].snap = req[p].snap /\ req'[p].s = req[p].s
              \/ Sound(files', req'[p].snap, req'[p].s)
    PROVE  Binding'
  <1>1. ASSUME NEW s \in Sessions PROVE Sound(files', session'[s], s)
    <2>1. session[s] \in SessionRow
      BY DEF Binding, TypeOK, StoreTypeOK
    <2>2. Sound(files, session[s], s)
      BY BindingSound
    <2>. QED
      BY <2>1, <2>2, SoundKept
  <1>2. ASSUME NEW p \in Requests PROVE Sound(files', req'[p].snap, req'[p].s)
    <2>1. req[p].snap \in SessionRow
      BY CopyType DEF Binding
    <2>2. Sound(files, req[p].snap, req[p].s)
      BY BindingSound
    <2>. QED
      BY <2>1, <2>2, SoundKept
  <1>. QED
    BY <1>1, <1>2 DEF Binding, CompletedIffBound, BoundFileExists, SnapshotSound, Sound

\* A step that leaves the file table alone and revives no finished request.
LEMMA QuietFiles ==
    ASSUME Binding, UNCHANGED files,
           \A p \in Requests : req[p].pc = "done" => req'[p].pc = "done"
    PROVE  FilesKept /\ FreshIds'
  BY DEF Binding, FilesKept, FreshIds

\* A request that returns drops its copy.
LEMMA ReturnSound ==
    ASSUME TypeOK, NEW p \in Requests, NEW s, NEW a, Return(p, s, a), NEW fs
    PROVE  /\ \A q \in Requests : req[q].pc = "done" => req'[q].pc = "done"
           /\ \A q \in Requests :
                \/ req'[q].snap = req[q].snap /\ req'[q].s = req[q].s
                \/ Sound(fs, req'[q].snap, req'[q].s)
           /\ \A q \in Requests \ {p} : req'[q] = req[q]
           /\ req'[p].pc = "done"
  BY DEF TypeOK, Return, Idle, NoSession, Sound

\* A jump keeps it.
LEMMA GotoSound ==
    ASSUME TypeOK, NEW p \in Requests, InFlight(p), NEW label, Goto(p, label)
    PROVE  /\ \A q \in Requests : req[q].pc = "done" => req'[q].pc = "done"
           /\ \A q \in Requests : req'[q].snap = req[q].snap /\ req'[q].s = req[q].s
  <1>1. req[p] \in Request \ {Idle}
    BY DEF TypeOK, InFlight, Idle
  <1>2. /\ req[p].pc # "done"
        /\ [req[p] EXCEPT !.pc = label].snap = req[p].snap
        /\ [req[p] EXCEPT !.pc = label].s = req[p].s
    BY <1>1 DEF InFlight, Request
  <1>. QED
    BY <1>2 DEF TypeOK, Goto

\* Creating a session and the uploads of a client keep Binding.
LEMMA BindingSession ==
    ASSUME Binding, NEW s \in Sessions, SessionStep(s), TypeOK'
    PROVE  Binding'
  <1>1. UNCHANGED files /\ UNCHANGED req
    BY DEF SessionStep, Create, CreateFails, PresignParts, ClientUploadPart, ClientPutObject, tables
  <1>2. \A r \in Sessions : session'[r] = session[r] \/ Sound(files', session'[r], r)
    <2>1. ASSUME NEW mode, NEW hash, NEW total, Create(s, mode, hash, total)
          PROVE  \A r \in Sessions : session'[r] = session[r] \/ Sound(files', session'[r], r)
      BY <2>1 DEF Create, Save, NewSession, Sound, Binding, TypeOK, StoreTypeOK
    <2>2. CASE UNCHANGED session
      BY <2>2
    <2>. QED
      BY <2>1, <2>2 DEF SessionStep, CreateFails, PresignParts, ClientUploadPart, ClientPutObject,
             tables
  <1>. QED
    BY <1>1, <1>2, QuietFiles, BindingFrom

\* A request that arrives copies a sound row and keeps Binding.
LEMMA BindingStart ==
    ASSUME Binding, NEW p \in Requests, NEW s \in Sessions, RequestStart(p, s), TypeOK'
    PROVE  Binding'
  <1>0. /\ session[s] \in SessionRow
        /\ Sound(files, session[s], s)
        /\ TypeOK
    BY BindingSound DEF Binding, TypeOK, StoreTypeOK
  <1>1. CASE CompleteStart(p, s)
    <2>1. PICK token \in Keys \cup {p}, declared \in Hash \cup {Malformed} :
              AcquireStep(p, s, token, declared)
      BY <1>1 DEF CompleteStart
    <2>2. UNCHANGED files /\ req[p].pc = "idle"
      BY <2>1 DEF AcquireStep, MayStart
    <2>3. \A r \in Sessions : session'[r] = session[r] \/ Sound(files', session'[r], r)
      <3>1. Sound(files, AcquireCompletion(session[s], token), s)
        BY <1>0, RowSound DEF Token
      <3>2. \/ UNCHANGED session
            \/ session' = [session EXCEPT ![s] = AcquireCompletion(session[s], token)]
        BY <2>1 DEF AcquireStep, Save
      <3>. QED
        BY <1>0, <2>2, <3>1, <3>2 DEF TypeOK, StoreTypeOK
    <2>4. CASE Return(p, s, session[s].file)
      BY <1>0, <2>2, <2>3, <2>4, ReturnSound, QuietFiles, BindingFrom
    <2>5. CASE \E label, h : req' = [req EXCEPT ![p] =
                   [Idle EXCEPT !.op = "complete", !.s = s, !.tok = token,
                                !.gone = DeletedFiles, !.pc = label, !.hash = h]]
      <3>1. /\ \A q \in Requests \ {p} : req'[q] = req[q]
            /\ req'[p].snap = NoSession
        BY <1>0, <2>5 DEF Idle, TypeOK
      <3>2. Sound(files', req'[p].snap, req'[p].s)
        BY <3>1 DEF NoSession, Sound
      <3>. QED
        BY <2>2, <2>3, <3>1, <3>2, QuietFiles, BindingFrom
    <2>. QED
      BY <2>1, <2>4, <2>5 DEF AcquireStep
  <1>2. ASSUME NEW op, NEW row, Sound(files, row, s), NEW label, ReadInto(p, op, s, row, label)
        PROVE  Binding'
    <2>1. UNCHANGED <<files, session>> /\ req[p].pc = "idle"
      BY <1>2 DEF ReadInto, MayStart, storeVars
    <2>2. /\ \A q \in Requests \ {p} : req'[q] = req[q]
          /\ req'[p].snap = row /\ req'[p].s = s
      BY <1>0, <1>2 DEF ReadInto, Idle, TypeOK
    <2>3. \A r \in Sessions : session'[r] = session[r] \/ Sound(files', session'[r], r)
      BY <2>1
    <2>. QED
      BY <1>2, <2>1, <2>2, <2>3, QuietFiles, BindingFrom
  <1>3. CASE AbortRead(p, s)
    BY <1>0, <1>2, <1>3, RowSound DEF AbortRead
  <1>4. CASE InlineRead(p, s)
    BY <1>0, <1>2, <1>4 DEF InlineRead
  <1>5. CASE ListRead(p, s)
    BY <1>0, <1>2, <1>5 DEF ListRead
  <1>. QED
    BY <1>1, <1>3, <1>4, <1>5 DEF RequestStart

\* Every step of a request keeps Binding: a save writes a sound copy, and the
\* commit adds the file under the request's own, fresh id.
LEMMA BindingRequest ==
    ASSUME Binding, NEW p \in Requests, RequestStep(p), TypeOK'
    PROVE  Binding'
  <1>. DEFINE s == req[p].s
  <1>0. InFlight(p) /\ req[p].pc # "idle" /\ req[p].pc # "done" /\ TypeOK
    BY DEF RequestStep, CompleteListParts, CompleteAssemble, CompleteVerify, CompleteCommit,
           CompleteFail, InlinePut, ListObserve, SaveCopy, AbortCancel, Interrupt, InFlight, Binding
  <1>t. /\ s \in Sessions
        /\ req[p].snap \in SessionRow
        /\ session[s] \in SessionRow
        /\ req[p] \in Request \ {Idle}
        /\ Sound(files, session[s], s)
        /\ Sound(files, req[p].snap, s)
    BY <1>0, InFlightType, BindingSound DEF Idle, TypeOK
  \* A step that only moves p on, with files and sessions as they were.
  <1>q. ASSUME UNCHANGED files, UNCHANGED session,
               (\E a : Return(p, s, a)) \/ (\E label : Goto(p, label))
        PROVE  Binding'
    <2>1. \A r \in Sessions : session'[r] = session[r] \/ Sound(files', session'[r], r)
      BY <1>q
    <2>2. ASSUME NEW a, Return(p, s, a) PROVE Binding'
      BY <1>0, <1>q, <2>1, <2>2, ReturnSound, QuietFiles, BindingFrom
    <2>3. ASSUME NEW label, Goto(p, label) PROVE Binding'
      BY <1>0, <1>q, <2>1, <2>3, GotoSound, QuietFiles, BindingFrom
    <2>. QED
      BY <1>q, <2>2, <2>3
  \* A step that marks p's copy as uploading.
  <1>u. ASSUME UNCHANGED files, UNCHANGED session, req[p].snap.status \in Pending,
               req' = [req EXCEPT ![p].pc = "save", ![p].snap = MarkUploading(req[p].snap)]
        PROVE  Binding'
    <2>1. \A r \in Sessions : session'[r] = session[r] \/ Sound(files', session'[r], r)
      BY <1>u
    <2>2. Sound(files', MarkUploading(req[p].snap), s)
      BY <1>u, <1>t, RowSound
    <2>3. req'[p] = [[req[p] EXCEPT !.pc = "save"] EXCEPT !.snap = MarkUploading(req[p].snap)]
      BY <1>u, <1>0 DEF TypeOK
    <2>4. req'[p].snap = MarkUploading(req[p].snap) /\ req'[p].s = s
      BY <2>3, <1>t DEF Request
    <2>5. \A r \in Requests \ {p} : req'[r] = req[r]
      BY <1>u, <1>0 DEF TypeOK
    <2>. QED
      BY <1>0, <1>u, <2>1, <2>2, <2>4, <2>5, QuietFiles, BindingFrom
  <1>1. CASE CompleteListParts(p)
    BY <1>1, <1>q DEF CompleteListParts, storeVars
  <1>2. CASE CompleteAssemble(p)
    BY <1>2, <1>q DEF CompleteAssemble, tables
  <1>3. CASE CompleteVerify(p)
    <2>1. UNCHANGED files /\ UNCHANGED session
      BY <1>3 DEF CompleteVerify, storeVars
    <2>2. CASE \E canonical, hit : req' = [req EXCEPT ![p].pc = "commit",
                                            ![p].hash = canonical, ![p].hit = hit]
      <3>1. PICK canonical, hit : req' = [req EXCEPT ![p].pc = "commit",
                                            ![p].hash = canonical, ![p].hit = hit]
        BY <2>2
      <3>2. req'[p] = [[[req[p] EXCEPT !.pc = "commit"] EXCEPT !.hash = canonical] EXCEPT !.hit = hit]
        BY <3>1, <1>0 DEF TypeOK
      <3>3. req'[p].snap = req[p].snap /\ req'[p].s = s
        BY <3>2, <1>t DEF Request
      <3>4. \A q \in Requests \ {p} : req'[q] = req[q]
        BY <3>1, <1>0 DEF TypeOK
      <3>5. \A r \in Sessions : session'[r] = session[r] \/ Sound(files', session'[r], r)
        BY <2>1
      <3>. QED
        BY <1>0, <2>1, <3>3, <3>4, <3>5, QuietFiles, BindingFrom
    <2>3. CASE Return(p, s, Nil) \/ Goto(p, "fail")
      BY <2>1, <2>3, <1>q
    <2>. QED
      BY <1>3, <2>2, <2>3 DEF CompleteVerify
  <1>4. CASE CompleteCommit(p)
    <2>1. CASE UNCHANGED tables
      BY <1>4, <2>1, <1>q DEF CompleteCommit, tables
    <2>2. ASSUME NEW b, CreateFileAsset(p, s, b, req[p].hash),
                 Save(s, MarkCompleted(session[s], p)), Return(p, s, p)
          PROVE  Binding'
      <3>1. files[p].status = "ABSENT"
        BY <1>0 DEF Binding, FreshIds
      <3>2. /\ files'[p].status = "ACTIVE" /\ files'[p].key = s
            /\ \A f \in Requests \ {p} : files'[f] = files[f]
        BY <2>2, <1>0 DEF CreateFileAsset, TypeOK, StoreTypeOK
      <3>3. FilesKept
        BY <3>1, <3>2 DEF FilesKept
      <3>4. FreshIds'
        BY <2>2, <3>2, <1>0, ReturnSound DEF Binding, FreshIds
      <3>5. Sound(files', MarkCompleted(session[s], p), s)
        BY <3>2, <1>t, StoreAssumption DEF StoreAssumption, Sound, MarkCompleted, SessionRow
      <3>6. \A r \in Sessions : session'[r] = session[r] \/ Sound(files', session'[r], r)
        BY <2>2, <3>5, <1>0 DEF Save, TypeOK, StoreTypeOK
      <3>. QED
        BY <1>0, <2>2, <3>3, <3>4, <3>6, ReturnSound, BindingFrom
    <2>. QED
      BY <1>4, <2>1, <2>2 DEF CompleteCommit
  <1>5. CASE CompleteFail(p)
    <2>1. UNCHANGED files /\ Return(p, s, Nil)
      BY <1>5 DEF CompleteFail
    <2>2. \/ UNCHANGED session
          \/ /\ session[s].status = "COMPLETING"
             /\ session' = [session EXCEPT ![s] = MarkFailed(session[s])]
      BY <1>5 DEF CompleteFail, Save
    <2>3. session[s].status = "COMPLETING" => Sound(files, MarkFailed(session[s]), s)
      BY <1>t, RowSound
    <2>4. \A r \in Sessions : session'[r] = session[r] \/ Sound(files', session'[r], r)
      BY <2>1, <2>2, <2>3, <1>0 DEF TypeOK, StoreTypeOK
    <2>. QED
      BY <1>0, <2>1, <2>4, ReturnSound, QuietFiles, BindingFrom
  <1>6. CASE InlinePut(p)
    BY <1>6, <1>q, <1>u DEF InlinePut, tables
  <1>7. CASE ListObserve(p)
    BY <1>7, <1>q, <1>u DEF ListObserve, storeVars
  <1>8. CASE SaveCopy(p)
    <2>1. UNCHANGED files /\ session' = [session EXCEPT ![s] = req[p].snap]
      BY <1>8 DEF SaveCopy, Save
    <2>2. \A r \in Sessions : session'[r] = session[r] \/ Sound(files', session'[r], r)
      BY <2>1, <1>t, <1>0 DEF TypeOK, StoreTypeOK
    <2>3. CASE Return(p, s, Nil)
      BY <1>0, <2>1, <2>2, <2>3, ReturnSound, QuietFiles, BindingFrom
    <2>4. CASE Goto(p, "cancel")
      BY <1>0, <2>1, <2>2, <2>4, GotoSound, QuietFiles, BindingFrom
    <2>. QED
      BY <1>8, <2>3, <2>4 DEF SaveCopy
  <1>9. CASE AbortCancel(p)
    BY <1>9, <1>q DEF AbortCancel, tables
  <1>10. CASE Interrupt(p)
    BY <1>10, <1>q DEF Interrupt, storeVars
  <1>. QED
    BY <1>1, <1>2, <1>3, <1>4, <1>5, <1>6, <1>7, <1>8, <1>9, <1>10 DEF RequestStep

\* Jobs and deletions keep Binding: they bind and unbind nothing.
LEMMA BindingJobs ==
    ASSUME Binding, JobsNext, TypeOK'
    PROVE  Binding'
  <1>0. TypeOK
    BY DEF Binding
  \* A job that replaces the row of s by a sound one.
  <1>s. ASSUME NEW s \in Sessions, NEW row, Sound(files, row, s),
               Save(s, row), UNCHANGED <<files, req>>
        PROVE  Binding'
    <2>1. \A r \in Sessions : session'[r] = session[r] \/ Sound(files', session'[r], r)
      BY <1>s, <1>0 DEF Save, TypeOK, StoreTypeOK
    <2>. QED
      BY <1>s, <2>1, QuietFiles, BindingFrom
  <1>1. ASSUME NEW s \in Sessions,
               \/ Expire(s) \/ Repair(s)
               \/ CleanupMultipart(s) \/ CleanupMultipartRollback(s)
        PROVE  Binding'
    <2>0. session[s] \in SessionRow /\ Sound(files, session[s], s)
      BY <1>0, BindingSound DEF TypeOK, StoreTypeOK
    <2>1. CASE Expire(s)
      BY <2>0, <2>1, <1>s, RowSound DEF Expire
    <2>2. CASE Repair(s)
      BY <2>0, <2>2, <1>s, RowSound DEF Repair
    <2>3. CASE CleanupMultipart(s)
      BY <2>0, <2>3, <1>s, RowSound DEF CleanupMultipart
    <2>4. CASE CleanupMultipartRollback(s)
      <3>1. UNCHANGED <<files, session, req>>
        BY <2>4 DEF CleanupMultipartRollback, tables
      <3>. QED
        BY <3>1, QuietFiles, BindingFrom
    <2>. QED
      BY <1>1, <2>1, <2>2, <2>3, <2>4
  <1>2. CASE UNCHANGED <<files, session, req>>
    BY <1>2, QuietFiles, BindingFrom
  <1>3. ASSUME NEW f \in Requests, FinalizeDelete(f) \/ CleanupOrphan(f)
        PROVE  UNCHANGED <<files, session, req>>
    BY <1>3 DEF FinalizeDelete, CleanupOrphan, ReclaimBlob, ReclaimRollback, tables
  <1>4. ASSUME NEW f \in Requests, DeleteFile(f)
        PROVE  Binding'
    <2>1. files[f] \in FileRow \ {NoFile}
      BY <1>4, <1>0 DEF DeleteFile, TypeOK, StoreTypeOK, FileRow, NoFile
    <2>2. /\ files'[f].status = "DELETED" /\ files'[f].key = files[f].key
          /\ \A g \in Requests \ {f} : files'[g] = files[g]
      BY <1>4, <1>0, <2>1 DEF DeleteFile, TypeOK, StoreTypeOK, FileRow
    <2>3. UNCHANGED <<session, req>>
      BY <1>4 DEF DeleteFile
    <2>4. FilesKept
      BY <2>2 DEF FilesKept
    <2>5. FreshIds'
      BY <1>4, <2>2, <2>3 DEF DeleteFile, Binding, FreshIds
    <2>. QED
      BY <2>3, <2>4, <2>5, BindingFrom
  <1>5. CASE ReconcileRead \/ ReconcileWrite
    BY <1>5, <1>2 DEF ReconcileRead, ReconcileWrite
  <1>. QED
    BY <1>1, <1>2, <1>3, <1>4, <1>5 DEF JobsNext

\* Binding holds in the empty service.
LEMMA BindingInit ==
    Init => Binding
  <1>1. Init => /\ CompletedIffBound /\ BoundFileExists /\ SnapshotSound /\ FreshIds
    BY DEF Init, StoreInit, ServiceInit, CompletedIffBound, BoundFileExists, SnapshotSound,
           FreshIds, NoSession, NoFile, Idle
  <1>. QED
    BY <1>1, TypeInit DEF Binding

\* Every step of the service keeps Binding.
LEMMA BindingStep ==
    Binding /\ [Next]_vars => Binding'
  <1>1. ASSUME Binding, Next
        PROVE  Binding'
    <2>1. TypeOK'
      BY <1>1, TypeStep DEF Binding
    <2>. QED
      BY <1>1, <2>1, BindingSession, BindingStart, BindingRequest, BindingJobs DEF Next, ServiceNext
  <1>2. ASSUME Binding, UNCHANGED vars
        PROVE  Binding'
    <2>1. TypeOK'
      BY <1>2, TypeStep DEF Binding
    <2>2. UNCHANGED <<files, session, req>>
      BY <1>2 DEF vars
    <2>. QED
      BY <1>2, <2>1, <2>2, QuietFiles, BindingFrom
  <1>. QED
    BY <1>1, <1>2

\* A session carries a file id exactly when it is COMPLETED, whatever stale
\* copies of the row abort, inline and list requests save over it.
THEOREM CompletedIffBoundAlways ==
    Spec => []CompletedIffBound
  <1>1. Binding => CompletedIffBound
    BY DEF Binding
  <1>. QED
    BY <1>1, BindingInit, BindingStep, PTL DEF Spec

\* That file id names an existing file made from the session's own object.
THEOREM BoundFileExistsAlways ==
    Spec => []BoundFileExists
  <1>1. Binding => BoundFileExists
    BY DEF Binding
  <1>. QED
    BY <1>1, BindingInit, BindingStep, PTL DEF Spec

------------------------------------------------------------------------------
(* Reference counts and usage. *)

\* There are finitely many ACTIVE files, of every blob and in all.
LEMMA FilesFinite ==
    /\ IsFiniteSet(ActiveFiles) /\ Cardinality(ActiveFiles) \in Nat
    /\ \A b : IsFiniteSet(FilesOf(b)) /\ Cardinality(FilesOf(b)) \in Nat
  <1>1. IsFiniteSet(ActiveFiles)
    BY StoreAssumption, FS_Subset DEF StoreAssumption, ActiveFiles
  <1>2. ASSUME NEW b PROVE IsFiniteSet(FilesOf(b))
    BY <1>1, FS_Subset DEF FilesOf
  <1>. QED
    BY <1>1, <1>2, FS_CardinalityType

\* Every step but commit and MarkDeleted leaves the counted columns alone.
LEMMA OnlyCommitAndDeleteCount ==
    ASSUME TypeOK, [Next]_vars,
           \A p \in Requests : CompleteCommit(p) => UNCHANGED tables,
           \A f \in Requests : ~DeleteFile(f)
    PROVE  /\ UNCHANGED files
           /\ \A b \in Requests : blobs'[b].ref = blobs[b].ref /\ blobs'[b].key = blobs[b].key
           /\ ~ReconcileWrite => UNCHANGED usage
  <1>1. CASE \E b \in Requests : ReclaimBlob(b)
    <2>1. PICK b \in Requests : ReclaimBlob(b)
      BY <1>1
    <2>2. /\ [blobs[b] EXCEPT !.deleted = TRUE].ref = blobs[b].ref
          /\ [blobs[b] EXCEPT !.deleted = TRUE].key = blobs[b].key
      BY DEF TypeOK, StoreTypeOK, BlobRow
    <2>. QED
      BY <2>1, <2>2 DEF ReclaimBlob, TypeOK, StoreTypeOK
  <1>2. CASE \E b : ReclaimRollback(b)
    BY <1>2 DEF ReclaimRollback, tables
  <1>3. ASSUME NEW f \in Requests, FinalizeDelete(f)
        PROVE  \E b \in Requests : ReclaimBlob(b) \/ ReclaimRollback(b)
    <2>1. files[f].blob \in Requests
      BY <1>3 DEF FinalizeDelete, TypeOK, StoreTypeOK, FileRow, NoFile
    <2>. QED
      BY <1>3, <2>1 DEF FinalizeDelete
  <1>4. ASSUME NEW b \in Requests, CleanupOrphan(b)
        PROVE  ReclaimBlob(b) \/ ReclaimRollback(b)
    BY <1>4 DEF CleanupOrphan
  <1>5. CASE \E s \in Sessions : \/ Expire(s) \/ Repair(s)
                                \/ CleanupMultipart(s) \/ CleanupMultipartRollback(s)
    BY <1>5 DEF Expire, Repair, CleanupMultipart, CleanupMultipartRollback, tables
  <1>6. CASE ReconcileRead \/ ReconcileWrite
    BY <1>6 DEF ReconcileRead, ReconcileWrite
  <1>7. CASE \E s \in Sessions : SessionStep(s)
    BY <1>7 DEF SessionStep, Create, CreateFails, PresignParts, ClientUploadPart,
           ClientPutObject, tables
  <1>8. CASE \E p \in Requests, s \in Sessions : RequestStart(p, s)
    <2>1. ASSUME NEW p, NEW s, NEW token, NEW declared, AcquireStep(p, s, token, declared)
          PROVE  UNCHANGED <<blobs, files, usage>>
      BY <2>1 DEF AcquireStep
    <2>2. ASSUME NEW p, NEW s, AbortRead(p, s) \/ InlineRead(p, s) \/ ListRead(p, s)
          PROVE  UNCHANGED <<blobs, files, usage>>
      BY <2>2 DEF AbortRead, InlineRead, ListRead, ReadInto, storeVars
    <2>. QED
      BY <1>8, <2>1, <2>2 DEF RequestStart, CompleteStart
  <1>9. CASE \E p \in Requests : RequestStep(p)
    BY <1>9 DEF RequestStep, CompleteListParts, CompleteAssemble, CompleteVerify, CompleteFail,
           InlinePut, ListObserve, SaveCopy, AbortCancel, Interrupt, storeVars, tables
  <1>10. CASE UNCHANGED vars
    BY <1>10 DEF vars
  <1>. QED
    BY <1>1, <1>2, <1>3, <1>4, <1>5, <1>6, <1>7, <1>8, <1>9, <1>10
       DEF Next, ServiceNext, JobsNext

\* What a commit that creates a file does to the counted columns.
LEMMA CommitCounts ==
    ASSUME Binding, NEW p \in Requests, CompleteCommit(p), ~UNCHANGED tables
    PROVE  \E b \in Requests :
             /\ p \notin ActiveFiles
             /\ files'[p].status = "ACTIVE" /\ files'[p].blob = b
             /\ \A f \in Requests \ {p} : files'[f] = files[f]
             /\ blobs'[b].ref = blobs[b].ref + 1
             /\ files'[p].key = req[p].s /\ blobs'[b].key = req[p].s
             /\ \A c \in Requests \ {b} : blobs'[c] = blobs[c]
             /\ usage'.bytes = usage.bytes + 1
  <1>. DEFINE s == req[p].s
              b == IF req[p].hit # Nil THEN req[p].hit ELSE p
  <1>1. TypeOK /\ req[p].pc = "commit"
    BY DEF CompleteCommit, Binding
  <1>2. b \in Requests
    BY <1>1, InFlightType DEF FileId
  <1>3. /\ UpsertAndReference(b, s, req[p].hash)
        /\ CreateFileAsset(p, s, b, req[p].hash)
        /\ ApplyDelta
    BY DEF CompleteCommit
  <1>4. p \notin ActiveFiles
    BY <1>1 DEF Binding, FreshIds, ActiveFiles
  <1>5. /\ files'[p].status = "ACTIVE" /\ files'[p].blob = b /\ files'[p].key = s
        /\ \A f \in Requests \ {p} : files'[f] = files[f]
    BY <1>1, <1>3 DEF CreateFileAsset, TypeOK, StoreTypeOK
  <1>6. /\ blobs'[b].ref = blobs[b].ref + 1 /\ blobs'[b].key = s
        /\ \A c \in Requests \ {b} : blobs'[c] = blobs[c]
    BY <1>1, <1>2, <1>3 DEF UpsertAndReference, TypeOK, StoreTypeOK
  <1>7. usage'.bytes = usage.bytes + 1
    BY <1>1, <1>3 DEF ApplyDelta, Usage, TypeOK, StoreTypeOK
  <1>. QED
    BY <1>2, <1>4, <1>5, <1>6, <1>7

\* What MarkDeleted does to them.
LEMMA DeleteCounts ==
    ASSUME TypeOK, NEW f \in Requests, DeleteFile(f)
    PROVE  \E b \in Requests :
             /\ f \in FilesOf(b) /\ files[f].blob = b
             /\ files'[f].status = "DELETED" /\ files'[f].key = files[f].key /\ files'[f].blob = b
             /\ \A g \in Requests \ {f} : files'[g] = files[g]
             /\ blobs'[b].ref = Decrement(blobs[b].ref) /\ blobs'[b].key = blobs[b].key
             /\ \A c \in Requests \ {b} : blobs'[c] = blobs[c]
             /\ usage'.bytes = Decrement(usage.bytes)
  <1>. DEFINE b == files[f].blob
  <1>1. files[f] \in FileRow \ {NoFile}
    BY DEF DeleteFile, TypeOK, StoreTypeOK, FileRow, NoFile
  <1>2. b \in Requests /\ f \in FilesOf(b)
    BY <1>1 DEF FileRow, DeleteFile, FilesOf, ActiveFiles
  <1>3. /\ files'[f].status = "DELETED" /\ files'[f].key = files[f].key /\ files'[f].blob = b
        /\ \A g \in Requests \ {f} : files'[g] = files[g]
    BY <1>1 DEF DeleteFile, FileRow, TypeOK, StoreTypeOK
  <1>4. /\ blobs'[b].ref = Decrement(blobs[b].ref) /\ blobs'[b].key = blobs[b].key
        /\ \A c \in Requests \ {b} : blobs'[c] = blobs[c]
    BY <1>2 DEF DeleteFile, BlobRow, TypeOK, StoreTypeOK
  <1>5. usage'.bytes = Decrement(usage.bytes)
    BY DEF DeleteFile
  <1>. QED
    BY <1>2, <1>3, <1>4, <1>5

\* Every step of the service keeps reference counts exact.
LEMMA RefCountStep ==
    Binding /\ RefCountExact /\ [Next]_vars => RefCountExact'
  <1>. SUFFICES ASSUME Binding, RefCountExact, [Next]_vars, NEW c \in Requests
                PROVE  blobs'[c].ref = Cardinality(FilesOf(c)')
    BY DEF RefCountExact
  <1>0. TypeOK /\ blobs[c].ref = Cardinality(FilesOf(c))
    BY DEF Binding, RefCountExact
  <1>1. ASSUME NEW p \in Requests, CompleteCommit(p), ~UNCHANGED tables
        PROVE  blobs'[c].ref = Cardinality(FilesOf(c)')
    <2>1. PICK b \in Requests :
             /\ p \notin ActiveFiles
             /\ files'[p].status = "ACTIVE" /\ files'[p].blob = b
             /\ \A f \in Requests \ {p} : files'[f] = files[f]
             /\ blobs'[b].ref = blobs[b].ref + 1
             /\ \A d \in Requests \ {b} : blobs'[d] = blobs[d]
      BY <1>1, CommitCounts
    <2>2. CASE c = b
      <3>1. FilesOf(c)' = FilesOf(c) \cup {p} /\ p \notin FilesOf(c)
        BY <2>1, <2>2 DEF FilesOf, ActiveFiles
      <3>2. Cardinality(FilesOf(c) \cup {p}) = Cardinality(FilesOf(c)) + 1
        BY <3>1, FilesFinite, FS_AddElement
      <3>. QED
        BY <1>0, <2>1, <2>2, <3>1, <3>2
    <2>3. CASE c # b
      <3>1. FilesOf(c)' = FilesOf(c)
        BY <2>1, <2>3 DEF FilesOf, ActiveFiles
      <3>. QED
        BY <1>0, <2>1, <2>3, <3>1
    <2>. QED
      BY <2>2, <2>3
  <1>2. ASSUME NEW f \in Requests, DeleteFile(f)
        PROVE  blobs'[c].ref = Cardinality(FilesOf(c)')
    <2>1. PICK b \in Requests :
             /\ f \in FilesOf(b) /\ files[f].blob = b
             /\ files'[f].status = "DELETED"
             /\ \A g \in Requests \ {f} : files'[g] = files[g]
             /\ blobs'[b].ref = Decrement(blobs[b].ref)
             /\ \A d \in Requests \ {b} : blobs'[d] = blobs[d]
      BY <1>0, <1>2, DeleteCounts
    <2>2. CASE c = b
      <3>1. FilesOf(c)' = FilesOf(c) \ {f} /\ f \in FilesOf(c)
        BY <2>1, <2>2 DEF FilesOf, ActiveFiles
      <3>2. Cardinality(FilesOf(c) \ {f}) = Cardinality(FilesOf(c)) - 1
        BY <3>1, FilesFinite, FS_RemoveElement
      <3>3. Cardinality(FilesOf(c)) \in Nat /\ Cardinality(FilesOf(c)) # 0
        BY <3>1, FilesFinite, FS_EmptySet
      <3>. QED
        BY <1>0, <2>1, <2>2, <3>1, <3>2, <3>3 DEF Decrement
    <2>3. CASE c # b
      <3>1. FilesOf(c)' = FilesOf(c)
        BY <2>1, <2>3 DEF FilesOf, ActiveFiles
      <3>. QED
        BY <1>0, <2>1, <2>3, <3>1
    <2>. QED
      BY <2>2, <2>3
  <1>3. CASE /\ \A p \in Requests : CompleteCommit(p) => UNCHANGED tables
             /\ \A f \in Requests : ~DeleteFile(f)
    <2>1. UNCHANGED files /\ blobs'[c].ref = blobs[c].ref
      BY <1>0, <1>3, OnlyCommitAndDeleteCount
    <2>2. FilesOf(c)' = FilesOf(c)
      BY <2>1 DEF FilesOf, ActiveFiles
    <2>. QED
      BY <1>0, <2>1, <2>2
  <1>. QED
    BY <1>1, <1>2, <1>3

\* reference_count always equals the number of ACTIVE files of the blob: the
\* increment of commit and the clamped decrement of MarkDeleted never drift,
\* so a count of zero is what FinalizeDeletedFiles takes it for.
THEOREM RefCountExactAlways ==
    Spec => []RefCountExact
  <1>1. Init => RefCountExact
    <2>1. Init => \A b \in Requests : FilesOf(b) = {} /\ blobs[b].ref = 0
      BY DEF Init, StoreInit, FilesOf, ActiveFiles, NoFile, NoBlob
    <2>. QED
      BY <2>1, FS_EmptySet DEF RefCountExact
  <1>. QED
    BY <1>1, BindingInit, BindingStep, RefCountStep, PTL DEF Spec

\* used_storage_bytes is exact as long as the reconciliation job does not run:
\* commit and MarkDeleted alone keep it equal to the size of the ACTIVE files.
THEOREM UsageBytesExactAlways ==
    "reconcile" \notin Jobs => (Spec => []UsageBytesExact)
  <1>. SUFFICES ASSUME "reconcile" \notin Jobs
                PROVE  Spec => []UsageBytesExact
    OBVIOUS
  <1>. DEFINE Exact == recon = Nil /\ UsageBytesExact
  <1>1. Init => Exact
    <2>1. Init => ActiveFiles = {} /\ usage.bytes = 0 /\ recon = Nil
      BY DEF Init, StoreInit, ActiveFiles, NoFile
    <2>. QED
      BY <2>1, FS_EmptySet DEF UsageBytesExact
  <1>2. Binding /\ Exact /\ [Next]_vars => Exact'
    <2>. SUFFICES ASSUME Binding, Exact, [Next]_vars
                  PROVE  Exact'
      OBVIOUS
    <2>0. TypeOK /\ usage.bytes = Cardinality(ActiveFiles) /\ recon = Nil
      BY DEF Binding, UsageBytesExact
    <2>1. ~ReconcileWrite /\ ~ReconcileRead
      BY <2>0 DEF ReconcileWrite, ReconcileRead
    <2>2. recon' = Nil
      <3>1. CASE \E s \in Sessions : SessionStep(s)
        BY <2>0, <3>1 DEF SessionStep, Create, CreateFails, PresignParts, ClientUploadPart,
               ClientPutObject, tables
      <3>2. ASSUME NEW p, NEW s, NEW token, NEW declared, AcquireStep(p, s, token, declared)
            PROVE  recon' = Nil
        BY <2>0, <3>2 DEF AcquireStep
      <3>3. ASSUME NEW p, NEW s, AbortRead(p, s) \/ InlineRead(p, s) \/ ListRead(p, s)
            PROVE  recon' = Nil
        BY <2>0, <3>3 DEF AbortRead, InlineRead, ListRead, ReadInto, storeVars
      <3>4. CASE \E p \in Requests : RequestStep(p)
        BY <2>0, <3>4 DEF RequestStep, CompleteListParts, CompleteAssemble, CompleteVerify,
               CompleteFail, CompleteCommit, InlinePut, ListObserve, SaveCopy, AbortCancel,
               Interrupt, storeVars, tables
      <3>5. CASE JobsNext
        BY <2>0, <2>1, <3>5 DEF JobsNext, Expire, Repair, CleanupMultipart, CleanupMultipartRollback,
               FinalizeDelete, CleanupOrphan, ReclaimBlob, ReclaimRollback, DeleteFile, tables
      <3>6. CASE UNCHANGED vars
        BY <2>0, <3>6 DEF vars
      <3>. QED
        BY <3>1, <3>2, <3>3, <3>4, <3>5, <3>6 DEF Next, ServiceNext, RequestStart, CompleteStart
    <2>3. ASSUME NEW p \in Requests, CompleteCommit(p), ~UNCHANGED tables
          PROVE  usage'.bytes = Cardinality(ActiveFiles')
      <3>1. /\ p \notin ActiveFiles
            /\ files'[p].status = "ACTIVE"
            /\ \A f \in Requests \ {p} : files'[f] = files[f]
            /\ usage'.bytes = usage.bytes + 1
        BY <2>3, CommitCounts
      <3>2. ActiveFiles' = ActiveFiles \cup {p}
        BY <3>1 DEF ActiveFiles
      <3>3. Cardinality(ActiveFiles \cup {p}) = Cardinality(ActiveFiles) + 1
        BY <3>1, FilesFinite, FS_AddElement
      <3>. QED
        BY <2>0, <3>1, <3>2, <3>3
    <2>4. ASSUME NEW f \in Requests, DeleteFile(f)
          PROVE  usage'.bytes = Cardinality(ActiveFiles')
      <3>1. /\ f \in ActiveFiles
            /\ files'[f].status = "DELETED"
            /\ \A g \in Requests \ {f} : files'[g] = files[g]
            /\ usage'.bytes = Decrement(usage.bytes)
        BY <2>0, <2>4, DeleteCounts DEF FilesOf
      <3>2. ActiveFiles' = ActiveFiles \ {f}
        BY <3>1 DEF ActiveFiles
      <3>3. Cardinality(ActiveFiles \ {f}) = Cardinality(ActiveFiles) - 1
        BY <3>1, FilesFinite, FS_RemoveElement
      <3>4. Cardinality(ActiveFiles) \in Nat /\ Cardinality(ActiveFiles) # 0
        BY <3>1, FilesFinite, FS_EmptySet
      <3>. QED
        BY <2>0, <3>1, <3>2, <3>3, <3>4 DEF Decrement
    <2>5. CASE /\ \A p \in Requests : CompleteCommit(p) => UNCHANGED tables
               /\ \A f \in Requests : ~DeleteFile(f)
      <3>1. UNCHANGED files /\ UNCHANGED usage
        BY <2>0, <2>1, <2>5, OnlyCommitAndDeleteCount
      <3>2. ActiveFiles' = ActiveFiles
        BY <3>1 DEF ActiveFiles
      <3>. QED
        BY <2>0, <2>2, <3>1, <3>2 DEF UsageBytesExact
    <2>. QED
      BY <2>2, <2>3, <2>4, <2>5 DEF UsageBytesExact
  <1>3. Exact => UsageBytesExact
    OBVIOUS
  <1>. QED
    BY <1>1, <1>2, <1>3, BindingInit, BindingStep, PTL DEF Spec

------------------------------------------------------------------------------
(* Events and audit records. *)

\* What EventsMatchFiles says of one file.
Announced(f) ==
    /\ files[f].status # "ABSENT" <=>
          \E s \in Sessions : <<"upload.session.completed", s, f>> \in outbox
    /\ files[f].status = "DELETED" <=> f \in audit
    /\ f \in audit <=> <<"file.asset.delete_requested", f, f>> \in outbox

\* Steps other than commit and MarkDeleted write no audit record and at most
\* the event of a failed completion.
LEMMA OtherEvents ==
    ASSUME TypeOK, [Next]_vars,
           \A p \in Requests : CompleteCommit(p) => UNCHANGED tables,
           \A f \in Requests : ~DeleteFile(f)
    PROVE  /\ UNCHANGED audit
           /\ \/ UNCHANGED outbox
              \/ \E s, p : outbox' = outbox \cup {<<"upload.session.failed", s, p>>}
  <1>1. CASE \E p \in Requests : CompleteFail(p)
    BY <1>1 DEF CompleteFail, Enqueue
  <1>2. CASE \E p \in Requests : RequestStep(p) /\ ~CompleteFail(p)
    BY <1>2 DEF RequestStep, CompleteListParts, CompleteAssemble, CompleteVerify,
           InlinePut, ListObserve, SaveCopy, AbortCancel, Interrupt, storeVars, tables
  <1>3. CASE JobsNext
    BY <1>3 DEF JobsNext, Expire, Repair, CleanupMultipart, CleanupMultipartRollback,
           FinalizeDelete, CleanupOrphan, ReclaimBlob, ReclaimRollback, ReconcileRead,
           ReconcileWrite, tables
  <1>4. CASE \E s \in Sessions : SessionStep(s)
    BY <1>4 DEF SessionStep, Create, CreateFails, PresignParts, ClientUploadPart,
           ClientPutObject, tables
  <1>5. ASSUME NEW p, NEW s, NEW token, NEW declared, AcquireStep(p, s, token, declared)
        PROVE  UNCHANGED <<outbox, audit>>
    BY <1>5 DEF AcquireStep
  <1>6. ASSUME NEW p, NEW s, AbortRead(p, s) \/ InlineRead(p, s) \/ ListRead(p, s)
        PROVE  UNCHANGED <<outbox, audit>>
    BY <1>6 DEF AbortRead, InlineRead, ListRead, ReadInto, storeVars
  <1>7. CASE UNCHANGED vars
    BY <1>7 DEF vars
  <1>. QED
    BY <1>1, <1>2, <1>3, <1>4, <1>5, <1>6, <1>7
       DEF Next, ServiceNext, RequestStart, CompleteStart

\* The events of a step are announced with the files of that step.
LEMMA EventsStep ==
    Binding /\ EventsMatchFiles /\ [Next]_vars => EventsMatchFiles'
  <1>. SUFFICES ASSUME Binding, EventsMatchFiles, [Next]_vars, NEW f \in Requests
                PROVE  Announced(f)'
    BY DEF EventsMatchFiles, Announced
  <1>0. TypeOK /\ Announced(f)
    BY DEF Binding, EventsMatchFiles, Announced
  <1>1. ASSUME NEW p \in Requests, CompleteCommit(p), ~UNCHANGED tables
        PROVE  Announced(f)'
    <2>1. PICK s \in Sessions : s = req[p].s
      BY <1>0, <1>1, InFlightType DEF CompleteCommit
    <2>2. UNCHANGED audit /\ outbox' = outbox \cup {<<"upload.session.completed", s, p>>}
      BY <1>1, <2>1 DEF CompleteCommit, Enqueue
    <2>3. /\ p \notin ActiveFiles /\ files'[p].status = "ACTIVE"
          /\ \A g \in Requests \ {p} : files'[g] = files[g]
      BY <1>1, CommitCounts
    <2>4. files[p].status = "ABSENT"
      BY <1>1 DEF CompleteCommit, Binding, FreshIds
    <2>5. CASE f = p
      BY <1>0, <2>2, <2>3, <2>4, <2>5 DEF Announced
    <2>6. CASE f # p
      BY <1>0, <2>2, <2>3, <2>6 DEF Announced
    <2>. QED
      BY <2>5, <2>6
  <1>2. ASSUME NEW g \in Requests, DeleteFile(g)
        PROVE  Announced(f)'
    <2>1. /\ audit' = audit \cup {g} /\ outbox' = outbox \cup {<<"file.asset.delete_requested", g, g>>}
          /\ files[g].status = "ACTIVE"
      BY <1>2 DEF DeleteFile, Enqueue
    <2>2. /\ files'[g].status = "DELETED"
          /\ \A h \in Requests \ {g} : files'[h] = files[h]
      BY <1>0, <1>2, DeleteCounts
    <2>3. CASE f = g
      BY <1>0, <2>1, <2>2, <2>3 DEF Announced
    <2>4. CASE f # g
      BY <1>0, <2>1, <2>2, <2>4 DEF Announced
    <2>. QED
      BY <2>3, <2>4
  <1>3. CASE /\ \A p \in Requests : CompleteCommit(p) => UNCHANGED tables
             /\ \A g \in Requests : ~DeleteFile(g)
    <2>1. UNCHANGED files
      BY <1>0, <1>3, OnlyCommitAndDeleteCount
    <2>2. /\ UNCHANGED audit
          /\ \/ UNCHANGED outbox
             \/ \E s, p : outbox' = outbox \cup {<<"upload.session.failed", s, p>>}
      BY <1>0, <1>3, OtherEvents
    <2>. QED
      BY <1>0, <2>1, <2>2 DEF Announced
  <1>. QED
    BY <1>1, <1>2, <1>3

\* Exactly the files that exist have been announced and exactly the deleted
\* ones have an audit record and a deletion event: commit and MarkDeleted write
\* the row and the event in one transaction, and no id is announced twice.
THEOREM EventsMatchFilesAlways ==
    Spec => []EventsMatchFiles
  <1>1. Init => EventsMatchFiles
    BY DEF Init, StoreInit, EventsMatchFiles, NoFile
  <1>. QED
    BY <1>1, BindingInit, BindingStep, EventsStep, PTL DEF Spec

------------------------------------------------------------------------------
(* Blobs and files. *)

\* A blob lies under the key of one of its files.
BlobHasFile ==
    \A b \in Requests : blobs[b].key # Nil =>
        \E f \in Requests : /\ files[f].status # "ABSENT"
                            /\ files[f].key = blobs[b].key /\ files[f].blob = b

\* There is no blob at first.
LEMMA BlobHasFileInit == Init => BlobHasFile
  BY DEF Init, StoreInit, BlobHasFile, NoBlob

\* The files that exist keep key and blob, and a commit moves its blob to the
\* key of the file it creates.
LEMMA BlobHasFileStep ==
    Binding /\ BlobHasFile /\ [Next]_vars => BlobHasFile'
  <1>. SUFFICES ASSUME Binding, BlobHasFile, [Next]_vars, NEW b \in Requests, blobs'[b].key # Nil
                PROVE  \E f \in Requests : /\ files'[f].status # "ABSENT"
                                           /\ files'[f].key = blobs'[b].key /\ files'[f].blob = b
    BY DEF BlobHasFile
  <1>0. TypeOK
    BY DEF Binding
  <1>k. ASSUME blobs'[b].key = blobs[b].key
        PROVE  \E f \in Requests : /\ files[f].status # "ABSENT"
                                   /\ files[f].key = blobs'[b].key /\ files[f].blob = b
    BY <1>k DEF BlobHasFile
  <1>1. ASSUME NEW p \in Requests, CompleteCommit(p), ~UNCHANGED tables
        PROVE  \E f \in Requests : /\ files'[f].status # "ABSENT"
                                   /\ files'[f].key = blobs'[b].key /\ files'[f].blob = b
    <2>1. PICK c \in Requests :
             /\ files'[p].status = "ACTIVE" /\ files'[p].blob = c
             /\ \A f \in Requests \ {p} : files'[f] = files[f]
             /\ files'[p].key = req[p].s /\ blobs'[c].key = req[p].s
             /\ \A d \in Requests \ {c} : blobs'[d] = blobs[d]
      BY <1>1, CommitCounts
    <2>2. files[p].status = "ABSENT"
      BY <1>1 DEF CompleteCommit, Binding, FreshIds
    <2>3. CASE b = c
      BY <2>1, <2>3
    <2>4. CASE b # c
      <3>1. PICK f \in Requests : /\ files[f].status # "ABSENT"
                                  /\ files[f].key = blobs'[b].key /\ files[f].blob = b
        BY <1>k, <2>1, <2>4
      <3>2. f # p
        BY <2>2, <3>1
      <3>. QED
        BY <2>1, <3>1, <3>2
    <2>. QED
      BY <2>3, <2>4
  <1>2. ASSUME NEW g \in Requests, DeleteFile(g)
        PROVE  \E f \in Requests : /\ files'[f].status # "ABSENT"
                                   /\ files'[f].key = blobs'[b].key /\ files'[f].blob = b
    <2>1. PICK c \in Requests :
             /\ files[g].blob = c
             /\ files'[g].status = "DELETED" /\ files'[g].key = files[g].key /\ files'[g].blob = c
             /\ \A h \in Requests \ {g} : files'[h] = files[h]
             /\ blobs'[c].key = blobs[c].key
             /\ \A d \in Requests \ {c} : blobs'[d] = blobs[d]
      BY <1>0, <1>2, DeleteCounts
    <2>2. blobs'[b].key = blobs[b].key
      BY <2>1
    <2>. QED
      BY <1>k, <2>1, <2>2
  <1>3. CASE /\ \A p \in Requests : CompleteCommit(p) => UNCHANGED tables
             /\ \A g \in Requests : ~DeleteFile(g)
    <2>1. UNCHANGED files /\ blobs'[b].key = blobs[b].key
      BY <1>0, <1>3, OnlyCommitAndDeleteCount
    <2>. QED
      BY <1>k, <2>1
  <1>. QED
    BY <1>1, <1>2, <1>3

\* A blob that a job may reclaim has no ACTIVE file.
LEMMA UnreferencedNoFile ==
    ASSUME TypeOK, RefCountExact, NEW b \in Requests, Unreferenced(b)
    PROVE  \A f \in ActiveFiles : files[f].blob # b
  <1>1. Cardinality(FilesOf(b)) = 0 /\ IsFiniteSet(FilesOf(b))
    BY FilesFinite DEF Unreferenced, RefCountExact
  <1>2. FilesOf(b) = {}
    BY <1>1, FS_EmptySet
  <1>. QED
    BY <1>2 DEF FilesOf

------------------------------------------------------------------------------
(***************************************************************************)
(* Multipart uploads.                                                      *)
(*                                                                         *)
(* NoUploadForgotten survives a full-row Save because a copy was read      *)
(* through Session.Validate: the copy of a DIRECT session still has the    *)
(* upload id, and the copies that are saved are not COMPLETED.  It         *)
(* survives a commit because a completion of a DIRECT session only gets to *)
(* verify the object by having assembled it.                               *)
(***************************************************************************)

CopyLabel == {"put", "observe", "save", "cancel"}

Direct(s) == session[s].mode = "DIRECT"

\* Request p is past the assembly of a DIRECT session.
Assembled(p) == req[p].pc \in {"verify", "commit"} /\ Direct(req[p].s)

\* What the handler of p knows of its session and of its copy.
Handles(p) ==
    InFlight(p) =>
      /\ session[req[p].s].status # "ABSENT"
      /\ req[p].pc \in CopyLabel =>
            /\ req[p].snap.status # "ABSENT"
            /\ req[p].snap.mode = session[req[p].s].mode
            /\ Direct(req[p].s) => req[p].snap.upload
      /\ req[p].pc = "save" => req[p].snap.status # "COMPLETED"
      /\ req[p].pc = "put" => ~Direct(req[p].s)
      /\ Assembled(p) => mpu[req[p].s] = "closed"
      /\ req[p].pc \in {"parts", "assemble", "verify", "commit"} /\ Direct(req[p].s) =>
            req[p].hash # Nil

Uploads == Binding /\ NoUploadForgotten /\ \A p \in Requests : Handles(p)

\* What NoUploadForgotten says of one row.
Remembered(row, upload) ==
    row.status # "ABSENT" /\ row.mode = "DIRECT" /\ (row.status = "COMPLETED" \/ ~row.upload) =>
        upload = "closed"

\* Sessions stay and keep their mode; a closed upload stays closed.
SessionsKept ==
    \A s \in Sessions :
        /\ session[s].status # "ABSENT" =>
              session'[s].status # "ABSENT" /\ session'[s].mode = session[s].mode
        /\ mpu[s] = "closed" => mpu'[s] = "closed"

\* What a step must show for Uploads to survive.
LEMMA UploadsFrom ==
    ASSUME Uploads, Binding', SessionsKept,
           \A s \in Sessions : session'[s] = session[s] \/ Remembered(session'[s], mpu'[s]),
           \A p \in Requests : req'[p] = req[p] \/ Handles(p)'
    PROVE  Uploads'
  <1>1. NoUploadForgotten'
    BY DEF Uploads, NoUploadForgotten, SessionsKept, Remembered
  <1>2. ASSUME NEW p \in Requests, req'[p] = req[p] PROVE Handles(p)'
    <2>1. InFlight(p) => req[p].s \in Sessions
      BY InFlightType DEF Uploads, Binding, InFlight
    <2>2. Handles(p)
      BY DEF Uploads
    <2>3. InFlight(p) => /\ session'[req[p].s].status # "ABSENT"
                         /\ session'[req[p].s].mode = session[req[p].s].mode
                         /\ mpu[req[p].s] = "closed" => mpu'[req[p].s] = "closed"
      BY <2>1, <2>2 DEF SessionsKept, Handles
    <2>. QED
      BY <1>2, <2>2, <2>3 DEF Handles, InFlight, Assembled, Direct
  <1>. QED
    BY <1>1, <1>2 DEF Uploads

\* A step that leaves sessions and uploads alone keeps them.
LEMMA SessionsQuiet ==
    ASSUME UNCHANGED <<session, mpu>> PROVE SessionsKept
  BY DEF SessionsKept

\* So does one that replaces the row of s by one of the same mode.
LEMMA SessionsSave ==
    ASSUME TypeOK, NEW s \in Sessions, NEW row, Save(s, row), row.status # "ABSENT",
           session[s].status = "ABSENT" \/ row.mode = session[s].mode,
           \A r \in Sessions : mpu[r] = "closed" => mpu'[r] = "closed"
    PROVE  SessionsKept /\ session'[s] = row /\ \A r \in Sessions \ {s} : session'[r] = session[r]
  BY DEF Save, SessionsKept, TypeOK, StoreTypeOK

\* The transitions of domain.Session and the rows of the jobs keep mode and
\* upload id.
LEMMA RowKept ==
    ASSUME NEW row \in SessionRow
    PROVE  /\ \A new \in {MarkUploading(row), Abort(row), MarkFailed(row), Repaired(row),
                          [row EXCEPT !.status = "EXPIRED", !.token = Nil]} :
                 /\ new.mode = row.mode /\ new.upload = row.upload
                 /\ row.status # "ABSENT" => new.status # "ABSENT"
           /\ \A t : /\ AcquireCompletion(row, t).mode = row.mode
                     /\ AcquireCompletion(row, t).upload = row.upload
                     /\ row.status # "ABSENT" => AcquireCompletion(row, t).status # "ABSENT"
                     /\ row.status # "COMPLETED" => AcquireCompletion(row, t).status # "COMPLETED"
           /\ [row EXCEPT !.upload = FALSE].mode = row.mode
           /\ [row EXCEPT !.upload = FALSE].status = row.status
           /\ \A f : /\ MarkCompleted(row, f).mode = row.mode
                     /\ MarkCompleted(row, f).status = "COMPLETED"
           /\ MarkUploading(row).status = "UPLOADING"
           /\ row.status # "COMPLETED" => Abort(row).status # "COMPLETED"
           /\ MarkFailed(row).status = "FAILED"
           /\ [row EXCEPT !.status = "EXPIRED", !.token = Nil].status = "EXPIRED"
           /\ row.file = Nil => Repaired(row).status # "COMPLETED"
  BY DEF SessionRow, MarkUploading, Abort, AcquireCompletion, MarkFailed, Repaired, MarkCompleted

\* A request that returns knows nothing any more.
LEMMA ReturnHandles ==
    ASSUME TypeOK, NEW p \in Requests, NEW s, NEW a, Return(p, s, a)
    PROVE  Handles(p)' /\ ~Assembled(p)' /\ \A q \in Requests \ {p} : req'[q] = req[q]
  BY DEF TypeOK, Return, Idle, Handles, InFlight, Assembled

\* Creation and the clients' uploads.
LEMMA UploadsSession ==
    ASSUME Uploads, Binding', NEW s \in Sessions, SessionStep(s)
    PROVE  Uploads' /\ SessionsKept
  <1>0. TypeOK
    BY DEF Uploads, Binding
  <1>1. ASSUME NEW mode \in Modes, NEW hash \in Hash, NEW total \in 0..MaxParts,
               Create(s, mode, hash, total)
        PROVE  Uploads' /\ SessionsKept
    <2>. DEFINE row == NewSession(mode, hash, total)
    <2>1. /\ row.status = "INITIATED" /\ row.mode = mode /\ (mode = "DIRECT" => row.upload)
      BY DEF NewSession, RequiresProviderUploadID
    <2>2. Save(s, row) /\ UNCHANGED req /\ session[s].status = "ABSENT" /\ mpu[s] = "none"
      BY <1>1 DEF Create
    <2>3. \A r \in Sessions : mpu[r] = "closed" => mpu'[r] = "closed"
      BY <1>0, <1>1 DEF Create, TypeOK, StoreTypeOK
    <2>. HIDE DEF row
    <2>4. SessionsKept /\ session'[s] = row /\ \A r \in Sessions \ {s} : session'[r] = session[r]
      BY <1>0, <2>1, <2>2, <2>3, SessionsSave
    <2>5. Remembered(row, mpu'[s])
      BY <2>1 DEF Remembered
    <2>. QED
      BY <2>2, <2>4, <2>5, UploadsFrom
  <1>2. CASE CreateFails(s)
    <2>1. UNCHANGED <<session, req>> /\ mpu[s] = "none" /\ mpu' = [mpu EXCEPT ![s] = "open"]
      BY <1>2 DEF CreateFails, tables
    <2>2. SessionsKept
      BY <1>0, <2>1 DEF SessionsKept, TypeOK, StoreTypeOK
    <2>. QED
      BY <2>1, <2>2, UploadsFrom
  <1>3. CASE UNCHANGED <<session, mpu, req>>
    BY <1>3, SessionsQuiet, UploadsFrom
  <1>4. ASSUME NEW c, ClientPutObject(s, c) PROVE UNCHANGED <<session, mpu, req>>
    BY <1>4 DEF ClientPutObject, tables
  <1>5. CASE PresignParts(s) \/ ClientUploadPart(s)
    BY <1>3, <1>5 DEF PresignParts, ClientUploadPart, tables
  <1>. QED
    BY <1>1, <1>2, <1>3, <1>4, <1>5 DEF SessionStep

\* A row that a handler can read still has the upload id of its mode.
LEMMA ReadableRow ==
    ASSUME NEW s \in Sessions, Readable(s)
    PROVE  /\ session[s].status # "ABSENT"
           /\ Direct(s) => session[s].upload /\ session[s].hash # Nil
  BY DEF Readable, Validate, Direct, RequiresProviderUploadID, RequiresContentHash

\* The first step of a request.
LEMMA UploadsStart ==
    ASSUME Uploads, Binding', NEW p \in Requests, NEW s \in Sessions, RequestStart(p, s)
    PROVE  Uploads' /\ SessionsKept /\ ~Assembled(p)' /\ \A q \in Requests \ {p} : req'[q] = req[q]
  <1>0. TypeOK /\ session[s] \in SessionRow
    BY DEF Uploads, Binding, TypeOK, StoreTypeOK
  <1>1. CASE CompleteStart(p, s)
    <2>1. PICK token \in Keys \cup {p}, declared \in Hash \cup {Malformed} :
              AcquireStep(p, s, token, declared)
      BY <1>1 DEF CompleteStart
    <2>2. Readable(s) /\ UNCHANGED mpu
      BY <2>1 DEF AcquireStep, provider
    <2>3. CASE Return(p, s, session[s].file) /\ UNCHANGED session
      BY <1>0, <2>2, <2>3, ReturnHandles, SessionsQuiet, UploadsFrom
    <2>4. CASE /\ Save(s, AcquireCompletion(session[s], token))
               /\ session[s].status # "COMPLETED"
               /\ \E label, h :
                    /\ Direct(s) => label \in {"fail", "parts"}
                    /\ label \in {"fail", "parts", "verify"}
                    /\ Direct(s) /\ label = "parts" => h # Nil
                    /\ req' = [req EXCEPT ![p] =
                        [Idle EXCEPT !.op = "complete", !.s = s, !.tok = token,
                                     !.gone = DeletedFiles, !.pc = label, !.hash = h]]
      <3>1. PICK label, h :
                    /\ Direct(s) => label \in {"fail", "parts"}
                    /\ label \in {"fail", "parts", "verify"}
                    /\ Direct(s) /\ label = "parts" => h # Nil
                    /\ req' = [req EXCEPT ![p] =
                        [Idle EXCEPT !.op = "complete", !.s = s, !.tok = token,
                                     !.gone = DeletedFiles, !.pc = label, !.hash = h]]
        BY <2>4
      <3>2. /\ req'[p].s = s /\ req'[p].pc = label /\ req'[p].hash = h
            /\ \A q \in Requests \ {p} : req'[q] = req[q]
        BY <1>0, <3>1 DEF TypeOK, Idle
      <3>3. PICK row : row = AcquireCompletion(session[s], token)
        OBVIOUS
      <3>4. row.status \notin {"ABSENT", "COMPLETED"} /\ row.mode = session[s].mode /\ row.upload = session[s].upload
        BY <1>0, <2>2, <2>4, <3>3, RowKept, ReadableRow
      <3>k. Save(s, row) /\ \A r \in Sessions : mpu[r] = "closed" => mpu'[r] = "closed"
        BY <2>2, <2>4, <3>3
      <3>5. SessionsKept /\ session'[s] = row /\ \A r \in Sessions \ {s} : session'[r] = session[r]
        BY <1>0, <3>k, <3>4, SessionsSave
      <3>6. Remembered(row, mpu'[s])
        BY <2>2, <3>4, ReadableRow DEF Remembered, Direct
      <3>7. Handles(p)' /\ ~Assembled(p)'
        BY <3>1, <3>2, <3>4, <3>5 DEF Handles, Assembled, Direct, CopyLabel
      <3>. QED
        BY <3>2, <3>5, <3>6, <3>7, UploadsFrom
    <2>5. Ownership(session[s], token) \in {"ACQUIRED", "HELD_BY_CALLER"} => session[s].status # "COMPLETED"
      BY DEF Ownership, Pending
    <2>6. Direct(s) /\ HashAccepted(session[s], declared) => ExpectedHash(session[s], declared) # Nil
      BY <2>2, ReadableRow DEF HashAccepted, ExpectedHash
    <2>. QED
      BY <2>1, <2>3, <2>4, <2>5, <2>6 DEF AcquireStep, Direct
  <1>2. ASSUME NEW op, NEW row, NEW label \in CopyLabel, ReadInto(p, op, s, row, label),
               row.mode = session[s].mode, row.upload = session[s].upload,
               session[s].status # "ABSENT" => row.status # "ABSENT",
               label = "save" => row.status # "COMPLETED",
               label = "put" => session[s].mode = "INLINE"
        PROVE  Uploads' /\ SessionsKept /\ ~Assembled(p)' /\ \A q \in Requests \ {p} : req'[q] = req[q]
    <2>1. UNCHANGED <<session, mpu>> /\ Readable(s)
      BY <1>2 DEF ReadInto, storeVars
    <2>2. /\ req'[p].s = s /\ req'[p].pc = label /\ req'[p].snap = row
          /\ \A q \in Requests \ {p} : req'[q] = req[q]
      BY <1>0, <1>2 DEF ReadInto, Idle, TypeOK
    <2>3. Handles(p)' /\ ~Assembled(p)'
      BY <1>2, <2>1, <2>2, ReadableRow DEF Handles, Assembled, Direct, CopyLabel
    <2>. QED
      BY <2>1, <2>2, <2>3, SessionsQuiet, UploadsFrom
  <1>3. CASE AbortRead(p, s)
    <2>1. PICK row : row = Abort(session[s])
      OBVIOUS
    <2>2. session[s].status # "COMPLETED" /\ ReadInto(p, "abort", s, row, "save")
      BY <1>3, <2>1 DEF AbortRead, MayAbort, Pending, Dead
    <2>3. /\ row.mode = session[s].mode /\ row.upload = session[s].upload /\ row.status # "COMPLETED"
          /\ session[s].status # "ABSENT" => row.status # "ABSENT"
      BY <1>0, <2>1, <2>2, RowKept
    <2>. QED
      BY <1>2, <2>2, <2>3 DEF CopyLabel
  <1>4. CASE InlineRead(p, s)
    BY <1>2, <1>4 DEF InlineRead, CopyLabel
  <1>5. CASE ListRead(p, s)
    BY <1>2, <1>5 DEF ListRead, CopyLabel
  <1>. QED
    BY <1>1, <1>3, <1>4, <1>5 DEF RequestStart

\* A request that has started works on a session.
LEMMA StepInFlight ==
    ASSUME TypeOK, NEW p \in Requests, RequestStep(p)
    PROVE  /\ InFlight(p) /\ req[p].s \in Sessions /\ session[req[p].s] \in SessionRow
           /\ req[p] \in Request \ {Idle} /\ req[p].snap \in SessionRow
  <1>1. InFlight(p) /\ req[p].pc # "idle"
    BY DEF RequestStep, CompleteListParts, CompleteAssemble, CompleteVerify, CompleteCommit,
           CompleteFail, InlinePut, ListObserve, SaveCopy, AbortCancel, Interrupt, InFlight
  <1>. QED
    BY <1>1, InFlightType DEF TypeOK, Idle

\* A jump changes the label only.
LEMMA GotoIs ==
    ASSUME TypeOK, NEW p \in Requests, req[p] \in Request \ {Idle}, NEW label, Goto(p, label)
    PROVE  /\ req'[p].pc = label /\ req'[p].s = req[p].s /\ req'[p].hash = req[p].hash
           /\ req'[p].snap = req[p].snap /\ req'[p].tok = req[p].tok
           /\ \A q \in Requests \ {p} : req'[q] = req[q]
  <1>1. req'[p] = [req[p] EXCEPT !.pc = label] /\ \A q \in Requests \ {p} : req'[q] = req[q]
    BY DEF Goto, TypeOK
  <1>. QED
    BY <1>1 DEF Request

\* What verification makes of a request.
LEMMA VerifyIs ==
    ASSUME TypeOK, NEW p \in Requests, req[p] \in Request \ {Idle}, CompleteVerify(p)
    PROVE  \/ Return(p, req[p].s, Nil) \/ Goto(p, "fail")
           \/ /\ req'[p].pc = "commit" /\ req'[p].s = req[p].s
              /\ object[req[p].s] # Nil /\ req[p].hash \in {Nil, object[req[p].s]}
              /\ req'[p].hash \in {req[p].hash, object[req[p].s]}
              /\ \A q \in Requests \ {p} : req'[q] = req[q]
  <1>1. CASE \E canonical \in {req[p].hash, object[req[p].s]} : \E hit :
                /\ object[req[p].s] # Nil /\ req[p].hash \in {Nil, object[req[p].s]}
                /\ req' = [req EXCEPT ![p].pc = "commit", ![p].hash = canonical, ![p].hit = hit]
    <2>1. PICK canonical \in {req[p].hash, object[req[p].s]} : \E hit :
                /\ object[req[p].s] # Nil /\ req[p].hash \in {Nil, object[req[p].s]}
                /\ req' = [req EXCEPT ![p].pc = "commit", ![p].hash = canonical, ![p].hit = hit]
      BY <1>1
    <2>2. PICK hit :
                /\ object[req[p].s] # Nil /\ req[p].hash \in {Nil, object[req[p].s]}
                /\ req' = [req EXCEPT ![p].pc = "commit", ![p].hash = canonical, ![p].hit = hit]
      BY <2>1
    <2>3. /\ req'[p] = [[[req[p] EXCEPT !.pc = "commit"] EXCEPT !.hash = canonical] EXCEPT !.hit = hit]
          /\ \A q \in Requests \ {p} : req'[q] = req[q]
      BY <2>2 DEF TypeOK
    <2>4. req'[p].pc = "commit" /\ req'[p].s = req[p].s /\ req'[p].hash = canonical
      BY <2>3 DEF Request
    <2>. QED
      BY <2>2, <2>3, <2>4
  <1>2. \/ Return(p, req[p].s, Nil) \/ Goto(p, "fail")
        \/ \E canonical \in {req[p].hash, object[req[p].s]} : \E hit :
                /\ object[req[p].s] # Nil /\ req[p].hash \in {Nil, object[req[p].s]}
                /\ req' = [req EXCEPT ![p].pc = "commit", ![p].hash = canonical, ![p].hit = hit]
    BY Zenon DEF CompleteVerify
  <1>. QED
    BY <1>1, <1>2

\* The further steps of a request.
LEMMA UploadsRequest ==
    ASSUME Uploads, Binding', NEW p \in Requests, RequestStep(p)
    PROVE  Uploads' /\ SessionsKept
  <1>0. TypeOK /\ Handles(p)
    BY DEF Uploads, Binding
  <1>s. PICK s \in Sessions : s = req[p].s
    BY <1>0, StepInFlight
  <1>t. /\ InFlight(p) /\ session[s] \in SessionRow /\ req[p] \in Request \ {Idle}
        /\ req[p].snap \in SessionRow /\ session[s].status # "ABSENT"
    BY <1>0, <1>s, StepInFlight DEF Handles
  <1>q. ASSUME SessionsKept, NEW r, NEW a, Return(p, r, a),
               \A z \in Sessions : session'[z] = session[z] \/ Remembered(session'[z], mpu'[z])
        PROVE  Uploads'
    BY <1>0, <1>q, ReturnHandles, UploadsFrom
  <1>k. ASSUME mpu' = [mpu EXCEPT ![s] = "closed"] PROVE \A r \in Sessions : mpu[r] = "closed" => mpu'[r] = "closed"
    BY <1>0, <1>k DEF TypeOK, StoreTypeOK
  <1>f. ASSUME UNCHANGED <<session, mpu>>, Goto(p, "fail") PROVE Uploads' /\ SessionsKept
    <2>1. Handles(p)'
      BY <1>0, <1>f, <1>s, <1>t, GotoIs DEF Handles, Assembled, CopyLabel
    <2>. QED
      BY <1>0, <1>f, <1>t, <2>1, GotoIs, SessionsQuiet, UploadsFrom
  <1>u. ASSUME UNCHANGED <<session, mpu>>, req[p].pc \in CopyLabel,
               req' = [req EXCEPT ![p].pc = "save", ![p].snap = MarkUploading(req[p].snap)]
        PROVE  Uploads' /\ SessionsKept
    <2>1. /\ req'[p] = [[req[p] EXCEPT !.pc = "save"] EXCEPT !.snap = MarkUploading(req[p].snap)]
          /\ \A q \in Requests \ {p} : req'[q] = req[q]
      BY <1>0, <1>u DEF TypeOK
    <2>2. req'[p].pc = "save" /\ req'[p].s = s /\ req'[p].snap = MarkUploading(req[p].snap)
      BY <1>s, <1>t, <2>1 DEF Request
    <2>3. /\ req'[p].snap.status = "UPLOADING" /\ req'[p].snap.mode = req[p].snap.mode
          /\ req'[p].snap.upload = req[p].snap.upload
      BY <1>t, <2>2, RowKept
    <2>4. Handles(p)'
      BY <1>0, <1>s, <1>t, <1>u, <2>2, <2>3 DEF Handles, Assembled, Direct, CopyLabel
    <2>. QED
      BY <1>u, <2>1, <2>4, SessionsQuiet, UploadsFrom
  <1>1. CASE CompleteListParts(p)
    <2>1. UNCHANGED <<session, mpu>> /\ req[p].pc = "parts"
      BY <1>1 DEF CompleteListParts, storeVars
    <2>2. CASE Goto(p, "assemble")
      <3>1. /\ req'[p].pc = "assemble" /\ req'[p].s = s /\ req'[p].hash = req[p].hash
            /\ \A q \in Requests \ {p} : req'[q] = req[q]
        BY <1>0, <1>s, <1>t, <2>2, GotoIs
      <3>2. Handles(p)'
        BY <1>0, <1>s, <1>t, <2>1, <3>1 DEF Handles, Assembled, Direct, CopyLabel
      <3>. QED
        BY <2>1, <3>1, <3>2, SessionsQuiet, UploadsFrom
    <2>. QED
      BY <1>1, <1>f, <1>q, <2>1, <2>2, SessionsQuiet DEF CompleteListParts
  <1>2. CASE CompleteAssemble(p)
    <2>1. UNCHANGED session /\ req[p].pc = "assemble"
      BY <1>2 DEF CompleteAssemble, tables
    <2>2. CASE mpu' = [mpu EXCEPT ![s] = "closed"] /\ Goto(p, "verify")
      <3>1. /\ req'[p].pc = "verify" /\ req'[p].s = s /\ req'[p].hash = req[p].hash
            /\ \A q \in Requests \ {p} : req'[q] = req[q]
        BY <1>0, <1>s, <1>t, <2>2, GotoIs
      <3>2. SessionsKept /\ mpu'[s] = "closed"
        BY <1>0, <1>k, <2>1, <2>2 DEF SessionsKept, TypeOK, StoreTypeOK
      <3>3. Handles(p)'
        BY <1>0, <1>s, <1>t, <2>1, <3>1, <3>2 DEF Handles, Assembled, Direct, CopyLabel
      <3>. QED
        BY <2>1, <3>1, <3>2, <3>3, UploadsFrom
    <2>. QED
      BY <1>2, <1>f, <1>s, <2>1, <2>2 DEF CompleteAssemble
  <1>3. CASE CompleteVerify(p)
    <2>1. UNCHANGED <<session, mpu>> /\ req[p].pc = "verify"
      BY <1>3 DEF CompleteVerify, storeVars
    <2>2. CASE /\ req'[p].pc = "commit" /\ req'[p].s = s
               /\ object[s] # Nil /\ req'[p].hash \in {req[p].hash, object[s]}
               /\ \A q \in Requests \ {p} : req'[q] = req[q]
      <3>1. Handles(p)'
        BY <1>0, <1>s, <1>t, <2>1, <2>2 DEF Handles, Assembled, Direct, CopyLabel
      <3>. QED
        BY <2>1, <2>2, <3>1, SessionsQuiet, UploadsFrom
    <2>. QED
      BY <1>0, <1>3, <1>f, <1>q, <1>s, <1>t, <2>1, <2>2, VerifyIs, SessionsQuiet
  <1>4. CASE CompleteCommit(p)
    <2>0. UNCHANGED mpu /\ req[p].pc = "commit" /\ \E a : Return(p, s, a)
      BY <1>4, <1>s DEF CompleteCommit, provider
    <2>1. CASE UNCHANGED session
      BY <1>q, <2>0, <2>1, SessionsQuiet
    <2>2. CASE Save(s, MarkCompleted(session[s], p))
      <3>1. PICK row : row = MarkCompleted(session[s], p)
        OBVIOUS
      <3>2. row.mode = session[s].mode /\ row.status = "COMPLETED" /\ Save(s, row)
        BY <1>t, <2>2, <3>1, RowKept
      <3>3. SessionsKept /\ session'[s] = row /\ \A r \in Sessions \ {s} : session'[r] = session[r]
        BY <1>0, <2>0, <3>2, SessionsSave
      <3>4. Remembered(row, mpu'[s])
        BY <1>0, <1>s, <1>t, <2>0, <3>2 DEF Remembered, Handles, Assembled, Direct
      <3>. QED
        BY <1>q, <2>0, <3>3, <3>4
    <2>. QED
      BY <1>4, <1>s, <2>1, <2>2 DEF CompleteCommit, tables
  <1>5. CASE CompleteFail(p)
    <2>0. UNCHANGED mpu /\ Return(p, s, Nil)
      BY <1>5, <1>s DEF CompleteFail, provider
    <2>1. CASE UNCHANGED session
      BY <1>q, <2>0, <2>1, SessionsQuiet
    <2>2. CASE Save(s, MarkFailed(session[s])) /\ Readable(s)
      <3>1. PICK row : row = MarkFailed(session[s])
        OBVIOUS
      <3>2. row.mode = session[s].mode /\ row.upload = session[s].upload /\ row.status = "FAILED" /\ Save(s, row)
        BY <1>t, <2>2, <3>1, RowKept
      <3>3. SessionsKept /\ session'[s] = row /\ \A r \in Sessions \ {s} : session'[r] = session[r]
        BY <1>0, <2>0, <3>2, SessionsSave
      <3>4. Remembered(row, mpu'[s])
        BY <2>2, <3>2, ReadableRow DEF Remembered, Direct
      <3>. QED
        BY <1>q, <2>0, <3>3, <3>4
    <2>. QED
      BY <1>5, <1>s, <2>1, <2>2 DEF CompleteFail, OwnerConfirmed
  <1>6. CASE InlinePut(p)
    BY <1>6, <1>q, <1>u, SessionsQuiet DEF InlinePut, tables, CopyLabel
  <1>7. CASE ListObserve(p)
    BY <1>7, <1>q, <1>u, SessionsQuiet DEF ListObserve, storeVars, CopyLabel
  <1>8. CASE SaveCopy(p)
    <2>0. UNCHANGED mpu /\ req[p].pc = "save" /\ Save(s, req[p].snap)
      BY <1>8, <1>s DEF SaveCopy, provider
    <2>1. PICK row : row = req[p].snap
      OBVIOUS
    <2>2. /\ row.status \notin {"ABSENT", "COMPLETED"} /\ row.mode = session[s].mode
          /\ row.mode = "DIRECT" => row.upload
          /\ Save(s, row)
      BY <1>0, <1>s, <1>t, <2>0, <2>1 DEF Handles, CopyLabel, Direct
    <2>3. SessionsKept /\ session'[s] = row /\ \A r \in Sessions \ {s} : session'[r] = session[r]
      BY <1>0, <2>0, <2>2, SessionsSave
    <2>4. Remembered(row, mpu'[s])
      BY <2>2 DEF Remembered
    <2>5. CASE Goto(p, "cancel")
      <3>1. /\ req'[p].pc = "cancel" /\ req'[p].s = s /\ req'[p].snap = row
            /\ \A q \in Requests \ {p} : req'[q] = req[q]
        BY <1>0, <1>s, <1>t, <2>1, <2>5, GotoIs
      <3>2. Handles(p)'
        BY <2>2, <2>3, <3>1 DEF Handles, Assembled, Direct, CopyLabel
      <3>. QED
        BY <2>3, <2>4, <3>1, <3>2, UploadsFrom
    <2>6. CASE Return(p, s, Nil)
      BY <1>q, <2>3, <2>4, <2>6
    <2>. QED
      BY <1>8, <1>s, <2>5, <2>6 DEF SaveCopy
  <1>9. CASE AbortCancel(p)
    <2>1. UNCHANGED session /\ Return(p, s, Nil) /\ mpu' = [mpu EXCEPT ![s] = "closed"]
      BY <1>9, <1>s DEF AbortCancel, tables
    <2>2. SessionsKept
      BY <1>k, <2>1 DEF SessionsKept
    <2>. QED
      BY <1>q, <2>1, <2>2
  <1>10. CASE Interrupt(p)
    BY <1>10, <1>q, SessionsQuiet DEF Interrupt, storeVars
  <1>. QED
    BY <1>1, <1>2, <1>3, <1>4, <1>5, <1>6, <1>7, <1>8, <1>9, <1>10 DEF RequestStep

\* The jobs and the deletion of files.
LEMMA UploadsJobs ==
    ASSUME Uploads, Binding', JobsNext
    PROVE  Uploads' /\ SessionsKept
  <1>0. TypeOK
    BY DEF Uploads, Binding
  <1>s. ASSUME NEW s \in Sessions, NEW row, Save(s, row), UNCHANGED req,
               row.status # "ABSENT", row.mode = session[s].mode, Remembered(row, mpu'[s]),
               \A r \in Sessions : mpu[r] = "closed" => mpu'[r] = "closed"
        PROVE  Uploads' /\ SessionsKept
    <2>1. SessionsKept /\ session'[s] = row /\ \A r \in Sessions \ {s} : session'[r] = session[r]
      BY <1>0, <1>s, SessionsSave
    <2>. QED
      BY <1>s, <2>1, UploadsFrom
  <1>1. ASSUME NEW s \in Sessions, Expire(s) \/ Repair(s)
        PROVE  Uploads' /\ SessionsKept
    <2>0. /\ session[s] \in SessionRow /\ UNCHANGED <<req, mpu>>
          /\ session[s].status \notin {"ABSENT", "COMPLETED"} /\ session[s].file = Nil
      BY <1>0, <1>1 DEF Expire, Repair, provider, Pending, TypeOK, StoreTypeOK, Uploads, Binding,
                        CompletedIffBound
    <2>1. PICK row : /\ row \in {Repaired(session[s]), [session[s] EXCEPT !.status = "EXPIRED", !.token = Nil]}
                     /\ Save(s, row)
      BY <1>1 DEF Expire, Repair
    <2>2. row.mode = session[s].mode /\ row.upload = session[s].upload /\ row.status \notin {"ABSENT", "COMPLETED"}
      <3>1. CASE row = Repaired(session[s])
        BY <2>0, <3>1, RowKept
      <3>2. CASE row = [session[s] EXCEPT !.status = "EXPIRED", !.token = Nil]
        BY <2>0, <3>2, RowKept
      <3>. QED
        BY <2>1, <3>1, <3>2
    <2>3. Remembered(session[s], mpu[s])
      BY DEF Remembered, Uploads, NoUploadForgotten
    <2>4. Remembered(row, mpu'[s])
      BY <2>0, <2>2, <2>3 DEF Remembered
    <2>5. \A r \in Sessions : mpu[r] = "closed" => mpu'[r] = "closed"
      BY <2>0
    <2>. QED
      BY <1>s, <2>0, <2>1, <2>2, <2>4, <2>5
  <1>2. ASSUME NEW s \in Sessions, CleanupMultipart(s) \/ CleanupMultipartRollback(s)
        PROVE  Uploads' /\ SessionsKept
    <2>0. /\ session[s] \in SessionRow /\ UNCHANGED req /\ mpu' = [mpu EXCEPT ![s] = "closed"]
          /\ session[s].status # "ABSENT"
      BY <1>0, <1>2 DEF CleanupMultipart, CleanupMultipartRollback, Cleanable, Dead, TypeOK, StoreTypeOK
    <2>1. mpu'[s] = "closed" /\ \A r \in Sessions : mpu[r] = "closed" => mpu'[r] = "closed"
      BY <1>0, <2>0 DEF TypeOK, StoreTypeOK
    <2>2. CASE Save(s, [session[s] EXCEPT !.upload = FALSE])
      <3>1. PICK row : row = [session[s] EXCEPT !.upload = FALSE]
        OBVIOUS
      <3>2. row.mode = session[s].mode /\ row.status = session[s].status
        BY <2>0, <3>1, RowKept
      <3>3. Remembered(row, mpu'[s])
        BY <2>1 DEF Remembered
      <3>. QED
        BY <1>s, <2>0, <2>1, <2>2, <3>1, <3>2, <3>3
    <2>3. CASE UNCHANGED session
      <3>1. SessionsKept
        BY <2>1, <2>3 DEF SessionsKept
      <3>. QED
        BY <2>0, <2>3, <3>1, UploadsFrom
    <2>. QED
      BY <1>2, <2>2, <2>3 DEF CleanupMultipart, CleanupMultipartRollback, tables
  <1>3. CASE UNCHANGED <<session, mpu, req>>
    BY <1>3, SessionsQuiet, UploadsFrom
  <1>4. ASSUME NEW f \in Requests, FinalizeDelete(f) \/ CleanupOrphan(f) \/ DeleteFile(f)
        PROVE  UNCHANGED <<session, mpu, req>>
    BY <1>4 DEF FinalizeDelete, CleanupOrphan, ReclaimBlob, ReclaimRollback, DeleteFile, tables, provider
  <1>5. ASSUME ReconcileRead \/ ReconcileWrite PROVE UNCHANGED <<session, mpu, req>>
    BY <1>5 DEF ReconcileRead, ReconcileWrite, provider
  <1>. QED
    BY <1>1, <1>2, <1>3, <1>4, <1>5 DEF JobsNext

\* The invariant on uploads holds in the empty service.
LEMMA UploadsInit == Init => Uploads
  <1>1. Init => NoUploadForgotten /\ \A p \in Requests : Handles(p)
    BY DEF Init, StoreInit, ServiceInit, NoUploadForgotten, Handles, InFlight, Idle, NoSession
  <1>. QED
    BY <1>1, BindingInit DEF Uploads

\* Uploads is inductive, and no step forgets a session or reopens an upload.
LEMMA UploadsStep ==
    ASSUME Uploads, [Next]_vars PROVE Uploads' /\ SessionsKept
  <1>1. Binding'
    BY BindingStep DEF Uploads
  <1>2. CASE UNCHANGED vars
    <2>1. UNCHANGED <<session, mpu, req>>
      BY <1>2 DEF vars
    <2>. QED
      BY <1>1, <2>1, SessionsQuiet, UploadsFrom
  <1>. QED
    BY <1>1, <1>2, UploadsSession, UploadsStart, UploadsRequest, UploadsJobs DEF Next, ServiceNext

\* A row of a DIRECT session never stops pointing at an upload that is still
\* open at the provider: a completion has assembled it, and the cleanup job
\* erases provider_upload_id after the provider's abort, whatever stale copies
\* the other handlers save.
THEOREM NoUploadForgottenAlways ==
    Spec => []NoUploadForgotten
  <1>1. Uploads => NoUploadForgotten
    BY DEF Uploads
  <1>2. Uploads /\ [Next]_vars => Uploads'
    BY UploadsStep
  <1>. QED
    BY <1>1, <1>2, UploadsInit, PTL DEF Spec

------------------------------------------------------------------------------
(***************************************************************************)
(* The content of DIRECT sessions.                                         *)
(*                                                                         *)
(* An upload is assembled once, so at most one request of a DIRECT session *)
(* ever gets to verify, at most one file is made of it, and from the       *)
(* assembly on nobody writes the object.  A job deletes the object under a *)
(* blob's key; by BlobHasFile that is the key of a file of this blob, and  *)
(* by RefCountExact no file of the blob is ACTIVE.                         *)
(***************************************************************************)

Exists(f) == files[f].status # "ABSENT"

OneAssembly ==
    \A p, q \in Requests : Assembled(p) /\ Assembled(q) /\ req[p].s = req[q].s => p = q

\* The file is made last.
AssembledUnfiled ==
    \A p, f \in Requests : Assembled(p) /\ Exists(f) => files[f].key # req[p].s

\* The hash to be committed is that of the object.
AssembledHash ==
    \A p \in Requests : Assembled(p) /\ req[p].pc = "commit" => object[req[p].s] = req[p].hash

FiledClosed ==
    \A f \in Requests : Exists(f) =>
        /\ session[files[f].key].status # "ABSENT"
        /\ Direct(files[f].key) => mpu[files[f].key] = "closed"

OneDirectFile ==
    \A f, g \in Requests :
        Exists(f) /\ Exists(g) /\ files[f].key = files[g].key /\ Direct(files[f].key) => f = g

Verified ==
    /\ Uploads /\ BlobHasFile
    /\ OneAssembly /\ AssembledUnfiled /\ AssembledHash
    /\ FiledClosed /\ OneDirectFile /\ DirectContentVerified

\* Files are at most deleted.
FilesOnlyDeleted ==
    \A f \in Requests :
        /\ files'[f].key = files[f].key /\ files'[f].hash = files[f].hash
        /\ files'[f].status # "ABSENT" <=> Exists(f)
        /\ files'[f].status = "ACTIVE" => files[f].status = "ACTIVE"

\* The object of a closed upload stays, unless nobody needs it.
ObjectsKept ==
    \A s \in Sessions : session[s].status # "ABSENT" /\ Direct(s) /\ mpu[s] = "closed" =>
        \/ object'[s] = object[s]
        \/ /\ \A f \in ActiveFiles : files[f].key # s
           /\ \A p \in Requests : Assembled(p) => req[p].s # s

\* No request gets past an assembly.
AssembledKept ==
    \A p \in Requests :
        \/ req'[p] = req[p]
        \/ ~Assembled(p)'
        \/ /\ Assembled(p) /\ req'[p].s = req[p].s
           /\ req'[p].pc = "commit" => req'[p].hash = object[req[p].s]

\* The session of a request in flight, and that of a file, are stored and keep
\* their mode.
LEMMA ModesKept ==
    ASSUME Uploads, SessionsKept
    PROVE  /\ \A p \in Requests : InFlight(p) =>
                 /\ req[p].s \in Sessions /\ session[req[p].s].status # "ABSENT"
                 /\ session'[req[p].s].mode = session[req[p].s].mode
           /\ \A f \in Requests : FiledClosed /\ Exists(f) =>
                 /\ files[f].key \in Sessions
                 /\ session'[files[f].key].mode = session[files[f].key].mode
                 /\ session'[files[f].key].status # "ABSENT"
  <1>0. TypeOK
    BY DEF Uploads, Binding
  <1>1. ASSUME NEW p \in Requests, InFlight(p)
        PROVE  /\ req[p].s \in Sessions /\ session[req[p].s].status # "ABSENT"
               /\ session'[req[p].s].mode = session[req[p].s].mode
    BY <1>0, <1>1, InFlightType DEF Uploads, Handles, InFlight, SessionsKept
  <1>2. ASSUME NEW f \in Requests, FiledClosed, Exists(f)
        PROVE  /\ files[f].key \in Sessions
               /\ session'[files[f].key].mode = session[files[f].key].mode
               /\ session'[files[f].key].status # "ABSENT"
    <2>1. files[f].key \in Sessions
      BY <1>0, <1>2 DEF Exists, TypeOK, StoreTypeOK, FileRow, NoFile
    <2>. QED
      BY <1>2, <2>1 DEF FiledClosed, SessionsKept
  <1>. QED
    BY <1>1, <1>2

\* What a step that makes no file and assembles no upload must show.
LEMMA VerifiedFrom ==
    ASSUME Verified, Uploads', SessionsKept, BlobHasFile',
           FilesOnlyDeleted, ObjectsKept, AssembledKept
    PROVE  Verified'
  <1>1. ASSUME NEW p \in Requests, Assembled(p)'
        PROVE  /\ Assembled(p) /\ req'[p].s = req[p].s /\ req[p].s \in Sessions
               /\ object'[req[p].s] = object[req[p].s]
               /\ req'[p].pc = "commit" => object[req[p].s] = req'[p].hash
    <2>1. CASE req'[p] = req[p]
      <3>1. InFlight(p) /\ req[p].pc \in {"verify", "commit"}
        BY <1>1, <2>1 DEF Assembled, InFlight
      <3>2. Assembled(p)
        BY <1>1, <2>1, <3>1, ModesKept DEF Assembled, Direct, Verified
      <3>. QED
        BY <2>1, <3>1, <3>2, ModesKept DEF Verified, Uploads, Handles, AssembledHash, ObjectsKept, Assembled
    <2>2. CASE Assembled(p)
      <3>1. InFlight(p)
        BY <2>2 DEF Assembled, InFlight
      <3>2. object'[req[p].s] = object[req[p].s]
        BY <2>2, <3>1, ModesKept DEF Verified, Uploads, Handles, ObjectsKept, Assembled
      <3>. QED
        BY <1>1, <2>1, <2>2, <3>1, <3>2, ModesKept DEF AssembledKept, Verified
    <2>. QED
      BY <1>1, <2>1, <2>2 DEF AssembledKept
  <1>2. ASSUME NEW f \in Requests, Exists(f)'
        PROVE  /\ Exists(f) /\ files'[f].key = files[f].key /\ files[f].key \in Sessions
               /\ session'[files[f].key].mode = session[files[f].key].mode
               /\ session'[files[f].key].status # "ABSENT"
    BY <1>2, ModesKept DEF FilesOnlyDeleted, Exists, Verified
  <1>3. OneAssembly'
    BY <1>1 DEF OneAssembly, Verified
  <1>4. AssembledUnfiled'
    BY <1>1, <1>2 DEF AssembledUnfiled, Verified
  <1>5. AssembledHash'
    BY <1>1 DEF AssembledHash
  <1>6. FiledClosed'
    BY <1>2 DEF FiledClosed, Direct, SessionsKept, Verified
  <1>7. OneDirectFile'
    BY <1>2 DEF OneDirectFile, Direct, Verified
  <1>8. DirectContentVerified'
    <2>. SUFFICES ASSUME NEW f \in Requests, files'[f].status = "ACTIVE",
                         session'[files'[f].key].mode = "DIRECT"
                  PROVE  object'[files'[f].key] = files'[f].hash
      BY DEF DirectContentVerified, ActiveFiles
    <2>1. Exists(f)' /\ f \in ActiveFiles /\ files'[f].hash = files[f].hash
      BY DEF Exists, FilesOnlyDeleted, ActiveFiles
    <2>2. /\ Exists(f) /\ files'[f].key = files[f].key /\ files[f].key \in Sessions
          /\ Direct(files[f].key)
      BY <1>2, <2>1 DEF Direct
    <2>3. object[files[f].key] = files[f].hash
      BY <2>1, <2>2 DEF Verified, DirectContentVerified, Direct
    <2>4. object'[files[f].key] = object[files[f].key]
      BY <2>1, <2>2 DEF Verified, FiledClosed, ObjectsKept
    <2>. QED
      BY <2>1, <2>2, <2>3, <2>4
  <1>. QED
    BY <1>3, <1>4, <1>5, <1>6, <1>7, <1>8 DEF Verified

\* The two steps that do: the assembly of an upload ...
LEMMA VerifiedAssemble ==
    ASSUME Verified, Uploads', SessionsKept, BlobHasFile', NEW p \in Requests,
           CompleteAssemble(p), req'[p].pc = "verify"
    PROVE  Verified'
  <1>0. TypeOK /\ req[p].pc = "assemble" /\ req[p] \in Request \ {Idle} /\ InFlight(p)
    BY DEF Verified, Uploads, Binding, CompleteAssemble, TypeOK, Idle, InFlight
  <1>s. PICK s \in Sessions : s = req[p].s
    BY <1>0, InFlightType
  <1>1. UNCHANGED <<session, files>> /\ mpu[s] = "open" /\ Goto(p, "verify")
        /\ \A r \in Sessions \ {s} : object'[r] = object[r]
    <2>1. ~Goto(p, "fail")
      BY <1>0, GotoIs
    <2>. QED
      BY <1>0, <1>s, <2>1 DEF CompleteAssemble, tables, TypeOK, StoreTypeOK
  <1>2. req'[p].s = s /\ \A q \in Requests \ {p} : req'[q] = req[q]
    BY <1>0, <1>1, <1>s, GotoIs
  <1>3. \A q \in Requests : Assembled(q) => q # p /\ req[q].s # s /\ req[q].s \in Sessions
    <2>1. \A q \in Requests : Assembled(q) => InFlight(q)
      BY DEF Assembled, InFlight
    <2>. QED
      BY <1>0, <1>1, <2>1, InFlightType DEF Verified, Uploads, Handles, Assembled, InFlight
  <1>4. Direct(s) => \A f \in Requests : Exists(f) => files[f].key # s
    BY <1>1 DEF Verified, FiledClosed
  <1>5. \A f \in Requests : Exists(f) => files[f].key \in Sessions
    BY ModesKept DEF Verified
  <1>6. \A q \in Requests : Assembled(q)' => (q # p /\ Assembled(q)) \/ (q = p /\ Direct(s))
    BY <1>1, <1>2 DEF Assembled, Direct
  <1>7. OneAssembly'
    BY <1>2, <1>3, <1>6 DEF OneAssembly, Verified
  <1>8. AssembledUnfiled'
    BY <1>1, <1>2, <1>3, <1>4, <1>6 DEF AssembledUnfiled, Exists, Verified
  <1>9. AssembledHash'
    BY <1>1, <1>2, <1>3, <1>6 DEF AssembledHash, Verified
  <1>10. FiledClosed' /\ OneDirectFile'
    BY <1>1, <1>5 DEF FiledClosed, OneDirectFile, Exists, Direct, Verified, SessionsKept
  <1>11. DirectContentVerified'
    <2>1. \A f \in ActiveFiles : Exists(f)
      BY DEF ActiveFiles, Exists
    <2>. QED
      BY <1>1, <1>4, <1>5, <2>1 DEF DirectContentVerified, ActiveFiles, Verified, Direct
  <1>. QED
    BY <1>7, <1>8, <1>9, <1>10, <1>11 DEF Verified

\* ... and the commit that makes a file of it.
LEMMA VerifiedCommit ==
    ASSUME Verified, Uploads', SessionsKept, BlobHasFile', NEW p \in Requests,
           CompleteCommit(p), ~UNCHANGED tables
    PROVE  Verified'
  <1>0. TypeOK /\ Binding /\ req[p].pc = "commit" /\ InFlight(p) /\ files[p].status = "ABSENT"
    BY DEF Verified, Uploads, Binding, CompleteCommit, InFlight, FreshIds
  <1>s. PICK s \in Sessions : s = req[p].s
    BY <1>0, InFlightType
  <1>1. UNCHANGED <<mpu, object>> /\ Return(p, s, p) /\ \E b : CreateFileAsset(p, s, b, req[p].hash)
    BY <1>s DEF CompleteCommit, provider
  <1>2. /\ files'[p].status = "ACTIVE" /\ files'[p].key = s /\ files'[p].hash = req[p].hash
        /\ \A f \in Requests \ {p} : files'[f] = files[f]
    BY <1>0, <1>1 DEF CreateFileAsset, TypeOK, StoreTypeOK
  <1>3. ~Assembled(p)' /\ \A q \in Requests \ {p} : req'[q] = req[q]
    BY <1>0, <1>1, ReturnHandles
  <1>4. session[s].status # "ABSENT" /\ session'[s].mode = session[s].mode /\ session'[s].status # "ABSENT"
    BY <1>0, <1>s, ModesKept DEF Verified, SessionsKept
  <1>5. Direct(s) => /\ Assembled(p) /\ object[s] = req[p].hash /\ mpu[s] = "closed"
                     /\ \A f \in Requests : Exists(f) => files[f].key # s
                     /\ \A q \in Requests : Assembled(q) /\ q # p => req[q].s # s
    <2>1. Direct(s) => Assembled(p)
      BY <1>0, <1>s DEF Assembled
    <2>2. Assembled(p) => object[s] = req[p].hash
      BY <1>0, <1>s DEF Verified, AssembledHash
    <2>3. Assembled(p) => mpu[s] = "closed"
      BY <1>0, <1>s DEF Verified, Uploads, Handles
    <2>4. Assembled(p) => \A f \in Requests : Exists(f) => files[f].key # s
      BY <1>s DEF Verified, AssembledUnfiled
    <2>5. Assembled(p) => \A q \in Requests : Assembled(q) /\ q # p => req[q].s # s
      BY <1>s DEF Verified, OneAssembly
    <2>. QED
      BY <2>1, <2>2, <2>3, <2>4, <2>5
  <1>6. \A q \in Requests : Assembled(q)' =>
            /\ q # p /\ Assembled(q) /\ req'[q] = req[q]
            /\ Direct(req[q].s)
    <2>. SUFFICES ASSUME NEW q \in Requests, Assembled(q)'
                  PROVE  q # p /\ Assembled(q) /\ req'[q] = req[q] /\ Direct(req[q].s)
      OBVIOUS
    <2>1. q # p /\ req'[q] = req[q] /\ req[q].pc \in {"verify", "commit"} /\ InFlight(q)
      BY <1>3 DEF Assembled, InFlight
    <2>2. session'[req[q].s].mode = session[req[q].s].mode /\ session'[req[q].s].mode = "DIRECT"
      BY <2>1, ModesKept DEF Verified, Assembled, Direct
    <2>. QED
      BY <2>1, <2>2 DEF Assembled, Direct
  <1>7. \A f \in Requests \ {p} : Exists(f)' =>
            /\ Exists(f) /\ files'[f] = files[f] /\ files[f].key \in Sessions
            /\ session'[files[f].key].mode = session[files[f].key].mode
            /\ session'[files[f].key].status # "ABSENT"
    BY <1>2, ModesKept DEF Exists, Verified
  <1>8. OneAssembly'
    BY <1>6 DEF OneAssembly, Verified
  <1>9. AssembledUnfiled'
    <2>. SUFFICES ASSUME NEW q \in Requests, NEW f \in Requests, Assembled(q)', Exists(f)'
                  PROVE  files'[f].key # req'[q].s
      BY DEF AssembledUnfiled
    <2>1. CASE f = p
      BY <1>2, <1>5, <1>6, <2>1
    <2>2. CASE f # p
      BY <1>6, <1>7, <2>2 DEF AssembledUnfiled, Verified
    <2>. QED
      BY <2>1, <2>2
  <1>10. AssembledHash'
    BY <1>1, <1>6 DEF AssembledHash, Verified
  <1>11. FiledClosed'
    <2>. SUFFICES ASSUME NEW f \in Requests, Exists(f)'
                  PROVE  /\ session'[files'[f].key].status # "ABSENT"
                         /\ session'[files'[f].key].mode = "DIRECT" => mpu'[files'[f].key] = "closed"
      BY DEF FiledClosed, Direct
    <2>1. CASE f = p
      BY <1>1, <1>2, <1>4, <1>5, <2>1 DEF Direct
    <2>2. CASE f # p
      BY <1>1, <1>7, <2>2 DEF FiledClosed, Verified, Direct
    <2>. QED
      BY <2>1, <2>2
  <1>12. OneDirectFile'
    <2>. SUFFICES ASSUME NEW f \in Requests, NEW g \in Requests, Exists(f)', Exists(g)',
                         files'[f].key = files'[g].key, session'[files'[f].key].mode = "DIRECT"
                  PROVE  f = g
      BY DEF OneDirectFile, Direct
    <2>1. CASE f # p /\ g # p
      BY <1>7, <2>1 DEF OneDirectFile, Verified, Direct
    <2>2. CASE f = p /\ g # p
      BY <1>2, <1>4, <1>5, <1>7, <2>2 DEF Direct
    <2>3. CASE f # p /\ g = p
      BY <1>2, <1>4, <1>5, <1>7, <2>3 DEF Direct
    <2>. QED
      BY <2>1, <2>2, <2>3
  <1>13. DirectContentVerified'
    <2>. SUFFICES ASSUME NEW f \in Requests, files'[f].status = "ACTIVE",
                         session'[files'[f].key].mode = "DIRECT"
                  PROVE  object'[files'[f].key] = files'[f].hash
      BY DEF DirectContentVerified, ActiveFiles
    <2>1. CASE f = p
      BY <1>1, <1>2, <1>4, <1>5, <2>1 DEF Direct
    <2>2. CASE f # p
      <3>1. Exists(f)' /\ f \in ActiveFiles
        BY <1>2, <2>2 DEF Exists, ActiveFiles
      <3>. QED
        BY <1>1, <1>7, <2>2, <3>1 DEF DirectContentVerified, Verified
    <2>. QED
      BY <2>1, <2>2
  <1>. QED
    BY <1>8, <1>9, <1>10, <1>11, <1>12, <1>13 DEF Verified

\* No other step brings a request past an assembly.
LEMMA AssembledRequest ==
    ASSUME Verified, NEW p \in Requests, RequestStep(p), ~(CompleteAssemble(p) /\ req'[p].pc = "verify")
    PROVE  AssembledKept
  <1>0. TypeOK /\ Handles(p)
    BY DEF Verified, Uploads, Binding
  <1>t. InFlight(p) /\ req[p] \in Request \ {Idle}
    BY <1>0, StepInFlight
  <1>1. ASSUME NEW r, NEW a, Return(p, r, a) PROVE AssembledKept
    BY <1>0, <1>1, ReturnHandles DEF AssembledKept
  <1>2. ASSUME NEW label \in {"fail", "assemble", "cancel"}, Goto(p, label) PROVE AssembledKept
    <2>1. req'[p].pc = label /\ \A q \in Requests \ {p} : req'[q] = req[q]
      BY <1>0, <1>t, <1>2, GotoIs
    <2>. QED
      BY <2>1 DEF AssembledKept, Assembled
  <1>3. ASSUME NEW row, req' = [req EXCEPT ![p].pc = "save", ![p].snap = row] PROVE AssembledKept
    <2>1. /\ req'[p] = [[req[p] EXCEPT !.pc = "save"] EXCEPT !.snap = row]
          /\ \A q \in Requests \ {p} : req'[q] = req[q]
      BY <1>0, <1>3 DEF TypeOK
    <2>2. req'[p].pc = "save"
      BY <1>t, <2>1 DEF Request
    <2>. QED
      BY <2>1, <2>2 DEF AssembledKept, Assembled
  <1>4. CASE CompleteVerify(p)
    <2>1. UNCHANGED session /\ req[p].pc = "verify"
      BY <1>4 DEF CompleteVerify, storeVars
    <2>2. CASE /\ req'[p].pc = "commit" /\ req'[p].s = req[p].s
               /\ object[req[p].s] # Nil /\ req[p].hash \in {Nil, object[req[p].s]}
               /\ req'[p].hash \in {req[p].hash, object[req[p].s]}
               /\ \A q \in Requests \ {p} : req'[q] = req[q]
      <3>1. Assembled(p)' => Assembled(p)
        BY <2>1, <2>2 DEF Assembled, Direct
      <3>2. Assembled(p) => req[p].hash # Nil
        BY <1>0, <1>t, <2>1 DEF Handles, Assembled
      <3>. QED
        BY <2>2, <3>1, <3>2 DEF AssembledKept
    <2>. QED
      BY <1>0, <1>1, <1>2, <1>4, <1>t, <2>2, VerifyIs
  <1>5. CASE CompleteListParts(p)
    BY <1>1, <1>2, <1>5 DEF CompleteListParts
  <1>6. CASE CompleteAssemble(p)
    <2>1. ~Goto(p, "verify")
      BY <1>0, <1>t, <1>6, GotoIs
    <2>. QED
      BY <1>2, <1>6, <2>1 DEF CompleteAssemble
  <1>7. CASE CompleteCommit(p) \/ CompleteFail(p) \/ AbortCancel(p) \/ Interrupt(p)
    BY <1>1, <1>7 DEF CompleteCommit, CompleteFail, AbortCancel, Interrupt
  <1>8. CASE InlinePut(p) \/ ListObserve(p) \/ SaveCopy(p)
    BY <1>1, <1>2, <1>3, <1>8 DEF InlinePut, ListObserve, SaveCopy
  <1>. QED
    BY <1>4, <1>5, <1>6, <1>7, <1>8 DEF RequestStep

\* A job reclaims no object that a DIRECT session needs.
LEMMA ReclaimKeepsDirect ==
    ASSUME Verified, RefCountExact, NEW b \in Requests, Unreferenced(b),
           object' = [object EXCEPT ![blobs[b].key] = Nil]
    PROVE  ObjectsKept
  <1>0. TypeOK
    BY DEF Verified, Uploads, Binding
  <1>1. PICK g \in Requests : Exists(g) /\ files[g].key = blobs[b].key /\ files[g].blob = b
    BY DEF Verified, BlobHasFile, Unreferenced, Exists
  <1>2. \A f \in ActiveFiles : files[f].blob # b
    BY <1>0, UnreferencedNoFile
  <1>. SUFFICES ASSUME NEW s \in Sessions, Direct(s), object'[s] # object[s]
                PROVE  /\ \A f \in ActiveFiles : files[f].key # s
                       /\ \A p \in Requests : Assembled(p) => req[p].s # s
    BY DEF ObjectsKept
  <1>3. s = files[g].key
    BY <1>0, <1>1 DEF TypeOK, StoreTypeOK
  <1>4. ASSUME NEW f \in ActiveFiles, files[f].key = s PROVE FALSE
    <2>1. f = g
      BY <1>1, <1>3, <1>4 DEF Verified, OneDirectFile, Exists, ActiveFiles
    <2>. QED
      BY <1>1, <1>2, <1>4, <2>1
  <1>5. ASSUME NEW p \in Requests, Assembled(p), req[p].s = s PROVE FALSE
    BY <1>1, <1>3, <1>5 DEF Verified, AssembledUnfiled
  <1>. QED
    BY <1>4, <1>5

\* The jobs and the deletion of files.
LEMMA VerifiedJobs ==
    ASSUME Verified, RefCountExact, Uploads', SessionsKept, BlobHasFile', JobsNext
    PROVE  Verified'
  <1>0. TypeOK
    BY DEF Verified, Uploads, Binding
  <1>q. UNCHANGED req => AssembledKept
    BY DEF AssembledKept
  <1>f. UNCHANGED files => FilesOnlyDeleted
    BY DEF FilesOnlyDeleted, Exists
  <1>o. UNCHANGED object => ObjectsKept
    BY DEF ObjectsKept
  <1>1. CASE UNCHANGED <<files, object, req>>
    BY <1>1, <1>f, <1>o, <1>q, VerifiedFrom
  <1>2. ASSUME NEW b \in Requests, Unreferenced(b), ReclaimBlob(b) \/ ReclaimRollback(b)
        PROVE  Verified'
    <2>1. UNCHANGED <<files, req>> /\ object' = [object EXCEPT ![blobs[b].key] = Nil]
      BY <1>2 DEF ReclaimBlob, ReclaimRollback, tables
    <2>. QED
      BY <1>2, <1>f, <1>q, <2>1, ReclaimKeepsDirect, VerifiedFrom
  <1>3. ASSUME NEW f \in Requests, DeleteFile(f)
        PROVE  Verified'
    <2>1. files[f] \in FileRow \ {NoFile} /\ files[f].status = "ACTIVE"
      BY <1>0, <1>3 DEF DeleteFile, TypeOK, StoreTypeOK, FileRow, NoFile
    <2>2. /\ files'[f].status = "DELETED" /\ files'[f].key = files[f].key /\ files'[f].hash = files[f].hash
          /\ \A g \in Requests \ {f} : files'[g] = files[g]
      BY <1>0, <1>3, <2>1 DEF DeleteFile, TypeOK, StoreTypeOK, FileRow
    <2>3. FilesOnlyDeleted
      BY <2>1, <2>2 DEF FilesOnlyDeleted, Exists
    <2>4. UNCHANGED <<object, req>>
      BY <1>3 DEF DeleteFile, provider
    <2>. QED
      BY <1>o, <1>q, <2>3, <2>4, VerifiedFrom
  <1>4. ASSUME NEW f \in Requests, FinalizeDelete(f)
        PROVE  Verified'
    <2>1. files[f].blob \in Requests
      BY <1>0, <1>4 DEF FinalizeDelete, TypeOK, StoreTypeOK, FileRow, NoFile
    <2>. QED
      BY <1>2, <1>4, <2>1 DEF FinalizeDelete
  <1>5. ASSUME NEW b \in Requests, CleanupOrphan(b)
        PROVE  Verified'
    BY <1>2, <1>5 DEF CleanupOrphan
  <1>6. ASSUME NEW s \in Sessions, Expire(s) \/ Repair(s) \/ CleanupMultipart(s) \/ CleanupMultipartRollback(s)
        PROVE  UNCHANGED <<files, object, req>>
    BY <1>6 DEF Expire, Repair, CleanupMultipart, CleanupMultipartRollback, tables, provider
  <1>7. ASSUME ReconcileRead \/ ReconcileWrite PROVE UNCHANGED <<files, object, req>>
    BY <1>7 DEF ReconcileRead, ReconcileWrite, provider
  <1>. QED
    BY <1>1, <1>3, <1>4, <1>5, <1>6, <1>7 DEF JobsNext

\* The requests' steps.
LEMMA VerifiedRequest ==
    ASSUME Verified, Uploads', SessionsKept, BlobHasFile', NEW p \in Requests, RequestStep(p)
    PROVE  Verified'
  <1>0. TypeOK /\ Handles(p)
    BY DEF Verified, Uploads, Binding
  <1>1. CASE CompleteAssemble(p) /\ req'[p].pc = "verify"
    BY <1>1, VerifiedAssemble
  <1>2. CASE CompleteCommit(p) /\ ~UNCHANGED tables
    BY <1>2, VerifiedCommit
  <1>3. CASE ~(CompleteAssemble(p) /\ req'[p].pc = "verify") /\ ~(CompleteCommit(p) /\ ~UNCHANGED tables)
    <2>1. AssembledKept
      BY <1>3, AssembledRequest
    <2>2. UNCHANGED files
      BY <1>3 DEF RequestStep, CompleteListParts, CompleteAssemble, CompleteVerify, CompleteFail,
             InlinePut, ListObserve, SaveCopy, AbortCancel, Interrupt, storeVars, tables
    <2>3. CASE InlinePut(p)
      <3>1. PICK s \in Sessions : s = req[p].s
        BY <1>0, StepInFlight
      <3>2. ~Direct(s) /\ \A r \in Sessions \ {s} : object'[r] = object[r]
        BY <1>0, <2>3, <3>1 DEF InlinePut, Handles, InFlight, TypeOK, StoreTypeOK
      <3>. QED
        BY <2>1, <2>2, <3>2, VerifiedFrom DEF ObjectsKept, FilesOnlyDeleted, Exists
    <2>4. CASE UNCHANGED object
      BY <2>1, <2>2, <2>4, VerifiedFrom DEF ObjectsKept, FilesOnlyDeleted, Exists
    <2>5. CASE CompleteAssemble(p)
      <3>1. ~Goto(p, "verify")
        BY <1>0, <1>3, <2>5, StepInFlight, GotoIs
      <3>. QED
        BY <2>4, <2>5, <3>1 DEF CompleteAssemble
    <2>. QED
      BY <2>3, <2>4, <2>5 DEF RequestStep, CompleteListParts, CompleteVerify, CompleteCommit,
         CompleteFail, ListObserve, SaveCopy, AbortCancel, Interrupt, storeVars, provider
  <1>. QED
    BY <1>1, <1>2, <1>3

\* The invariant on contents holds in the empty service.
LEMMA VerifiedInit == Init => Verified
  <1>. SUFFICES ASSUME Init PROVE Verified
    OBVIOUS
  <1>1. \A p \in Requests : ~Assembled(p)
    BY DEF Init, ServiceInit, Idle, Assembled
  <1>2. \A f \in Requests : ~Exists(f) /\ f \notin ActiveFiles
    BY DEF Init, StoreInit, NoFile, Exists, ActiveFiles
  <1>3. ActiveFiles = {}
    BY <1>2 DEF ActiveFiles
  <1>. QED
    BY <1>1, <1>2, <1>3, UploadsInit, BlobHasFileInit DEF Verified, OneAssembly, AssembledUnfiled,
       AssembledHash, FiledClosed, OneDirectFile, DirectContentVerified

\* Verified is inductive, relative to exact reference counts.
LEMMA VerifiedStep ==
    ASSUME Verified, RefCountExact, [Next]_vars PROVE Verified'
  <1>1. Uploads' /\ SessionsKept
    BY UploadsStep DEF Verified
  <1>2. BlobHasFile'
    BY BlobHasFileStep DEF Verified, Uploads
  <1>3. CASE JobsNext
    BY <1>1, <1>2, <1>3, VerifiedJobs
  <1>4. ASSUME NEW p \in Requests, RequestStep(p) PROVE Verified'
    BY <1>1, <1>2, <1>4, VerifiedRequest
  <1>q. UNCHANGED req => AssembledKept
    BY DEF AssembledKept
  <1>f. UNCHANGED files => FilesOnlyDeleted
    BY DEF FilesOnlyDeleted, Exists
  <1>o. UNCHANGED object => ObjectsKept
    BY DEF ObjectsKept
  <1>5. ASSUME NEW p \in Requests, NEW s \in Sessions, RequestStart(p, s) PROVE Verified'
    <2>1. ~Assembled(p)' /\ \A q \in Requests \ {p} : req'[q] = req[q]
      BY <1>1, <1>5, UploadsStart DEF Verified, Uploads
    <2>2. AssembledKept
      BY <2>1 DEF AssembledKept
    <2>3. ASSUME NEW token, NEW declared, AcquireStep(p, s, token, declared)
          PROVE  UNCHANGED <<files, object>>
      BY <2>3 DEF AcquireStep, provider
    <2>4. ASSUME AbortRead(p, s) \/ InlineRead(p, s) \/ ListRead(p, s)
          PROVE  UNCHANGED <<files, object>>
      BY <2>4 DEF AbortRead, InlineRead, ListRead, ReadInto, storeVars
    <2>5. UNCHANGED <<files, object>>
      BY <1>5, <2>3, <2>4 DEF RequestStart, CompleteStart
    <2>. QED
      BY <1>1, <1>2, <1>f, <1>o, <2>2, <2>5, VerifiedFrom
  <1>6. ASSUME NEW s \in Sessions, SessionStep(s) PROVE Verified'
    <2>1. UNCHANGED <<files, req>>
      BY <1>6 DEF SessionStep, Create, CreateFails, PresignParts, ClientUploadPart, ClientPutObject, tables
    <2>2. ASSUME NEW c, ClientPutObject(s, c) PROVE ObjectsKept
      <3>1. ~Direct(s) /\ \A r \in Sessions \ {s} : object'[r] = object[r]
        BY <2>2 DEF ClientPutObject, Direct, Verified, Uploads, Binding, TypeOK, StoreTypeOK
      <3>. QED
        BY <3>1 DEF ObjectsKept
    <2>3. UNCHANGED object \/ \E c : ClientPutObject(s, c)
      BY <1>6 DEF SessionStep, Create, CreateFails, PresignParts, ClientUploadPart
    <2>. QED
      BY <1>1, <1>2, <1>f, <1>o, <1>q, <2>1, <2>2, <2>3, VerifiedFrom
  <1>7. CASE UNCHANGED vars
    <2>1. UNCHANGED <<files, object, req>>
      BY <1>7 DEF vars
    <2>. QED
      BY <1>1, <1>2, <1>f, <1>o, <1>q, <2>1, VerifiedFrom
  <1>. QED
    BY <1>3, <1>4, <1>5, <1>6, <1>7 DEF Next, ServiceNext

\* The object behind an ACTIVE file of a DIRECT session is the one whose hash
\* CompleteUploadSession verified before it committed the file: nobody writes
\* or reclaims it, however requests, part uploads, jobs and deletions interleave.
THEOREM DirectContentVerifiedAlways ==
    Spec => []DirectContentVerified
  <1>1. Verified => DirectContentVerified
    BY DEF Verified
  <1>2. Verified /\ RefCountExact /\ [Next]_vars => Verified'
    BY VerifiedStep
  <1>. QED
    BY <1>1, <1>2, VerifiedInit, RefCountExactAlways, PTL DEF Spec
==============================================================================
