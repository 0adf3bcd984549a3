--------------------- MODULE FileServiceRegister_proofs ----------------------
(***************************************************************************)
(* When clients let only completions overlap on a session, a session is a  *)
(* write-once register of its file.                                        *)
(*                                                                         *)
(* The argument: only a full-row save of an old copy could unbind a        *)
(* session, and a request that holds a copy is alone on its session.  So   *)
(* the copy's file id is the row's (jobs never change it), and a copy that *)
(* is about to be saved has none.  Completions that overlap are kept apart *)
(* by the commit transaction, which only binds a COMPLETING row.           *)
(*                                                                         *)
(* Under the same discipline every ACTIVE file can be read: the object     *)
(* under its own key is stored.                                            *)
(***************************************************************************)
EXTENDS FileService_proofs

CompleteLabel == {"parts", "assemble", "verify", "commit", "fail"}

\* What a request's local state says about the handler and its session.
Local(p) ==
    /\ req[p].pc # "done" => req[p].res = Nil
    /\ req[p].pc \in CompleteLabel => req[p].op = "complete"
    /\ req[p].pc \in CopyLabel => req[p].op # "complete"
    /\ req[p].pc = "save" => req[p].snap.file = Nil
    /\ InFlight(p) /\ req[p].op # "complete" =>
          req[p].snap.file = session[req[p].s].file

\* Requests that share a session are completions.
Alone ==
    \A p, q \in Requests :
        InFlight(p) /\ InFlight(q) /\ p # q /\ req[p].s = req[q].s =>
            req[p].op = "complete" /\ req[q].op = "complete"

\* A file is the file of the session it was made from.
BoundBack ==
    \A f \in Requests : files[f].status # "ABSENT" => session[files[f].key].file = f

Serial == Binding /\ Alone /\ BoundBack /\ \A p \in Requests : Local(p)

\* The file ids of the rows stay as they are.
FileIdsKept == \A s \in Sessions : session'[s].file = session[s].file

\* The only other thing a step does to file ids and files: a commit of p binds
\* the COMPLETING row of its session to the new file p.
Binds(p) ==
    /\ req[p].pc = "commit"
    /\ session[req[p].s].file = Nil
    /\ session'[req[p].s].file = p
    /\ \A s \in Sessions \ {req[p].s} : session'[s] = session[s]
    /\ files[p].status = "ABSENT"
    /\ files'[p].key = req[p].s
    /\ \A f \in Requests \ {p} : files'[f] = files[f]
    /\ Return(p, req[p].s, p)

\* A row without a file id is not COMPLETED, and conversely.
LEMMA Unbound ==
    ASSUME Binding
    PROVE  /\ \A s \in Sessions : session[s].status = "COMPLETED" <=> session[s].file # Nil
           /\ \A p \in Requests : req[p].snap.status = "COMPLETED" <=> req[p].snap.file # Nil
  BY DEF Binding, CompletedIffBound, SnapshotSound

\* What a step must show about the request it moves for Serial to survive.
LEMMA SerialFrom ==
    ASSUME Serial, Binding', BoundBack', NEW p \in Requests, Local(p)',
           \A q \in Requests \ {p} : req'[q] = req[q],
           \/ ~InFlight(p)'
           \/ InFlight(p) /\ req'[p].s = req[p].s /\ req'[p].op = req[p].op
           \/ \A q \in Requests : InFlight(q) /\ req[q].s = req'[p].s =>
                 req'[p].op = "complete" /\ req[q].op = "complete",
           \A s \in Sessions :
              \/ session'[s].file = session[s].file
              \/ InFlight(p) /\ req[p].op = "complete" /\ s = req[p].s
    PROVE  Serial'
  <1>1. ASSUME NEW q \in Requests \ {p} PROVE Local(q)'
    <2>1. Local(q) /\ req'[q] = req[q]
      BY DEF Serial
    <2>2. InFlight(q) /\ req[q].op # "complete" => session'[req[q].s].file = session[req[q].s].file
      <3>1. InFlight(q) => req[q].s \in Sessions
        BY InFlightType DEF Serial, Binding, InFlight
      <3>. QED
        BY <3>1 DEF Serial, Alone
    <2>. QED
      BY <2>1, <2>2 DEF Local, InFlight
  <1>2. Alone'
    <2>1. ASSUME NEW q \in Requests \ {p}, InFlight(p)', InFlight(q), req'[p].s = req[q].s
          PROVE  req'[p].op = "complete" /\ req[q].op = "complete"
      BY <2>1 DEF Serial, Alone
    <2>. QED
      BY <2>1 DEF Serial, Alone, InFlight
  <1>. QED
    BY <1>1, <1>2 DEF Serial

\* The same for a step that moves no request.
LEMMA SerialQuiet ==
    ASSUME Serial, Binding', BoundBack', UNCHANGED req, FileIdsKept
    PROVE  Serial'
  <1>1. ASSUME NEW q \in Requests PROVE Local(q)'
    <2>1. InFlight(q) => req[q].s \in Sessions
      BY InFlightType DEF Serial, Binding, InFlight
    <2>. QED
      BY <2>1 DEF Serial, Local, InFlight, FileIdsKept
  <1>. QED
    BY <1>1 DEF Serial, Alone, InFlight

\* Files stay bound to their sessions while file ids and keys stay.
LEMMA BackKept ==
    ASSUME Serial, FileIdsKept,
           \A f \in Requests : files'[f].key = files[f].key /\
              (files'[f].status # "ABSENT" => files[f].status # "ABSENT")
    PROVE  BoundBack'
  <1>1. ASSUME NEW f \in Requests, files[f].status # "ABSENT" PROVE files[f].key \in Sessions
    BY <1>1 DEF Serial, Binding, TypeOK, StoreTypeOK, FileRow, NoFile
  <1>. QED
    BY <1>1 DEF Serial, BoundBack, FileIdsKept

\* A full-row write that keeps the file id keeps all of them.
LEMMA SaveKeeps ==
    ASSUME TypeOK, NEW s \in Sessions, NEW row, Save(s, row), row.file = session[s].file
    PROVE  FileIdsKept
  BY DEF Save, FileIdsKept, TypeOK, StoreTypeOK

\* The transitions of domain.Session, but MarkCompleted, keep the file id.
LEMMA RowFile ==
    ASSUME NEW row \in SessionRow
    PROVE  /\ MarkUploading(row).file = row.file
           /\ Abort(row).file = row.file
           /\ \A t : AcquireCompletion(row, t).file = row.file
           /\ MarkFailed(row).file = row.file
           /\ Repaired(row).file = row.file
           /\ [row EXCEPT !.status = "EXPIRED", !.token = Nil].file = row.file
           /\ [row EXCEPT !.upload = FALSE].file = row.file
  BY DEF SessionRow, MarkUploading, Abort, AcquireCompletion, MarkFailed, Repaired

------------------------------------------------------------------------------
\* What one step does: it keeps all file ids and files' keys, or it is a commit.
\* And it leaves COMPLETED rows alone.
LEMMA SerialSession ==
    ASSUME Serial, NEW s \in Sessions, SessionStep(s)
    PROVE  /\ FileIdsKept /\ UNCHANGED <<files, req>>
           /\ \A r \in Sessions : session[r].status = "COMPLETED" => session'[r] = session[r]
  <1>0. TypeOK /\ Binding
    BY DEF Serial, Binding
  <1>1. ASSUME NEW mode, NEW hash, NEW total, Create(s, mode, hash, total)
        PROVE  /\ FileIdsKept
               /\ \A r \in Sessions : session[r].status = "COMPLETED" => session'[r] = session[r]
    <2>1. session[s].file = Nil /\ session[s].status # "COMPLETED"
      BY <1>0, <1>1, Unbound DEF Create
    <2>2. NewSession(mode, hash, total).file = Nil
      BY DEF NewSession
    <2>. QED
      BY <1>0, <1>1, <2>1, <2>2 DEF Create, Save, FileIdsKept, TypeOK, StoreTypeOK
  <1>2. UNCHANGED <<files, req>>
    BY DEF SessionStep, Create, CreateFails, PresignParts, ClientUploadPart, ClientPutObject, tables
  <1>3. UNCHANGED session \/ \E mode, hash, total : Create(s, mode, hash, total)
    BY DEF SessionStep, CreateFails, PresignParts, ClientUploadPart, ClientPutObject, tables
  <1>. QED
    BY <1>1, <1>2, <1>3 DEF FileIdsKept

\* Jobs and deletions keep every file id and answer, make no file, and leave
\* completed rows alone.
LEMMA SerialJobs ==
    ASSUME Serial, JobsNext
    PROVE  /\ FileIdsKept /\ UNCHANGED req
           /\ \A f \in Requests : files'[f].key = files[f].key /\
                 (files'[f].status # "ABSENT" => files[f].status # "ABSENT")
           /\ \A r \in Sessions : session[r].status = "COMPLETED" => session'[r] = session[r]
  <1>0. TypeOK /\ Binding
    BY DEF Serial, Binding
  <1>1. ASSUME NEW s \in Sessions, Expire(s) \/ Repair(s) \/ CleanupMultipart(s)
        PROVE  /\ FileIdsKept /\ UNCHANGED <<req, files>>
               /\ \A r \in Sessions : session[r].status = "COMPLETED" => session'[r] = session[r]
    <2>1. session[s] \in SessionRow
      BY <1>0 DEF TypeOK, StoreTypeOK
    <2>2. PICK row : Save(s, row) /\ row.file = session[s].file
      BY <1>1, <2>1, RowFile DEF Expire, Repair, CleanupMultipart
    <2>3. session[s].status # "COMPLETED"
      BY <1>1 DEF Expire, Repair, CleanupMultipart, Cleanable, Pending, Dead
    <2>4. UNCHANGED <<req, files>>
      BY <1>1 DEF Expire, Repair, CleanupMultipart
    <2>. QED
      BY <1>0, <2>2, <2>3, <2>4, SaveKeeps DEF Save, TypeOK, StoreTypeOK
  <1>2. ASSUME NEW f \in Requests, DeleteFile(f)
        PROVE  /\ UNCHANGED <<session, req>>
               /\ \A g \in Requests : files'[g].key = files[g].key /\
                     (files'[g].status # "ABSENT" => files[g].status # "ABSENT")
    <2>1. files[f] \in FileRow \ {NoFile}
      BY <1>2, <1>0 DEF DeleteFile, TypeOK, StoreTypeOK, FileRow, NoFile
    <2>2. [files[f] EXCEPT !.status = "DELETED"].key = files[f].key /\ files[f].status # "ABSENT"
      BY <2>1, <1>2 DEF FileRow, DeleteFile
    <2>. QED
      BY <1>0, <1>2, <2>2 DEF DeleteFile, TypeOK, StoreTypeOK
  <1>3. ASSUME NEW f \in Requests, FinalizeDelete(f) \/ CleanupOrphan(f)
        PROVE  UNCHANGED <<session, req, files>>
    BY <1>3 DEF FinalizeDelete, CleanupOrphan, ReclaimBlob, ReclaimRollback, tables
  <1>4. ASSUME NEW s \in Sessions, CleanupMultipartRollback(s)
        PROVE  UNCHANGED <<session, req, files>>
    BY <1>4 DEF CleanupMultipartRollback, tables
  <1>5. CASE ReconcileRead \/ ReconcileWrite
    BY <1>5 DEF ReconcileRead, ReconcileWrite, FileIdsKept
  <1>. QED
    BY <1>1, <1>2, <1>3, <1>4, <1>5 DEF JobsNext, FileIdsKept

------------------------------------------------------------------------------
\* No answer changes.
AnswersKept ==
    \A q \in Requests :
        req'[q].res = req[q].res /\ (req[q].res # Nil => req'[q].s = req[q].s)

\* Request p learns the file of session s.
Learns(p, s) ==
    /\ req[p].pc # "done"
    /\ session[s].file # Nil
    /\ Return(p, s, session[s].file)

\* A request that returns without an answer.
LEMMA ReturnNil ==
    ASSUME TypeOK, NEW p \in Requests, Local(p), req[p].pc # "done", NEW s, Return(p, s, Nil)
    PROVE  AnswersKept
  BY DEF TypeOK, Local, Return, Idle, AnswersKept

\* A request that returns has nothing left to be wrong about.
LEMMA ReturnLocal ==
    ASSUME TypeOK, NEW p \in Requests, NEW s, NEW a, Return(p, s, a)
    PROVE  /\ Local(p)' /\ ~InFlight(p)'
           /\ \A q \in Requests \ {p} : req'[q] = req[q]
  BY DEF TypeOK, Return, Idle, Local, InFlight, CompleteLabel, CopyLabel

\* A request starts only beside completions, and then as a completion.
LEMMA StartAlone ==
    ASSUME Overlap \subseteq {"complete"}, NEW p, NEW op, NEW s, MayStart(p, op, s)
    PROVE  \A q \in Requests : InFlight(q) /\ req[q].s = s =>
               op = "complete" /\ req[q].op = "complete"
  BY DEF MayStart

\* A request that arrives keeps the invariant; at most it learns the file of a
\* completed session.
LEMMA SerialStart ==
    ASSUME Overlap \subseteq {"complete"}, Serial, Binding',
           NEW p \in Requests, NEW s \in Sessions, RequestStart(p, s)
    PROVE  /\ Serial'
           /\ FileIdsKept /\ UNCHANGED files
           /\ AnswersKept \/ Learns(p, s)
           /\ \A r \in Sessions : session[r].status = "COMPLETED" => session'[r] = session[r]
  <1>0. /\ TypeOK /\ Binding /\ Local(p)
        /\ session[s] \in SessionRow
    BY DEF Serial, Binding, TypeOK, StoreTypeOK
  <1>1. CASE CompleteStart(p, s)
    <2>1. PICK token \in Keys \cup {p}, declared \in Hash \cup {Malformed} :
              AcquireStep(p, s, token, declared)
      BY <1>1 DEF CompleteStart
    <2>2. UNCHANGED files /\ req[p].pc = "idle" /\ MayStart(p, "complete", s)
      BY <2>1 DEF AcquireStep, MayStart
    <2>3. UNCHANGED session \/ Save(s, AcquireCompletion(session[s], token))
      BY <2>1 DEF AcquireStep
    <2>4. FileIdsKept
      BY <1>0, <2>3, SaveKeeps, RowFile DEF FileIdsKept
    <2>5. \A r \in Sessions : session[r].status = "COMPLETED" => session'[r] = session[r]
      <3>1. session[s].status = "COMPLETED" => AcquireCompletion(session[s], token) = session[s]
        BY DEF AcquireCompletion, Pending
      <3>. QED
        BY <1>0, <2>3, <3>1 DEF Save, TypeOK, StoreTypeOK
    <2>6. BoundBack'
      BY <2>2, <2>4, BackKept
    <2>7. CASE Return(p, s, session[s].file) /\ Ownership(session[s], token) = "ALREADY_DONE"
      <3>1. session[s].status = "COMPLETED"
        BY <2>7 DEF Ownership
      <3>2. Learns(p, s)
        BY <1>0, <2>2, <2>7, <3>1, Unbound DEF Learns
      <3>3. Serial'
        BY <1>0, <2>4, <2>6, <2>7, ReturnLocal, SerialFrom DEF FileIdsKept
      <3>. QED
        BY <2>2, <2>4, <2>5, <3>2, <3>3
    <2>8. CASE \E label \in CompleteLabel : \E h : req' = [req EXCEPT ![p] =
                   [Idle EXCEPT !.op = "complete", !.s = s, !.tok = token,
                                !.gone = DeletedFiles, !.pc = label, !.hash = h]]
      <3>1. PICK label \in CompleteLabel : \E h : req' = [req EXCEPT ![p] =
                   [Idle EXCEPT !.op = "complete", !.s = s, !.tok = token,
                                !.gone = DeletedFiles, !.pc = label, !.hash = h]]
        BY <2>8
      <3>2. /\ \A q \in Requests \ {p} : req'[q] = req[q]
            /\ req'[p].res = Nil /\ req'[p].op = "complete" /\ req'[p].pc = label
            /\ req'[p].s = s
        BY <1>0, <3>1 DEF Idle, TypeOK
      <3>3. Local(p)'
        BY <3>2 DEF Local, CompleteLabel, CopyLabel
      <3>4. AnswersKept
        BY <1>0, <2>2, <3>2 DEF AnswersKept, Local
      <3>5. Serial'
        BY <2>2, <2>4, <2>6, <3>2, <3>3, StartAlone, SerialFrom DEF FileIdsKept
      <3>. QED
        BY <2>2, <2>4, <2>5, <3>4, <3>5
    <2>. QED
      BY <2>1, <2>7, <2>8 DEF AcquireStep, CompleteLabel
  <1>2. ASSUME NEW op, op # "complete", NEW row, row.file = session[s].file,
               NEW label \in CopyLabel, label = "save" => row.file = Nil,
               ReadInto(p, op, s, row, label)
        PROVE  /\ Serial'
               /\ FileIdsKept /\ UNCHANGED files
               /\ AnswersKept
               /\ UNCHANGED session
    <2>1. UNCHANGED <<files, session>> /\ req[p].pc = "idle" /\ MayStart(p, op, s)
      BY <1>2 DEF ReadInto, MayStart, storeVars
    <2>2. /\ \A q \in Requests \ {p} : req'[q] = req[q]
          /\ req'[p].snap = row /\ req'[p].s = s /\ req'[p].res = Nil
          /\ req'[p].op = op /\ req'[p].pc = label
      BY <1>0, <1>2 DEF ReadInto, Idle, TypeOK
    <2>3. Local(p)'
      BY <1>2, <2>1, <2>2 DEF Local, CompleteLabel, CopyLabel
    <2>4. FileIdsKept
      BY <2>1 DEF FileIdsKept
    <2>5. AnswersKept
      BY <1>0, <2>1, <2>2 DEF AnswersKept, Local
    <2>6. BoundBack'
      BY <2>1, <2>4, BackKept
    <2>7. Serial'
      BY <2>1, <2>2, <2>3, <2>4, <2>6, StartAlone, SerialFrom DEF FileIdsKept
    <2>. QED
      BY <2>1, <2>4, <2>5, <2>7
  <1>3. CASE AbortRead(p, s)
    <2>1. session[s].file = Nil
      BY <1>0, <1>3, Unbound DEF AbortRead, MayAbort, Pending, Dead
    <2>. QED
      BY <1>0, <1>2, <1>3, <2>1, RowFile DEF AbortRead, CopyLabel
  <1>4. CASE InlineRead(p, s)
    BY <1>2, <1>4 DEF InlineRead, CopyLabel
  <1>5. CASE ListRead(p, s)
    BY <1>2, <1>5 DEF ListRead, CopyLabel
  <1>. QED
    BY <1>1, <1>3, <1>4, <1>5 DEF RequestStart

\* A step of a request keeps all file ids and answers, learns the file of its
\* session, or is the commit that binds it; it never changes a completed row.
LEMMA SerialRequest ==
    ASSUME Serial, Binding', NEW p \in Requests, RequestStep(p)
    PROVE  /\ Serial'
           /\ \/ /\ FileIdsKept /\ UNCHANGED files
                 /\ AnswersKept \/ Learns(p, req[p].s)
              \/ Binds(p)
           /\ \A r \in Sessions : session[r].status = "COMPLETED" => session'[r] = session[r]
  <1>. DEFINE s == req[p].s
              Final == \A r \in Sessions : session[r].status = "COMPLETED" => session'[r] = session[r]
              Kept == FileIdsKept /\ UNCHANGED files
  <1>0. /\ InFlight(p) /\ req[p].pc # "idle" /\ req[p].pc # "done"
        /\ TypeOK /\ Binding /\ Local(p)
    BY DEF RequestStep, CompleteListParts, CompleteAssemble, CompleteVerify, CompleteCommit,
           CompleteFail, InlinePut, ListObserve, SaveCopy, AbortCancel, Interrupt, InFlight,
           Serial, Binding
  <1>t. /\ s \in Sessions
        /\ req[p].snap \in SessionRow
        /\ session[s] \in SessionRow
        /\ req[p] \in Request \ {Idle}
    BY <1>0, InFlightType DEF Idle, TypeOK
  <1>k. UNCHANGED <<files, session>> => Kept /\ Final
    BY DEF FileIdsKept
  \* p returns without an answer, or jumps within its handler.
  <1>r. ASSUME Kept, Return(p, s, Nil)
        PROVE  Serial' /\ AnswersKept
    BY <1>0, <1>r, ReturnLocal, ReturnNil, BackKept, SerialFrom DEF FileIdsKept
  <1>g. ASSUME Kept, NEW label, Goto(p, label),
               \/ req[p].pc \in CompleteLabel /\ label \in CompleteLabel
               \/ req[p].pc \in CopyLabel /\ label = "cancel"
        PROVE  Serial' /\ AnswersKept
    <2>1. req'[p] = [req[p] EXCEPT !.pc = label] /\ \A q \in Requests \ {p} : req'[q] = req[q]
      BY <1>0, <1>g DEF Goto, TypeOK
    <2>2. /\ req'[p].pc = label /\ req'[p].s = s /\ req'[p].op = req[p].op
          /\ req'[p].res = req[p].res /\ req'[p].snap = req[p].snap
      BY <1>t, <2>1 DEF Request
    <2>3. Local(p)'
      BY <1>0, <1>g, <1>t, <2>2 DEF Local, CompleteLabel, CopyLabel, InFlight, FileIdsKept
    <2>4. AnswersKept
      BY <2>1, <2>2 DEF AnswersKept
    <2>. QED
      BY <1>0, <1>g, <2>1, <2>2, <2>3, <2>4, BackKept, SerialFrom DEF FileIdsKept
  \* p marks its copy as uploading.
  <1>u. ASSUME UNCHANGED <<files, session>>, req[p].snap.status \in Pending,
               req[p].pc \in CopyLabel,
               req' = [req EXCEPT ![p].pc = "save", ![p].snap = MarkUploading(req[p].snap)]
        PROVE  Serial' /\ AnswersKept
    <2>1. /\ req'[p] = [[req[p] EXCEPT !.pc = "save"] EXCEPT !.snap = MarkUploading(req[p].snap)]
          /\ \A q \in Requests \ {p} : req'[q] = req[q]
      BY <1>0, <1>u DEF TypeOK
    <2>2. /\ req'[p].pc = "save" /\ req'[p].s = s /\ req'[p].op = req[p].op
          /\ req'[p].res = req[p].res /\ req'[p].snap = MarkUploading(req[p].snap)
      BY <1>t, <2>1 DEF Request
    <2>3. req'[p].snap.file = Nil /\ req[p].snap.file = Nil
      BY <1>0, <1>t, <1>u, <2>2, Unbound, RowFile DEF Pending
    <2>4. Local(p)'
      BY <1>0, <1>u, <1>t, <2>2, <2>3 DEF Local, CompleteLabel, CopyLabel, InFlight
    <2>5. AnswersKept
      BY <2>1, <2>2 DEF AnswersKept
    <2>. QED
      BY <1>0, <1>k, <1>u, <2>1, <2>2, <2>4, <2>5, BackKept, SerialFrom DEF FileIdsKept
  <1>1. CASE CompleteListParts(p)
    BY <1>1, <1>k, <1>r, <1>g DEF CompleteListParts, storeVars, CompleteLabel
  <1>2. CASE CompleteAssemble(p)
    BY <1>2, <1>k, <1>g DEF CompleteAssemble, tables, CompleteLabel
  <1>3. CASE CompleteVerify(p)
    <2>1. UNCHANGED <<files, session>> /\ req[p].pc = "verify"
      BY <1>3 DEF CompleteVerify, storeVars
    <2>2. CASE \E canonical, hit : req' = [req EXCEPT ![p].pc = "commit",
                                            ![p].hash = canonical, ![p].hit = hit]
      <3>1. PICK canonical, hit : req' = [req EXCEPT ![p].pc = "commit",
                                            ![p].hash = canonical, ![p].hit = hit]
        BY <2>2
      <3>2. /\ req'[p] = [[[req[p] EXCEPT !.pc = "commit"] EXCEPT !.hash = canonical]
                             EXCEPT !.hit = hit]
            /\ \A q \in Requests \ {p} : req'[q] = req[q]
        BY <3>1, <1>0 DEF TypeOK
      <3>3. /\ req'[p].pc = "commit" /\ req'[p].s = s /\ req'[p].op = req[p].op
            /\ req'[p].res = req[p].res
        BY <3>2, <1>t DEF Request
      <3>4. Local(p)' /\ req[p].op = "complete"
        BY <1>0, <2>1, <3>3 DEF Local, CompleteLabel, CopyLabel, InFlight
      <3>5. AnswersKept
        BY <3>2, <3>3 DEF AnswersKept
      <3>6. Serial'
        BY <1>0, <1>k, <2>1, <3>2, <3>3, <3>4, BackKept, SerialFrom DEF FileIdsKept
      <3>. QED
        BY <1>k, <2>1, <3>5, <3>6
    <2>3. CASE Return(p, s, Nil) \/ Goto(p, "fail")
      BY <2>1, <2>3, <1>k, <1>r, <1>g DEF CompleteLabel
    <2>4. \/ Return(p, s, Nil) \/ Goto(p, "fail")
          \/ \E canonical, hit : req' = [req EXCEPT ![p].pc = "commit",
                                            ![p].hash = canonical, ![p].hit = hit]
      BY <1>3, Zenon DEF CompleteVerify
    <2>. QED
      BY <2>2, <2>3, <2>4
  <1>4. CASE CompleteCommit(p)
    <2>0. req[p].pc = "commit"
      BY <1>4 DEF CompleteCommit
    <2>1. CASE UNCHANGED tables /\ Return(p, s, Nil)
      BY <2>1, <1>k, <1>r DEF tables
    <2>2. CASE UNCHANGED tables /\ session[s].status = "COMPLETED" /\ Return(p, s, session[s].file)
      <3>1. UNCHANGED <<files, session>>
        BY <2>2 DEF tables
      <3>2. Learns(p, s)
        BY <1>0, <1>t, <2>2, Unbound DEF Learns
      <3>3. Serial'
        BY <1>0, <1>k, <2>2, <3>1, ReturnLocal, BackKept, SerialFrom DEF FileIdsKept
      <3>. QED
        BY <1>k, <3>1, <3>2, <3>3
    <2>3. ASSUME NEW b, session[s].status = "COMPLETING",
                 CreateFileAsset(p, s, b, req[p].hash),
                 Save(s, MarkCompleted(session[s], p)), Return(p, s, p)
          PROVE  Serial' /\ Binds(p) /\ Final
      <3>1. files[p].status = "ABSENT"
        BY <1>0 DEF Binding, FreshIds
      <3>2. /\ files'[p].key = s /\ files'[p].status = "ACTIVE"
            /\ \A f \in Requests \ {p} : files'[f] = files[f]
        BY <2>3, <1>0 DEF CreateFileAsset, TypeOK, StoreTypeOK
      <3>3. session[s].file = Nil
        BY <1>0, <1>t, <2>3, Unbound
      <3>4. MarkCompleted(session[s], p).file = p
        BY <1>t DEF MarkCompleted, SessionRow
      <3>5. /\ session'[s].file = p
            /\ \A r \in Sessions \ {s} : session'[r] = session[r]
        BY <1>0, <1>t, <2>3, <3>4 DEF Save, TypeOK, StoreTypeOK
      <3>6. Binds(p)
        BY <2>0, <2>3, <3>1, <3>2, <3>3, <3>5 DEF Binds
      <3>7. BoundBack'
        <4>1. ASSUME NEW f \in Requests \ {p}, files[f].status # "ABSENT"
              PROVE  files[f].key \in Sessions \ {s} /\ session[files[f].key].file = f
          <5>1. files[f].key \in Sessions
            BY <4>1, <1>0 DEF TypeOK, StoreTypeOK, FileRow, NoFile
          <5>2. session[files[f].key].file = f
            BY <4>1 DEF Serial, BoundBack
          <5>. QED
            BY <3>3, <5>1, <5>2, StoreAssumption DEF StoreAssumption
        <4>. QED
          BY <3>2, <3>5, <4>1 DEF BoundBack
      <3>8. req[p].op = "complete"
        BY <1>0, <2>0 DEF Local, CompleteLabel
      <3>9. Serial'
        BY <1>0, <2>3, <3>5, <3>7, <3>8, ReturnLocal, SerialFrom
      <3>10. Final
        BY <2>3, <3>5
      <3>. QED
        BY <3>6, <3>9, <3>10
    <2>. QED
      BY <1>4, <2>1, <2>2, <2>3 DEF CompleteCommit
  <1>5. CASE CompleteFail(p)
    <2>1. UNCHANGED files /\ Return(p, s, Nil)
      BY <1>5 DEF CompleteFail
    <2>2. \/ UNCHANGED session
          \/ session[s].status = "COMPLETING" /\ Save(s, MarkFailed(session[s]))
      BY <1>5 DEF CompleteFail
    <2>3. FileIdsKept
      BY <1>0, <1>t, <2>2, SaveKeeps, RowFile DEF FileIdsKept
    <2>4. Final
      BY <1>0, <1>t, <2>2 DEF Save, TypeOK, StoreTypeOK
    <2>. QED
      BY <2>1, <2>3, <2>4, <1>r
  <1>6. CASE InlinePut(p)
    BY <1>6, <1>k, <1>r, <1>u DEF InlinePut, tables, CopyLabel
  <1>7. CASE ListObserve(p)
    BY <1>7, <1>k, <1>r, <1>u DEF ListObserve, storeVars, CopyLabel
  <1>8. CASE SaveCopy(p)
    <2>1. UNCHANGED files /\ Save(s, req[p].snap) /\ req[p].pc = "save"
      BY <1>8 DEF SaveCopy
    <2>2. req[p].snap.file = session[s].file /\ session[s].file = Nil
      BY <1>0, <2>1 DEF Local, CopyLabel
    <2>3. FileIdsKept
      BY <1>0, <1>t, <2>1, <2>2, SaveKeeps
    <2>4. Final
      BY <1>0, <1>t, <2>1, <2>2, Unbound DEF Save, TypeOK, StoreTypeOK
    <2>. QED
      BY <1>8, <2>1, <2>3, <2>4, <1>r, <1>g DEF SaveCopy, CopyLabel
  <1>9. CASE AbortCancel(p)
    BY <1>9, <1>k, <1>r DEF AbortCancel, tables
  <1>10. CASE Interrupt(p)
    BY <1>10, <1>k, <1>r DEF Interrupt, storeVars
  <1>. QED
    BY <1>1, <1>2, <1>3, <1>4, <1>5, <1>6, <1>7, <1>8, <1>9, <1>10 DEF RequestStep
------------------------------------------------------------------------------
\* The invariant holds before the first request.
LEMMA SerialInit == Init => Serial
  <1>. SUFFICES ASSUME Init PROVE Serial
    OBVIOUS
  <1>1. \A p \in Requests : req[p] = Idle
    BY DEF Init, ServiceInit
  <1>2. \A f \in Requests : files[f].status = "ABSENT"
    BY DEF Init, StoreInit, NoFile
  <1>3. Alone /\ \A p \in Requests : Local(p)
    BY <1>1 DEF Alone, Local, InFlight, Idle, CompleteLabel, CopyLabel
  <1>. QED
    BY <1>2, <1>3, BindingInit DEF Serial, BoundBack

\* Everything the theorems need of one step.
LEMMA SerialStep ==
    ASSUME Overlap \subseteq {"complete"}, Serial, [Next]_vars
    PROVE  /\ Serial'
           /\ \A r \in Sessions : session[r].status = "COMPLETED" => session'[r] = session[r]
           /\ \/ FileIdsKept /\ AnswersKept
              \/ \E p \in Requests, s \in Sessions : FileIdsKept /\ Learns(p, s)
              \/ \E p \in Requests : Binds(p)
  <1>0. Binding /\ TypeOK /\ Binding'
    BY BindingStep DEF Serial, Binding
  <1>q. UNCHANGED req => AnswersKept
    BY DEF AnswersKept
  <1>1. CASE UNCHANGED vars
    <2>1. UNCHANGED <<session, files, req>> /\ FileIdsKept
      BY <1>1 DEF vars, FileIdsKept
    <2>. QED
      BY <1>0, <1>q, <2>1, BackKept, SerialQuiet
  <1>2. CASE JobsNext
    BY <1>0, <1>2, <1>q, SerialJobs, BackKept, SerialQuiet
  <1>3. ASSUME NEW s \in Sessions, SessionStep(s)
        PROVE  /\ Serial' /\ FileIdsKept /\ AnswersKept
               /\ \A r \in Sessions : session[r].status = "COMPLETED" => session'[r] = session[r]
    BY <1>0, <1>3, <1>q, SerialSession, BackKept, SerialQuiet
  <1>4. ASSUME NEW p \in Requests, NEW s \in Sessions, RequestStart(p, s)
        PROVE  /\ Serial' /\ FileIdsKept /\ (AnswersKept \/ Learns(p, s))
               /\ \A r \in Sessions : session[r].status = "COMPLETED" => session'[r] = session[r]
    BY <1>0, <1>4, SerialStart
  <1>5. ASSUME NEW p \in Requests, RequestStep(p)
        PROVE  /\ Serial'
               /\ (FileIdsKept /\ (AnswersKept \/ Learns(p, req[p].s))) \/ Binds(p)
               /\ req[p].s \in Sessions
               /\ \A r \in Sessions : session[r].status = "COMPLETED" => session'[r] = session[r]
    <2>1. InFlight(p)
      BY <1>5 DEF RequestStep, CompleteListParts, CompleteAssemble, CompleteVerify,
           CompleteCommit, CompleteFail, InlinePut, ListObserve, SaveCopy, AbortCancel,
           Interrupt, InFlight
    <2>2. req[p].s \in Sessions
      BY <1>0, <2>1, InFlightType DEF InFlight
    <2>. QED
      BY <1>0, <1>5, <2>2, SerialRequest
  <1>. QED
    BY <1>1, <1>2, <1>3, <1>4, <1>5 DEF Next, ServiceNext

\* One upload session ends in at most one file, for any number of sessions,
\* requests, jobs and deletions: if clients let only completions overlap on a
\* session, two files never have the same key (phase C of CompleteUploadSession).
THEOREM OneFilePerSessionWhenSerial ==
    Overlap \subseteq {"complete"} => (Spec => []OneFilePerSession)
  <1>. SUFFICES ASSUME Overlap \subseteq {"complete"} PROVE Spec => []OneFilePerSession
    OBVIOUS
  <1>1. Serial => OneFilePerSession
    <2>. SUFFICES ASSUME Serial, NEW f \in Requests, NEW g \in Requests,
                         files[f].status # "ABSENT", files[f].key = files[g].key
                  PROVE  f = g
      BY DEF OneFilePerSession
    <2>1. files[f].key # Nil
      BY StoreAssumption DEF StoreAssumption, Serial, Binding, TypeOK, StoreTypeOK, FileRow, NoFile
    <2>2. files[g].status # "ABSENT"
      BY <2>1 DEF Serial, Binding, TypeOK, StoreTypeOK, FileRow, NoFile
    <2>. QED
      BY <2>2 DEF Serial, BoundBack
  <1>. QED
    BY <1>1, SerialInit, SerialStep, PTL DEF Spec

\* No handler and no job changes the row of a completed session again, if
\* clients let only completions overlap on a session: the full-row Save of the
\* other handlers always writes a copy that is not stale in its file id.
THEOREM CompletedIsFinalWhenSerial ==
    Overlap \subseteq {"complete"} => (Spec => CompletedIsFinal)
  <1>. SUFFICES ASSUME Overlap \subseteq {"complete"} PROVE Spec => CompletedIsFinal
    OBVIOUS
  <1>1. Serial /\ [Next]_vars =>
            [\A s \in Sessions : session[s].status = "COMPLETED" => session'[s] = session[s]]_vars
    BY SerialStep
  <1>. QED
    BY <1>1, SerialInit, SerialStep, PTL DEF Spec, CompletedIsFinal

\* The completion of sessions implements the write-once register, if clients
\* let only completions overlap on a session: a commit chooses the file once,
\* and every other answer of CompleteUploadSession repeats the choice.
THEOREM CompletionImplementsRegister ==
    Overlap \subseteq {"complete"} => (Spec => RegisterSpec)
  <1>. SUFFICES ASSUME Overlap \subseteq {"complete"} PROVE Spec => RegisterSpec
    OBVIOUS
  <1>. DEFINE chosen == [s \in Sessions |-> session[s].file]
              answer == [p \in Requests |->
                            IF req[p].res # Nil THEN <<req[p].s, req[p].res>> ELSE Nil]
  <1>1. Init => Register!Init
    <2>. SUFFICES ASSUME Init PROVE Register!Init
      OBVIOUS
    <2>1. \A s \in Sessions : session[s].file = Nil
      BY DEF Init, StoreInit, NoSession
    <2>2. \A p \in Requests : req[p].res = Nil
      BY DEF Init, ServiceInit, Idle
    <2>. QED
      BY <2>1, <2>2 DEF Register!Init
  <1>2. Serial /\ [Next]_vars => [Register!Next]_(Register!vars)
    <2>. SUFFICES ASSUME Serial, [Next]_vars PROVE [Register!Next]_(Register!vars)
      OBVIOUS
    <2>0. TypeOK /\ \A p \in Requests : Local(p)
      BY DEF Serial, Binding
    <2>1. CASE FileIdsKept /\ AnswersKept
      <3>1. chosen' = chosen
        BY <2>1 DEF FileIdsKept
      <3>2. answer' = answer
        BY <2>1 DEF AnswersKept
      <3>. QED
        BY <3>1, <3>2 DEF Register!vars
    <2>2. ASSUME NEW p \in Requests, NEW s \in Sessions, FileIdsKept, Learns(p, s)
          PROVE  Register!Learn(p, s)
      <3>1. chosen' = chosen /\ chosen[s] = session[s].file
        BY <2>2 DEF FileIdsKept
      <3>2. /\ req'[p].res = session[s].file /\ req'[p].s = s /\ req[p].res = Nil
            /\ \A q \in Requests \ {p} : req'[q] = req[q]
        BY <2>0, <2>2 DEF Learns, Return, Idle, TypeOK, Local
      <3>3. session[s].file # Nil
        BY <2>2 DEF Learns
      <3>4. answer' = [answer EXCEPT ![p] = <<s, chosen[s]>>]
        BY <3>1, <3>2, <3>3
      <3>. QED
        BY <3>1, <3>2, <3>3, <3>4 DEF Register!Learn
    <2>3. ASSUME NEW p \in Requests, NEW s \in Sessions, s = req[p].s, Binds(p)
          PROVE  Register!Choose(p, s)
      <3>1. chosen' = [chosen EXCEPT ![s] = p] /\ chosen[s] = Nil
        BY <2>3 DEF Binds
      <3>2. /\ req'[p].res = p /\ req'[p].s = s /\ req[p].res = Nil
            /\ \A q \in Requests \ {p} : req'[q] = req[q]
        BY <2>0, <2>3 DEF Binds, Return, Idle, TypeOK, Local
      <3>3. p # Nil
        BY StoreAssumption DEF StoreAssumption
      <3>4. answer' = [answer EXCEPT ![p] = <<s, p>>]
        BY <3>2, <3>3
      <3>. QED
        BY <3>1, <3>2, <3>4 DEF Register!Choose
    <2>4. \/ FileIdsKept /\ AnswersKept
          \/ \E p \in Requests, s \in Sessions : FileIdsKept /\ Learns(p, s)
          \/ \E p \in Requests : Binds(p)
      BY SerialStep
    <2>5. CASE \E p \in Requests, s \in Sessions : FileIdsKept /\ Learns(p, s)
      <3>1. \E p \in Requests, s \in Sessions : Register!Learn(p, s)
        BY <2>2, <2>5
      <3>2. Register!Next
        BY <3>1 DEF Register!Next
      <3>. QED
        BY <3>2
    <2>6. CASE \E p \in Requests : Binds(p)
      <3>1. \E p \in Requests, s \in Sessions : Register!Choose(p, s)
        <4>1. PICK p \in Requests : Binds(p)
          BY <2>6
        <4>2. PICK s \in Sessions : s = req[p].s
          BY <2>0, <4>1, InFlightType DEF Binds
        <4>. QED
          BY <2>3, <4>1, <4>2
      <3>2. Register!Next
        BY <3>1 DEF Register!Next
      <3>. QED
        BY <3>2
    <2>. QED
      BY <2>1, <2>4, <2>5, <2>6
  <1>. QED
    BY <1>1, <1>2, SerialInit, SerialStep, PTL DEF Spec, RegisterSpec, Register!Spec

------------------------------------------------------------------------------
(***************************************************************************)
(* Readable files.  A session has one file, so the key of a blob that a    *)
(* job may reclaim is the key of a DELETED file and of no other, and the   *)
(* session under that key is bound: no commit will make a file of it.      *)
(***************************************************************************)

\* What is about to be committed is stored.
CommitStored ==
    \A p \in Requests :
        req[p].pc = "commit" /\ session[req[p].s].file = Nil => object[req[p].s] # Nil

Stored == Serial /\ BlobHasFile /\ CommitStored /\ ActiveFileReadable

ObjectsStay == \A s \in Sessions : object[s] # Nil => object'[s] # Nil

\* Only the jobs delete objects.
LEMMA OnlyReclaimDeletes ==
    ASSUME TypeOK, [Next]_vars
    PROVE  \/ ObjectsStay
           \/ \E b \in Requests : /\ Unreferenced(b) /\ UNCHANGED <<session, files, req>>
                                  /\ object' = [object EXCEPT ![blobs[b].key] = Nil]
  <1>0. \A c \in Contents : c # Nil
    BY StoreAssumption DEF StoreAssumption
  <1>p. ASSUME NEW s, NEW c \in Contents, object' = [object EXCEPT ![s] = c] PROVE ObjectsStay
    BY <1>0, <1>p DEF ObjectsStay, TypeOK, StoreTypeOK
  <1>u. UNCHANGED object => ObjectsStay
    BY DEF ObjectsStay
  <1>1. ASSUME NEW s \in Sessions, SessionStep(s) PROVE ObjectsStay
    BY <1>1, <1>p, <1>u DEF SessionStep, Create, CreateFails, PresignParts, ClientUploadPart, ClientPutObject
  <1>2. ASSUME NEW p, NEW s, NEW token, NEW declared, AcquireStep(p, s, token, declared)
        PROVE  ObjectsStay
    BY <1>2, <1>u DEF AcquireStep, provider
  <1>3. ASSUME NEW p, NEW s, AbortRead(p, s) \/ InlineRead(p, s) \/ ListRead(p, s)
        PROVE  ObjectsStay
    BY <1>3, <1>u DEF AbortRead, InlineRead, ListRead, ReadInto, storeVars
  <1>4. ASSUME NEW p \in Requests, CompleteAssemble(p) \/ InlinePut(p) PROVE ObjectsStay
    BY <1>4, <1>p, <1>u DEF CompleteAssemble, InlinePut
  <1>5. ASSUME NEW p \in Requests, RequestStep(p), ~CompleteAssemble(p), ~InlinePut(p) PROVE ObjectsStay
    BY <1>5, <1>u DEF RequestStep, CompleteListParts, CompleteVerify, CompleteCommit, CompleteFail,
       ListObserve, SaveCopy, AbortCancel, Interrupt, storeVars, provider
  <1>6. ASSUME NEW b \in Requests, Unreferenced(b), ReclaimBlob(b) \/ ReclaimRollback(b)
        PROVE  /\ Unreferenced(b) /\ UNCHANGED <<session, files, req>>
               /\ object' = [object EXCEPT ![blobs[b].key] = Nil]
    BY <1>6 DEF ReclaimBlob, ReclaimRollback, tables
  <1>7. ASSUME NEW f \in Requests, FinalizeDelete(f)
        PROVE  \E b \in Requests : Unreferenced(b) /\ (ReclaimBlob(b) \/ ReclaimRollback(b))
    <2>1. files[f].blob \in Requests
      BY <1>7 DEF FinalizeDelete, TypeOK, StoreTypeOK, FileRow, NoFile
    <2>. QED
      BY <1>7, <2>1 DEF FinalizeDelete
  <1>8. ASSUME NEW b \in Requests, CleanupOrphan(b)
        PROVE  Unreferenced(b) /\ (ReclaimBlob(b) \/ ReclaimRollback(b))
    BY <1>8 DEF CleanupOrphan
  <1>9. ASSUME \/ \E s \in Sessions : \/ Expire(s) \/ Repair(s)
                                     \/ CleanupMultipart(s) \/ CleanupMultipartRollback(s)
               \/ \E f \in Requests : DeleteFile(f)
               \/ ReconcileRead \/ ReconcileWrite
        PROVE  ObjectsStay
    BY <1>9, <1>u DEF Expire, Repair, CleanupMultipart, CleanupMultipartRollback, DeleteFile,
       ReconcileRead, ReconcileWrite, provider
  <1>10. CASE UNCHANGED vars
    BY <1>10, <1>u DEF vars
  <1>. QED
    BY <1>1, <1>2, <1>3, <1>4, <1>5, <1>6, <1>7, <1>8, <1>9, <1>10
       DEF Next, ServiceNext, JobsNext, RequestStart, CompleteStart

\* A request comes to its commit only by finding the object.
LEMMA CommitReached ==
    ASSUME TypeOK, [Next]_vars, NEW p \in Requests, req'[p].pc = "commit"
    PROVE  \/ req'[p] = req[p]
           \/ /\ req[p].s \in Sessions /\ req'[p].s = req[p].s /\ object[req[p].s] # Nil
              /\ UNCHANGED session
  <1>1. CASE UNCHANGED req
    BY <1>1
  <1>2. ASSUME NEW q \in Requests, RequestStep(q) PROVE req'[p] = req[p] \/ (q = p /\ CompleteVerify(p))
    <2>0. req[q] \in Request \ {Idle}
      BY <1>2, StepInFlight
    <2>1. ASSUME NEW r, NEW a, Return(q, r, a) PROVE req'[p] = req[p]
      BY <2>1, ReturnSound
    <2>2. ASSUME NEW label \in {"fail", "assemble", "verify", "cancel"}, Goto(q, label) PROVE req'[p] = req[p]
      BY <2>0, <2>2, GotoIs
    <2>3. ASSUME NEW row, req' = [req EXCEPT ![q].pc = "save", ![q].snap = row] PROVE req'[p] = req[p]
      <3>1. /\ req'[q] = [[req[q] EXCEPT !.pc = "save"] EXCEPT !.snap = row]
            /\ \A r \in Requests \ {q} : req'[r] = req[r]
        BY <2>3 DEF TypeOK
      <3>2. req'[q].pc = "save"
        BY <2>0, <3>1 DEF Request
      <3>. QED
        BY <3>1, <3>2
    <2>4. CASE CompleteVerify(q)
      BY <2>0, <2>1, <2>2, <2>4, VerifyIs
    <2>5. CASE CompleteListParts(q) \/ CompleteAssemble(q)
      BY <2>1, <2>2, <2>5 DEF CompleteListParts, CompleteAssemble
    <2>6. CASE CompleteCommit(q) \/ CompleteFail(q) \/ AbortCancel(q) \/ Interrupt(q)
      BY <2>1, <2>6 DEF CompleteCommit, CompleteFail, AbortCancel, Interrupt
    <2>7. CASE InlinePut(q) \/ ListObserve(q) \/ SaveCopy(q)
      BY <2>1, <2>2, <2>3, <2>7 DEF InlinePut, ListObserve, SaveCopy
    <2>. QED
      BY <1>2, <2>4, <2>5, <2>6, <2>7 DEF RequestStep
  <1>3. ASSUME RequestStep(p), CompleteVerify(p), req'[p] # req[p]
        PROVE  /\ req[p].s \in Sessions /\ req'[p].s = req[p].s /\ object[req[p].s] # Nil
               /\ UNCHANGED session
    <2>1. req[p] \in Request \ {Idle} /\ req[p].s \in Sessions
      BY <1>3, StepInFlight
    <2>2. ~Return(p, req[p].s, Nil) /\ ~Goto(p, "fail")
      BY <2>1, ReturnSound, GotoIs
    <2>3. UNCHANGED session
      BY <1>3 DEF CompleteVerify, storeVars
    <2>. QED
      BY <1>3, <2>1, <2>2, <2>3, VerifyIs
  <1>4. ASSUME NEW q \in Requests, NEW s \in Sessions, RequestStart(q, s) PROVE req'[p] = req[p]
    <2>1. ASSUME NEW token, NEW declared, AcquireStep(q, s, token, declared) PROVE req'[p] = req[p]
      <3>1. CASE Return(q, s, session[s].file)
        BY <3>1, ReturnSound
      <3>2. CASE \E label \in {"fail", "parts", "verify"} : \E h : req' = [req EXCEPT ![q] =
                   [Idle EXCEPT !.op = "complete", !.s = s, !.tok = token,
                                !.gone = DeletedFiles, !.pc = label, !.hash = h]]
        BY <3>2 DEF Idle, TypeOK
      <3>. QED
        BY <2>1, <3>1, <3>2 DEF AcquireStep
    <2>2. ASSUME NEW op, NEW row, NEW label \in {"save", "put", "observe"}, ReadInto(q, op, s, row, label)
          PROVE  req'[p] = req[p]
      BY <2>2 DEF ReadInto, Idle, TypeOK
    <2>. QED
      BY <1>4, <2>1, <2>2 DEF RequestStart, CompleteStart, AbortRead, InlineRead, ListRead
  <1>5. ASSUME NEW s \in Sessions, SessionStep(s) PROVE UNCHANGED req
    BY <1>5 DEF SessionStep, Create, CreateFails, PresignParts, ClientUploadPart, ClientPutObject
  <1>6. ASSUME JobsNext PROVE UNCHANGED req
    BY <1>6 DEF JobsNext, Expire, Repair, CleanupMultipart, CleanupMultipartRollback, FinalizeDelete,
       CleanupOrphan, ReclaimBlob, ReclaimRollback, DeleteFile, ReconcileRead, ReconcileWrite
  <1>7. CASE UNCHANGED vars
    BY <1>1, <1>7 DEF vars
  <1>. QED
    BY <1>1, <1>2, <1>3, <1>4, <1>5, <1>6, <1>7 DEF Next, ServiceNext

\* A job that reclaims a blob takes no object that is needed.
LEMMA StoredReclaim ==
    ASSUME Stored, RefCountExact, NEW b \in Requests, Unreferenced(b), UNCHANGED <<session, files, req>>,
           object' = [object EXCEPT ![blobs[b].key] = Nil]
    PROVE  CommitStored' /\ ActiveFileReadable'
  <1>0. TypeOK
    BY DEF Stored, Serial, Binding
  <1>1. PICK g \in Requests : Exists(g) /\ files[g].key = blobs[b].key /\ files[g].blob = b
    BY DEF Stored, BlobHasFile, Unreferenced, Exists
  <1>2. session[blobs[b].key].file = g /\ g # Nil
    BY <1>1, StoreAssumption DEF StoreAssumption, Stored, Serial, BoundBack, Exists
  <1>3. \A f \in ActiveFiles : files[f].key # blobs[b].key
    <2>1. \A f \in ActiveFiles : files[f].blob # b
      BY <1>0, UnreferencedNoFile DEF Stored
    <2>. QED
      BY <1>1, <1>2, <2>1 DEF Stored, Serial, BoundBack, ActiveFiles
  <1>4. \A s \in Sessions : s # blobs[b].key => object'[s] = object[s]
    BY <1>0 DEF TypeOK, StoreTypeOK
  <1>5. ActiveFileReadable'
    <2>1. \A f \in ActiveFiles : files[f].key \in Sessions
      BY <1>0 DEF ActiveFiles, TypeOK, StoreTypeOK, FileRow, NoFile
    <2>. QED
      BY <1>3, <1>4, <2>1 DEF Stored, ActiveFileReadable, ActiveFiles
  <1>6. CommitStored'
    <2>1. \A p \in Requests : req[p].pc = "commit" => req[p].s \in Sessions
      BY <1>0, InFlightType
    <2>. QED
      BY <1>2, <1>4, <2>1 DEF Stored, CommitStored
  <1>. QED
    BY <1>5, <1>6

\* Stored is inductive, relative to exact reference counts.
LEMMA StoredStep ==
    ASSUME Overlap \subseteq {"complete"}, Stored, RefCountExact, [Next]_vars
    PROVE  Stored'
  <1>0. TypeOK /\ Binding /\ Serial
    BY DEF Stored, Serial, Binding
  <1>1. Serial' /\ BlobHasFile'
    BY <1>0, SerialStep, BlobHasFileStep DEF Stored
  <1>2. \A s \in Sessions : session'[s].file = Nil => session[s].file = Nil
    <2>1. ASSUME NEW p \in Requests, Binds(p), NEW s \in Sessions, session'[s].file = Nil
          PROVE  session[s].file = Nil
      BY <2>1, StoreAssumption DEF Binds, StoreAssumption
    <2>. QED
      BY <1>0, <2>1, SerialStep DEF FileIdsKept
  <1>3. ASSUME ObjectsStay PROVE CommitStored' /\ ActiveFileReadable'
    <2>1. CommitStored'
      <3>. SUFFICES ASSUME NEW p \in Requests, req'[p].pc = "commit", session'[req'[p].s].file = Nil
                    PROVE  object'[req'[p].s] # Nil
        BY DEF CommitStored
      <3>1. CASE req'[p] = req[p]
        <4>1. req[p].s \in Sessions /\ req[p].pc = "commit"
          BY <1>0, <3>1, InFlightType
        <4>. QED
          BY <1>2, <1>3, <3>1, <4>1 DEF Stored, CommitStored, ObjectsStay
      <3>. QED
        BY <1>0, <1>3, <3>1, CommitReached DEF ObjectsStay
    <2>2. ActiveFileReadable'
      <3>. SUFFICES ASSUME NEW f \in Requests, files'[f].status = "ACTIVE"
                    PROVE  object'[files'[f].key] # Nil
        BY DEF ActiveFileReadable, ActiveFiles
      <3>1. CASE files[f].status = "ACTIVE" /\ files'[f].key = files[f].key
        <4>1. files[f].key \in Sessions
          BY <1>0, <3>1 DEF TypeOK, StoreTypeOK, FileRow, NoFile
        <4>. QED
          BY <1>3, <3>1, <4>1 DEF Stored, ActiveFileReadable, ActiveFiles, ObjectsStay
      <3>2. ASSUME NEW p \in Requests, CompleteCommit(p), ~UNCHANGED tables
            PROVE  object'[files'[f].key] # Nil
        <4>1. files'[p].key = req[p].s /\ \A g \in Requests \ {p} : files'[g] = files[g]
          BY <1>0, <3>2, CommitCounts
        <4>2. req[p].pc = "commit" /\ session[req[p].s].status = "COMPLETING" /\ req[p].s \in Sessions
          BY <1>0, <3>2, InFlightType DEF CompleteCommit
        <4>3. object[req[p].s] # Nil
          BY <1>0, <4>2, Unbound DEF Stored, CommitStored
        <4>. QED
          BY <1>3, <3>1, <4>1, <4>2, <4>3 DEF ObjectsStay
      <3>3. ASSUME NEW g \in Requests, DeleteFile(g)
            PROVE  object'[files'[f].key] # Nil
        BY <1>0, <3>1, <3>3, DeleteCounts
      <3>4. CASE /\ \A p \in Requests : CompleteCommit(p) => UNCHANGED tables
                 /\ \A g \in Requests : ~DeleteFile(g)
        BY <1>0, <3>1, <3>4, OnlyCommitAndDeleteCount
      <3>. QED
        BY <3>2, <3>3, <3>4
    <2>. QED
      BY <2>1, <2>2
  <1>4. CASE \E b \in Requests : /\ Unreferenced(b) /\ UNCHANGED <<session, files, req>>
                                 /\ object' = [object EXCEPT ![blobs[b].key] = Nil]
    BY <1>1, <1>4, StoredReclaim DEF Stored
  <1>. QED
    BY <1>0, <1>1, <1>3, <1>4, OnlyReclaimDeletes DEF Stored

\* An ACTIVE file can be read, if clients let only completions overlap on a
\* session: deduplication moves a blob to the newest key, and the jobs that
\* delete the object under a blob's key never delete the object of a file that
\* is still ACTIVE, nor one that a completion is about to commit.
THEOREM ActiveFileReadableWhenSerial ==
    Overlap \subseteq {"complete"} => (Spec => []ActiveFileReadable)
  <1>. SUFFICES ASSUME Overlap \subseteq {"complete"} PROVE Spec => []ActiveFileReadable
    OBVIOUS
  <1>1. Init => Stored
    <2>. SUFFICES ASSUME Init PROVE Stored
      OBVIOUS
    <2>1. ActiveFiles = {}
      BY DEF Init, StoreInit, NoFile, ActiveFiles
    <2>2. CommitStored
      BY DEF Init, ServiceInit, Idle, CommitStored
    <2>. QED
      BY <2>1, <2>2, SerialInit, BlobHasFileInit DEF Stored, ActiveFileReadable
  <1>2. Stored /\ RefCountExact /\ [Next]_vars => Stored'
    BY StoredStep
  <1>3. Stored => ActiveFileReadable
    BY DEF Stored
  <1>. QED
    BY <1>1, <1>2, <1>3, RefCountExactAlways, PTL DEF Spec
==============================================================================
