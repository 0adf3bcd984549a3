# Verification of zhi-file-service-go

TLA+ specifications, TLC configurations and TLAPS proofs for the multi-tenant
file service in this repository. Source paths below are relative to `src/`.

## 1. The system

Four services share one PostgreSQL database, one object storage (S3 API) and
one Redis.

| Component | State | Operations |
|---|---|---|
| Upload service (`internal/services/upload`) | `upload.upload_sessions`, `upload_session_parts`; multipart uploads and objects at the provider | create session, presign parts, inline content, list parts, complete, abort |
| Completion | completion token in the session row | phase A takes ownership in a transaction; phase B lists parts, assembles, hashes and looks for a duplicate outside any transaction; phase C commits blob, file, usage, session and event |
| File tables | `file.blob_objects` (hash, key, reference count), `file.file_assets`, `tenant.tenant_usage`, `infra.outbox_events` | written by completion and by admin deletions |
| Job service (`internal/services/job`) | the tables above; the lock `job:<name>` in Redis | expire, repair, multipart cleanup, finalize deletions, orphan cleanup, reconcile usage, outbox consumption |
| Scheduler and runner | Redis lock with TTL and renewal, one ticker per job and replica | run a job on one replica at a time |
| Admin service (`internal/services/admin`) | `tenant.tenants`, `tenant_policies`, `tenant_usage`, `audit.admin_audit_logs`; files | delete file; create and patch tenants and policies; read rows and paged lists |
| Access service (`internal/services/access`) | signed tickets (stored nowhere), idempotency records in Redis or in memory | view a file, issue a ticket, redirect by ticket, resolve a download |
| Authentication (`internal/platform/auth`, admin `auth_jwks.go`) | the cached key set of the issuer (JWKS) | look a key up, fetch the set again, verify, check claims |
| Process (`internal/platform/bootstrap`, `httpserver`, `cmd/*`) | connections, readiness flags, listener, job loops | start in order, serve, answer probes, shut down under a deadline |

How they interact: through the database rows and provider objects they all
change; completion and deletion leave events in the outbox, which the job service
consumes; the access service reads what upload and admin write; every request
passes authentication first; every process has the same start and shutdown.

What is hard here: the handlers of the upload service do not hold a lock
between reading a session and saving it; completion does its side effects
between two transactions and may be retried, overlapped or interrupted
anywhere; deduplication reuses a blob found before the commit; the jobs change
the same rows and delete the same objects; job replicas rely on a lock that can
lapse under them; ticket requests with one Idempotency-Key race; key fetches
overtake each other while the issuer rotates; a policy is judged before it is
locked; pages are cut while rows come; shutdown passes half-way states under a
deadline. PROJECT.json lists these hazards with their lines.

What must hold: a session ends in one file and stays ended; the file it names
exists and is readable; reference counts, usage and events agree with the files;
no provider upload is forgotten; everything that is started settles; every
outbox event is delivered; repeated ticket requests agree and tickets live as
long as the client was told; a published key is served and one out of reach is
not; tenants are whole and the audit log explains them; lists show only what is in
scope and miss as little as their cursors allow; a process leaves nothing open,
loses no lock by its shutdown, and always exits.

## 2. Modules

```
UploadSession      the session row and its pure transitions
  FileStore        tables and provider state, repository operations
    UploadService  requests, one step per transaction or provider call
      MaintenanceJobs   jobs and admin deletion, one step per row
        FileService     composition, fairness, properties
          MCFileService            for TLC
          FileService_proofs       types; rows, files, counts, events, uploads
                                   and contents agree
            FileServiceRegister_proofs  completion implements the register,
                                   files stay readable
CompletionRegister what completion promises (abstract)
OutboxDelivery     runner, scheduler, lock and outbox consumer
                   (OutboxDelivery_proofs)
AccessTickets      access service (MCAccessTickets, AccessTickets_proofs)
KeySet             token authentication (MCKeySet, KeySet_proofs)
AdminAuth          roles, operations and tenant scopes of an admin
  TenantAdmin      tenant and policy writes (MCTenantAdmin, TenantAdmin_proofs)
  AdminQueries     reads and paged lists (MCAdminQueries, AdminQueries_proofs)
ServiceLifecycle   one process, from main to exit (ServiceLifecycle_proofs)
```

**UploadSession** translates `upload/domain/session.go`. A row keeps the fields
that guards read. `Validate` matters more than it seems: every read of a row goes
through it, so a row that fails it cannot be loaded (`Readable`).

**FileStore** declares the shared variables. One tenant, one bucket; an object
key is planned from the session id and so is the session; a content is its own
SHA-256; ids that a request generates are named after the request. `Save` is the
unconditional full-row UPDATE of the repository. `UpsertAndReference` keeps the
count and `deleted_at` of a conflicting row, as the SQL does. `BlobUnique` is the
two UNIQUE constraints of the table.

**UploadService** gives every request a record of its handler's local variables
and a `pc`. Between two steps anything else may run, and `Interrupt` may end the
request for good (crash, cancelled context, transient error). `Overlap` names the
endpoints clients call concurrently on one session: the strong promises need a
client discipline that the code does not enforce, and the runs make explicit
which one. `ClientUploadPart` and `ClientPutObject` are clients using presigned
URLs, at any time after they got them.

**MaintenanceJobs** has one action per job and row, plus the rollback after the
provider call where a job makes one inside its transaction. Cutoffs may have
passed at any step, with one exception: the retention of deleted files (a week)
and the orphan cutoff (a day) exceed the life of a request, so a file being
finalized was deleted before the requests in flight started (`RetentionElapsed`,
`OrphanElapsed`; the set `gone` in a request exists for this).
`ReconcileTenantUsage` is two steps, since its sums come from the statement's
snapshot and are written after waiting for the row lock.

**OutboxDelivery** counts time in scheduling intervals. A `Tick` passes once
every replica has been served, is down, or is held up (`Slow`); slow runs,
crashes, failing statements and lost replies share one budget. The lock, its TTL,
renewal, cancellation after lost ownership and the compare-and-delete release
follow `scheduler.go` and `redis_locker.go`; claims, lease, settlement and backoff
follow `consumer.go` and the `OutboxReader`. A run reads the clock
twice, and never together with a statement: `ReadClock` fixes DueBefore, from
which `Claim` later selects the due rows and counts their lease, and `Receive` reads
the time from which failed rows are put off. A run may be held up between any two of
these for at most `MaxHold` ticks. `retry_count` saturates where the delay no longer
grows. The clocks of the replicas are taken to agree.

**CompletionRegister** is a write-once register per session: the first
completion chooses, later answers repeat the choice.

**AccessTickets** has one step per call the access handlers make (record lookup,
file row, policy row, SETNX, reload), so requests interleave at the calls, and
each call may fail; a failing SETNX may have been applied. A ticket is its claims
(signatures cannot be forged); the fingerprint of a request is the lifetime it
asks for. Time is counted in ticks, several to a second, because a ticket's expiry
is cut to whole seconds and the one told to the client is not. Without Redis the
records die with the process (`lost`).

**KeySet** covers both resolvers (`plane`): the cache, the lookup with its one
forced refresh after a failed verification, fetches that take the document the
issuer publishes at that moment and install it later, whatever was installed
since; key parsing (`parseJWKS`) and the claim checks, each translated from its
own code, since the two planes check different things.

**TenantAdmin** runs each write as a transaction of several statements under READ
COMMITTED: reads see committed rows, an INSERT or UPDATE waits for the row's lock,
and nothing is visible before `Commit`. `Rollback` may strike at every statement
and `CommitReplyLost` after the last. Columns that the code treats alike are one
column (`contact` is contact_email and description). The record of a patch names
every column it sets, that of a creation only name and status (`Details`). A record
is stamped by the clock of the process that writes it; the clocks of the replicas
are taken to agree. **AdminAuth** holds roles, the operations they may call, and scopes.

**AdminQueries** follows a client through the pages of one of the three lists
while rows are inserted (possibly behind younger ones) and change status.

**ServiceLifecycle** is `main`, `App.Run` and `App.shutdown` with the server's
goroutine, requests, probes and job loops beside it. A request or a job run may
take for ever; the deadline of the shutdown context exists for that. A loop asks for
its job's lock before it runs. SETNX may be applied and its reply lost, and a
release may fail: the lock then stays until its TTL (`left`).

## 3. Runs

Passing:

| Run | Instance | Shows |
|---|---|---|
| `races` | 1 session, 3 requests, 2 contents, 2 parts, all modes, endpoints and jobs | consistency under every interleaving, stale saves included |
| `completion` | 1 session, 4 requests; only completions overlap | write-once register, one file, completed is final |
| `dedup` | 3 sessions, 3 requests, 1 content | files of shared blobs stay readable |
| `settling` | 1 session, 2 requests, fair jobs | sessions settle, uploads get closed, usage is reconciled |
| `outbox` | 2 replicas, 2 rows (the older one rejected), 2 faults, runs of at most 3 ticks | lease and lock, final settlement, delivery |
| `access` | 3 requests, 3 callers, 1 file, 1 key, 2 lifetimes, 2 ticks to a second, 1 fault; with and without Redis and a policy row | equal keys get equal tickets, the expiry told holds, deleted files are not served |
| `keys` | 2 requests, 3 tokens, 4 documents, 2 rotations, both planes | a published key is served, a key out of reach is not, the cache catches up |
| `tenants` | 4 requests on one tenant, 3 admins, 5 tenant and 7 policy patches, 1 fault | tenants are whole, the audit log replays to the rows, answers agree with it, changes are authorised |
| `queries` | 4 rows in 3 tenants, pairs created at the same time, pages of 1 and 2 rows | scope, descending pages, rows missed only at page boundaries |
| `lifecycle` | 2 requests, 2 job loops, every service and configuration | no use after close, clean exit, no late "ready", a signalled process exits |

Why the bounds suffice: two requests are enough for one stale save, a third to
complete what the save revived, a fourth to observe it; two parts separate
"some" from "all" parts; two contents separate a right from a wrong hash; three
sessions of one content are two files sharing a blob and a third arriving during
its reclamation. In `outbox`, the batch size of one puts the rejected old row
before the good one, `MaxHold` is a whole lease and longer than the lock's TTL, so a
run can claim with a lease that is over and outlive both, and the backoff reaches its
cap. A row of a type without handler is no step's business (`Claimable`), so the
instance has none. In `access`, two requests race for a
key and a third retries or redirects; the lifetimes are shorter than the time
bound, so records and tickets run out while requests wait, and one of them is no
whole number of seconds. In `keys`, two rotations let a fetch carry a set that has
been replaced twice; one document reuses a key id for another key, one has keys
that must be skipped, one is spoilt by an undecodable key. In `tenants`, four
requests are a creation, a patch judged before and one committed in between, and
a retry. In `queries`, four rows give walks of one to four pages with ties inside
and across pages. In `lifecycle`, two of each suffice for one that ends and one that does not.

Requests (and, where no run names them, sessions and contents) are
interchangeable, so the safety runs use symmetry; runs with liveness do not.
`CHECK_DEADLOCK FALSE` is set where one-shot requests may be used up or the
process has exited; the outbox run never stops and checks deadlock.

Fairness. `JobsFairness` is weak fairness of expiry, multipart cleanup and
reconciliation: the runner starts every job again and again and batches take the
oldest rows first. Nothing is assumed of clients or requests there. In
`OutboxDelivery`, tickers fire, statements return and crashed processes are
restarted; renewal is not assumed to come in time. In `KeySet`, a request being
served goes on (fetches have a timeout), the client of `KeySetCatchesUp` sends a refused token again, and a
fetch that is tried again and again succeeds at some time (strong fairness: the
property is about the cache, not about an issuer that is down). In
`ServiceLifecycle`, main goes on when it can and the shutdown deadline, a timer,
comes; nothing is assumed of requests and jobs.

Findings, where TLC shows the code not keeping what the documents say (the quoted
lines are in PROJECT.json):

- `find_two_files`: a stale inline save revives a completed session, which makes
  a second file.
- `find_skipped_row`: the cursor of an admin list is made of the row after the
  page, and the next page starts strictly below it: the first row of every page
  but the first is in no page, whether or not the list changes. `MissedOnlyAtBoundaries` shows that nothing else
  is missed.

Also seen while modelling:

- A stale abort turns COMPLETED into ABORTED (forbidden by
  `docs/services/upload-session-state-machine-spec.md:510`), by the same
  unlocked read and full-row save as `find_two_files`.
- The repair fails COMPLETING sessions whose object is complete
  (`job-service-implementation-spec.md:156` wants them completed); its branch for
  rows with a file id is dead code (`CompletedIffBound`).
- Reclaiming a deduplicated blob deletes only its newest key; the older objects
  stay stored (`job-service-implementation-spec.md:166`).
- A commit may attach a new file to a blob reclaimed since the lookup, whose
  `deleted_at` the upsert keeps (`data-model-spec.md:622`).
- The multipart cleanup erases the upload id that `Validate` requires of a DIRECT
  session, so a dead one can no longer be loaded (the abort of a FAILED session
  is promised an answer, `upload-session-state-machine-spec.md:403`).
- An upload created before a failing INSERT of its session stays open
  (`job-service-implementation-spec.md:199`); `UploadsGetClosed` speaks of stored
  sessions.
- The late `MarkFailed` of a run that outlived its lease overwrites the lease of
  the run that followed, so a rejected row can be claimed by two runs that are
  both young (`LeaseExclusive` is stated for accepted rows).
- The lease of a claim begins when DueBefore is read, not with the UPDATE: a run held
  up in between claims rows with a lease that is short or over, and a second run that
  starts then claims them too, moments after the first. `LeaseExclusive` says what
  remains: their clocks were read a lease apart.
- A lock whose SETNX reply was lost, or whose release failed, stays until its TTL,
  also when the process exits within its deadline; `CleanExit` shows that shutdown
  leaves no other.
- The audit record of a creation does not name contact_email and description, so
  those given at creation cannot be replayed from the log.
- A retry with the Idempotency-Key of a completion in progress repeats its side
  effects.
- A policy that is loosened between the guard's read and the UPDATE can be
  tightened without a reason (`admin-auth-spec.md:127`,
  `admin-service-implementation-spec.md:149`); `ChangesAuthorised` names this
  exception and shows there is no other.
- A keyed ticket request replays its record before it looks at the file
  (`access-service-implementation-spec.md:131` puts the checks first), so a replay
  may hand out a ticket for a file deleted since; using it is refused
  (`DeletedNotServed`).
- Neither the maximum of `expiresInSeconds` in `access-service.yaml` nor, on the
  admin plane, `nbf` and an `iat` in the future are checked.
- After a server error the shutdown has no deadline, and a signal that comes then
  is not looked at: `SignalledExits` speaks of signals that come while the
  service runs.

## 4. Proofs

Every safety property of a passing run is also a theorem, for every value of the
constants under the named assumptions of the modules: Nil is no value of the sets
it is used beside; keys are not generated ids, requests are finitely many and an
upload has at least one part (`StoreAssumption`); parameters name existing modes,
endpoints and jobs (`ServiceAssumption`, `JobsAssumption`); tenants of callers and
files exist, lifetimes are natural numbers and a second has a tick
(`AccessAssumption`, `NilAssumption`); delays, lease, lock TTL and batch size are
positive (`OutboxAssumption`); ids of rows are unique, the default and the maximum
limit are positive (`AdminQueriesAssumption`); the default policy and the patches
have the columns of a row (`TenantAdminAssumption`).

**FileService** (`FileService_proofs`), every endpoint overlapping every other:

- `TypeCorrect`, one lemma per group of actions.
- `CompletedIffBoundAlways`, `BoundFileExistsAlways`, `RefCountExactAlways`, and
  `UsageBytesExactAlways` (when no reconciliation runs). None of the four is
  inductive. A full-row save writes whatever the handler copied, so the copies
  must satisfy the same facts (`SnapshotSound`), and keep satisfying them while
  files change under the copy: files are only ever added under fresh ids or marked
  deleted. The commit adds a file under the request's own id, which needs
  `FreshIds`: a file named p exists only once request p has returned. These make
  the invariant `Binding`. `RefCountExact` then follows by counting: the commit
  adds exactly one new element to the set of ACTIVE files of its blob, a deletion
  removes exactly one, and the clamp of GREATEST never bites.
- `EventsMatchFilesAlways`, on `Binding`: the row and its event are written in one
  step, under an id that `FreshIds` says was never announced.
- `NoUploadForgottenAlways`, invariant `Uploads`. The danger is a save that writes
  a copy without upload id, or a COMPLETED one, over a row whose upload is open;
  `Handles` says of each handler's copy that it has the mode of the row and, for a
  DIRECT session, the upload id, that a copy about to be saved is not COMPLETED,
  and that a completion past its assembly has a closed upload.
- `DirectContentVerifiedAlways`, invariant `Verified`. The provider assembles an
  upload once, so at most one request is past the assembly of a DIRECT session
  (`OneAssembly`) and none while a file of it exists (`AssembledUnfiled`), the hash
  about to be committed is that of the object (`AssembledHash`), and the upload
  behind a file is closed (`FiledClosed`). So nobody writes the key after the hash
  was taken, and a job that deletes it deletes the key of a blob without ACTIVE
  files (`BlobHasFile`, with `RefCountExact`).

**FileService** (`FileServiceRegister_proofs`), under `Overlap \subseteq
{"complete"}`: clients let only completions overlap on a session.

- `OneFilePerSessionWhenSerial`, `CompletedIsFinalWhenSerial`, and
  `CompletionImplementsRegister`, which shows `Spec => RegisterSpec`. The invariant
  is `Serial`: `Binding`, requests that share a session are completions (`Alone`),
  a file is the file of the session it was made from (`BoundBack`), and a handler
  other than a completion holds a copy whose file id is the row's, which is Nil
  when it is about to be saved (`Local`). So a save never unbinds a session.
  Completions do race, but a commit binds only a COMPLETING row, and such a row has
  no file. Every step then keeps all file ids and answers, or lets one request
  learn a session's file, or is the one commit that chooses it. The hypothesis is
  needed: without it `find_two_files` is a counterexample.
- `ActiveFileReadableWhenSerial`, invariant `Stored`: besides `Serial`, a blob with
  a key has the file that brought it (`BlobHasFile`), and a completion about to
  bind its session has its object stored (`CommitStored`). A job deletes only the
  object under the key of a blob whose count is zero, and with exact counts and one
  file per session that key belongs to no ACTIVE file. The retention guards
  (`RetentionElapsed`, `OrphanElapsed`) are not used.

**OutboxDelivery** (`OutboxDelivery_proofs`): `TypeCorrect`,
`LeaseExclusiveAlways`, `PublishedIsFinalAlways`, `LockOnlyReleasedByOwnerAlways`,
`BackoffBoundedAlways`.

`IInv` ties each claimed row to its run: an accepted row of its batch is due no
earlier than a lease after the run read DueBefore (`LeaseHeld`), so another run takes
it only with a DueBefore that is a lease later; a run's second clock read follows its
first (`WorkersSound`), the retry count it read is not above the row's (`CountRead`),
and only rows that no consumer rejects get published (`PublishedAccepted`), which is why a late MarkFailed
never meets one. The backoff needs what `retryDelay` computes for every count:
`RetryDelayIs` gives its closed form, with powers of two counted as subsets and
the induction replaced by the least counterexample. The theorem assumes
that MaxRetryBackoff is even. With an odd maximum it is false by one unit of time:
the loop compares with half the maximum, rounded down (RetryBackoff 2 and maximum 5
give 5 after one failure, not 4).

**KeySet** (`KeySet_proofs`): `PublishedKeyServedAlways`, `UnknownKeyRefusedAlways`.
`IInv` says that only remote sets are fetched (`OnlyRemote`) and, of a request
whose token the published set and all answers on their way verify, that they go on
doing so until it ends, and that the cached set does once it has installed its own
(`SafeKnows`); and of a request whose token none of these sets verifies, the cached
one included, that none comes to do so (`UnknownStays`).

**TenantAdmin** (`TenantAdmin_proofs`): `AuditReplaysAlways`, `TenantWholeAlways`,
`AnswersAuditedAlways`, `ChangesAuthorisedAlways`. In `IInv` a request that has
written holds the lock of its row, so its new row is still the committed row with
its patch applied (`Fitting`) and its record is younger than every record of that
row (`Stamps`, since the stamp is taken under the lock); records are those of
committed requests (`Recorded`, `RecordShape`), and a tenant's rows and creation
record come together (`Whole`). `AuditReplays` then survives a commit column by
column: the record is the last one, and sets the columns of its patch, or of a
creation all but the contact, of which nothing is claimed before a patch sets it.

**AdminQueries** (`AdminQueries_proofs`): `InScopeAlways`, `PagesDescendAlways`,
`MissedOnlyAtBoundariesAlways`. The order is total on rows with different ids, so
the rows a query selects have the positions 0, 1, 2, ...: a page is the positions
below the limit, its cursor the row at the limit. `IInv` keeps the cursor below
everything listed (`CursorBelow`), and every matching row that is not below the
cursor is listed or was a cursor (`Covered`); insertions and changes between two queries
do not move rows across the cursor.

**AccessTickets** (`AccessTickets_proofs`): `TypeCorrect`, `AnswersAgreeAlways`,
`TicketWindowAlways`, `DeletedNotServedAlways`.

`IInv` has a part per request (`ReqInv`: which fields its handler has filled in,
that the expiry signed and the expiry told are less than a second apart, that a
file gone at arrival is still gone), a part per record (it outlives its ticket),
and `AnswersRemembered`: while the ticket of a keyed answer lives, its record is
there. `AnswersAgree` alone is not inductive; with the record in between it is:
a record gives way only when expired (`StoreStep`), by then every ticket answered
from it has run out, and every new answer is that of the record (`KeyedSteps`).

**ServiceLifecycle** (`ServiceLifecycle_proofs`): `TypeCorrect`,
`NoUseAfterCloseAlways`, `CleanExitAlways`, `NoLateReadyAlways`.

`IInv` says for each phase of main what is open (`ConnectionsHeld`), who may be
served (`ServerQuiet`), who has been waited for unless the deadline passed
(`Drains`), that locks which no failed call left belong to runs that still have Redis
(`LocksHeld`), that
whoever is served finds the loops running (`LoopsRun`), and that the two flags are
never both up on the way down (`FlagsDown`), which is what stops a late probe.

Only model-checked: liveness, since ENABLED and fairness are outside the prover
(`SessionsSettle`, `UploadsGetClosed`, `UsageReconciled`, `EventsDelivered`,
`KeySetCatchesUp`, `SignalledExits`), and the two violations.

## 5. Not modelled

- `upload_session_parts`: a cache of the provider's list that no guard reads; its
  Replace (a DELETE and INSERTs outside a transaction) can mix two lists.
- Overflow of the durations in `retryDelay` (numbers are naturals), and replicas
  whose clocks differ.
- Expiry by the clock in upload handlers, policy limits and quotas;
  `FindReusable`, which changes nothing.
- `upload_dedup_claims`: `ClaimHash` has no caller.
- The download and presign switches of a tenant policy in the access service:
  they are not columns, so the reader never sets them.
- The migrations runner: a sequential command around golang-migrate.
- Configuration, metrics, tracing, logging middleware, decoding and encoding of
  HTTP requests: no state a property is about.

## 6. Plan

1. Proofs: facts that the theorems stop short of, where TLC agrees first: the
   retry counts of outbox rows, the keys of blobs, and what remains of
   `CompletedIsFinal` and `ActiveFileReadable` when endpoints other than completion
   overlap.
2. *Upload*: the parts cache with its non-atomic Replace, policy checks, clock
   expiry.
