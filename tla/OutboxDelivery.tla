---------------------------- MODULE OutboxDelivery ----------------------------
(***************************************************************************)
(* The process_outbox_events job on several replicas of the job service:   *)
(* the runner's ticker, the scheduler with its Redis lock, and the         *)
(* consumer that claims rows of infra.outbox_events and settles them.      *)
(*                                                                         *)
(* Time advances in ticks of one scheduling interval.  A run normally ends *)
(* within the tick it started in; a slow one does not.  Slow runs, crashes *)
(* and failing calls share the budget MaxFaults.  The clocks of the        *)
(* replicas are taken to agree: times that two of them write or compare    *)
(* are counted in the same ticks.                                          *)
(***************************************************************************)
EXTENDS Integers, FiniteSets

CONSTANTS
    Nil,
    Replicas,        \* job service processes; a process is its lock owner id
    Events,          \* outbox rows, numbered by created_at
    Supported,       \* rows whose event_type has a handler
    Rejected,        \* rows whose payload the handler refuses
    BatchSize,       \* rows claimed by one run
    RetryBackoff,    \* ticks
    MaxRetryBackoff, \* ticks
    Lease,           \* outboxClaimLease, ticks
    LockTTL,         \* ticks
    MaxRetry,        \* retry_count saturates here: the delay no longer grows
    MaxHold,         \* bound on the ticks a run lasts after it has read its clock
    MaxFaults        \* bound on faults

ASSUME OutboxAssumption ==
    /\ Nil \notin Replicas
    /\ Events \subseteq Nat /\ IsFiniteSet(Events)
    /\ Supported \subseteq Events /\ Rejected \subseteq Events
    /\ {BatchSize, RetryBackoff, MaxRetryBackoff, Lease, LockTTL, MaxHold} \subseteq Nat \ {0}
    /\ {MaxRetry, MaxFaults} \subseteq Nat

VARIABLES
    row,        \* infra.outbox_events: status, retry_count, ticks until it is due
    lock,       \* Redis: owner of the job's lock, or Nil
    ttl,        \* Redis: ticks the lock has left
    worker,     \* per replica, the run in progress
    polled,     \* replicas whose ticker has been served in this tick
    faults      \* faults so far

vars == <<row, lock, ttl, worker, polled, faults>>

Rested == [pc |-> "idle", batch |-> <<>>, age |-> 0, lag |-> 0, slow |-> FALSE, cancelled |-> FALSE]

\* The rows a run has claimed and not settled, with the retry_count it read.
Batch == UNION {[B -> 0..MaxRetry] : B \in SUBSET Events}

\* age counts the ticks since DueBefore was read, lag those of them that had
\* passed when the clock was read again, after the claim.
Worker == [pc : {"idle", "start", "claim", "reply", "handle", "release", "down"}, batch : Batch,
           age : 0..MaxHold, lag : 0..MaxHold, slow : BOOLEAN, cancelled : BOOLEAN]

Consuming(r) == worker[r].pc \in {"claim", "reply", "handle"}
Running(r) == Consuming(r) \/ worker[r].pc \in {"start", "release"}
Claimed(r) == DOMAIN worker[r].batch
End(r) == worker' = [worker EXCEPT ![r].pc = "release", ![r].batch = <<>>, ![r].age = 0, ![r].lag = 0]
Fault == faults < MaxFaults /\ faults' = faults + 1

------------------------------------------------------------------------------
(* Consumer. *)

\* retryDelay: the delay after n doublings, compared with half the maximum
\* before each.
retryDelay[n \in Nat] ==
    IF n = 0 THEN (IF RetryBackoff > MaxRetryBackoff THEN MaxRetryBackoff ELSE RetryBackoff)
    ELSE IF retryDelay[n - 1] >= MaxRetryBackoff \div 2 THEN MaxRetryBackoff
    ELSE 2 * retryDelay[n - 1]

Claimable(e) == e \in Supported /\ row[e].status \in {"PENDING", "FAILED"}

\* COALESCE(next_attempt_at, created_at) <= DueBefore, for a run that read
\* DueBefore age ticks ago.
Due(e, age) == Claimable(e) /\ row[e].wait + age <= 0

\* The oldest due rows, at most BatchSize of them.
Candidates(age) ==
    {e \in Events : Due(e, age) /\ Cardinality({d \in Events : Due(d, age) /\ d <= e}) <= BatchSize}

\* RunOnce reads the clock for DueBefore, the base of the claim.
ReadClock(r) ==
    /\ worker[r].pc = "start"
    /\ worker' = [worker EXCEPT ![r].pc = "claim", ![r].age = 0]
    /\ UNCHANGED <<row, lock, ttl, polled, faults>>

\* Mutant of Claim: the claim does not move next_attempt_at.
ClaimWithoutLease(r) ==
    /\ worker[r].pc = "claim"
    /\ IF worker[r].cancelled THEN End(r) ELSE
          worker' = [worker EXCEPT ![r].pc = "reply",
                        ![r].batch = [e \in Candidates(worker[r].age) |-> row[e].retry]]
    /\ UNCHANGED <<row, lock, ttl, polled, faults>>

\* ClaimPending, one statement: take the rows and put them out of reach until
\* claimUntil, which is DueBefore plus the lease.  The statement may come late:
\* the lease is shorter by what has passed since the clock was read, and may be
\* over already.
Claim(r) ==
    /\ worker[r].pc = "claim"
    /\ \/ /\ worker[r].cancelled
          /\ End(r)
          /\ UNCHANGED row
       \/ /\ ~worker[r].cancelled
          /\ LET age == worker[r].age IN
                /\ worker' = [worker EXCEPT ![r].pc = "reply",
                                  ![r].batch = [e \in Candidates(age) |-> row[e].retry]]
                /\ row' = [e \in Events |->
                              IF e \in Candidates(age) THEN [row[e] EXCEPT !.wait = Lease - age] ELSE row[e]]
    /\ UNCHANGED <<lock, ttl, polled, faults>>

\* The claimed rows arrive and the clock is read again, for the next attempts.
Receive(r) ==
    /\ worker[r].pc = "reply"
    /\ worker' = [worker EXCEPT ![r].pc = "handle", ![r].lag = worker[r].age]
    /\ UNCHANGED <<row, lock, ttl, polled, faults>>

\* Mutant of MarkPublished: a status the table's CHECK does not know.
MarkSent(e) == row' = [row EXCEPT ![e].status = "SENT"]

MarkPublished(e) == row' = [row EXCEPT ![e].status = "PUBLISHED"]

\* Mutants of MarkFailed: the row is due again at once; the count is
\* incremented before the delay is computed.
MarkFailedNow(e, n, since) ==
    row' = [row EXCEPT ![e].status = "FAILED", ![e].wait = 0,
                       ![e].retry = IF @ < MaxRetry THEN @ + 1 ELSE @]

MarkFailedLater(e, n, since) ==
    row' = [row EXCEPT ![e].status = "FAILED", ![e].wait = retryDelay[n + 1] - since,
                       ![e].retry = IF @ < MaxRetry THEN @ + 1 ELSE @]

\* MarkFailed: the next attempt is counted from the clock read after the
\* claim, since ticks ago, with the retry count that the claim returned.
MarkFailed(e, n, since) ==
    row' = [row EXCEPT ![e].status = "FAILED", ![e].wait = retryDelay[n] - since,
                       ![e].retry = IF @ < MaxRetry THEN @ + 1 ELSE @]

\* Mutant of Settle: the handler's check fails at random.
SettleFlaky(r, e) ==
    \/ MarkFailed(e, worker[r].batch[e], worker[r].age - worker[r].lag)
    \/ e \notin Rejected /\ MarkPublished(e)

\* The handler checks the payload; the row is settled by event id alone.
Settle(r, e) ==
    IF e \in Rejected THEN MarkFailed(e, worker[r].batch[e], worker[r].age - worker[r].lag)
    ELSE MarkPublished(e)

\* The next row of the batch.  A cancelled run stops at the next statement and
\* leaves the rest of its rows to the lease.
Handle(r) ==
    /\ worker[r].pc = "handle"
    /\ \/ /\ worker[r].cancelled \/ Claimed(r) = {}
          /\ End(r)
          /\ UNCHANGED row
       \/ /\ ~worker[r].cancelled
          /\ \E e \in Claimed(r) :
                /\ \A d \in Claimed(r) : e <= d
                /\ Settle(r, e)
                /\ worker' = [worker EXCEPT ![r].batch =
                                 [d \in Claimed(r) \ {e} |-> worker[r].batch[d]]]
    /\ UNCHANGED <<lock, ttl, polled, faults>>

\* A statement fails, or its reply is lost: the run ends and the rows that it
\* had claimed wait for the lease.
StatementFails(r) ==
    /\ Consuming(r)
    /\ Fault
    /\ End(r)
    /\ UNCHANGED <<row, lock, ttl, polled>>

------------------------------------------------------------------------------
(* Scheduler and lock. *)

\* The runner's ticker fires: SETNX takes a free lock and a run starts;
\* otherwise the replica waits for the next tick.
Poll(r) ==
    /\ worker[r].pc = "idle"
    /\ r \notin polled
    /\ polled' = polled \cup {r}
    /\ \/ /\ lock = Nil
          /\ lock' = r /\ ttl' = LockTTL
          /\ worker' = [worker EXCEPT ![r] = [Rested EXCEPT !.pc = "start"]]
       \/ /\ lock # Nil
          /\ UNCHANGED <<lock, ttl, worker>>
    /\ UNCHANGED <<row, faults>>

\* SETNX took the lock but its reply was lost: no run, and no release.
PollReplyLost(r) ==
    /\ worker[r].pc = "idle" /\ r \notin polled /\ lock = Nil
    /\ Fault
    /\ polled' = polled \cup {r}
    /\ lock' = r /\ ttl' = LockTTL
    /\ UNCHANGED <<row, worker>>

\* The renewal goroutine: the script extends the lock if it is still ours;
\* otherwise the run is cancelled and renewal stops.
Renew(r) ==
    /\ Running(r) /\ ~worker[r].cancelled
    /\ \/ /\ lock = r /\ ttl < LockTTL
          /\ ttl' = LockTTL
          /\ UNCHANGED worker
       \/ /\ lock # r
          /\ worker' = [worker EXCEPT ![r].cancelled = TRUE]
          /\ UNCHANGED ttl
    /\ UNCHANGED <<row, lock, polled, faults>>

\* Renewal meets a Redis error, or Runtime.Stop cancels the context (the
\* process that replaces this one polls in its name).
Cancel(r) ==
    /\ Running(r) /\ ~worker[r].cancelled
    /\ Fault
    /\ worker' = [worker EXCEPT ![r].cancelled = TRUE]
    /\ UNCHANGED <<row, lock, ttl, polled>>

\* Mutant of Release: DEL without the comparison.
ReleaseAny(r) ==
    /\ worker[r].pc = "release"
    /\ worker' = [worker EXCEPT ![r] = Rested]
    /\ lock' = Nil /\ ttl' = 0
    /\ UNCHANGED <<row, polled, faults>>

\* The release script deletes the key only if it holds our owner id.
Release(r) ==
    /\ worker[r].pc = "release"
    /\ worker' = [worker EXCEPT ![r] = Rested]
    /\ lock' = IF lock = r THEN Nil ELSE lock
    /\ ttl' = IF lock = r THEN 0 ELSE ttl
    /\ UNCHANGED <<row, polled, faults>>

\* The release call fails: the lock stays until its TTL.
ReleaseFails(r) ==
    /\ worker[r].pc = "release"
    /\ Fault
    /\ worker' = [worker EXCEPT ![r] = Rested]
    /\ UNCHANGED <<row, lock, ttl, polled>>

------------------------------------------------------------------------------
(* Environment. *)

\* An online transaction commits an event.
Enqueue(e) ==
    /\ row[e].status = "ABSENT"
    /\ row' = [row EXCEPT ![e].status = "PENDING"]
    /\ UNCHANGED <<lock, ttl, worker, polled, faults>>

\* A run is held up (a pause, a slow database) beyond the tick.
Slow(r) ==
    /\ Running(r) /\ ~worker[r].slow
    /\ Fault
    /\ worker' = [worker EXCEPT ![r].slow = TRUE]
    /\ UNCHANGED <<row, lock, ttl, polled>>

Crash(r) ==
    /\ worker[r].pc # "down"
    /\ Fault
    /\ worker' = [worker EXCEPT ![r] = [Rested EXCEPT !.pc = "down"]]
    /\ UNCHANGED <<row, lock, ttl, polled>>

\* The runner polls as soon as it starts.
Restart(r) ==
    /\ worker[r].pc = "down"
    /\ worker' = [worker EXCEPT ![r] = Rested]
    /\ polled' = polled \ {r}
    /\ UNCHANGED <<row, lock, ttl, faults>>

\* One interval passes, once every replica has been served or is held up.  The
\* wait of a row is counted while it may be claimed, down to the one that makes
\* it due for every run.
Tick ==
    /\ \A r \in Replicas :
          \/ worker[r].pc = "idle" /\ r \in polled
          \/ worker[r].pc = "down"
          \/ worker[r].slow /\ (Consuming(r) => worker[r].age < MaxHold)
    /\ polled' = {}
    /\ row' = [e \in Events |->
                  [row[e] EXCEPT !.wait =
                      IF Claimable(e) /\ @ > -MaxHold THEN @ - 1 ELSE @]]
    /\ ttl' = IF ttl > 0 THEN ttl - 1 ELSE 0
    /\ lock' = IF ttl > 1 THEN lock ELSE Nil
    /\ worker' = [r \in Replicas |->
                     [worker[r] EXCEPT !.age = IF Consuming(r) THEN @ + 1 ELSE @]]
    /\ UNCHANGED faults

------------------------------------------------------------------------------
Init ==
    /\ row = [e \in Events |-> [status |-> "ABSENT", retry |-> 0, wait |-> 0]]
    /\ lock = Nil /\ ttl = 0
    /\ worker = [r \in Replicas |-> Rested]
    /\ polled = {}
    /\ faults = 0

RunStep(r) == Poll(r) \/ ReadClock(r) \/ Claim(r) \/ Receive(r) \/ Handle(r) \/ Release(r)

Next ==
    \/ \E r \in Replicas :
          \/ RunStep(r) \/ Renew(r) \/ Restart(r)
          \/ StatementFails(r) \/ PollReplyLost(r) \/ Cancel(r) \/ ReleaseFails(r)
          \/ Slow(r) \/ Crash(r)
    \/ \E e \in Events : Enqueue(e)
    \/ Tick

Spec == Init /\ [][Next]_vars

\* Tickers fire, statements return, crashed processes are restarted.  Renewal
\* is not assumed to come in time.
Fairness ==
    /\ \A r \in Replicas : WF_vars(RunStep(r)) /\ WF_vars(Restart(r))
    /\ WF_vars(Tick)

FairSpec == Spec /\ Fairness

------------------------------------------------------------------------------
\* Every variable keeps its type.
TypeOK ==
    /\ row \in [Events -> [status : {"ABSENT", "PENDING", "FAILED", "PUBLISHED"},
                           retry : 0..MaxRetry, wait : Int]]
    /\ lock \in Replicas \cup {Nil}
    /\ ttl \in 0..LockTTL
    /\ worker \in [Replicas -> Worker]
    /\ polled \subseteq Replicas
    /\ faults \in 0..MaxFaults

\* The claim lease alone keeps two runs off the same row: however the lock is
\* lost and however late the UPDATE comes, an accepted row is in two batches
\* only if the runs read their clocks a whole lease apart.  (Not so for a
\* rejected row: the late MarkFailed of a run that outlived its lease
\* overwrites the lease of the run that followed.)
LeaseExclusive ==
    \A r, q \in Replicas : \A e \in (Claimed(r) \cap Claimed(q)) \ Rejected :
        r = q \/ worker[r].age >= worker[q].age + Lease \/ worker[q].age >= worker[r].age + Lease

\* A published row stays published, although MarkFailed does not look at the
\* status and a run that lost its lock and its lease may still settle it.
PublishedIsFinal ==
    [][\A e \in Events : row[e].status = "PUBLISHED" => row'[e].status = "PUBLISHED"]_vars

\* A replica loses the lock only to its own release or to the TTL, and the
\* lock is never handed over in one step: a run that outlived its lock does not
\* take the successor's away.
LockOnlyReleasedByOwner ==
    [][lock # Nil /\ lock' # lock =>
          /\ lock' = Nil
          /\ worker[lock].pc = "release" \/ ttl <= 1]_vars

\* A failed row is due again after at most its exponential backoff, measured
\* from the clock read after the claim: RetryBackoff doubled retry_count times
\* and capped.
BackoffBounded ==
    [][\A e \in Events :
          row[e].retry < row'[e].retry =>
              LET ideal == RetryBackoff * 2 ^ row[e].retry IN
              row'[e].wait <= IF ideal < MaxRetryBackoff THEN ideal ELSE MaxRetryBackoff]_vars

\* Every accepted row of a supported type is published in the end: crashes, lost
\* locks and permanently rejected older rows do not starve it.
EventsDelivered ==
    \A e \in Supported \ Rejected :
        row[e].status # "ABSENT" ~> row[e].status = "PUBLISHED"
==============================================================================
