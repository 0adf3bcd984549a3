------------------------ MODULE OutboxDelivery_proofs ------------------------
(***************************************************************************)
(* Proofs about OutboxDelivery for any number of replicas, rows, batch     *)
(* sizes, delays, lengths of lease and lock, and faults.                   *)
(***************************************************************************)
EXTENDS OutboxDelivery, FiniteSetTheorems, NaturalsInduction, TLAPS

------------------------------------------------------------------------------
(* Powers of two, from the cardinality of power sets. *)

\* 2^n counts the subsets of 1..n.
LEMMA PowerCounts ==
  ASSUME NEW n \in Nat
  PROVE  IsFiniteSet(SUBSET (1..n)) /\ Cardinality(SUBSET (1..n)) = 2^n /\ 2^n \in Nat
  <1>1. IsFiniteSet(1..n) /\ Cardinality(1..n) = n
    BY FS_Interval
  <1>2. IsFiniteSet(SUBSET (1..n)) /\ Cardinality(SUBSET (1..n)) = 2^Cardinality(1..n)
    BY <1>1, FS_SUBSET
  <1>3. Cardinality(SUBSET (1..n)) \in Nat
    BY <1>2, FS_CardinalityType
  <1> QED
    BY <1>1, <1>2, <1>3

\* The empty set has one subset.
LEMMA PowerZero == 2^0 = 1
  <1>1. SUBSET (1..0) = {{}}
    <2>1. 1..0 = {}
      BY SMT
    <2> QED
      BY <2>1
  <1>2. Cardinality({{}}) = 1
    BY FS_Singleton
  <1> QED
    BY <1>1, <1>2, PowerCounts

\* Doubling: a subset of 1..n+1 has n+1 or not.
LEMMA PowerDoubles == ASSUME NEW n \in Nat PROVE 2^(n+1) = 2 * 2^n
  <1> DEFINE Without == SUBSET (1..n)
             With == (SUBSET (1..(n+1))) \ Without
             f == [T \in Without |-> T \cup {n+1}]
  <1>1. IsFiniteSet(Without) /\ Cardinality(Without) = 2^n /\ 2^n \in Nat
    BY PowerCounts
  <1>2. IsFiniteSet(SUBSET (1..(n+1))) /\ Cardinality(SUBSET (1..(n+1))) = 2^(n+1)
    BY PowerCounts
  <1>3. \A T \in With : n+1 \in T /\ T \ {n+1} \in Without
    <2> SUFFICES ASSUME NEW T \in With PROVE n+1 \in T /\ T \ {n+1} \in Without
      OBVIOUS
    <2>1. \A i \in 1..(n+1) : i = n+1 \/ i \in 1..n
      OBVIOUS
    <2> QED
      BY <2>1
  <1>4. \A T \in Without : n+1 \notin T /\ T \cup {n+1} \in With
    <2>1. n+1 \notin 1..n /\ n+1 \in 1..(n+1) /\ \A i \in 1..n : i \in 1..(n+1)
      OBVIOUS
    <2> QED
      BY <2>1
  <1>5. f \in Bijection(Without, With)
    <2>1. f \in [Without -> With]
      BY <1>4
    <2>2. ASSUME NEW S \in Without, NEW T \in Without, f[S] = f[T] PROVE S = T
      BY <1>4, <2>2
    <2>3. ASSUME NEW T \in With PROVE \E S \in Without : f[S] = T
      <3>1. (T \ {n+1}) \cup {n+1} = T
        BY <1>3
      <3>2. T \ {n+1} \in Without
        BY <1>3
      <3> QED
        BY <3>1, <3>2
    <2> QED
      BY <2>1, <2>2, <2>3 DEF Bijection, Injection, Surjection, IsInjective
  <1>6. ExistsBijection(Without, With)
    BY <1>5 DEF ExistsBijection
  <1>7. IsFiniteSet(With) /\ Cardinality(With) = 2^n
    <2> HIDE DEF Without, With
    <2> QED
      BY <1>1, <1>6, FS_Bijection
  <1>8. SUBSET (1..(n+1)) = Without \cup With /\ Without \cap With = {}
    <2>1. \A i \in 1..n : i \in 1..(n+1)
      OBVIOUS
    <2> QED
      BY <2>1
  <1>9. Cardinality(Without \cup With) = Cardinality(Without) + Cardinality(With) - Cardinality(Without \cap With)
    <2> HIDE DEF Without, With
    <2> QED
      BY <1>1, <1>7, FS_Union
  <1>10. Cardinality({}) = 0
    BY FS_EmptySet
  <1> HIDE DEF Without, With
  <1>11. 2^(n+1) = Cardinality(Without \cup With)
    BY <1>2, <1>8
  <1>12. Cardinality(Without \cup With) = 2^n + 2^n - 0
    BY <1>1, <1>7, <1>8, <1>9, <1>10
  <1>13. ASSUME NEW p \in Nat PROVE p + p - 0 = 2 * p
    OBVIOUS
  <1> QED
    BY <1>1, <1>11, <1>12, <1>13

\* Powers of two grow.
LEMMA PowerGrows == ASSUME NEW m \in Nat, NEW n \in Nat, m <= n PROVE 2^m <= 2^n
  <1>1. SUBSET (1..m) \in SUBSET (SUBSET (1..n))
    <2>1. \A i \in 1..m : i \in 1..n
      OBVIOUS
    <2> QED
      BY <2>1
  <1>2. Cardinality(SUBSET (1..m)) <= Cardinality(SUBSET (1..n))
    BY <1>1, PowerCounts, FS_Subset
  <1> QED
    BY <1>2, PowerCounts

\* Every set of natural numbers that is not empty has a least element.
LEMMA NatMin == ASSUME NEW T \in SUBSET Nat, T # {} PROVE \E x \in T : \A y \in T : x <= y
  <1>1. IsWellFoundedOn(OpToRel(<, Nat), Nat)
    BY NatLessThanWellFounded
  <1>2. PICK x \in T : \A y \in T : ~(<<y, x>> \in OpToRel(<, Nat))
    BY <1>1, WFMin
  <1>3. \A y \in T : ~(y < x)
    BY <1>2 DEF OpToRel
  <1> QED
    BY <1>3

------------------------------------------------------------------------------
(* What the doubling loop of retryDelay computes. *)

First == IF RetryBackoff > MaxRetryBackoff THEN MaxRetryBackoff ELSE RetryBackoff

\* One of the first n delays has reached half the maximum.
Reached(n) == \E k \in 0..(n-1) : First * 2^k >= MaxRetryBackoff \div 2

Delay == [n \in Nat |-> IF Reached(n) THEN MaxRetryBackoff ELSE First * 2^n]

\* The first delay is positive, and never above the maximum.
LEMMA FirstType ==
  /\ First \in Nat \ {0} /\ First <= MaxRetryBackoff /\ First <= RetryBackoff
  /\ MaxRetryBackoff \in Nat \ {0} /\ RetryBackoff \in Nat \ {0}
  BY OutboxAssumption DEF First

\* The ideal delay is a natural number.
LEMMA DelayType == ASSUME NEW n \in Nat PROVE Delay[n] \in Nat
  <1>1. 2^n \in Nat
    BY PowerCounts
  <1>2. ASSUME NEW f \in Nat, NEW p \in Nat PROVE f * p \in Nat
    OBVIOUS
  <1>3. First * 2^n \in Nat
    BY <1>1, <1>2, FirstType
  <1> QED
    BY <1>3, FirstType DEF Delay

\* The first delay is the one of an attempt that has not failed before.
LEMMA DelayZero == Delay[0] = First
  <1>1. ~Reached(0)
    BY DEF Reached
  <1>2. Delay[0] = First * 2^0
    BY <1>1 DEF Delay
  <1>3. ASSUME NEW p, p = 1 PROVE First * p = First
    BY <1>3, FirstType
  <1> QED
    BY <1>2, <1>3, PowerZero

\* One more failure doubles the ideal delay, or takes it to the maximum, by the
\* test that the loop of retryDelay makes.
LEMMA DelayDoubles ==
  ASSUME NEW n \in Nat \ {0}
  PROVE  Delay[n] = IF Delay[n - 1] >= MaxRetryBackoff \div 2 THEN MaxRetryBackoff ELSE 2 * Delay[n - 1]
  <1>0. n - 1 \in Nat
    OBVIOUS
  <1>1. n - 1 \in Nat /\ 2^(n-1) \in Nat
    BY <1>0, PowerCounts
  <1>2. Reached(n) <=> Reached(n - 1) \/ First * 2^(n-1) >= MaxRetryBackoff \div 2
    <2>1. \A k : k \in 0..(n-1) <=> k \in 0..((n-1)-1) \/ k = n - 1
      OBVIOUS
    <2> QED
      BY <2>1 DEF Reached
  <1>3. Delay[n - 1] = IF Reached(n - 1) THEN MaxRetryBackoff ELSE First * 2^(n-1)
    BY <1>1 DEF Delay
  <1>4. Delay[n] = IF Reached(n) THEN MaxRetryBackoff ELSE First * 2^n
    BY DEF Delay
  <1>5. MaxRetryBackoff >= MaxRetryBackoff \div 2
    BY FirstType
  <1>6. First * 2^n = 2 * (First * 2^(n-1))
    <2>1. 2^n = 2 * 2^(n-1)
      <3>1. (n - 1) + 1 = n
        OBVIOUS
      <3> QED
        BY <1>1, <3>1, PowerDoubles
    <2>2. ASSUME NEW f \in Nat, NEW p \in Nat PROVE f * (2 * p) = 2 * (f * p)
      OBVIOUS
    <2> QED
      BY <1>1, <2>1, <2>2, FirstType
  <1> QED
    BY <1>2, <1>3, <1>4, <1>5, <1>6

\* The loop has a value, and only this one.
LEMMA RetryDelayIs == retryDelay = Delay
  <1> DEFINE Step(g) == [n \in Nat |->
                           IF n = 0 THEN (IF RetryBackoff > MaxRetryBackoff THEN MaxRetryBackoff ELSE RetryBackoff)
                           ELSE IF g[n - 1] >= MaxRetryBackoff \div 2 THEN MaxRetryBackoff
                           ELSE 2 * g[n - 1]]
  <1>1. Delay = Step(Delay)
    <2>1. ASSUME NEW n \in Nat PROVE Delay[n] = Step(Delay)[n]
      BY DelayZero, DelayDoubles DEF First
    <2> QED
      BY <2>1 DEF Delay
  <1>2. \E g : g = Step(g)
    BY <1>1
  <1>3. retryDelay = Step(retryDelay)
    BY <1>2 DEF retryDelay
  <1>4. ASSUME NEW n \in Nat \ {0}, retryDelay[n - 1] = Delay[n - 1] PROVE retryDelay[n] = Delay[n]
    <2>1. retryDelay[n] = Step(retryDelay)[n]
      BY <1>3
    <2>2. Step(retryDelay)[n] = IF retryDelay[n - 1] >= MaxRetryBackoff \div 2 THEN MaxRetryBackoff
                                ELSE 2 * retryDelay[n - 1]
      OBVIOUS
    <2> QED
      BY <1>4, <2>1, <2>2, DelayDoubles
  <1>5. retryDelay[0] = Delay[0]
    <2>1. Step(retryDelay)[0] = First
      BY DEF First
    <2> QED
      BY <1>3, <2>1, DelayZero
  <1>6. \A n \in Nat : retryDelay[n] = Delay[n]
    <2> DEFINE T == {n \in Nat : retryDelay[n] # Delay[n]}
    <2> SUFFICES ASSUME T # {} PROVE FALSE
      OBVIOUS
    <2>1. PICK n \in T : \A m \in T : n <= m
      BY NatMin
    <2>2. n \in Nat \ {0}
      BY <1>5
    <2>3. n - 1 \in Nat /\ ~(n <= n - 1)
      BY <2>2
    <2>4. retryDelay[n - 1] = Delay[n - 1]
      BY <2>1, <2>3
    <2> QED
      BY <1>4, <2>2, <2>4
  <1>7. retryDelay = [n \in Nat |-> retryDelay[n]]
    BY <1>3
  <1>8. Delay = [n \in Nat |-> Delay[n]]
    BY DEF Delay
  <1> QED
    BY <1>6, <1>7, <1>8

\* No delay exceeds the maximum.
LEMMA DelayCapped == ASSUME NEW n \in Nat PROVE Delay[n] <= MaxRetryBackoff
  <1>1. CASE n = 0
    BY <1>1, DelayZero, FirstType
  <1>2. CASE n # 0
    <2>1. n \in Nat \ {0} /\ n - 1 \in Nat
      BY <1>2
    <2>2. Delay[n - 1] \in Nat
      BY <2>1, DelayType
    <2> QED
      BY <2>1, <2>2, DelayDoubles, FirstType
  <1> QED
    BY <1>1, <1>2

\* Products are monotone.
LEMMA ProductGrows ==
  ASSUME NEW a \in Nat, NEW b \in Nat, NEW p \in Nat, NEW q \in Nat, a <= b, p <= q
  PROVE  a * p <= b * q /\ b * q \in Nat
  <1>1. a * p <= b * p /\ b * p <= b * q
    OBVIOUS
  <1> QED
    BY <1>1

\* With an even maximum no delay exceeds the ideal one; with an odd one the
\* loop may jump from less than half of it to the whole.
LEMMA DelayIdeal ==
  ASSUME MaxRetryBackoff % 2 = 0, NEW n \in Nat, NEW m \in Nat, n <= m
  PROVE  Delay[n] <= RetryBackoff * 2^m
  <1>0. 2^m \in Nat /\ 2^n \in Nat /\ 2^n <= 2^m
    BY PowerCounts, PowerGrows
  <1>1. CASE ~Reached(n)
    BY <1>0, <1>1, FirstType, ProductGrows DEF Delay
  <1>2. CASE Reached(n)
    <2>1. PICK k \in 0..(n-1) : First * 2^k >= MaxRetryBackoff \div 2
      BY <1>2 DEF Reached
    <2>2. k \in Nat /\ k + 1 \in Nat /\ k + 1 <= m
      OBVIOUS
    <2>3. 2^k \in Nat /\ 2^(k+1) = 2 * 2^k /\ 2^(k+1) \in Nat /\ 2^(k+1) <= 2^m
      BY <2>2, PowerCounts, PowerDoubles, PowerGrows
    <2>4. First * 2^(k+1) <= RetryBackoff * 2^m /\ RetryBackoff * 2^m \in Nat
      BY <1>0, <2>3, FirstType, ProductGrows
    <2>5. ASSUME NEW f \in Nat, NEW p \in Nat, NEW half \in Nat, NEW i \in Nat,
                 f * p >= half, f * (2 * p) <= i
          PROVE  2 * half <= i
      <3>1. f * (2 * p) = 2 * (f * p) /\ f * p \in Nat
        OBVIOUS
      <3> QED
        BY <2>5, <3>1
    <2>6. 2 * (MaxRetryBackoff \div 2) = MaxRetryBackoff /\ MaxRetryBackoff \div 2 \in Nat
      BY FirstType
    <2>7. First * (2 * 2^k) <= RetryBackoff * 2^m
      BY <2>3, <2>4
    <2>8. 2 * (MaxRetryBackoff \div 2) <= RetryBackoff * 2^m
      BY <2>1, <2>3, <2>4, <2>5, <2>6, <2>7, FirstType
    <2> QED
      BY <1>2, <2>6, <2>8 DEF Delay
  <1> QED
    BY <1>1, <1>2

------------------------------------------------------------------------------
(* The inductive invariant. *)

Row == [status : {"ABSENT", "PENDING", "FAILED", "PUBLISHED"}, retry : 0..MaxRetry, wait : Int]

\* An accepted row that a run has not settled is out of reach until a lease
\* after the time that the run read for DueBefore.
LeaseHeld ==
    \A r \in Replicas : \A e \in Claimed(r) \ Rejected : row[e].wait + worker[r].age >= Lease

\* Rows are held between the claim and the last settlement, where the age of
\* the run is counted; the second clock read follows the first.
Sound(w) ==
    /\ DOMAIN w.batch # {} => w.pc \in {"reply", "handle"}
    /\ w.lag <= w.age
    /\ w.pc # "handle" => w.lag = 0

WorkersSound == \A r \in Replicas : Sound(worker[r])

\* A run read the retry count of a row at or before its present value.
CountRead == \A r \in Replicas : \A e \in Claimed(r) : worker[r].batch[e] <= row[e].retry

PublishedAccepted == \A e \in Events : row[e].status = "PUBLISHED" => e \notin Rejected

IInv == TypeOK /\ LeaseHeld /\ LeaseExclusive /\ WorkersSound /\ CountRead /\ PublishedAccepted

\* What the proofs use of the constants.
LEMMA Constants ==
  /\ Nil \notin Replicas /\ Events \subseteq Nat /\ Supported \subseteq Events /\ Rejected \subseteq Events
  /\ Lease \in Nat \ {0} /\ LockTTL \in Nat \ {0} /\ MaxRetry \in Nat /\ MaxFaults \in Nat
  /\ MaxHold \in Nat \ {0}
  BY OutboxAssumption

\* A replica without a run has the type of a worker and holds no row.
LEMMA RestedOK == Rested \in Worker /\ DOMAIN Rested.batch = {} /\ <<>> \in Batch /\ Sound(Rested)
  <1>1. <<>> \in [{} -> 0..MaxRetry]
    OBVIOUS
  <1>2. <<>> \in Batch
    BY <1>1 DEF Batch
  <1>3. 0 \in 0..MaxHold
    BY Constants
  <1>4. Rested \in Worker /\ DOMAIN Rested.batch = {}
    BY <1>2, <1>3 DEF Rested, Worker
  <1>5. Rested.lag = 0 /\ Rested.age = 0
    BY DEF Rested
  <1>6. Sound(Rested)
    BY <1>4, <1>5 DEF Sound
  <1> QED
    BY <1>2, <1>4, <1>6

\* What the type invariant says of one batch.
LEMMA BatchType ==
  ASSUME TypeOK, NEW r \in Replicas
  PROVE  /\ worker[r] \in Worker /\ Claimed(r) \subseteq Events
         /\ \A e \in Claimed(r) : worker[r].batch[e] \in 0..MaxRetry
  <1>1. worker[r] \in Worker /\ worker[r].batch \in Batch
    BY DEF TypeOK, Worker
  <1>2. PICK B \in SUBSET Events : worker[r].batch \in [B -> 0..MaxRetry]
    BY <1>1 DEF Batch
  <1> QED
    BY <1>1, <1>2 DEF Claimed

\* A step that leaves the rows alone and leaves one run with its batch, or
\* with none.
LEMMA WorkerStep ==
  ASSUME IInv, NEW r \in Replicas, NEW w \in Worker, worker' = [worker EXCEPT ![r] = w], UNCHANGED row,
         DOMAIN w.batch = {} \/ (w.batch = worker[r].batch /\ w.age = worker[r].age), Sound(w),
         lock' \in Replicas \cup {Nil}, ttl' \in 0..LockTTL, polled' \subseteq Replicas,
         faults' \in 0..MaxFaults
  PROVE  IInv'
  <1>1. worker'[r] = w /\ \A q \in Replicas : q # r => worker'[q] = worker[q]
    BY DEF IInv, TypeOK
  <1>2. TypeOK'
    BY DEF IInv, TypeOK
  <1>3. \A q \in Replicas : \A e \in Claimed(q)' :
           e \in Claimed(q) /\ worker'[q].batch = worker[q].batch /\ worker'[q].age = worker[q].age
    BY <1>1 DEF Claimed
  <1>4. LeaseHeld'
    BY <1>3 DEF IInv, LeaseHeld
  <1>5. LeaseExclusive'
    BY <1>3 DEF IInv, LeaseExclusive
  <1>6. CountRead' /\ PublishedAccepted'
    BY <1>3 DEF IInv, CountRead, PublishedAccepted
  <1>7. WorkersSound'
    <2> SUFFICES ASSUME NEW q \in Replicas PROVE Sound(worker'[q])
      BY DEF WorkersSound, Sound
    <2> QED
      BY <1>1 DEF IInv, WorkersSound
  <1> QED
    BY <1>2, <1>4, <1>5, <1>6, <1>7 DEF IInv

\* A step of the lock or the ticker alone.
LEMMA IdleStep ==
  ASSUME IInv, UNCHANGED <<row, worker>>, lock' \in Replicas \cup {Nil}, ttl' \in 0..LockTTL,
         polled' \subseteq Replicas, faults' \in 0..MaxFaults
  PROVE  IInv'
  BY DEF IInv, TypeOK, LeaseHeld, LeaseExclusive, WorkersSound, Sound, CountRead, PublishedAccepted, Claimed

\* A fault is counted within the bound.
LEMMA FaultType == ASSUME TypeOK, Fault PROVE faults' \in 0..MaxFaults
  BY Constants DEF TypeOK, Fault

\* A run ends: what it has not settled is nobody's until the lease is over.
LEMMA EndStep ==
  ASSUME IInv, NEW r \in Replicas, End(r), UNCHANGED <<row, lock, ttl, polled>>, faults' \in 0..MaxFaults
  PROVE  IInv'
  <1> DEFINE w == [worker[r] EXCEPT !.pc = "release", !.batch = <<>>, !.age = 0, !.lag = 0]
  <1>1. worker[r] \in Worker
    BY DEF IInv, TypeOK
  <1>2. w \in Worker /\ w.batch = <<>> /\ w.age = 0 /\ w.lag = 0
    <2>1. 0 \in 0..MaxHold
      BY Constants
    <2> QED
      BY <1>1, <2>1, RestedOK DEF Worker
  <1>3. worker' = [worker EXCEPT ![r] = w]
    BY <1>1 DEF End, Worker
  <1>4. DOMAIN w.batch = {} /\ Sound(w)
    <2> HIDE DEF w
    <2> QED
      BY <1>2 DEF Sound
  <1>5. lock' \in Replicas \cup {Nil} /\ ttl' \in 0..LockTTL /\ polled' \subseteq Replicas
    BY DEF IInv, TypeOK
  <1> HIDE DEF w
  <1> QED
    BY <1>2, <1>3, <1>4, <1>5, WorkerStep

\* The steps of scheduler, lock and environment that take a run to its start
\* or its end, or only mark it.
LEMMA MarkStep ==
  ASSUME IInv, NEW r \in Replicas,
         \/ worker' = [worker EXCEPT ![r] = Rested]
         \/ worker' = [worker EXCEPT ![r] = [Rested EXCEPT !.pc = "start"]]
         \/ worker' = [worker EXCEPT ![r] = [Rested EXCEPT !.pc = "down"]]
         \/ worker' = [worker EXCEPT ![r].cancelled = TRUE]
         \/ worker' = [worker EXCEPT ![r].slow = TRUE],
         UNCHANGED row, lock' \in Replicas \cup {Nil}, ttl' \in 0..LockTTL, polled' \subseteq Replicas,
         faults' \in 0..MaxFaults
  PROVE  IInv'
  <1>1. worker[r] \in Worker
    BY DEF IInv, TypeOK
  <1>2. CASE worker' = [worker EXCEPT ![r] = Rested]
    BY <1>2, RestedOK, WorkerStep
  <1>3. ASSUME NEW pc \in {"start", "down"}, worker' = [worker EXCEPT ![r] = [Rested EXCEPT !.pc = pc]]
        PROVE  IInv'
    <2> DEFINE w == [Rested EXCEPT !.pc = pc]
    <2>1. w \in Worker /\ DOMAIN w.batch = {} /\ w.age = 0 /\ w.lag = 0
      BY RestedOK DEF Worker, Rested
    <2> HIDE DEF w
    <2>2. worker' = [worker EXCEPT ![r] = w]
      BY <1>3 DEF w
    <2>3. Sound(w)
      BY <2>1 DEF Sound
    <2> QED
      BY <2>1, <2>2, <2>3, WorkerStep
  <1>4. CASE worker' = [worker EXCEPT ![r].cancelled = TRUE]
    <2> DEFINE w == [worker[r] EXCEPT !.cancelled = TRUE]
    <2>1. /\ w \in Worker /\ w.batch = worker[r].batch /\ w.age = worker[r].age
          /\ w.lag = worker[r].lag /\ w.pc = worker[r].pc
      BY <1>1 DEF Worker
    <2> HIDE DEF w
    <2>2. worker' = [worker EXCEPT ![r] = w]
      BY <1>4 DEF w
    <2>3. Sound(w)
      BY <2>1 DEF IInv, WorkersSound, Sound
    <2> QED
      BY <2>1, <2>2, <2>3, WorkerStep
  <1>5. CASE worker' = [worker EXCEPT ![r].slow = TRUE]
    <2> DEFINE w == [worker[r] EXCEPT !.slow = TRUE]
    <2>1. /\ w \in Worker /\ w.batch = worker[r].batch /\ w.age = worker[r].age
          /\ w.lag = worker[r].lag /\ w.pc = worker[r].pc
      BY <1>1 DEF Worker
    <2> HIDE DEF w
    <2>2. worker' = [worker EXCEPT ![r] = w]
      BY <1>5 DEF w
    <2>3. Sound(w)
      BY <2>1 DEF IInv, WorkersSound, Sound
    <2> QED
      BY <2>1, <2>2, <2>3, WorkerStep
  <1> QED
    BY <1>2, <1>3, <1>4, <1>5

------------------------------------------------------------------------------
(* One lemma per action. *)

\* The clock is read before any row is held.
LEMMA ReadClockStep == ASSUME IInv, NEW r \in Replicas, ReadClock(r) PROVE IInv'
  <1> DEFINE w == [worker[r] EXCEPT !.pc = "claim", !.age = 0]
  <1>1. worker[r] \in Worker /\ 0 \in 0..MaxHold
    BY Constants DEF IInv, TypeOK
  <1>2. w \in Worker /\ w.batch = worker[r].batch /\ w.age = 0 /\ w.lag = worker[r].lag /\ w.pc = "claim"
    BY <1>1 DEF Worker
  <1>3. worker' = [worker EXCEPT ![r] = w]
    BY <1>1 DEF ReadClock, Worker
  <1> HIDE DEF w
  <1>4. DOMAIN worker[r].batch = {} /\ worker[r].lag = 0
    BY DEF ReadClock, IInv, WorkersSound, Sound
  <1>5. DOMAIN w.batch = {} /\ Sound(w)
    BY <1>2, <1>4 DEF Sound
  <1> QED
    BY <1>2, <1>3, <1>5, WorkerStep DEF ReadClock, IInv, TypeOK

\* The clock is read again: the rows and the age stay.
LEMMA ReceiveStep == ASSUME IInv, NEW r \in Replicas, Receive(r) PROVE IInv'
  <1> DEFINE w == [worker[r] EXCEPT !.pc = "handle", !.lag = worker[r].age]
  <1>1. worker[r] \in Worker /\ worker[r].age \in 0..MaxHold
    BY DEF IInv, TypeOK, Worker
  <1>2. w \in Worker /\ w.batch = worker[r].batch /\ w.age = worker[r].age /\ w.lag = worker[r].age /\ w.pc = "handle"
    BY <1>1 DEF Worker
  <1>3. worker' = [worker EXCEPT ![r] = w]
    BY <1>1 DEF Receive, Worker
  <1> HIDE DEF w
  <1>4. Sound(w)
    <2>1. worker[r].age <= worker[r].age
      BY <1>1, Constants
    <2> QED
      BY <1>2, <2>1 DEF Sound
  <1> QED
    BY <1>2, <1>3, <1>4, WorkerStep DEF Receive, IInv, TypeOK

\* A row is claimed by a run whose DueBefore is not before the row's time:
\* whoever else has it read the clock a whole lease earlier.
LEMMA ClaimStep == ASSUME IInv, NEW r \in Replicas, Claim(r) PROVE IInv'
  <1>1. CASE End(r) /\ UNCHANGED row
    <2>1. faults' \in 0..MaxFaults
      BY DEF Claim, IInv, TypeOK
    <2> QED
      BY <1>1, <2>1, EndStep DEF Claim
  <1>2. CASE ~worker[r].cancelled
    <2> DEFINE age == worker[r].age
               C == Candidates(age)
               b == [e \in C |-> row[e].retry]
               w == [worker[r] EXCEPT !.pc = "reply", !.batch = b]
    <2>0. UNCHANGED <<lock, ttl, polled, faults>> /\ worker[r] \in Worker /\ worker[r].pc = "claim"
      BY DEF Claim, IInv, TypeOK
    <2>1. worker' = [worker EXCEPT ![r] = w]
      BY <1>2, <2>0 DEF Claim, Worker
    <2>2. row' = [e \in Events |-> IF e \in C THEN [row[e] EXCEPT !.wait = Lease - age] ELSE row[e]]
      BY <1>2 DEF Claim
    <2>3. \A e \in Events : row[e] \in Row
      BY DEF IInv, TypeOK, Row
    <2>4. C \subseteq Events /\ \A e \in C : row[e].wait + age <= 0
      BY DEF Candidates, Due
    <2>a. age \in Nat /\ \A q \in Replicas : worker[q].age \in Nat
      BY BatchType, Constants DEF IInv, Worker
    <2>b. Lease - age \in Int /\ (Lease - age) + age >= Lease
      BY <2>a, Constants
    <2> HIDE DEF C
    <2>5. b \in Batch
      <3>1. b \in [C -> 0..MaxRetry]
        BY <2>3, <2>4 DEF Row
      <3> QED
        BY <2>4, <3>1 DEF Batch
    <2>6. DOMAIN b = C /\ \A e \in C : b[e] = row[e].retry
      OBVIOUS
    <2> HIDE DEF b
    <2>7. w \in Worker /\ w.age = age /\ w.batch = b /\ w.lag = worker[r].lag /\ w.pc = "reply"
      BY <2>0, <2>5 DEF Worker
    <2> HIDE DEF w, age
    <2>8. worker'[r] = w /\ \A q \in Replicas : q # r => worker'[q] = worker[q]
      BY <2>1 DEF IInv, TypeOK
    <2>9. \A e \in Events :
             /\ row'[e] \in Row /\ row'[e].status = row[e].status /\ row'[e].retry = row[e].retry
             /\ e \in C => row'[e].wait = Lease - age
             /\ e \notin C => row'[e] = row[e]
      BY <2>2, <2>3, <2>b DEF Row
    <2>10. Claimed(r)' = C /\ \A q \in Replicas : q # r => Claimed(q)' = Claimed(q)
      BY <2>6, <2>7, <2>8 DEF Claimed
    <2>11. \A q \in Replicas : Claimed(q) \subseteq Events
      BY BatchType DEF IInv
    <2>12. TypeOK'
      <3>1. row' \in [Events -> Row]
        BY <2>2, <2>9
      <3> QED
        BY <2>0, <2>1, <2>7, <3>1 DEF IInv, TypeOK, Row
    <2>13. ASSUME NEW q \in Replicas, NEW e \in (Claimed(q) \cap C) \ Rejected
           PROVE  worker[q].age >= age + Lease
      <3>1. row[e].wait + age <= 0 /\ row[e].wait + worker[q].age >= Lease /\ row[e].wait \in Int
        BY <2>3, <2>4, <2>13 DEF IInv, LeaseHeld, Row
      <3> QED
        BY <2>a, <3>1, Constants
    <2>14. LeaseHeld'
      <3> SUFFICES ASSUME NEW q \in Replicas, NEW e \in Claimed(q)' \ Rejected
                   PROVE  row'[e].wait + worker'[q].age >= Lease
        BY DEF LeaseHeld
      <3>1. CASE q = r
        BY <2>4, <2>7, <2>8, <2>9, <2>10, <2>b, <3>1
      <3>2. CASE q # r /\ e \in C
        <4>1. worker[q].age >= age + Lease
          BY <2>10, <2>13, <3>2
        <4>2. (Lease - age) + worker[q].age >= Lease
          BY <2>a, <4>1, Constants
        <4> QED
          BY <2>4, <2>8, <2>9, <3>2, <4>2
      <3>3. CASE q # r /\ e \notin C
        BY <2>8, <2>9, <2>10, <2>11, <3>3 DEF IInv, LeaseHeld
      <3> QED
        BY <3>1, <3>2, <3>3
    <2>15. LeaseExclusive'
      <3> SUFFICES ASSUME NEW p \in Replicas, NEW q \in Replicas,
                          NEW e \in (Claimed(p)' \cap Claimed(q)') \ Rejected, p # q
                   PROVE  worker'[p].age >= worker'[q].age + Lease \/ worker'[q].age >= worker'[p].age + Lease
        BY DEF LeaseExclusive
      <3>1. CASE p # r /\ q # r
        BY <2>8, <2>10, <3>1 DEF IInv, LeaseExclusive
      <3>2. CASE p = r
        BY <2>7, <2>8, <2>10, <2>13, <3>2
      <3>3. CASE q = r
        BY <2>7, <2>8, <2>10, <2>13, <3>3
      <3> QED
        BY <3>1, <3>2, <3>3
    <2>16. CountRead'
      <3>1. \A e \in C : row[e].retry <= row[e].retry
        BY <2>3, <2>4 DEF Row
      <3> QED
        BY <2>4, <2>6, <2>7, <2>8, <2>9, <2>10, <2>11, <3>1 DEF IInv, CountRead
    <2>17. PublishedAccepted'
      BY <2>9 DEF IInv, PublishedAccepted
    <2>18. WorkersSound'
      <3>1. Sound(w)
        BY <2>0, <2>7 DEF IInv, WorkersSound, Sound, age
      <3> SUFFICES ASSUME NEW q \in Replicas PROVE Sound(worker'[q])
        BY DEF WorkersSound, Sound
      <3> QED
        BY <2>8, <3>1 DEF IInv, WorkersSound
    <2> QED
      BY <2>12, <2>14, <2>15, <2>16, <2>17, <2>18 DEF IInv
  <1> QED
    BY <1>1, <1>2 DEF Claim

\* Settling a row takes it from its batch; only a rejected row's wait is set.
LEMMA HandleStep == ASSUME IInv, NEW r \in Replicas, Handle(r) PROVE IInv'
  <1>1. CASE End(r) /\ UNCHANGED row
    <2>1. faults' \in 0..MaxFaults
      BY DEF Handle, IInv, TypeOK
    <2> QED
      BY <1>1, <2>1, EndStep DEF Handle
  <1>2. ASSUME NEW e \in Claimed(r), Settle(r, e),
               worker' = [worker EXCEPT ![r].batch = [d \in Claimed(r) \ {e} |-> worker[r].batch[d]]]
        PROVE  IInv'
    <2> DEFINE b == [d \in Claimed(r) \ {e} |-> worker[r].batch[d]]
               w == [worker[r] EXCEPT !.batch = b]
    <2>0. UNCHANGED <<lock, ttl, polled, faults>> /\ worker[r] \in Worker
      BY DEF Handle, IInv, TypeOK
    <2>1. /\ Claimed(r) \subseteq Events /\ \A d \in Claimed(r) : worker[r].batch[d] \in 0..MaxRetry
          /\ \A q \in Replicas : Claimed(q) \subseteq Events
      BY BatchType DEF IInv
    <2>2. worker' = [worker EXCEPT ![r] = w]
      BY <1>2, <2>0 DEF Worker
    <2>3. b \in Batch
      <3>1. b \in [Claimed(r) \ {e} -> 0..MaxRetry]
        BY <2>1
      <3> QED
        BY <2>1, <3>1 DEF Batch
    <2>4. DOMAIN b = Claimed(r) \ {e} /\ \A d \in Claimed(r) \ {e} : b[d] = worker[r].batch[d]
      OBVIOUS
    <2> HIDE DEF b
    <2>5. w \in Worker /\ w.age = worker[r].age /\ w.batch = b /\ w.lag = worker[r].lag /\ w.pc = worker[r].pc
      BY <2>0, <2>3 DEF Worker
    <2> HIDE DEF w
    <2>6. worker'[r] = w /\ \A q \in Replicas : q # r => worker'[q] = worker[q]
      BY <2>2 DEF IInv, TypeOK
    <2>7. \A q \in Replicas : \A d \in Claimed(q)' :
             d \in Claimed(q) /\ worker'[q].batch[d] = worker[q].batch[d] /\ worker'[q].age = worker[q].age
      BY <2>4, <2>5, <2>6 DEF Claimed
    <2>8. \A d \in Events : row[d] \in Row
      BY DEF IInv, TypeOK, Row
    <2>9. PICK n \in Row : /\ row' = [row EXCEPT ![e] = n]
                           /\ n.retry >= row[e].retry
                           /\ \/ e \notin Rejected /\ n.wait = row[e].wait /\ n.status = "PUBLISHED"
                              \/ e \in Rejected /\ n.status = "FAILED"
      <3>1. CASE e \notin Rejected
        <4> DEFINE n == [row[e] EXCEPT !.status = "PUBLISHED"]
        <4>1. n \in Row /\ n.retry = row[e].retry /\ n.wait = row[e].wait /\ n.status = "PUBLISHED"
          BY <2>1, <2>8 DEF Row
        <4>2. row' = [row EXCEPT ![e] = n]
          BY <1>2, <3>1 DEF Settle, MarkPublished
        <4>3. row[e].retry \in 0..MaxRetry
          BY <2>1, <2>8 DEF Row
        <4>4. n.retry >= row[e].retry
          BY <4>1, <4>3, Constants
        <4> HIDE DEF n
        <4> QED
          BY <3>1, <4>1, <4>2, <4>4
      <3>2. CASE e \in Rejected
        <4> DEFINE k == worker[r].batch[e]
                   since == worker[r].age - worker[r].lag
                   wait == retryDelay[k] - since
                   retry == IF row[e].retry < MaxRetry THEN row[e].retry + 1 ELSE row[e].retry
                   n == [row[e] EXCEPT !.status = "FAILED", !.wait = wait, !.retry = retry]
        <4>1. k \in Nat /\ since \in Int
          BY <2>0, <2>1, Constants DEF Worker
        <4>2. retryDelay[k] \in Nat
          BY <4>1, DelayType, RetryDelayIs
        <4>3. wait \in Int
          BY <4>1, <4>2
        <4>4. row[e] \in Row /\ row[e].retry \in 0..MaxRetry
          BY <2>1, <2>8 DEF Row
        <4>5. retry \in 0..MaxRetry /\ retry >= row[e].retry
          BY <4>4, Constants
        <4>6. row' = [row EXCEPT ![e] = n]
          BY <1>2, <3>2, <4>4 DEF Settle, MarkFailed, Row
        <4> HIDE DEF k, since, wait, retry
        <4>7. n \in Row /\ n.retry = retry /\ n.status = "FAILED"
          BY <4>3, <4>4, <4>5 DEF Row
        <4> HIDE DEF n
        <4> QED
          BY <3>2, <4>5, <4>6, <4>7
      <3> QED
        BY <3>1, <3>2
    <2>10. row'[e] = n /\ \A d \in Events : d # e => row'[d] = row[d]
      BY <2>1, <2>9 DEF IInv, TypeOK
    <2>11. TypeOK'
      <3>1. row' \in [Events -> Row]
        BY <2>9 DEF IInv, TypeOK, Row
      <3> QED
        BY <2>0, <2>2, <2>5, <3>1 DEF IInv, TypeOK, Row
    <2>12. LeaseHeld'
      BY <2>1, <2>7, <2>9, <2>10 DEF IInv, LeaseHeld
    <2>13. LeaseExclusive'
      BY <2>7 DEF IInv, LeaseExclusive
    <2>14. CountRead'
      <3> SUFFICES ASSUME NEW q \in Replicas, NEW d \in Claimed(q)'
                   PROVE  worker'[q].batch[d] <= row'[d].retry
        BY DEF CountRead
      <3>1. d \in Claimed(q) /\ d \in Events /\ worker'[q].batch[d] = worker[q].batch[d]
        BY <2>1, <2>7
      <3>2. worker[q].batch[d] \in 0..MaxRetry
        BY <3>1, BatchType DEF IInv
      <3>3. worker[q].batch[d] <= row[d].retry /\ row[d].retry \in 0..MaxRetry
        BY <2>8, <3>1 DEF IInv, CountRead, Row
      <3>4. row'[d].retry >= row[d].retry /\ row'[d].retry \in 0..MaxRetry
        <4>1. CASE d = e
          BY <2>9, <2>10, <4>1 DEF Row
        <4>2. CASE d # e
          BY <2>10, <3>1, <3>3, <4>2, Constants
        <4> QED
          BY <4>1, <4>2
      <3> QED
        BY <3>1, <3>2, <3>3, <3>4, Constants
    <2>15. PublishedAccepted'
      BY <2>9, <2>10 DEF IInv, PublishedAccepted
    <2>16. WorkersSound'
      <3>1. Sound(w)
        BY <2>4, <2>5 DEF IInv, WorkersSound, Sound, Claimed
      <3> SUFFICES ASSUME NEW q \in Replicas PROVE Sound(worker'[q])
        BY DEF WorkersSound, Sound
      <3> QED
        BY <2>6, <3>1 DEF IInv, WorkersSound
    <2> QED
      BY <2>11, <2>12, <2>13, <2>14, <2>15, <2>16 DEF IInv
  <1> QED
    BY <1>1, <1>2 DEF Handle

\* A new row is in no batch that counts.
LEMMA EnqueueStep == ASSUME IInv, NEW e \in Events, Enqueue(e) PROVE IInv'
  <1> DEFINE n == [row[e] EXCEPT !.status = "PENDING"]
  <1>0. UNCHANGED <<lock, ttl, worker, polled, faults>> /\ row[e] \in Row
    BY DEF Enqueue, IInv, TypeOK, Row
  <1>1. n \in Row /\ n.status = "PENDING" /\ n.retry = row[e].retry /\ n.wait = row[e].wait
    BY <1>0 DEF Row
  <1>2. row' = [row EXCEPT ![e] = n]
    BY DEF Enqueue
  <1> HIDE DEF n
  <1>3. row'[e] = n /\ \A d \in Events : d # e => row'[d] = row[d]
    BY <1>2 DEF IInv, TypeOK
  <1>4. \A d \in Events : row'[d].retry = row[d].retry /\ row'[d].wait = row[d].wait
    BY <1>1, <1>3
  <1>5. \A q \in Replicas : Claimed(q) \subseteq Events /\ Claimed(q)' = Claimed(q)
    BY <1>0, BatchType DEF IInv, Claimed
  <1>6. TypeOK'
    BY <1>0, <1>1, <1>2 DEF IInv, TypeOK, Row
  <1>7. LeaseHeld' /\ CountRead'
    BY <1>0, <1>4, <1>5 DEF IInv, LeaseHeld, CountRead
  <1>8. LeaseExclusive'
    BY <1>0, <1>5 DEF IInv, LeaseExclusive
  <1>9. PublishedAccepted' /\ WorkersSound'
    BY <1>0, <1>1, <1>3 DEF IInv, PublishedAccepted, WorkersSound, Sound
  <1> QED
    BY <1>6, <1>7, <1>8, <1>9 DEF IInv

\* The lease on a row goes down by at most what the age of its holder goes up.
LEMMA TickStep == ASSUME IInv, Tick PROVE IInv'
  <1>1. ASSUME NEW e \in Events
        PROVE  /\ row[e] \in Row /\ row'[e] \in Row
               /\ row'[e].status = row[e].status /\ row'[e].retry = row[e].retry
               /\ row'[e].wait \in {row[e].wait, row[e].wait - 1}
    <2> DEFINE wait == IF Claimable(e) /\ row[e].wait > -MaxHold THEN row[e].wait - 1 ELSE row[e].wait
    <2>1. row[e] \in Row
      BY DEF IInv, TypeOK, Row
    <2>2. wait \in Int /\ wait \in {row[e].wait, row[e].wait - 1}
      BY <2>1 DEF Row
    <2>3. row'[e] = [row[e] EXCEPT !.wait = wait]
      BY DEF Tick
    <2> HIDE DEF wait
    <2>4. row'[e] \in Row /\ row'[e].status = row[e].status /\ row'[e].retry = row[e].retry /\ row'[e].wait = wait
      BY <2>1, <2>2, <2>3 DEF Row
    <2> QED
      BY <2>1, <2>2, <2>4
  <1>2. ASSUME NEW r \in Replicas
        PROVE  /\ worker[r] \in Worker /\ worker'[r] \in Worker /\ worker'[r].batch = worker[r].batch
               /\ worker'[r].lag = worker[r].lag /\ worker'[r].pc = worker[r].pc
               /\ worker'[r].age = IF Consuming(r) THEN worker[r].age + 1 ELSE worker[r].age
    <2> DEFINE age == IF Consuming(r) THEN worker[r].age + 1 ELSE worker[r].age
    <2>1. worker[r] \in Worker /\ worker[r].age \in 0..MaxHold
      BY DEF IInv, TypeOK, Worker
    <2>2. Consuming(r) => worker[r].age < MaxHold
      BY DEF Tick, Consuming
    <2>3. age \in 0..MaxHold
      BY <2>1, <2>2, Constants
    <2>4. worker'[r] = [worker[r] EXCEPT !.age = age]
      BY DEF Tick
    <2> HIDE DEF age
    <2>5. /\ worker'[r] \in Worker /\ worker'[r].batch = worker[r].batch /\ worker'[r].age = age
          /\ worker'[r].lag = worker[r].lag /\ worker'[r].pc = worker[r].pc
      BY <2>1, <2>3, <2>4 DEF Worker
    <2> QED
      BY <2>1, <2>5 DEF age
  <1>3. \A r \in Replicas : Claimed(r)' = Claimed(r) /\ Claimed(r) \subseteq Events
    BY <1>2, BatchType DEF IInv, Claimed
  <1>a. \A r \in Replicas : worker[r].age \in Nat /\ worker[r].lag \in Nat
    BY <1>2, Constants DEF Worker
  <1>b. ASSUME NEW r \in Replicas, Claimed(r) # {} PROVE worker'[r].age = worker[r].age + 1
    BY <1>2, <1>b DEF IInv, WorkersSound, Sound, Claimed, Consuming
  <1>4. TypeOK'
    <2>1. row' \in [Events -> Row] /\ worker' \in [Replicas -> Worker]
      BY <1>1, <1>2 DEF Tick
    <2>2. ttl' \in 0..LockTTL /\ lock' \in Replicas \cup {Nil} /\ polled' \subseteq Replicas /\ faults' \in 0..MaxFaults
      BY Constants DEF Tick, IInv, TypeOK
    <2> QED
      BY <2>1, <2>2 DEF TypeOK, Row
  <1>5. LeaseHeld'
    <2> SUFFICES ASSUME NEW r \in Replicas, NEW e \in Claimed(r) \ Rejected
                 PROVE  row'[e].wait + worker'[r].age >= Lease
      BY <1>3 DEF LeaseHeld
    <2>1. e \in Events /\ worker'[r].age = worker[r].age + 1
      BY <1>3, <1>b
    <2>2. worker[r].age \in Nat /\ row[e].wait \in Int
      BY <1>1, <1>a, <2>1 DEF Row
    <2>3. row[e].wait + worker[r].age >= Lease
      BY DEF IInv, LeaseHeld
    <2>4. row'[e].wait \in {row[e].wait, row[e].wait - 1}
      BY <1>1, <2>1
    <2> QED
      BY <2>1, <2>2, <2>3, <2>4, Constants
  <1>6. LeaseExclusive'
    <2> SUFFICES ASSUME NEW p \in Replicas, NEW q \in Replicas,
                        NEW e \in (Claimed(p)' \cap Claimed(q)') \ Rejected, p # q
                 PROVE  worker'[p].age >= worker'[q].age + Lease \/ worker'[q].age >= worker'[p].age + Lease
      BY DEF LeaseExclusive
    <2>1. e \in (Claimed(p) \cap Claimed(q)) \ Rejected
      BY <1>3
    <2>2. worker'[p].age = worker[p].age + 1 /\ worker'[q].age = worker[q].age + 1
      BY <1>b, <2>1
    <2>3. worker[p].age >= worker[q].age + Lease \/ worker[q].age >= worker[p].age + Lease
      BY <2>1 DEF IInv, LeaseExclusive
    <2> QED
      BY <1>a, <2>2, <2>3, Constants
  <1>7. CountRead' /\ PublishedAccepted'
    BY <1>1, <1>2, <1>3 DEF IInv, CountRead, PublishedAccepted
  <1>8. WorkersSound'
    <2> SUFFICES ASSUME NEW r \in Replicas PROVE Sound(worker'[r])
      BY DEF WorkersSound, Sound
    <2>1. Sound(worker[r]) /\ worker[r].age \in Nat /\ worker[r].lag \in Nat
      BY <1>a DEF IInv, WorkersSound
    <2>2. worker[r].lag <= worker'[r].age
      BY <1>2, <2>1 DEF Sound
    <2> QED
      BY <1>2, <2>1, <2>2 DEF Sound
  <1> QED
    BY <1>4, <1>5, <1>6, <1>7, <1>8 DEF IInv

\* Scheduler, lock and faults.
LEMMA OtherStep ==
  ASSUME IInv, NEW r \in Replicas,
         \/ Poll(r) \/ Release(r) \/ Renew(r) \/ Restart(r) \/ StatementFails(r) \/ PollReplyLost(r)
         \/ Cancel(r) \/ ReleaseFails(r) \/ Slow(r) \/ Crash(r)
  PROVE  IInv'
  <1>0. TypeOK /\ lock \in Replicas \cup {Nil} /\ ttl \in 0..LockTTL /\ polled \subseteq Replicas /\ faults \in 0..MaxFaults
    BY DEF IInv, TypeOK
  <1>t. LockTTL \in 0..LockTTL /\ 0 \in 0..LockTTL
    BY Constants
  <1>1. CASE Poll(r)
    BY <1>0, <1>t, <1>1, IdleStep, MarkStep DEF Poll
  <1>2. CASE Release(r)
    BY <1>0, <1>t, <1>2, MarkStep DEF Release
  <1>3. CASE Renew(r)
    BY <1>0, <1>t, <1>3, IdleStep, MarkStep DEF Renew
  <1>4. CASE Restart(r)
    BY <1>0, <1>4, MarkStep DEF Restart
  <1>5. CASE StatementFails(r)
    BY <1>0, <1>5, EndStep, FaultType DEF StatementFails
  <1>6. CASE PollReplyLost(r)
    BY <1>0, <1>t, <1>6, IdleStep, FaultType DEF PollReplyLost
  <1>7. CASE Cancel(r)
    BY <1>0, <1>7, MarkStep, FaultType DEF Cancel
  <1>8. CASE ReleaseFails(r)
    BY <1>0, <1>8, MarkStep, FaultType DEF ReleaseFails
  <1>9. CASE Slow(r)
    BY <1>0, <1>9, MarkStep, FaultType DEF Slow
  <1>10. CASE Crash(r)
    BY <1>0, <1>10, MarkStep, FaultType DEF Crash
  <1> QED
    BY <1>1, <1>2, <1>3, <1>4, <1>5, <1>6, <1>7, <1>8, <1>9, <1>10

\* Init: the table is empty and nobody runs.
LEMMA InitOK == ASSUME Init PROVE IInv
  <1>1. \A r \in Replicas : worker[r] = Rested /\ Claimed(r) = {}
    BY RestedOK DEF Init, Claimed
  <1>2. TypeOK
    BY RestedOK, Constants DEF Init, TypeOK
  <1>3. LeaseHeld /\ LeaseExclusive /\ CountRead /\ WorkersSound
    BY <1>1, RestedOK DEF LeaseHeld, LeaseExclusive, CountRead, WorkersSound
  <1>4. PublishedAccepted
    BY DEF Init, PublishedAccepted
  <1> QED
    BY <1>2, <1>3, <1>4 DEF IInv

\* The invariant holds in every behaviour.
LEMMA Inductive == Spec => []IInv
  <1>1. ASSUME IInv, [Next]_vars PROVE IInv'
    <2>1. CASE UNCHANGED vars
      BY <1>1, <2>1, IdleStep DEF vars, IInv, TypeOK
    <2>2. CASE Next
      BY <1>1, <2>2, ReadClockStep, ClaimStep, ReceiveStep, HandleStep, OtherStep, EnqueueStep, TickStep DEF Next, RunStep
    <2> QED
      BY <1>1, <2>1, <2>2
  <1> QED
    BY <1>1, InitOK, PTL DEF Spec

------------------------------------------------------------------------------
(* The theorems. *)

\* For any replicas, rows, batch sizes, delays and faults, the rows, the lock
\* and the runs of the job service keep their types.
THEOREM TypeCorrect == Spec => []TypeOK
  <1>1. IInv => TypeOK
    BY DEF IInv
  <1> QED
    BY <1>1, Inductive, PTL

\* For any replicas and faults, the claim lease of the OutboxReader keeps two
\* runs off an accepted row unless they read DueBefore a whole lease apart, with
\* no help of the Redis lock and however late their statements come.
THEOREM LeaseExclusiveAlways == Spec => []LeaseExclusive
  <1>1. IInv => LeaseExclusive
    BY DEF IInv
  <1> QED
    BY <1>1, Inductive, PTL

\* What a step does to the rows.
LEMMA RowSteps ==
  ASSUME IInv, Next, NEW e \in Events
  PROVE  \/ row'[e].status = row[e].status /\ row'[e].retry = row[e].retry
         \/ row[e].status = "ABSENT" /\ row'[e].retry = row[e].retry
         \/ row'[e].status = "PUBLISHED" /\ row'[e].retry = row[e].retry
         \/ /\ e \in Rejected
            /\ \E r \in Replicas : /\ e \in Claimed(r)
                                   /\ MarkFailed(e, worker[r].batch[e], worker[r].age - worker[r].lag)
  <1>0. row \in [Events -> Row]
    BY DEF IInv, TypeOK, Row
  <1>1. CASE UNCHANGED row
    BY <1>1
  <1>2. ASSUME NEW r \in Replicas, Claim(r), ~UNCHANGED row
        PROVE  row'[e].status = row[e].status /\ row'[e].retry = row[e].retry
    BY <1>0, <1>2 DEF Claim, Row
  <1>3. ASSUME NEW d \in Events, MarkPublished(d)
        PROVE  row'[e].status \in {row[e].status, "PUBLISHED"} /\ row'[e].retry = row[e].retry
    BY <1>0, <1>3 DEF MarkPublished, Row
  <1>4. ASSUME NEW d \in Events, NEW n, NEW age, MarkFailed(d, n, age), d # e PROVE row'[e] = row[e]
    BY <1>0, <1>4 DEF MarkFailed
  <1>5. ASSUME NEW r \in Replicas, Handle(r), ~UNCHANGED row
        PROVE  \/ row'[e].status = row[e].status /\ row'[e].retry = row[e].retry
               \/ row'[e].status = "PUBLISHED" /\ row'[e].retry = row[e].retry
               \/ e \in Rejected /\ e \in Claimed(r) /\ MarkFailed(e, worker[r].batch[e], worker[r].age - worker[r].lag)
    <2>1. PICK d \in Claimed(r) : Settle(r, d)
      BY <1>5 DEF Handle
    <2>2. d \in Events
      BY <2>1, BatchType DEF IInv
    <2> QED
      BY <1>3, <1>4, <2>1, <2>2 DEF Settle
  <1>6. ASSUME NEW d \in Events, Enqueue(d)
        PROVE  /\ row'[e].retry = row[e].retry
               /\ row'[e].status = row[e].status \/ row[e].status = "ABSENT"
    BY <1>0, <1>6 DEF Enqueue, Row
  <1>7. ASSUME Tick PROVE row'[e].status = row[e].status /\ row'[e].retry = row[e].retry
    BY <1>0, <1>7 DEF Tick, Row
  <1>8. ASSUME NEW r \in Replicas,
               \/ Poll(r) \/ Release(r) \/ Renew(r) \/ Restart(r) \/ StatementFails(r) \/ PollReplyLost(r)
               \/ Cancel(r) \/ ReleaseFails(r) \/ Slow(r) \/ Crash(r) \/ ReadClock(r) \/ Receive(r)
        PROVE  UNCHANGED row
    BY <1>8 DEF ReadClock, Receive, Poll, Release, Renew, Restart, StatementFails, PollReplyLost, Cancel, ReleaseFails, Slow, Crash
  <1> QED
    BY <1>1, <1>2, <1>5, <1>6, <1>7, <1>8 DEF Next, RunStep

\* For any replicas and faults, no statement of a run, however late, takes a
\* published row back, although MarkFailed does not look at the status.
THEOREM PublishedIsFinalAlways == Spec => PublishedIsFinal
  <1> DEFINE Final == \A e \in Events : row[e].status = "PUBLISHED" => row'[e].status = "PUBLISHED"
  <1>1. ASSUME IInv, [Next]_vars PROVE [Final]_vars
    <2>1. ASSUME Next, NEW e \in Events, row[e].status = "PUBLISHED" PROVE row'[e].status = "PUBLISHED"
      BY <1>1, <2>1, RowSteps DEF IInv, PublishedAccepted
    <2> QED
      BY <1>1, <2>1
  <1>2. IInv /\ [Next]_vars => [Final]_vars
    BY <1>1
  <1> QED
    BY <1>2, Inductive, PTL DEF Spec, PublishedIsFinal

\* For any replicas and faults, only the compare-and-delete of its owner or the
\* end of its TTL takes the job lock away, and nobody takes it over in that
\* step.
THEOREM LockOnlyReleasedByOwnerAlways == Spec => LockOnlyReleasedByOwner
  <1> DEFINE Own == lock # Nil /\ lock' # lock => lock' = Nil /\ (worker[lock].pc = "release" \/ ttl <= 1)
  <1>1. ASSUME IInv, [Next]_vars PROVE [Own]_vars
    <2> SUFFICES ASSUME Next, lock # Nil, lock' # lock
                 PROVE  lock' = Nil /\ (worker[lock].pc = "release" \/ ttl <= 1)
      BY <1>1
    <2>1. ASSUME NEW r \in Replicas, Poll(r) \/ PollReplyLost(r) PROVE FALSE
      BY <2>1 DEF Poll, PollReplyLost
    <2>2. ASSUME NEW r \in Replicas, Release(r) PROVE lock' = Nil /\ worker[lock].pc = "release"
      BY <2>2 DEF Release
    <2>3. ASSUME Tick PROVE lock' = Nil /\ ttl <= 1
      BY <1>1, <2>3, Constants DEF Tick, IInv, TypeOK
    <2>4. ASSUME NEW r \in Replicas,
                 \/ Claim(r) \/ Handle(r) \/ Renew(r) \/ Restart(r) \/ StatementFails(r)
                 \/ Cancel(r) \/ ReleaseFails(r) \/ Slow(r) \/ Crash(r) \/ ReadClock(r) \/ Receive(r)
          PROVE  FALSE
      BY <2>4 DEF ReadClock, Receive, Claim, Handle, Renew, Restart, StatementFails, Cancel, ReleaseFails, Slow, Crash
    <2>5. ASSUME NEW e \in Events, Enqueue(e) PROVE FALSE
      BY <2>5 DEF Enqueue
    <2> QED
      BY <2>1, <2>2, <2>3, <2>4, <2>5 DEF Next, RunStep
  <1>2. IInv /\ [Next]_vars => [Own]_vars
    BY <1>1
  <1> QED
    BY <1>2, Inductive, PTL DEF Spec, LockOnlyReleasedByOwner

\* For any delays whose maximum is even, a failed row is due again after at
\* most RetryBackoff doubled retry_count times and capped, counted from the
\* clock read after the claim.  With an odd maximum the loop of retryDelay, which compares with half
\* the maximum rounded down, may reach the maximum one doubling early.
THEOREM BackoffBoundedAlways == ASSUME MaxRetryBackoff % 2 = 0 PROVE Spec => BackoffBounded
  <1> DEFINE Ideal(e) == RetryBackoff * 2 ^ row[e].retry
             Bounded == \A e \in Events :
                           row[e].retry < row'[e].retry =>
                              row'[e].wait <= IF Ideal(e) < MaxRetryBackoff THEN Ideal(e) ELSE MaxRetryBackoff
  <1>1. ASSUME IInv, [Next]_vars PROVE [Bounded]_vars
    <2> SUFFICES ASSUME Next, NEW e \in Events, row[e].retry < row'[e].retry
                 PROVE  row'[e].wait <= Ideal(e) /\ row'[e].wait <= MaxRetryBackoff
      BY <1>1
    <2>0. row \in [Events -> Row] /\ row[e] \in Row /\ row[e].retry \in 0..MaxRetry /\ row[e].retry \in Nat
      BY <1>1, Constants DEF IInv, TypeOK, Row
    <2>1. ~(row[e].retry < row[e].retry)
      BY <2>0
    <2>2. PICK r \in Replicas : e \in Claimed(r) /\ MarkFailed(e, worker[r].batch[e], worker[r].age - worker[r].lag)
      BY <1>1, <2>1, RowSteps
    <2> DEFINE n == worker[r].batch[e]
               since == worker[r].age - worker[r].lag
               wait == retryDelay[n] - since
    <2>3. n \in Nat /\ since \in Nat /\ n <= row[e].retry
      <3>1. worker[r].age \in Nat /\ worker[r].lag \in Nat /\ worker[r].lag <= worker[r].age
        BY <1>1, BatchType, Constants DEF IInv, Worker, WorkersSound, Sound
      <3>2. n \in Nat /\ n <= row[e].retry
        BY <1>1, <2>2, BatchType, Constants DEF IInv, CountRead
      <3> QED
        BY <3>1, <3>2
    <2>4. row'[e].wait = wait
      <3> DEFINE retry == IF row[e].retry < MaxRetry THEN row[e].retry + 1 ELSE row[e].retry
                 m == [row[e] EXCEPT !.status = "FAILED", !.wait = wait, !.retry = retry]
      <3>1. row' = [row EXCEPT ![e] = m]
        BY <2>0, <2>2 DEF MarkFailed, Row
      <3> HIDE DEF wait, retry
      <3>2. m.wait = wait
        BY <2>0 DEF Row
      <3> HIDE DEF m
      <3> QED
        BY <2>0, <3>1, <3>2
    <2>5. retryDelay[n] \in Nat /\ retryDelay[n] <= MaxRetryBackoff /\ retryDelay[n] <= Ideal(e)
      BY <2>0, <2>3, RetryDelayIs, DelayType, DelayCapped, DelayIdeal
    <2>6. Ideal(e) \in Nat
      <3>1. 2 ^ row[e].retry \in Nat
        BY <2>0, PowerCounts
      <3>2. ASSUME NEW p \in Nat PROVE RetryBackoff * p \in Nat
        BY FirstType
      <3> QED
        BY <3>1, <3>2
    <2> HIDE DEF Ideal, n, since
    <2> QED
      BY <2>3, <2>4, <2>5, <2>6, FirstType
  <1>2. IInv /\ [Next]_vars => [Bounded]_vars
    BY <1>1
  <1> QED
    BY <1>2, Inductive, PTL DEF Spec, BackoffBounded

==============================================================================
