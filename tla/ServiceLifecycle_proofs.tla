----------------------- MODULE ServiceLifecycle_proofs -----------------------
(***************************************************************************)
(* Proofs about ServiceLifecycle for any number of requests and jobs: the  *)
(* types, and the safety properties of the shutdown.  They follow from one *)
(* inductive invariant that says, for each phase of main, what is open and *)
(* who may still be at work.                                               *)
(***************************************************************************)
EXTENDS ServiceLifecycle, TLAPS

------------------------------------------------------------------------------
(* The inductive invariant. *)

BeforeServer == {"tracing", "database", "redis", "storage", "bootstrapped", "built", "registered"}

\* What main has opened and not closed yet.
ConnectionsHeld ==
    /\ phase = "database" => "tracing" \in open
    /\ phase \in Phases \ {"tracing", "database", "closing", "exited"} =>
          "tracing" \in open /\ "database" \in open
    /\ phase = "exited" => open = {}

\* Nobody is served before the server runs, and nobody is let in once its
\* listener is closed.
ServerQuiet ==
    /\ phase \in BeforeServer =>
          server = "new" /\ (\A r \in Requests : request[r].state = "new") /\ (\A j \in Jobs : loop[j] = "off")
    /\ phase \in {"draining", "stopping", "closing", "exited"} => server \in {"new", "closed"}

\* Requests drain before the loops are awaited, the loops end before anything
\* is closed, unless the deadline passes.
Drains ==
    /\ phase \in BeforeServer \cup {"running"} => deadline = "none"
    /\ deadline # "passed" =>
          /\ phase \in {"stopping", "closing", "exited"} =>
                \A r \in Requests : request[r].state \notin {"busy", "probe", "ping"}
          /\ phase \in {"closing", "exited"} => \A j \in Jobs : loop[j] \in {"off", "ended"}

\* A lock that no failed call left is held by a run that still has Redis to
\* release it with.
LocksHeld ==
    \/ deadline = "passed"
    \/ /\ \A j \in locks \ left : loop[j] = "working"
       /\ \A j \in Jobs : loop[j] \in {"locking", "working"} => "redis" \in open

LoopsOn == \A j \in Loops : loop[j] # "off"

\* Whoever is served finds the loops running.
LoopsRun ==
    /\ phase \in {"running", "notReady", "draining", "stopping"} \/ server # "new" => LoopsOn
    /\ \A r \in Requests : request[r].state # "new" => LoopsOn

\* The flags are not both up before registration or on the way down, so a late
\* probe is stopped by them.
FlagsDown ==
    /\ phase \in BeforeServer \ {"registered"} => ~registered
    /\ Down => ~ready \/ ~registered
    /\ \A r \in Requests : request[r].late => Down /\ request[r].state \notin {"ping", "ready"}

IInv == TypeOK /\ ConnectionsHeld /\ ServerQuiet /\ Drains /\ LocksHeld /\ LoopsRun /\ FlagsDown

\* The initial state satisfies the invariant.
LEMMA InitIInv == Init => IInv
  <1> SUFFICES ASSUME Init PROVE IInv
    OBVIOUS
  <1>1. TypeOK
    <2>1. ready \in BOOLEAN /\ registered \in BOOLEAN /\ signalled \in BOOLEAN /\ stopped \in BOOLEAN
      BY Zenon DEF Init
    <2>2. request \in [Requests ->
             [state : {"new", "busy", "probe", "ping", "ready", "refused", "done"}, late : BOOLEAN]]
      BY DEF Init
    <2> QED
      BY <2>1, <2>2 DEF Init, TypeOK, Phases
  <1>2. ConnectionsHeld /\ ServerQuiet /\ Drains
    BY DEF Init, ConnectionsHeld, ServerQuiet, BeforeServer, Drains
  <1>3. LocksHeld /\ LoopsRun /\ FlagsDown
    BY DEF Init, LocksHeld, LoopsRun, LoopsOn, FlagsDown, Down, BeforeServer
  <1> QED
    BY <1>1, <1>2, <1>3 DEF IInv

\* The Boolean variables, apart from the rest of the types.
Flags == ready \in BOOLEAN /\ registered \in BOOLEAN /\ signalled \in BOOLEAN /\ stopped \in BOOLEAN

\* The Boolean variables stay Boolean.
LEMMA FlagsStep == Flags /\ [Next]_vars => Flags'
  <1> SUFFICES ASSUME Flags, [Next]_vars PROVE Flags'
    OBVIOUS
  <1> USE DEF Flags
  <1>1. CASE Starting
    BY <1>1, Zenon DEF Starting, Opens, OpenTracing, OpenDatabase, OpenRedis, OpenStorage, Build,
                       RegisterRuntime, StartRuntime
  <1>2. CASE ServerStart
    BY <1>2, Zenon DEF ServerStart
  <1>3. CASE Stopping
    BY <1>3, Zenon DEF Stopping, BeginShutdown, CloseListener, Drained, LoopsStopped, CloseNext
  <1>4. CASE \E r \in Requests : Serving(r)
    BY <1>4, Zenon DEF Serving, Accept, Finish, ProbeFlags, ProbePing
  <1>5. CASE \E j \in Jobs : Working(j)
    BY <1>5, Zenon DEF Working, JobAttempt, JobRun, JobNotRun, JobRelease, LoopEnd
  <1>6. CASE Signal \/ ServerFails \/ DeadlinePasses \/ \E j \in Jobs : LockLapses(j)
    BY <1>6, Zenon DEF Signal, ServerFails, DeadlinePasses, LockLapses
  <1>7. CASE UNCHANGED vars
    BY <1>7, Zenon DEF vars
  <1> QED
    BY <1>1, <1>2, <1>3, <1>4, <1>5, <1>6, <1>7 DEF Next

\* Every step keeps the types.
LEMMA TypeOKStep == IInv /\ [Next]_vars => TypeOK'
  <1> SUFFICES ASSUME IInv, [Next]_vars PROVE TypeOK'
    OBVIOUS
  <1>0. Flags'
    BY FlagsStep DEF IInv, TypeOK, Flags
  <1> USE <1>0 DEF IInv, TypeOK, Phases, ConnectionsHeld, GoTo, Flags
  <1>1. CASE Starting
    BY <1>1 DEF Starting, Opens, OpenTracing, OpenDatabase, OpenRedis, OpenStorage, Build,
                RegisterRuntime, StartRuntime
  <1>2. CASE ServerStart
    BY <1>2 DEF ServerStart
  <1>3. CASE Stopping
    BY <1>3 DEF Stopping, BeginShutdown, CloseListener, Drained, LoopsStopped, CloseNext
  <1>4. CASE \E r \in Requests : Serving(r)
    <2>1. Down \in BOOLEAN
      BY DEF Down
    <2> QED
      BY <1>4, <2>1 DEF Serving, Accept, Finish, ProbeFlags, ProbePing, Set
  <1>5. CASE \E j \in Jobs : Working(j)
    <2>1. PICK j \in Jobs : Working(j)
      BY <1>5
    <2>2. CASE JobAttempt(j)
      BY <2>2 DEF JobAttempt
    <2>3. CASE JobRun(j)
      <3>1. left' \subseteq locks' /\ locks' \subseteq Jobs
        BY <2>3 DEF JobRun
      <3> QED
        BY <2>3, <3>1 DEF JobRun
    <2>4. CASE JobNotRun(j)
      <3>1. left' \subseteq locks' /\ locks' \subseteq Jobs
        BY <2>4 DEF JobNotRun
      <3> QED
        BY <2>4, <3>1 DEF JobNotRun
    <2>5. CASE JobRelease(j)
      <3>1. left' \subseteq locks' /\ locks' \subseteq Jobs
        BY <2>5 DEF JobRelease
      <3> QED
        BY <2>5, <3>1 DEF JobRelease
    <2>6. CASE LoopEnd(j)
      BY <2>6 DEF LoopEnd
    <2> QED
      BY <2>1, <2>2, <2>3, <2>4, <2>5, <2>6 DEF Working
  <1>6. CASE Signal \/ ServerFails \/ DeadlinePasses \/ \E j \in Jobs : LockLapses(j)
    <2>1. CASE Signal
      BY <2>1 DEF Signal
    <2>2. CASE ServerFails
      BY <2>2 DEF ServerFails
    <2>3. CASE DeadlinePasses
      BY <2>3 DEF DeadlinePasses
    <2>4. ASSUME NEW j \in Jobs, LockLapses(j) PROVE TypeOK'
      <3>1. left' \subseteq locks' /\ locks' \subseteq Jobs
        BY <2>4 DEF LockLapses
      <3> QED
        BY <2>4, <3>1 DEF LockLapses
    <2> QED
      BY <1>6, <2>1, <2>2, <2>3, <2>4
  <1>7. CASE UNCHANGED vars
    BY <1>7 DEF vars
  <1> QED
    BY <1>1, <1>2, <1>3, <1>4, <1>5, <1>6, <1>7 DEF Next

\* Connections are open while something may use them.
LEMMA ConnectionsHeldStep == IInv /\ [Next]_vars => ConnectionsHeld'
  <1> SUFFICES ASSUME IInv, [Next]_vars PROVE ConnectionsHeld'
    OBVIOUS
  <1> USE DEF IInv, TypeOK, Phases, ConnectionsHeld, GoTo
  <1>1. CASE Starting
    BY <1>1 DEF Starting, Opens, OpenTracing, OpenDatabase, OpenRedis, OpenStorage, Build,
                RegisterRuntime, StartRuntime
  <1>2. CASE ServerStart
    BY <1>2 DEF ServerStart
  <1>3. CASE Stopping
    BY <1>3 DEF Stopping, BeginShutdown, CloseListener, Drained, LoopsStopped, CloseNext
  <1>4. CASE \E r \in Requests : Serving(r)
    BY <1>4 DEF Serving, Accept, Finish, ProbeFlags, ProbePing
  <1>5. CASE \E j \in Jobs : Working(j)
    BY <1>5 DEF Working, JobAttempt, JobRun, JobNotRun, JobRelease, LoopEnd
  <1>6. CASE Signal \/ ServerFails \/ DeadlinePasses \/ \E j \in Jobs : LockLapses(j)
    BY <1>6 DEF Signal, ServerFails, DeadlinePasses, LockLapses
  <1>7. CASE UNCHANGED vars
    BY <1>7 DEF vars
  <1> QED
    BY <1>1, <1>2, <1>3, <1>4, <1>5, <1>6, <1>7 DEF Next

\* No request is served before the server starts or after it has shut down.
LEMMA ServerQuietStep == IInv /\ [Next]_vars => ServerQuiet'
  <1> SUFFICES ASSUME IInv, [Next]_vars PROVE ServerQuiet'
    OBVIOUS
  <1> USE DEF IInv, TypeOK, Phases, ServerQuiet, BeforeServer, GoTo
  <1>1. CASE Starting
    BY <1>1 DEF Starting, Opens, OpenTracing, OpenDatabase, OpenRedis, OpenStorage, Build,
                RegisterRuntime, StartRuntime
  <1>2. CASE ServerStart
    BY <1>2 DEF ServerStart
  <1>3. CASE Stopping
    BY <1>3 DEF Stopping, BeginShutdown, CloseListener, Drained, LoopsStopped, CloseNext
  <1>4. CASE \E r \in Requests : Serving(r)
    BY <1>4 DEF Serving, Accept, Finish, ProbeFlags, ProbePing, Set
  <1>5. CASE \E j \in Jobs : Working(j)
    BY <1>5 DEF Working, JobAttempt, JobRun, JobNotRun, JobRelease, LoopEnd
  <1>6. CASE Signal \/ ServerFails \/ DeadlinePasses \/ \E j \in Jobs : LockLapses(j)
    BY <1>6 DEF Signal, ServerFails, DeadlinePasses, LockLapses
  <1>7. CASE UNCHANGED vars
    BY <1>7 DEF vars
  <1> QED
    BY <1>1, <1>2, <1>3, <1>4, <1>5, <1>6, <1>7 DEF Next

\* Shutdown goes on only once it has drained the requests or run out of time.
LEMMA DrainsStep == IInv /\ [Next]_vars => Drains'
  <1> SUFFICES ASSUME IInv, [Next]_vars PROVE Drains'
    OBVIOUS
  <1> USE DEF IInv, TypeOK, Phases, ServerQuiet, BeforeServer, Drains, GoTo
  <1>1. CASE Starting
    BY <1>1 DEF Starting, Opens, OpenTracing, OpenDatabase, OpenRedis, OpenStorage, Build,
                RegisterRuntime, StartRuntime
  <1>2. CASE ServerStart
    BY <1>2 DEF ServerStart
  <1>3. CASE Stopping
    BY <1>3 DEF Stopping, BeginShutdown, CloseListener, Drained, LoopsStopped, CloseNext, InFlight
  <1>4. CASE \E r \in Requests : Serving(r)
    BY <1>4 DEF Serving, Accept, Finish, ProbeFlags, ProbePing, Set
  <1>5. CASE \E j \in Jobs : Working(j)
    BY <1>5 DEF Working, JobAttempt, JobRun, JobNotRun, JobRelease, LoopEnd
  <1>6. CASE Signal \/ ServerFails \/ DeadlinePasses \/ \E j \in Jobs : LockLapses(j)
    BY <1>6 DEF Signal, ServerFails, DeadlinePasses, LockLapses
  <1>7. CASE UNCHANGED vars
    BY <1>7 DEF vars
  <1> QED
    BY <1>1, <1>2, <1>3, <1>4, <1>5, <1>6, <1>7 DEF Next

\* A lock is held by a loop that runs, or was left by a failed call.
LEMMA LocksHeldStep == IInv /\ [Next]_vars => LocksHeld'
  <1> SUFFICES ASSUME IInv, [Next]_vars PROVE LocksHeld'
    OBVIOUS
  <1> USE DEF IInv, TypeOK, Phases, ServerQuiet, BeforeServer, Drains, LocksHeld, GoTo
  <1>1. CASE Starting
    BY <1>1 DEF Starting, Opens, OpenTracing, OpenDatabase, OpenRedis, OpenStorage, Build,
                RegisterRuntime, StartRuntime
  <1>2. CASE ServerStart
    BY <1>2 DEF ServerStart
  <1>3. CASE Stopping
    BY <1>3 DEF Stopping, BeginShutdown, CloseListener, Drained, LoopsStopped, CloseNext
  <1>4. CASE \E r \in Requests : Serving(r)
    BY <1>4 DEF Serving, Accept, Finish, ProbeFlags, ProbePing
  <1>5. CASE \E j \in Jobs : Working(j)
    BY <1>5 DEF Working, JobAttempt, JobRun, JobNotRun, JobRelease, LoopEnd
  <1>6. CASE Signal \/ ServerFails \/ DeadlinePasses \/ \E j \in Jobs : LockLapses(j)
    BY <1>6 DEF Signal, ServerFails, DeadlinePasses, LockLapses
  <1>7. CASE UNCHANGED vars
    BY <1>7 DEF vars
  <1> QED
    BY <1>1, <1>2, <1>3, <1>4, <1>5, <1>6, <1>7 DEF Next

\* Loops run only between the start and the stop of the runtime.
LEMMA LoopsRunStep == IInv /\ [Next]_vars => LoopsRun'
  <1> SUFFICES ASSUME IInv, [Next]_vars PROVE LoopsRun'
    OBVIOUS
  <1> USE DEF IInv, TypeOK, Phases, ServerQuiet, BeforeServer, LoopsRun, LoopsOn, Loops, GoTo
  <1>1. CASE Starting
    BY <1>1 DEF Starting, Opens, OpenTracing, OpenDatabase, OpenRedis, OpenStorage, Build,
                RegisterRuntime, StartRuntime
  <1>2. CASE ServerStart
    BY <1>2 DEF ServerStart
  <1>3. CASE Stopping
    BY <1>3 DEF Stopping, BeginShutdown, CloseListener, Drained, LoopsStopped, CloseNext
  <1>4. CASE \E r \in Requests : Serving(r)
    BY <1>4 DEF Serving, Accept, Finish, ProbeFlags, ProbePing, Set
  <1>5. CASE \E j \in Jobs : Working(j)
    BY <1>5 DEF Working, JobAttempt, JobRun, JobNotRun, JobRelease, LoopEnd
  <1>6. CASE Signal \/ ServerFails \/ DeadlinePasses \/ \E j \in Jobs : LockLapses(j)
    BY <1>6 DEF Signal, ServerFails, DeadlinePasses, LockLapses
  <1>7. CASE UNCHANGED vars
    BY <1>7 DEF vars
  <1> QED
    BY <1>1, <1>2, <1>3, <1>4, <1>5, <1>6, <1>7 DEF Next

\* The readiness flags are down once shutdown has begun.
LEMMA FlagsDownStep == IInv /\ [Next]_vars => FlagsDown'
  <1> SUFFICES ASSUME IInv, [Next]_vars PROVE FlagsDown'
    OBVIOUS
  <1> USE DEF IInv, TypeOK, Phases, ServerQuiet, BeforeServer, FlagsDown, Down, GoTo
  <1>1. CASE Starting
    BY <1>1 DEF Starting, Opens, OpenTracing, OpenDatabase, OpenRedis, OpenStorage, Build,
                RegisterRuntime, StartRuntime
  <1>2. CASE ServerStart
    BY <1>2 DEF ServerStart
  <1>3. CASE Stopping
    BY <1>3 DEF Stopping, BeginShutdown, CloseListener, Drained, LoopsStopped, CloseNext
  <1>4. CASE \E r \in Requests : Serving(r)
    BY <1>4 DEF Serving, Accept, Finish, ProbeFlags, ProbePing, Set
  <1>5. CASE \E j \in Jobs : Working(j)
    BY <1>5 DEF Working, JobAttempt, JobRun, JobNotRun, JobRelease, LoopEnd
  <1>6. CASE Signal \/ ServerFails \/ DeadlinePasses \/ \E j \in Jobs : LockLapses(j)
    BY <1>6 DEF Signal, ServerFails, DeadlinePasses, LockLapses
  <1>7. CASE UNCHANGED vars
    BY <1>7 DEF vars
  <1> QED
    BY <1>1, <1>2, <1>3, <1>4, <1>5, <1>6, <1>7 DEF Next

\* IInv is inductive.
LEMMA Inductive == Spec => []IInv
  <1>1. IInv /\ [Next]_vars => IInv'
    BY TypeOKStep, ConnectionsHeldStep, ServerQuietStep, DrainsStep, LocksHeldStep, LoopsRunStep,
       FlagsDownStep DEF IInv
  <1> QED
    BY InitIInv, <1>1, PTL DEF Spec

------------------------------------------------------------------------------
(* Theorems. *)

\* Every variable keeps its type, and App.ready is up only while tracing and
\* the database are open.
THEOREM TypeCorrect == Spec => []TypeOK
  <1>1. IInv => TypeOK
    BY DEF IInv
  <1> QED
    BY Inductive, <1>1, PTL

\* Shutdown closes no connection under a request or a job run within its deadline.
THEOREM NoUseAfterCloseAlways == Spec => []NoUseAfterClose
  <1>1. IInv => NoUseAfterClose
    BY DEF IInv, Drains, NoUseAfterClose, InFlight
  <1> QED
    BY Inductive, <1>1, PTL

\* A process exits with every connection closed and, within the deadline, with
\* every distributed lock released whose SETNX and release did not fail.
THEOREM CleanExitAlways == Spec => []CleanExit
  <1>1. IInv => CleanExit
    BY DEF IInv, TypeOK, ConnectionsHeld, Drains, LocksHeld, CleanExit
  <1> QED
    BY Inductive, <1>1, PTL

\* /ready never says ready to a probe that came after the shutdown began, nor
\* before the job loops run.
THEOREM NoLateReadyAlways == Spec => []NoLateReady
  <1>1. IInv => NoLateReady
    BY DEF IInv, TypeOK, LoopsRun, LoopsOn, FlagsDown, NoLateReady
  <1> QED
    BY Inductive, <1>1, PTL
==============================================================================
