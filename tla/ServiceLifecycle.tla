--------------------------- MODULE ServiceLifecycle ---------------------------
(***************************************************************************)
(* One process of any of the services, from main to exit: dependencies are *)
(* opened in order, the service is built and registered, its job loops and *)
(* its HTTP server start, and a signal or a server error ends it all: the  *)
(* probe turns red, the listener closes, requests drain, job loops stop,   *)
(* connections close.  With a signal, one deadline covers the whole        *)
(* shutdown; after a server error there is none.                           *)
(***************************************************************************)
EXTENDS FiniteSets

CONSTANTS
    Requests,  \* HTTP requests, business ones and probes, each used once
    Jobs       \* jobs of the job service

VARIABLES
    phase,      \* where main is
    config,     \* the service, whether Redis has an address, whether jobs are scheduled
    open,       \* connections that are open
    ready,      \* App.ready
    registered, \* App.runtimeRegistered
    server,     \* "new", "listening", "failed" or "closed"
    signalled,  \* SIGTERM or SIGINT was received: main's context is done
    deadline,   \* of the shutdown context: "none", "pending" or "passed"
    request,
    loop,       \* job loops
    stopped,    \* Stop cancelled the loops' context
    locks,      \* distributed locks held in Redis in this process's name
    left        \* the ones of them that a failed call to Redis left there

vars == <<phase, config, open, ready, registered, server, signalled, deadline, request, loop,
          stopped, locks, left>>

Phases == {"tracing", "database", "redis", "storage", "bootstrapped", "built", "registered",
           "running", "notReady", "draining", "stopping", "closing", "exited"}

RedisRequired == config.service \in {"upload", "job"}

\* The loops the runtime starts.
Loops == IF config.scheduler THEN Jobs ELSE {}

\* Main is on its way down.
Down == phase \in {"notReady", "draining", "stopping", "closing", "exited"}

\* The context of the job loops: main's, or cancelled by Stop.
Cancelled == signalled \/ stopped

------------------------------------------------------------------------------
(* Start. *)

GoTo(next) == phase' = next

\* A step of main that opens a connection, or fails and closes the others.
Opens(from, connection, next) ==
    /\ phase = from
    /\ \/ open' = open \cup {connection} /\ GoTo(next)
       \/ UNCHANGED open /\ GoTo("closing")
    /\ UNCHANGED <<config, ready, registered, server, signalled, deadline, request, loop, stopped, locks, left>>

OpenTracing == Opens("tracing", "tracing", "database")
OpenDatabase == Opens("database", "database", "redis")

\* platformredis.Open: an optional Redis that does not answer is done without.
OpenRedis ==
    /\ phase = "redis"
    /\ \/ config.redis /\ open' = open \cup {"redis"} /\ GoTo("storage")
       \/ ~RedisRequired /\ UNCHANGED open /\ GoTo("storage")
       \/ RedisRequired /\ UNCHANGED open /\ GoTo("closing")
    /\ UNCHANGED <<config, ready, registered, server, signalled, deadline, request, loop, stopped, locks, left>>

\* Open and Validate of the storage client, which holds no connection; then the
\* app is ready but has no runtime.
OpenStorage ==
    /\ phase = "storage"
    /\ \/ ready' = TRUE /\ GoTo("bootstrapped")
       \/ UNCHANGED ready /\ GoTo("closing")
    /\ UNCHANGED <<config, open, registered, server, signalled, deadline, request, loop, stopped, locks, left>>

\* Build, which may fail for any service and closes the app then.
Build ==
    /\ phase = "bootstrapped"
    /\ GoTo("built") \/ GoTo("closing")
    /\ UNCHANGED <<config, open, ready, registered, server, signalled, deadline, request, loop, stopped, locks, left>>

RegisterRuntime ==
    /\ phase = "built"
    /\ registered' = TRUE
    /\ GoTo("registered")
    /\ UNCHANGED <<config, open, ready, server, signalled, deadline, request, loop, stopped, locks, left>>

\* Run: the runtime's Start comes before the server's.
StartRuntime ==
    /\ phase = "registered"
    /\ \/ loop' = [j \in Jobs |-> IF j \in Loops THEN "waiting" ELSE "off"] /\ GoTo("running") /\ UNCHANGED ready
       \/ ready' = FALSE /\ GoTo("closing") /\ UNCHANGED loop
    /\ UNCHANGED <<config, open, registered, server, signalled, deadline, request, stopped, locks, left>>

\* The server's goroutine: it listens, or cannot; once Shutdown was called it
\* returns at once.
ServerStart ==
    /\ phase \in {"running", "notReady"} /\ server = "new"
    /\ server' \in {"listening", "failed"}
    /\ UNCHANGED <<phase, config, open, ready, registered, signalled, deadline, request, loop, stopped, locks, left>>

------------------------------------------------------------------------------
(* Requests and job loops. *)

Set(r, state) == request' = [request EXCEPT ![r].state = state]

\* A business request, or a probe of /ready.
Accept(r) ==
    /\ server = "listening" /\ request[r].state = "new"
    /\ \E state \in {"busy", "probe"} :
          request' = [request EXCEPT ![r] = [state |-> state, late |-> Down]]
    /\ UNCHANGED <<phase, config, open, ready, registered, server, signalled, deadline, loop, stopped, locks, left>>

Finish(r) ==
    /\ request[r].state = "busy"
    /\ Set(r, "done")
    /\ UNCHANGED <<phase, config, open, ready, registered, server, signalled, deadline, loop, stopped, locks, left>>

\* Ready: the flags first, then the connections and the runtime's own check.
ProbeFlags(r) ==
    /\ request[r].state = "probe"
    /\ Set(r, IF ready /\ registered THEN "ping" ELSE "refused")
    /\ UNCHANGED <<phase, config, open, ready, registered, server, signalled, deadline, loop, stopped, locks, left>>

ProbePing(r) ==
    /\ request[r].state = "ping"
    /\ \/ /\ "database" \in open /\ (RedisRequired => "redis" \in open)
          /\ \A j \in Loops : loop[j] # "off" /\ ~stopped
          /\ Set(r, "ready")
       \/ Set(r, "refused")
    /\ UNCHANGED <<phase, config, open, ready, registered, server, signalled, deadline, loop, stopped, locks, left>>

\* A loop's turn: SETNX is called for the job's lock, unless the loop's context
\* is cancelled or Redis is closed.
JobAttempt(j) ==
    /\ loop[j] = "waiting" /\ ~Cancelled /\ "redis" \in open
    /\ loop' = [loop EXCEPT ![j] = "locking"]
    /\ UNCHANGED <<phase, config, open, ready, registered, server, signalled, deadline, request, stopped, locks, left>>

JobRun(j) ==
    /\ loop[j] = "locking" /\ "redis" \in open /\ j \notin locks
    /\ loop' = [loop EXCEPT ![j] = "working"]
    /\ locks' = locks \cup {j}
    /\ UNCHANGED <<phase, config, open, ready, registered, server, signalled, deadline, request, stopped, left>>

\* No run: the lock is taken or the call fails.  SETNX may have been applied
\* although its reply was lost; nobody releases that lock.
JobNotRun(j) ==
    /\ loop[j] = "locking"
    /\ loop' = [loop EXCEPT ![j] = "waiting"]
    /\ \/ UNCHANGED <<locks, left>>
       \/ /\ "redis" \in open /\ j \notin locks
          /\ locks' = locks \cup {j} /\ left' = left \cup {j}
    /\ UNCHANGED <<phase, config, open, ready, registered, server, signalled, deadline, request, stopped>>

\* The run ends and releases its lock, under a context that is not cancelled.
\* The script may fail, and on a closed client it does.
JobRelease(j) ==
    /\ loop[j] = "working"
    /\ loop' = [loop EXCEPT ![j] = "waiting"]
    /\ \/ "redis" \in open /\ locks' = locks \ {j} /\ left' = left \ {j}
       \/ "redis" \in open /\ left' = left \cup (locks \cap {j}) /\ UNCHANGED locks
       \/ "redis" \notin open /\ UNCHANGED <<locks, left>>
    /\ UNCHANGED <<phase, config, open, ready, registered, server, signalled, deadline, request, stopped>>

LoopEnd(j) ==
    /\ loop[j] = "waiting" /\ Cancelled
    /\ loop' = [loop EXCEPT ![j] = "ended"]
    /\ UNCHANGED <<phase, config, open, ready, registered, server, signalled, deadline, request, stopped, locks, left>>

------------------------------------------------------------------------------
(* Shutdown. *)

InFlight == {r \in Requests : request[r].state \in {"busy", "probe", "ping"}}

\* Mutant of BeginShutdown: the flags stay.
BeginShutdownReady ==
    /\ phase = "running"
    /\ \/ signalled /\ deadline' = "pending"
       \/ server = "failed" /\ UNCHANGED deadline
    /\ GoTo("notReady")
    /\ UNCHANGED <<config, open, ready, registered, server, signalled, request, loop, stopped, locks, left>>

\* Mutant of BeginShutdown: no deadline.
BeginShutdownUnbounded ==
    /\ phase = "running"
    /\ signalled \/ server = "failed"
    /\ ready' = FALSE /\ registered' = FALSE
    /\ GoTo("notReady")
    /\ UNCHANGED <<config, open, server, signalled, deadline, request, loop, stopped, locks, left>>

\* Run's select, and the first lines of shutdown.
BeginShutdown ==
    /\ phase = "running"
    /\ \/ signalled /\ deadline' = "pending"
       \/ server = "failed" /\ UNCHANGED deadline
    /\ ready' = FALSE /\ registered' = FALSE
    /\ GoTo("notReady")
    /\ UNCHANGED <<config, open, server, signalled, request, loop, stopped, locks, left>>

\* Mutant of CloseListener: the server is closed without draining it.
CloseServer ==
    /\ phase = "notReady"
    /\ server' = "closed"
    /\ GoTo("stopping")
    /\ UNCHANGED <<config, open, ready, registered, signalled, deadline, request, loop, stopped, locks, left>>

\* Server.Shutdown closes the listener and waits for the requests in flight.
CloseListener ==
    /\ phase = "notReady"
    /\ server' = "closed"
    /\ GoTo("draining")
    /\ UNCHANGED <<config, open, ready, registered, signalled, deadline, request, loop, stopped, locks, left>>

Drained ==
    /\ phase = "draining"
    /\ InFlight = {} \/ deadline = "passed"
    /\ stopped' = TRUE
    /\ GoTo("stopping")
    /\ UNCHANGED <<config, open, ready, registered, server, signalled, deadline, request, loop, locks, left>>

\* Mutant of LoopsStopped: the loops are cancelled and not waited for.
LoopsNotAwaited ==
    /\ phase = "stopping"
    /\ GoTo("closing")
    /\ UNCHANGED <<config, open, ready, registered, server, signalled, deadline, request, loop, stopped, locks, left>>

\* The runtime's Stop has cancelled the loops and waits for them.
LoopsStopped ==
    /\ phase = "stopping"
    /\ deadline = "passed" \/ \A j \in Jobs : loop[j] \in {"off", "ended"}
    /\ GoTo("closing")
    /\ UNCHANGED <<config, open, ready, registered, server, signalled, deadline, request, loop, stopped, locks, left>>

\* Close: Redis, then the database, then tracing, whichever are open.
CloseOrder == [redis |-> {}, database |-> {"redis"}, tracing |-> {"redis", "database"}]

\* Mutant of CloseNext: the flag stays.
CloseNextReady ==
    /\ phase = "closing"
    /\ IF open = {} THEN GoTo("exited") /\ UNCHANGED open
       ELSE /\ \E connection \in open : CloseOrder[connection] \cap open = {} /\ open' = open \ {connection}
            /\ UNCHANGED phase
    /\ UNCHANGED <<config, ready, registered, server, signalled, deadline, request, loop, stopped, locks, left>>

CloseNext ==
    /\ phase = "closing"
    /\ ready' = FALSE
    /\ IF open = {} THEN GoTo("exited") /\ UNCHANGED open
       ELSE /\ \E connection \in open : CloseOrder[connection] \cap open = {} /\ open' = open \ {connection}
            /\ UNCHANGED phase
    /\ UNCHANGED <<config, registered, server, signalled, deadline, request, loop, stopped, locks, left>>

------------------------------------------------------------------------------
(* Environment. *)

Signal ==
    /\ ~signalled /\ phase # "exited"
    /\ signalled' = TRUE
    /\ UNCHANGED <<phase, config, open, ready, registered, server, deadline, request, loop, stopped, locks, left>>

\* Accepting connections fails.
ServerFails ==
    /\ server = "listening"
    /\ server' = "failed"
    /\ UNCHANGED <<phase, config, open, ready, registered, signalled, deadline, request, loop, stopped, locks, left>>

DeadlinePasses ==
    /\ deadline = "pending" /\ phase # "exited"
    /\ deadline' = "passed"
    /\ UNCHANGED <<phase, config, open, ready, registered, server, signalled, request, loop, stopped, locks, left>>

\* The TTL of a lock ends: of one that was left, or of one whose renewal failed.
LockLapses(j) ==
    /\ j \in locks
    /\ locks' = locks \ {j} /\ left' = left \ {j}
    /\ UNCHANGED <<phase, config, open, ready, registered, server, signalled, deadline, request, loop, stopped>>

------------------------------------------------------------------------------
Init ==
    /\ phase = "tracing"
    /\ config \in [service : {"upload", "access", "admin", "job"}, redis : BOOLEAN, scheduler : BOOLEAN]
    /\ config.scheduler => config.service = "job"
    /\ open = {} /\ ready = FALSE /\ registered = FALSE
    /\ server = "new" /\ signalled = FALSE /\ deadline = "none"
    /\ request = [r \in Requests |-> [state |-> "new", late |-> FALSE]]
    /\ loop = [j \in Jobs |-> "off"]
    /\ stopped = FALSE /\ locks = {} /\ left = {}

Starting ==
    OpenTracing \/ OpenDatabase \/ OpenRedis \/ OpenStorage \/ Build \/ RegisterRuntime \/ StartRuntime

Stopping == BeginShutdown \/ CloseListener \/ Drained \/ LoopsStopped \/ CloseNext

Serving(r) == Accept(r) \/ Finish(r) \/ ProbeFlags(r) \/ ProbePing(r)

Working(j) == JobAttempt(j) \/ JobRun(j) \/ JobNotRun(j) \/ JobRelease(j) \/ LoopEnd(j)

\* While the process lives.
Next ==
    /\ phase # "exited"
    /\ \/ Starting \/ ServerStart \/ Stopping
       \/ \E r \in Requests : Serving(r)
       \/ \E j \in Jobs : Working(j) \/ LockLapses(j)
       \/ Signal \/ ServerFails \/ DeadlinePasses

\* Main goes on and the deadline comes.  A request or a job may take for ever.
Fairness == WF_vars(Starting) /\ WF_vars(Stopping) /\ WF_vars(DeadlinePasses)

Spec == Init /\ [][Next]_vars /\ Fairness

------------------------------------------------------------------------------
(* Properties. *)

\* Every variable keeps its type; the ready flag is up only while the
\* connections every service needs are open.
TypeOK ==
    /\ phase \in Phases
    /\ config \in [service : {"upload", "access", "admin", "job"}, redis : BOOLEAN, scheduler : BOOLEAN]
    /\ open \subseteq {"tracing", "database", "redis"}
    /\ ready \in BOOLEAN /\ registered \in BOOLEAN /\ signalled \in BOOLEAN /\ stopped \in BOOLEAN
    /\ server \in {"new", "listening", "failed", "closed"}
    /\ deadline \in {"none", "pending", "passed"}
    /\ request \in [Requests ->
          [state : {"new", "busy", "probe", "ping", "ready", "refused", "done"}, late : BOOLEAN]]
    /\ loop \in [Jobs -> {"off", "waiting", "locking", "working", "ended"}]
    /\ left \subseteq locks /\ locks \subseteq Jobs
    /\ ready => {"tracing", "database"} \subseteq open

\* No connection is closed under a request or a job run, unless the deadline of
\* the shutdown has passed.
NoUseAfterClose ==
    phase \in {"closing", "exited"} /\ deadline # "passed" =>
       InFlight = {} /\ \A j \in Jobs : loop[j] \notin {"locking", "working"}

\* A process that exits has closed every connection and, if it was within its
\* deadline, leaves no distributed lock behind but those that a failed call to
\* Redis left there: shutdown itself cuts off no release.
CleanExit == phase = "exited" => open = {} /\ (deadline # "passed" => locks \subseteq left)

\* A probe that comes after the shutdown began is never told that the service
\* is ready, although the listener is still open then; nor is any probe before
\* the runtime is registered and its loops run.
NoLateReady ==
    \A r \in Requests : request[r].state = "ready" =>
       ~request[r].late /\ \A j \in Loops : loop[j] # "off"

\* A running process that gets a signal exits, even if a request or a job run
\* never ends, unless a server error is what begins the shutdown: that one has
\* no deadline.  A server error that comes later changes nothing.
SignalledExits ==
    phase = "running" /\ signalled ~>
       phase = "exited" \/ (phase = "notReady" /\ server = "failed" /\ deadline = "none")
==============================================================================
