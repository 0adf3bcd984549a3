---------------------------- MODULE AccessTickets ----------------------------
(***************************************************************************)
(* The access service: file views, downloads, and access tickets with      *)
(* their idempotency records.  A ticket is a signed string that holds its  *)
(* claims and is stored nowhere; only the answer to a request that carried *)
(* an Idempotency-Key is remembered, in Redis or, without Redis, in the    *)
(* memory of the single instance, for as long as the ticket lives.         *)
(*                                                                         *)
(* Time is counted in ticks, Second of them to a second.                   *)
(***************************************************************************)
EXTENDS Naturals, FiniteSets

CONSTANTS
    Nil,
    Requests,      \* HTTP requests, each used once
    Callers,       \* authenticated callers
    Tenants,
    CallerTenant,  \* tenant_id claim of a caller
    Readers,       \* callers whose token has the scope file:read
    Files,
    FileTenant,
    PolicyRows,    \* the sets of tenants that may have a row in tenant.tenant_policies
    Keys,          \* Idempotency-Key values
    TTLs,          \* expiresInSeconds values, in ticks; 0 asks for the default
    DefaultTTL,
    Second,        \* ticks in a second
    MaxTime,       \* bound on time
    MaxFaults      \* bound on failing calls and restarts

ASSUME AccessAssumption ==
    /\ Nil \notin Keys /\ Nil \notin {"get", "ticket", "download", "redirect"}
    /\ Nil \notin {"OK", "CREATED", "REDIRECT", "EXPIRED"}
    /\ CallerTenant \in [Callers -> Tenants]
    /\ FileTenant \in [Files -> Tenants]
    /\ Readers \subseteq Callers /\ PolicyRows \subseteq SUBSET Tenants
    /\ TTLs \subseteq Nat /\ DefaultTTL \in Nat \ {0} /\ Second \in Nat \ {0}
    /\ MaxTime \in Nat /\ MaxFaults \in Nat

VARIABLES
    now,
    file,      \* file.file_assets: status of each row
    setup,     \* whether the service has a Redis client, and which tenants a policy row
    store,     \* idempotency records
    req,       \* requests
    lost,      \* the in-memory records were lost in a restart
    faults

vars == <<now, file, setup, store, req, lost, faults>>

Setup == [redis : BOOLEAN, configured : PolicyRows]
Claims == [file : Files, tenant : Tenants, expires : Nat]
StorageKeys == Callers \X Files \X Keys
Record == [fingerprint : Nat, ticket : Claims, told : Nat, until : Nat]

ASSUME NilAssumption == Nil \notin Record

\* A request: the operation and its input, the ticket it holds and the expiry
\* told to the client, whether the file was already deleted when it arrived,
\* and when a redirect came and a ticket was given or refused.
Request ==
    [pc : {"new", "lookup", "file", "policy", "put", "reload", "verify", "done"},
     op : {Nil, "get", "ticket", "download", "redirect"},
     caller : Callers \cup {Nil}, file : Files \cup {Nil}, key : Keys \cup {Nil},
     ttl : Nat, ticket : Claims \cup {Nil}, told : Nat, gone : BOOLEAN, start : Nat,
     code : {Nil, "OK", "CREATED", "REDIRECT", "NOT_FOUND", "DENIED", "CONFLICT",
             "EXPIRED", "UNAVAILABLE", "DROPPED"},
     at : Nat]

Unused == [pc |-> "new", op |-> Nil, caller |-> Nil, file |-> Nil, key |-> Nil, ttl |-> 0,
           ticket |-> Nil, told |-> 0, gone |-> FALSE, start |-> 0, code |-> Nil, at |-> 0]

storageKey(r) == <<req[r].caller, req[r].file, req[r].key>>
Active(r) == req[r].pc \notin {"new", "done"}

\* An answered request keeps only what the properties speak of.
Ended(request, code) ==
    IF code = "CREATED" THEN [request EXCEPT !.pc = "done", !.code = code, !.at = now]
    ELSE IF code = "EXPIRED"
    THEN [Unused EXCEPT !.pc = "done", !.code = code, !.told = request.told, !.at = now]
    ELSE IF code \in {"OK", "REDIRECT"}
    THEN [Unused EXCEPT !.pc = "done", !.op = request.op, !.code = code, !.gone = request.gone,
                        !.told = request.told, !.start = request.start]
    ELSE [Unused EXCEPT !.pc = "done", !.code = code]

Answered(r, code) == Ended(req[r], code)
Answer(r, code) == req' = [req EXCEPT ![r] = Answered(r, code)]
GoTo(r, pc) == req' = [req EXCEPT ![r].pc = pc]

------------------------------------------------------------------------------
(* Idempotency store. *)

\* normalizeTTL: a record without a positive lifetime lives a second.
normalizeTTL(ttl) == IF ttl = 0 THEN Second ELSE ttl

\* Get and cleanupExpiredLocked: an expired record is no record.
Found(k) == store[k] # Nil /\ store[k].until > now

IssueRecord(r) == [fingerprint |-> req[r].ttl, ticket |-> req[r].ticket,
                   told |-> req[r].told, until |-> now + normalizeTTL(req[r].ttl)]

PutIfAbsent(r) ==
    store' = IF Found(storageKey(r)) THEN store
             ELSE [store EXCEPT ![storageKey(r)] = IssueRecord(r)]

\* resolveExistingIdempotentResult: replay the stored answer, or report that
\* the key was used for a request that asked for something else.
Replay(r) ==
    LET record == store[storageKey(r)] IN
    IF record.fingerprint # req[r].ttl THEN Answer(r, "CONFLICT")
    ELSE req' = [req EXCEPT ![r] =
                    [Answered(r, "CREATED") EXCEPT !.ticket = record.ticket,
                                                   !.told = record.told]]

------------------------------------------------------------------------------
(* Tickets. *)

\* Mutant of Issue: the tenant is left out of the claims.
IssueWithoutTenant(f, told) == [file |-> f, expires |-> told - (told % Second)]

\* Mutant of Issue: the expiry is rounded up.
IssueRoundedUp(f, told) ==
    [file |-> f, tenant |-> FileTenant[f],
     expires |-> IF told % Second = 0 THEN told ELSE told - (told % Second) + Second]

\* Issue: the claims hold the expiry in whole Unix seconds.
Issue(f, told) == [file |-> f, tenant |-> FileTenant[f], expires |-> told - (told % Second)]

RequireFileRead(c) == c \in Readers

\* Mutant of EnsureReadable: the status is not looked at.
EnsureTenant(f, tenant) == file[f] # "NONE" /\ tenant = FileTenant[f]

\* EnsureReadable, for the tenant of the token or of the ticket.
EnsureReadable(f, tenant) == file[f] = "ACTIVE" /\ tenant = FileTenant[f]

\* The tenant a request acts for.
ActsFor(r) == IF req[r].op = "redirect" THEN req[r].ticket.tenant
              ELSE CallerTenant[req[r].caller]

------------------------------------------------------------------------------
(* Requests. *)

Arrive(r, op, pc, c, f) ==
    [Unused EXCEPT !.pc = pc, !.op = op, !.caller = c, !.file = f,
                   !.gone = (file[f] = "DELETED")]

Begin(r, request) ==
    /\ req[r].pc = "new"
    /\ req' = [req EXCEPT ![r] =
                  IF request.caller # Nil /\ ~RequireFileRead(request.caller)
                  THEN Ended(request, "DENIED") ELSE request]
    /\ UNCHANGED <<now, file, setup, store, lost, faults>>

GetFile(r, c, f) == Begin(r, Arrive(r, "get", "file", c, f))
ResolveDownload(r, c, f) == Begin(r, Arrive(r, "download", "file", c, f))

\* CreateAccessTicket up to the first call: a keyed request looks up its record.
CreateAccessTicket(r, c, f, k, expiresIn) ==
    Begin(r, [Arrive(r, "ticket", IF k = Nil THEN "file" ELSE "lookup", c, f) EXCEPT
                 !.key = k, !.ttl = IF expiresIn = 0 THEN DefaultTTL ELSE expiresIn])

\* RedirectByAccessTicket with a ticket some client was given: Verify yields
\* the claims that were signed.
RedirectByAccessTicket(r, a) ==
    /\ req[a].op = "ticket" /\ req[a].code = "CREATED"
    /\ Begin(r, [Arrive(r, "redirect", "verify", Nil, req[a].ticket.file) EXCEPT
                    !.ticket = req[a].ticket, !.told = req[a].told, !.start = now])

\* The expiry check against the clock.
VerifyTicket(r) ==
    /\ req[r].pc = "verify"
    /\ IF req[r].ticket.expires > now THEN GoTo(r, "file") ELSE Answer(r, "EXPIRED")
    /\ UNCHANGED <<now, file, setup, store, lost, faults>>

LookupRecord(r) ==
    /\ req[r].pc = "lookup"
    /\ IF Found(storageKey(r)) THEN Replay(r) ELSE GoTo(r, "file")
    /\ UNCHANGED <<now, file, setup, store, lost, faults>>

\* GetByID and EnsureReadable; a file view needs nothing more.
ReadFile(r) ==
    /\ req[r].pc = "file"
    /\ LET f == req[r].file IN
       IF file[f] = "NONE" THEN Answer(r, "NOT_FOUND")
       ELSE IF ~EnsureReadable(f, ActsFor(r)) THEN Answer(r, "DENIED")
       ELSE IF req[r].op = "get" THEN Answer(r, "OK")
       ELSE GoTo(r, "policy")
    /\ UNCHANGED <<now, file, setup, store, lost, faults>>

\* The tenant must have a policy row; its download switches are not columns and
\* so never set.  A download or a redirect ends with the object's URL, a ticket
\* request issues the ticket and, when keyed, goes on to record it.
ApplyPolicy(r) ==
    LET f == req[r].file
        told == now + req[r].ttl
        issued == [req[r] EXCEPT !.ticket = Issue(f, told), !.told = told] IN
    /\ req[r].pc = "policy"
    /\ IF FileTenant[f] \notin setup.configured THEN Answer(r, "DENIED")
       ELSE IF req[r].op # "ticket" THEN Answer(r, "REDIRECT")
       ELSE req' = [req EXCEPT ![r] =
                       IF req[r].key = Nil THEN Ended(issued, "CREATED")
                       ELSE [issued EXCEPT !.pc = "put"]]
    /\ UNCHANGED <<now, file, setup, store, lost, faults>>

PutRecord(r) ==
    /\ req[r].pc = "put"
    /\ PutIfAbsent(r)
    /\ IF Found(storageKey(r)) THEN GoTo(r, "reload") ELSE Answer(r, "CREATED")
    /\ UNCHANGED <<now, file, setup, lost, faults>>

\* Mutant of ReloadRecord: the loser answers with the ticket it issued.
AnswerOwnTicket(r) ==
    /\ req[r].pc = "reload"
    /\ Answer(r, "CREATED")
    /\ UNCHANGED <<now, file, setup, store, lost, faults>>

\* The winner's record may have expired meanwhile.
ReloadRecord(r) ==
    /\ req[r].pc = "reload"
    /\ IF Found(storageKey(r)) THEN Replay(r) ELSE Answer(r, "UNAVAILABLE")
    /\ UNCHANGED <<now, file, setup, store, lost, faults>>

------------------------------------------------------------------------------
(* Failures and environment. *)

\* A call to the database, Redis or the presigner fails; SETNX may have been
\* applied all the same.
CallFails(r) ==
    /\ req[r].pc \in {"lookup", "file", "policy", "put", "reload"}
    /\ faults < MaxFaults /\ faults' = faults + 1
    /\ Answer(r, "UNAVAILABLE")
    /\ \/ UNCHANGED store
       \/ setup.redis /\ req[r].pc = "put" /\ PutIfAbsent(r)
    /\ UNCHANGED <<now, file, setup, lost>>

\* The process restarts: requests in progress are dropped and records kept in
\* memory are gone.
Restart ==
    /\ faults < MaxFaults /\ faults' = faults + 1
    /\ req' = [r \in Requests |-> IF Active(r) THEN Answered(r, "DROPPED") ELSE req[r]]
    /\ IF setup.redis THEN UNCHANGED <<store, lost>>
       ELSE store' = [k \in StorageKeys |-> Nil] /\ lost' = TRUE
    /\ UNCHANGED <<now, file, setup>>

\* The upload service creates the file, the admin service deletes it.
FileChanges(f) ==
    /\ file[f] # "DELETED"
    /\ file' = [file EXCEPT ![f] = IF file[f] = "NONE" THEN "ACTIVE" ELSE "DELETED"]
    /\ UNCHANGED <<now, setup, store, req, lost, faults>>

Tick ==
    /\ now < MaxTime
    /\ now' = now + 1
    /\ UNCHANGED <<file, setup, store, req, lost, faults>>

------------------------------------------------------------------------------
Init ==
    /\ now = 0
    /\ file = [f \in Files |-> "NONE"]
    /\ setup \in Setup
    /\ store = [k \in StorageKeys |-> Nil]
    /\ req = [r \in Requests |-> Unused]
    /\ lost = FALSE
    /\ faults = 0

Next ==
    \/ \E r \in Requests, c \in Callers, f \in Files :
          \/ GetFile(r, c, f)
          \/ ResolveDownload(r, c, f)
          \/ \E k \in Keys \cup {Nil}, t \in TTLs : CreateAccessTicket(r, c, f, k, t)
    \/ \E r, a \in Requests : RedirectByAccessTicket(r, a)
    \/ \E r \in Requests :
          VerifyTicket(r) \/ LookupRecord(r) \/ ReadFile(r) \/ ApplyPolicy(r)
             \/ PutRecord(r) \/ ReloadRecord(r) \/ CallFails(r)
    \/ \E f \in Files : FileChanges(f)
    \/ Restart
    \/ Tick

Spec == Init /\ [][Next]_vars

------------------------------------------------------------------------------
(* Properties. *)

\* Every variable keeps its type.
TypeOK ==
    /\ now \in Nat
    /\ file \in [Files -> {"NONE", "ACTIVE", "DELETED"}]
    /\ setup \in Setup
    /\ store \in [StorageKeys -> Record \cup {Nil}]
    /\ req \in [Requests -> Request]
    /\ lost \in BOOLEAN
    /\ faults \in Nat

\* Requests that got a ticket under an Idempotency-Key.
Keyed == {r \in Requests : req[r].op = "ticket" /\ req[r].code = "CREATED" /\ req[r].key # Nil}

\* Two requests with the same key that ask for the same thing get the same
\* answer, however they interleave, fail and are retried, as long as the
\* earlier ticket has not run out when the later answer is given.  Records kept
\* in memory keep this promise only until the process restarts.
AnswersAgree ==
    \A a, b \in Keyed :
       \/ storageKey(a) # storageKey(b) \/ req[a].ttl # req[b].ttl
       \/ req[a].ticket = req[b].ticket /\ req[a].told = req[b].told
       \/ req[a].told <= req[a].at \/ req[a].told <= req[b].at
       \/ req[b].told <= req[a].at \/ req[b].told <= req[b].at
       \/ lost

\* The expiry told to the client brackets the ticket's life: no redirect for a
\* request that came at or after it, no refusal a full second before it.
TicketWindow ==
    \A r \in Requests :
       /\ req[r].op = "redirect" /\ req[r].code = "REDIRECT" => req[r].start < req[r].told
       /\ req[r].code = "EXPIRED" => req[r].at + Second > req[r].told

\* No view, download or redirect is answered for a file that was deleted before
\* the request came, whatever ticket it brings.
DeletedNotServed ==
    \A r \in Requests : req[r].code \in {"OK", "REDIRECT"} => ~req[r].gone
==============================================================================
