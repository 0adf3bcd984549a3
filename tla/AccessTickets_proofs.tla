------------------------ MODULE AccessTickets_proofs ------------------------
(***************************************************************************)
(* Proofs about AccessTickets for any callers, files, keys, lifetimes and  *)
(* any number of requests, failures and restarts.                          *)
(*                                                                         *)
(* The invariant has a part for each request (what its place in the        *)
(* handler says of its fields), one for each idempotency record, and one   *)
(* that ties answers to records: while the ticket of a keyed answer lives, *)
(* its record is there.                                                    *)
(***************************************************************************)
EXTENDS AccessTickets, TLAPS

------------------------------------------------------------------------------
(* One request. *)

Running(q) == q.pc \notin {"new", "done"}

\* Which fields a handler has filled in.
Formed(q) ==
    /\ Running(q) => q.code = Nil /\ q.file \in Files
    /\ Running(q) /\ q.op = "redirect" => q.ticket \in Claims
    /\ Running(q) /\ q.op # "redirect" => q.caller \in Callers
    /\ q.pc \in {"lookup", "put", "reload"} => q.op = "ticket" /\ q.key \in Keys
    /\ q.pc = "verify" => q.op = "redirect"
    /\ q.pc = "put" => q.ticket \in Claims
    /\ q.code = "CREATED" => /\ q.op = "ticket" /\ q.pc = "done"
                             /\ q.ticket \in Claims /\ q.file \in Files /\ q.caller \in Callers

\* The expiry told to a client and the one in the ticket are less than a second apart.
Brackets(ticket, told) == ticket.expires <= told /\ told < ticket.expires + Second

\* What holds of expiries on the way to an answer and in it.
Window(q) ==
    /\ q.pc = "put" \/ q.code = "CREATED" \/ (Running(q) /\ q.op = "redirect") =>
          Brackets(q.ticket, q.told)
    /\ Running(q) /\ q.op = "redirect" => q.start <= now
    /\ q.pc \in {"file", "policy"} /\ q.op = "redirect" => q.start < q.told
    /\ q.pc = "put" => q.told <= now + q.ttl
    /\ q.op = "redirect" /\ q.code = "REDIRECT" => q.start < q.told
    /\ q.code = "EXPIRED" => q.at + Second > q.told

\* A file that was gone when the request came is still gone.
Served(q) ==
    /\ Running(q) /\ q.gone => file[q.file] = "DELETED"
    /\ q.pc = "policy" /\ q.op # "ticket" => ~q.gone
    /\ q.code \in {"OK", "REDIRECT"} => ~q.gone

ReqInv(q) == q \in Request /\ Formed(q) /\ Window(q) /\ Served(q)

\* Codes whose answers carry nothing.
Plain == {"NOT_FOUND", "DENIED", "CONFLICT", "UNAVAILABLE", "DROPPED"}

\* An unused request satisfies the invariant.
LEMMA UnusedOK == ReqInv(Unused)
  BY AccessAssumption DEF ReqInv, Unused, Request, Formed, Window, Served, Running

\* So does one that was answered without content.
LEMMA PlainOK == ASSUME NEW q, NEW c \in Plain PROVE ReqInv(Ended(q, c))
  <1>1. Ended(q, c) = [Unused EXCEPT !.pc = "done", !.code = c]
    BY DEF Ended, Plain
  <1> DEFINE e == [Unused EXCEPT !.pc = "done", !.code = c]
  <1>2. e \in Request
    BY AccessAssumption DEF Plain, Unused, Request
  <1>3. e.pc = "done" /\ e.op = Nil /\ e.code \notin {"OK", "CREATED", "REDIRECT", "EXPIRED"}
    BY DEF Plain, Unused
  <1> HIDE DEF e
  <1>4. Formed(e) /\ Window(e) /\ Served(e)
    BY <1>3, AccessAssumption DEF Formed, Window, Served, Running
  <1> QED
    BY <1>1, <1>2, <1>4 DEF ReqInv, e

------------------------------------------------------------------------------
(* The invariant. *)

RequestsOK == req \in [Requests -> Request] /\ \A r \in Requests : ReqInv(req[r])

\* A record outlives its ticket.
RecordsOK ==
    \A k \in StorageKeys : store[k] # Nil =>
       store[k].told <= store[k].until /\ Brackets(store[k].ticket, store[k].told)

\* The record of a keyed answer.
Remembered(r) ==
    LET record == store[storageKey(r)] IN
    record # Nil /\ record.ticket = req[r].ticket /\ record.told = req[r].told

AnswersRemembered ==
    \A r \in Keyed : lost \/ Remembered(r) \/ req[r].told <= now

Frame ==
    /\ now \in Nat /\ setup \in Setup /\ lost \in BOOLEAN /\ faults \in Nat
    /\ file \in [Files -> {"NONE", "ACTIVE", "DELETED"}]
    /\ store \in [StorageKeys -> Record \cup {Nil}]

IInv == Frame /\ RequestsOK /\ RecordsOK /\ AnswersRemembered /\ AnswersAgree

\* A step that replaces one request by a good one keeps the requests good.
LEMMA OneChanged ==
  ASSUME RequestsOK, NEW r \in Requests, NEW q, ReqInv(q), req' = [req EXCEPT ![r] = q],
         UNCHANGED <<now, file>>
  PROVE  RequestsOK'
  <1>1. q \in Request
    BY DEF ReqInv
  <1>2. req' \in [Requests -> Request]
    BY <1>1 DEF RequestsOK
  <1>3. ASSUME NEW p \in Requests PROVE ReqInv(req[p])'
    <2>1. ReqInv(req'[p])
      BY DEF RequestsOK
    <2> QED
      BY <2>1 DEF ReqInv, Formed, Window, Served
  <1> QED
    BY <1>2, <1>3 DEF RequestsOK

------------------------------------------------------------------------------
(* Requests stay good. *)

\* A view or a download that arrives is good.
LEMMA ArriveOK ==
  ASSUME Frame, NEW r, NEW c \in Callers, NEW f \in Files, NEW op \in {"get", "download"}
  PROVE  ReqInv(Arrive(r, op, "file", c, f))
  BY AccessAssumption DEF Frame, Arrive, Unused, ReqInv, Request, Formed, Window, Served, Running

\* So is a ticket request,
LEMMA ArriveTicketOK ==
  ASSUME Frame, NEW r, NEW c \in Callers, NEW f \in Files, NEW k \in Keys \cup {Nil}, NEW t \in Nat
  PROVE  ReqInv([Arrive(r, "ticket", IF k = Nil THEN "file" ELSE "lookup", c, f) EXCEPT
                   !.key = k, !.ttl = t])
  <1>1. CASE k = Nil
    BY <1>1, AccessAssumption DEF Frame, Arrive, Unused, ReqInv, Request, Formed, Window, Served, Running
  <1>2. CASE k # Nil
    BY <1>2, AccessAssumption DEF Frame, Arrive, Unused, ReqInv, Request, Formed, Window, Served, Running
  <1> QED
    BY <1>1, <1>2

\* and a redirect with a ticket some client was given.
LEMMA ArriveRedirectOK ==
  ASSUME Frame, NEW r, NEW ticket \in Claims, NEW told \in Nat, Brackets(ticket, told)
  PROVE  ReqInv([Arrive(r, "redirect", "verify", Nil, ticket.file) EXCEPT
                   !.ticket = ticket, !.told = told, !.start = now])
  <1> DEFINE q == [Arrive(r, "redirect", "verify", Nil, ticket.file) EXCEPT
                     !.ticket = ticket, !.told = told, !.start = now]
  <1>1. q \in Request
    BY AccessAssumption DEF Frame, Claims, Arrive, Unused, Request
  <1>2. /\ q.pc = "verify" /\ q.op = "redirect" /\ q.code = Nil /\ q.file \in Files
        /\ q.ticket = ticket /\ q.told = told /\ q.start = now
    BY DEF Claims, Arrive, Unused
  <1>4. q.gone => file[q.file] = "DELETED"
    BY DEF Claims, Arrive, Unused
  <1> HIDE DEF q
  <1>3. Formed(q) /\ Window(q) /\ Served(q)
    BY <1>2, <1>4, AccessAssumption DEF Frame, Formed, Window, Served, Running
  <1> QED
    BY <1>1, <1>3 DEF ReqInv, q

\* A request that arrives is taken up or refused.
LEMMA BeginOK ==
  ASSUME RequestsOK, NEW r \in Requests, NEW request, ReqInv(request), Begin(r, request)
  PROVE  RequestsOK'
  <1>1. ReqInv(Ended(request, "DENIED"))
    BY PlainOK DEF Plain
  <1> QED
    BY <1>1, OneChanged DEF Begin

\* The three answers that carry something.
LEMMA CreatedOK ==
  ASSUME Frame, NEW q \in Request, q.op = "ticket", q.file \in Files, q.caller \in Callers,
         NEW ticket \in Claims, NEW told \in Nat, Brackets(ticket, told)
  PROVE  ReqInv([Ended(q, "CREATED") EXCEPT !.ticket = ticket, !.told = told])
  <1> DEFINE e == [Ended(q, "CREATED") EXCEPT !.ticket = ticket, !.told = told]
  <1>1. e = [q EXCEPT !.pc = "done", !.code = "CREATED", !.at = now, !.ticket = ticket, !.told = told]
    BY DEF Ended, Request
  <1>2. e \in Request
    BY <1>1 DEF Frame, Request
  <1>3. /\ e.pc = "done" /\ e.op = "ticket" /\ e.code = "CREATED" /\ e.file \in Files
        /\ e.caller \in Callers /\ e.ticket = ticket /\ e.told = told
    BY <1>1 DEF Request
  <1> HIDE DEF e
  <1>4. Formed(e) /\ Window(e) /\ Served(e)
    BY <1>3 DEF Formed, Window, Served, Running
  <1> QED
    BY <1>2, <1>4 DEF ReqInv, e

\* A ticket is refused less than a second before the expiry told.
LEMMA ExpiredOK ==
  ASSUME Frame, NEW q \in Request, q.told < now + Second
  PROVE  ReqInv(Ended(q, "EXPIRED"))
  <1> DEFINE e == [Unused EXCEPT !.pc = "done", !.code = "EXPIRED", !.told = q.told, !.at = now]
  <1>1. Ended(q, "EXPIRED") = e
    BY DEF Ended
  <1>2. q.told \in Nat /\ now \in Nat /\ Second \in Nat
    BY AccessAssumption DEF Frame, Request
  <1>3. e \in Request
    BY <1>2 DEF Request, Unused
  <1>4. e.pc = "done" /\ e.op = Nil /\ e.code = "EXPIRED" /\ e.told = q.told /\ e.at = now
    BY DEF Unused
  <1> HIDE DEF e
  <1>5. Formed(e) /\ Window(e) /\ Served(e)
    BY <1>2, <1>4, AccessAssumption DEF Formed, Window, Served, Running
  <1> QED
    BY <1>1, <1>3, <1>5 DEF ReqInv

\* What is served was not gone when the request came.
LEMMA ServedOK ==
  ASSUME Frame, NEW q \in Request, NEW c \in {"OK", "REDIRECT"}, ~q.gone,
         q.op = "redirect" => q.start < q.told
  PROVE  ReqInv(Ended(q, c))
  <1> DEFINE e == [Unused EXCEPT !.pc = "done", !.op = q.op, !.code = c, !.gone = q.gone,
                                 !.told = q.told, !.start = q.start]
  <1>1. Ended(q, c) = e
    BY DEF Ended
  <1>2. /\ q.told \in Nat /\ q.start \in Nat /\ q.gone \in BOOLEAN
        /\ q.op \in {Nil, "get", "ticket", "download", "redirect"}
    BY DEF Request
  <1>3. e \in Request
    BY <1>2 DEF Request, Unused
  <1>4. /\ e.pc = "done" /\ e.op = q.op /\ e.code = c /\ e.told = q.told /\ e.start = q.start
        /\ ~e.gone
    BY DEF Unused
  <1> HIDE DEF e
  <1>5. Formed(e) /\ Window(e) /\ Served(e)
    BY <1>4 DEF Formed, Window, Served, Running
  <1> QED
    BY <1>1, <1>3, <1>5 DEF ReqInv

\* The same for an answer that holds its ticket already.
LEMMA CreatedAsIsOK ==
  ASSUME Frame, NEW q \in Request, q.op = "ticket", q.file \in Files, q.caller \in Callers,
         q.ticket \in Claims, Brackets(q.ticket, q.told)
  PROVE  ReqInv(Ended(q, "CREATED"))
  <1> DEFINE e == [q EXCEPT !.pc = "done", !.code = "CREATED", !.at = now]
  <1>1. Ended(q, "CREATED") = e
    BY DEF Ended
  <1>2. e \in Request
    BY DEF Frame, Request
  <1>3. /\ e.pc = "done" /\ e.op = "ticket" /\ e.code = "CREATED" /\ e.file \in Files
        /\ e.caller \in Callers /\ e.ticket = q.ticket /\ e.told = q.told
    BY DEF Request
  <1> HIDE DEF e
  <1>4. Formed(e) /\ Window(e) /\ Served(e)
    BY <1>3 DEF Formed, Window, Served, Running
  <1> QED
    BY <1>1, <1>2, <1>4 DEF ReqInv

\* The handlers, one by one.  A replay answers with the record, or CONFLICT.
LEMMA ReplayOK ==
  ASSUME Frame, RequestsOK, RecordsOK, NEW r \in Requests, req[r].pc \in {"lookup", "reload"},
         Found(storageKey(r)), Replay(r), UNCHANGED <<now, file>>
  PROVE  RequestsOK'
  <1> DEFINE record == store[storageKey(r)]
  <1>1. req[r] \in Request /\ Formed(req[r])
    BY DEF RequestsOK, ReqInv
  <1>2. storageKey(r) \in StorageKeys /\ req[r].op = "ticket" /\ req[r].file \in Files /\ req[r].caller \in Callers
    BY <1>1 DEF Formed, Running, storageKey, StorageKeys
  <1>3. record \in Record /\ Brackets(record.ticket, record.told)
    BY <1>2 DEF Frame, RecordsOK, Found
  <1>4. CASE record.fingerprint # req[r].ttl
    BY <1>4, PlainOK, OneChanged DEF Replay, Answer, Answered, Plain
  <1>5. CASE record.fingerprint = req[r].ttl
    <2>1. ReqInv([Ended(req[r], "CREATED") EXCEPT !.ticket = record.ticket, !.told = record.told])
      BY <1>1, <1>2, <1>3, CreatedOK DEF Record
    <2> QED
      BY <1>5, <2>1, OneChanged DEF Replay, Answered
  <1> QED
    BY <1>4, <1>5

\* A handler that goes on without an answer.
LEMMA MovedOK ==
  ASSUME Frame, RequestsOK, NEW r \in Requests, Running(req[r]),
         NEW pc \in {"file", "policy", "reload"}, GoTo(r, pc), UNCHANGED <<now, file>>,
         pc = "file" /\ req[r].op = "redirect" => req[r].start < req[r].told,
         pc = "policy" => req[r].pc = "file" /\ ~req[r].gone,
         pc = "reload" => req[r].pc = "put"
  PROVE  RequestsOK'
  <1> DEFINE q == [req[r] EXCEPT !.pc = pc]
  <1>1. ReqInv(req[r])
    BY DEF RequestsOK
  <1>2. q \in Request
    BY <1>1 DEF ReqInv, Request
  <1>3. /\ q.pc = pc /\ q.op = req[r].op /\ q.code = req[r].code /\ q.file = req[r].file
        /\ q.caller = req[r].caller /\ q.key = req[r].key /\ q.ticket = req[r].ticket
        /\ q.told = req[r].told /\ q.start = req[r].start /\ q.at = req[r].at /\ q.gone = req[r].gone
    BY <1>1 DEF ReqInv, Request
  <1> HIDE DEF q
  <1>4. Formed(q) /\ Window(q) /\ Served(q)
    BY <1>1, <1>3, AccessAssumption DEF ReqInv, Formed, Window, Served, Running
  <1>5. req' = [req EXCEPT ![r] = q]
    BY DEF GoTo, q
  <1> QED
    BY <1>2, <1>4, <1>5, OneChanged DEF ReqInv

\* A redirect passes the clock or is refused.
LEMMA VerifyTicketOK ==
  ASSUME Frame, RequestsOK, NEW r \in Requests, VerifyTicket(r) PROVE RequestsOK'
  <1>1. ReqInv(req[r]) /\ req[r].pc = "verify"
    BY DEF RequestsOK, VerifyTicket
  <1>2. /\ req[r] \in Request /\ req[r].op = "redirect" /\ req[r].ticket \in Claims /\ Running(req[r])
        /\ Brackets(req[r].ticket, req[r].told) /\ req[r].start <= now
    BY <1>1 DEF ReqInv, Formed, Window, Running
  <1>3. /\ req[r].start \in Nat /\ req[r].told \in Nat /\ req[r].ticket.expires \in Nat
        /\ now \in Nat /\ Second \in Nat
    BY <1>2, AccessAssumption DEF Request, Claims, Frame
  <1>4. CASE req[r].ticket.expires > now
    <2>1. req[r].start < req[r].told
      BY <1>2, <1>3, <1>4 DEF Brackets
    <2> QED
      BY <1>2, <1>4, <2>1, MovedOK DEF VerifyTicket
  <1>5. CASE ~(req[r].ticket.expires > now)
    <2>1. req[r].told < now + Second
      BY <1>2, <1>3, <1>5 DEF Brackets
    <2> QED
      BY <1>2, <1>5, <2>1, ExpiredOK, OneChanged DEF VerifyTicket, Answer, Answered
  <1> QED
    BY <1>4, <1>5

\* A deleted file is never readable.
LEMMA ReadFileOK ==
  ASSUME Frame, RequestsOK, NEW r \in Requests, ReadFile(r) PROVE RequestsOK'
  <1>1. ReqInv(req[r]) /\ req[r].pc = "file" /\ UNCHANGED <<now, file>>
    BY DEF RequestsOK, ReadFile
  <1>2. /\ req[r] \in Request /\ Running(req[r]) /\ (req[r].op = "redirect" => req[r].start < req[r].told)
        /\ (req[r].gone => file[req[r].file] = "DELETED")
    BY <1>1 DEF ReqInv, Window, Served, Running
  <1>3. CASE file[req[r].file] = "NONE" \/ ~EnsureReadable(req[r].file, ActsFor(r))
    BY <1>1, <1>3, PlainOK, OneChanged DEF ReadFile, Answer, Answered, Plain
  <1>4. CASE file[req[r].file] # "NONE" /\ EnsureReadable(req[r].file, ActsFor(r))
    <2>1. ~req[r].gone
      BY <1>2, <1>4 DEF EnsureReadable
    <2>2. CASE req[r].op = "get"
      BY <1>1, <1>2, <1>4, <2>1, <2>2, ServedOK, OneChanged DEF ReadFile, Answer, Answered
    <2>3. CASE req[r].op # "get"
      BY <1>1, <1>2, <1>4, <2>1, <2>3, MovedOK DEF ReadFile
    <2> QED
      BY <2>2, <2>3
  <1> QED
    BY <1>3, <1>4

\* Cutting an expiry to whole seconds takes less than a second off it.
LEMMA IssueOK ==
  ASSUME NEW f \in Files, NEW told \in Nat
  PROVE  Issue(f, told) \in Claims /\ Brackets(Issue(f, told), told)
  <1>1. Second \in Nat \ {0} /\ FileTenant[f] \in Tenants
    BY AccessAssumption
  <1>2. told % Second \in Nat /\ told % Second < Second /\ told % Second <= told
    BY <1>1
  <1> QED
    BY <1>1, <1>2 DEF Issue, Claims, Brackets

\* A ticket is issued for the time told.
LEMMA ApplyPolicyOK ==
  ASSUME Frame, RequestsOK, NEW r \in Requests, ApplyPolicy(r) PROVE RequestsOK'
  <1> DEFINE f == req[r].file
             told == now + req[r].ttl
             ticket == Issue(f, told)
             issued == [req[r] EXCEPT !.ticket = ticket, !.told = told]
             put == [issued EXCEPT !.pc = "put"]
  <1>1. ReqInv(req[r]) /\ req[r].pc = "policy" /\ UNCHANGED <<now, file>>
    BY DEF RequestsOK, ApplyPolicy
  <1>2. /\ req[r] \in Request /\ f \in Files /\ req[r].code = Nil
        /\ (req[r].op # "ticket" => ~req[r].gone)
        /\ (req[r].op = "redirect" => req[r].start < req[r].told)
        /\ (req[r].op # "redirect" => req[r].caller \in Callers)
        /\ (req[r].gone => file[f] = "DELETED")
    BY <1>1 DEF ReqInv, Formed, Window, Served, Running
  <1>3. told \in Nat /\ ticket \in Claims /\ Brackets(ticket, told)
    <2>1. told \in Nat
      BY <1>2 DEF Frame, Request
    <2> QED
      BY <1>2, <2>1, IssueOK
  <1>4. CASE FileTenant[f] \notin setup.configured
    BY <1>1, <1>4, PlainOK, OneChanged DEF ApplyPolicy, Answer, Answered, Plain
  <1>5. CASE FileTenant[f] \in setup.configured /\ req[r].op # "ticket"
    BY <1>1, <1>2, <1>5, ServedOK, OneChanged DEF ApplyPolicy, Answer, Answered
  <1>6. CASE FileTenant[f] \in setup.configured /\ req[r].op = "ticket" /\ req[r].key = Nil
    <2>1. /\ issued \in Request /\ issued.op = "ticket" /\ issued.file \in Files
          /\ issued.caller \in Callers /\ issued.ticket = ticket /\ issued.told = told
      BY <1>2, <1>3, <1>6 DEF Request
    <2>2. ReqInv(Ended(issued, "CREATED"))
      BY <1>3, <2>1, CreatedAsIsOK
    <2> QED
      BY <1>1, <1>6, <2>2, OneChanged DEF ApplyPolicy
  <1>7. CASE FileTenant[f] \in setup.configured /\ req[r].op = "ticket" /\ req[r].key # Nil
    <2>1. put \in Request
      BY <1>2, <1>3 DEF Request
    <2>2. /\ put.pc = "put" /\ put.op = "ticket" /\ put.code = Nil /\ put.file \in Files
          /\ put.caller \in Callers /\ put.key \in Keys /\ put.ticket = ticket /\ put.told = told
          /\ put.ttl = req[r].ttl /\ (put.gone => file[put.file] = "DELETED")
      BY <1>2, <1>7 DEF Request
    <2>3. req' = [req EXCEPT ![r] = put]
      BY <1>7 DEF ApplyPolicy
    <2> HIDE DEF put
    <2>4. Formed(put) /\ Served(put)
      BY <1>3, <2>2, AccessAssumption DEF Formed, Served, Running
    <2>5. Window(put)
      BY <1>3, <2>2, AccessAssumption DEF Window, Running, Frame
    <2> QED
      BY <1>1, <2>1, <2>3, <2>4, <2>5, OneChanged DEF ReqInv
  <1> QED
    BY <1>4, <1>5, <1>6, <1>7

\* The one whose record is stored answers, the other reloads.
LEMMA PutRecordOK ==
  ASSUME Frame, RequestsOK, NEW r \in Requests, PutRecord(r) PROVE RequestsOK'
  <1>1. ReqInv(req[r]) /\ req[r].pc = "put" /\ UNCHANGED <<now, file>>
    BY DEF RequestsOK, PutRecord
  <1>2. /\ req[r] \in Request /\ Running(req[r]) /\ req[r].op = "ticket" /\ req[r].file \in Files
        /\ req[r].caller \in Callers /\ req[r].ticket \in Claims /\ Brackets(req[r].ticket, req[r].told)
    BY <1>1 DEF ReqInv, Formed, Window, Running
  <1>3. CASE Found(storageKey(r))
    BY <1>1, <1>2, <1>3, MovedOK DEF PutRecord
  <1>4. CASE ~Found(storageKey(r))
    <2>1. ReqInv(Ended(req[r], "CREATED"))
      BY <1>2, CreatedAsIsOK
    <2> QED
      BY <1>1, <1>4, <2>1, OneChanged DEF PutRecord, Answer, Answered
  <1> QED
    BY <1>3, <1>4

\* A keyed request replays its record or goes on.
LEMMA LookupRecordOK ==
  ASSUME Frame, RequestsOK, RecordsOK, NEW r \in Requests, LookupRecord(r) PROVE RequestsOK'
  <1>1. ReqInv(req[r]) /\ req[r].pc = "lookup" /\ UNCHANGED <<now, file>>
    BY DEF RequestsOK, LookupRecord
  <1>2. Running(req[r]) /\ req[r].op = "ticket"
    BY <1>1 DEF ReqInv, Formed, Running
  <1>3. CASE Found(storageKey(r))
    BY <1>1, <1>3, ReplayOK DEF LookupRecord
  <1>4. CASE ~Found(storageKey(r))
    BY <1>1, <1>2, <1>4, MovedOK DEF LookupRecord
  <1> QED
    BY <1>3, <1>4

\* The loser replays the record it lost to.
LEMMA ReloadRecordOK ==
  ASSUME Frame, RequestsOK, RecordsOK, NEW r \in Requests, ReloadRecord(r) PROVE RequestsOK'
  <1>1. req[r].pc = "reload" /\ UNCHANGED <<now, file>>
    BY DEF ReloadRecord
  <1>2. CASE Found(storageKey(r))
    BY <1>1, <1>2, ReplayOK DEF ReloadRecord
  <1>3. CASE ~Found(storageKey(r))
    BY <1>1, <1>3, PlainOK, OneChanged DEF ReloadRecord, Answer, Answered, Plain
  <1> QED
    BY <1>2, <1>3

\* A failing call ends the request.
LEMMA CallFailsOK ==
  ASSUME RequestsOK, NEW r \in Requests, CallFails(r) PROVE RequestsOK'
  BY PlainOK, OneChanged DEF CallFails, Answer, Answered, Plain

\* A restart drops the requests in progress.
LEMMA RestartOK ==
  ASSUME RequestsOK, Restart PROVE RequestsOK'
  <1>1. ASSUME NEW r \in Requests PROVE ReqInv(req'[r])
    <2>1. CASE Active(r)
      BY <2>1, PlainOK DEF Restart, Answered, Plain
    <2>2. CASE ~Active(r)
      BY <2>2 DEF Restart, RequestsOK
    <2> QED
      BY <2>1, <2>2
  <1>2. req' \in [Requests -> Request]
    BY <1>1 DEF Restart, ReqInv
  <1>3. UNCHANGED <<now, file>>
    BY DEF Restart
  <1> QED
    BY <1>1, <1>2, <1>3 DEF RequestsOK, ReqInv, Formed, Window, Served

\* Deletion is final.
LEMMA FileChangesOK ==
  ASSUME Frame, RequestsOK, NEW f \in Files, FileChanges(f) PROVE RequestsOK'
  <1>1. UNCHANGED <<now, req>> /\ \A g \in Files : file[g] = "DELETED" => file'[g] = "DELETED"
    BY DEF FileChanges, Frame
  <1>2. ASSUME NEW r \in Requests PROVE ReqInv(req[r])'
    <2>1. ReqInv(req[r])
      BY DEF RequestsOK
    <2>2. Served(req[r])'
      BY <1>1, <2>1 DEF ReqInv, Formed, Served
    <2> QED
      BY <1>1, <2>1, <2>2 DEF ReqInv, Formed, Window
  <1> QED
    BY <1>1, <1>2 DEF RequestsOK

\* Time only widens the bounds on requests in progress.
LEMMA TickOK ==
  ASSUME Frame, RequestsOK, Tick PROVE RequestsOK'
  <1>1. UNCHANGED <<file, req>> /\ now' = now + 1 /\ now \in Nat
    BY DEF Tick, Frame
  <1>2. ASSUME NEW r \in Requests PROVE ReqInv(req[r])'
    <2>1. ReqInv(req[r])
      BY DEF RequestsOK
    <2>2. req[r].start \in Nat /\ req[r].told \in Nat /\ req[r].ttl \in Nat
      BY <2>1 DEF ReqInv, Request
    <2>3. Window(req[r])'
      BY <1>1, <2>1, <2>2 DEF ReqInv, Window
    <2> QED
      BY <1>1, <2>1, <2>3 DEF ReqInv, Formed, Served
  <1> QED
    BY <1>1, <1>2 DEF RequestsOK

\* A redirect brings a ticket that brackets the expiry told with it.
LEMMA RedirectOK ==
  ASSUME Frame, RequestsOK, NEW r \in Requests, NEW a \in Requests, RedirectByAccessTicket(r, a)
  PROVE  RequestsOK'
  <1>1. ReqInv(req[a]) /\ req[a].code = "CREATED"
    BY DEF RequestsOK, RedirectByAccessTicket
  <1>2. req[a].ticket \in Claims /\ req[a].told \in Nat /\ Brackets(req[a].ticket, req[a].told)
    BY <1>1 DEF ReqInv, Formed, Window, Request
  <1> QED
    BY <1>2, ArriveRedirectOK, BeginOK DEF RedirectByAccessTicket

\* A ticket request has a lifetime.
LEMMA CreateAccessTicketOK ==
  ASSUME Frame, RequestsOK, NEW r \in Requests, NEW c \in Callers, NEW f \in Files,
         NEW k \in Keys \cup {Nil}, NEW t \in TTLs, CreateAccessTicket(r, c, f, k, t)
  PROVE  RequestsOK'
  <1>1. (IF t = 0 THEN DefaultTTL ELSE t) \in Nat
    BY AccessAssumption
  <1> QED
    BY <1>1, ArriveTicketOK, BeginOK DEF CreateAccessTicket

\* Every step keeps the requests good.
LEMMA RequestsStep == ASSUME IInv, [Next]_vars PROVE RequestsOK'
  <1> USE DEF IInv
  <1>1. ASSUME NEW r \in Requests, NEW c \in Callers, NEW f \in Files,
               GetFile(r, c, f) \/ ResolveDownload(r, c, f)
        PROVE  RequestsOK'
    BY <1>1, ArriveOK, BeginOK DEF GetFile, ResolveDownload
  <1>2. CASE UNCHANGED vars
    BY <1>2 DEF vars, RequestsOK, ReqInv, Formed, Window, Served
  <1> QED
    BY <1>1, <1>2, CreateAccessTicketOK, RedirectOK, VerifyTicketOK, LookupRecordOK, ReadFileOK,
       ApplyPolicyOK, PutRecordOK, ReloadRecordOK, CallFailsOK, RestartOK, FileChangesOK, TickOK
       DEF Next

------------------------------------------------------------------------------
(* The records. *)

Rest == <<now, file, setup, store, lost, faults>>

\* Most steps change nothing but their request.
LEMMA NextCases ==
  ASSUME [Next]_vars
  PROVE  \/ UNCHANGED Rest
         \/ \E r \in Requests : PutRecord(r) \/ CallFails(r)
         \/ \E f \in Files : FileChanges(f)
         \/ Restart
         \/ Tick
  <1>1. ASSUME NEW r, NEW q, Begin(r, q) PROVE UNCHANGED Rest
    BY <1>1 DEF Begin, Rest
  <1>2. ASSUME NEW r, NEW c, NEW f, GetFile(r, c, f) \/ ResolveDownload(r, c, f) PROVE UNCHANGED Rest
    BY <1>1, <1>2 DEF GetFile, ResolveDownload
  <1>3. ASSUME NEW r, NEW c, NEW f, NEW k, NEW t, CreateAccessTicket(r, c, f, k, t)
        PROVE  UNCHANGED Rest
    BY <1>1, <1>3, Zenon DEF CreateAccessTicket
  <1>4. ASSUME NEW r, NEW a, RedirectByAccessTicket(r, a) PROVE UNCHANGED Rest
    BY <1>1, <1>4, Zenon DEF RedirectByAccessTicket
  <1>5. ASSUME NEW r, VerifyTicket(r) \/ LookupRecord(r) \/ ReadFile(r) \/ ApplyPolicy(r) \/ ReloadRecord(r)
        PROVE  UNCHANGED Rest
    BY <1>5 DEF VerifyTicket, LookupRecord, ReadFile, ApplyPolicy, ReloadRecord, Rest
  <1>6. CASE UNCHANGED vars
    BY <1>6 DEF vars, Rest
  <1> QED
    BY <1>2, <1>3, <1>4, <1>5, <1>6 DEF Next

\* What a step may do to the records: expired ones give way to good ones.
StoreStep ==
    /\ store' \in [StorageKeys -> Record \cup {Nil}]
    /\ \A k \in StorageKeys :
          \/ store'[k] = store[k]
          \/ /\ ~Found(k)
             /\ store'[k].told <= store'[k].until
             /\ Brackets(store'[k].ticket, store'[k].told)

\* SETNX writes the record of the ticket at hand.
LEMMA PutOK ==
  ASSUME Frame, RequestsOK, NEW r \in Requests, req[r].pc = "put", PutIfAbsent(r)
  PROVE  /\ StoreStep
         /\ storageKey(r) \in StorageKeys
         /\ ~Found(storageKey(r)) => store'[storageKey(r)] = IssueRecord(r)
         /\ IssueRecord(r) \in Record
  <1> DEFINE k == storageKey(r)
  <1>1. ReqInv(req[r])
    BY DEF RequestsOK
  <1>2. /\ req[r] \in Request /\ req[r].file \in Files /\ req[r].caller \in Callers
        /\ req[r].key \in Keys /\ req[r].ticket \in Claims
        /\ Brackets(req[r].ticket, req[r].told) /\ req[r].told <= now + req[r].ttl
    BY <1>1 DEF ReqInv, Formed, Window, Running
  <1>3. k \in StorageKeys
    BY <1>2 DEF storageKey, StorageKeys
  <1>4. /\ req[r].ttl \in Nat /\ req[r].told \in Nat /\ now \in Nat /\ Second \in Nat
    BY <1>2, AccessAssumption DEF Request, Frame
  <1>5. normalizeTTL(req[r].ttl) \in Nat /\ req[r].ttl <= normalizeTTL(req[r].ttl)
    BY <1>4 DEF normalizeTTL
  <1>6. /\ IssueRecord(r) \in Record /\ IssueRecord(r).told <= IssueRecord(r).until
        /\ Brackets(IssueRecord(r).ticket, IssueRecord(r).told)
    BY <1>2, <1>4, <1>5 DEF IssueRecord, Record
  <1> HIDE DEF k
  <1>7. CASE Found(k)
    BY <1>3, <1>6, <1>7 DEF PutIfAbsent, StoreStep, Frame, k
  <1>8. CASE ~Found(k)
    <2>1. store' = [store EXCEPT ![k] = IssueRecord(r)]
      BY <1>8 DEF PutIfAbsent, k
    <2>2. store' \in [StorageKeys -> Record \cup {Nil}] /\ store'[k] = IssueRecord(r)
      BY <1>3, <1>6, <2>1 DEF Frame
    <2>3. \A j \in StorageKeys : j # k => store'[j] = store[j]
      BY <2>1 DEF Frame
    <2> QED
      BY <1>3, <1>6, <1>8, <2>2, <2>3 DEF StoreStep, k
  <1> QED
    BY <1>7, <1>8

\* A step that leaves the records alone is such a step.
LEMMA StoreSame == ASSUME Frame, UNCHANGED store PROVE StoreStep
  BY DEF Frame, StoreStep

\* Only a restart without Redis drops records.
LEMMA StoreSteps ==
  ASSUME IInv, [Next]_vars
  PROVE  StoreStep \/ (store' = [k \in StorageKeys |-> Nil] /\ lost')
  <1> USE DEF IInv
  <1>1. ASSUME NEW r \in Requests, PutRecord(r) PROVE StoreStep
    BY <1>1, PutOK DEF PutRecord
  <1>2. ASSUME NEW r \in Requests, CallFails(r) PROVE StoreStep
    BY <1>2, PutOK, StoreSame DEF CallFails
  <1>3. ASSUME Restart PROVE StoreStep \/ (store' = [k \in StorageKeys |-> Nil] /\ lost')
    BY <1>3, StoreSame DEF Restart
  <1>4. CASE UNCHANGED Rest
    BY <1>4, StoreSame DEF Rest
  <1>5. ASSUME Tick \/ \E f \in Files : FileChanges(f) PROVE StoreStep
    BY <1>5, StoreSame DEF Tick, FileChanges
  <1> QED
    BY <1>1, <1>2, <1>3, <1>4, <1>5, NextCases

\* Every step keeps the records good.
LEMMA RecordsStep == ASSUME IInv, [Next]_vars PROVE RecordsOK'
  <1>1. CASE StoreStep
    BY <1>1 DEF IInv, StoreStep, RecordsOK, Brackets
  <1>2. CASE store' = [k \in StorageKeys |-> Nil]
    BY <1>2 DEF RecordsOK
  <1> QED
    BY <1>1, <1>2, StoreSteps

\* Time goes forward.
LEMMA ScalarsStep ==
  ASSUME IInv, [Next]_vars
  PROVE  now' \in Nat /\ now <= now' /\ faults' \in Nat
  <1>1. now \in Nat /\ faults \in Nat
    BY DEF IInv, Frame
  <1>2. now' = now \/ now' = now + 1
    BY NextCases DEF Rest, PutRecord, CallFails, Restart, FileChanges, Tick
  <1>3. faults' = faults \/ faults' = faults + 1
    BY NextCases DEF Rest, PutRecord, CallFails, Restart, FileChanges, Tick
  <1> QED
    BY <1>1, <1>2, <1>3

\* A loss of the records is not forgotten.
LEMMA FlagsStep ==
  ASSUME setup \in Setup, lost \in BOOLEAN, [Next]_vars
  PROVE  setup' \in Setup /\ lost' \in BOOLEAN /\ (lost => lost')
  BY NextCases, Zenon DEF Rest, PutRecord, CallFails, Restart, FileChanges, Tick

\* The status of a file stays one of three.
LEMMA FileStep ==
  ASSUME IInv, [Next]_vars PROVE file' \in [Files -> {"NONE", "ACTIVE", "DELETED"}]
  BY NextCases DEF IInv, Frame, Rest, PutRecord, CallFails, Restart, FileChanges, Tick

\* Every step keeps the types of what is not a request.
LEMMA FrameStep == ASSUME IInv, [Next]_vars PROVE Frame'
  <1>1. store' \in [StorageKeys -> Record \cup {Nil}]
    BY StoreSteps DEF StoreStep
  <1> QED
    BY <1>1, ScalarsStep, FlagsStep, FileStep DEF IInv, Frame

------------------------------------------------------------------------------
(* The answers. *)

KeyedAnswer(q) == q.op = "ticket" /\ q.code = "CREATED" /\ q.key # Nil

\* A keyed answer was there before, or it is new and has its record.
NewAnswer(a) ==
    /\ req'[a].at = now
    /\ req'[a].told \in Nat
    /\ storageKey(a)' \in StorageKeys
    /\ store'[storageKey(a)'] # Nil
    /\ store'[storageKey(a)'].ticket = req'[a].ticket
    /\ store'[storageKey(a)'].told = req'[a].told

KeyedStep ==
    \A a \in Requests :
       KeyedAnswer(req'[a]) => \/ KeyedAnswer(req[a]) /\ req'[a] = req[a]
                               \/ NewAnswer(a)

\* A request that is replaced by one without a keyed answer adds none.
LEMMA NoNewAnswer ==
  ASSUME RequestsOK, NEW r \in Requests, NEW q, ~KeyedAnswer(q), req' = [req EXCEPT ![r] = q]
  PROVE  KeyedStep
  BY DEF KeyedStep, RequestsOK

\* One that is replaced by an answer with its record adds that one.
LEMMA OneNewAnswer ==
  ASSUME RequestsOK, NEW r \in Requests, NEW q, req' = [req EXCEPT ![r] = q], NewAnswer(r)
  PROVE  KeyedStep
  BY DEF KeyedStep, RequestsOK

\* Answers other than a new ticket.
LEMMA EndedCode ==
  ASSUME NEW q, NEW c \in Plain \cup {"OK", "REDIRECT", "EXPIRED"}
  PROVE  ~KeyedAnswer(Ended(q, c))
  <1>1. CASE c = "EXPIRED"
    BY <1>1 DEF Ended, Unused, KeyedAnswer
  <1>2. CASE c \in {"OK", "REDIRECT"}
    BY <1>2 DEF Ended, Unused, KeyedAnswer
  <1>3. CASE c \in Plain
    BY <1>3 DEF Ended, Unused, KeyedAnswer, Plain
  <1> QED
    BY <1>1, <1>2, <1>3

\* A request that arrives is not answered with a ticket.
LEMMA BeginKeyed ==
  ASSUME RequestsOK, NEW r \in Requests, NEW q, Begin(r, q), q.code = Nil PROVE KeyedStep
  <1>1. ~KeyedAnswer(q) /\ ~KeyedAnswer(Ended(q, "DENIED"))
    BY EndedCode, AccessAssumption DEF KeyedAnswer, Plain
  <1> QED
    BY <1>1, NoNewAnswer DEF Begin

\* A handler that moves on has not answered.
LEMMA GoToKeyed ==
  ASSUME RequestsOK, NEW r \in Requests, Running(req[r]), NEW pc, GoTo(r, pc) PROVE KeyedStep
  <1>1. req[r] \in Request /\ req[r].code = Nil
    BY DEF RequestsOK, ReqInv, Formed
  <1>2. ~KeyedAnswer([req[r] EXCEPT !.pc = pc])
    BY <1>1, AccessAssumption DEF KeyedAnswer, Request
  <1> QED
    BY <1>2, NoNewAnswer DEF GoTo

\* A replayed answer is the record's.
LEMMA ReplayKeyed ==
  ASSUME Frame, RequestsOK, NEW r \in Requests, req[r].pc \in {"lookup", "reload"},
         Found(storageKey(r)), Replay(r), UNCHANGED store
  PROVE  KeyedStep
  <1> DEFINE record == store[storageKey(r)]
             e == [Ended(req[r], "CREATED") EXCEPT !.ticket = record.ticket, !.told = record.told]
  <1>1. req[r] \in Request /\ Formed(req[r])
    BY DEF RequestsOK, ReqInv
  <1>2. storageKey(r) \in StorageKeys
    BY <1>1 DEF Formed, Running, storageKey, StorageKeys
  <1>3. record # Nil /\ record \in Record
    BY <1>2 DEF Frame, Found
  <1>4. CASE record.fingerprint # req[r].ttl
    BY <1>4, EndedCode, NoNewAnswer DEF Replay, Answer, Answered, Plain
  <1>5. CASE record.fingerprint = req[r].ttl
    <2>1. e = [req[r] EXCEPT !.pc = "done", !.code = "CREATED", !.at = now,
                             !.ticket = record.ticket, !.told = record.told]
      BY <1>1 DEF Ended, Request
    <2>2. /\ e.caller = req[r].caller /\ e.file = req[r].file /\ e.key = req[r].key
          /\ e.at = now /\ e.ticket = record.ticket /\ e.told = record.told
      BY <1>1, <2>1 DEF Request
    <2>3. req' = [req EXCEPT ![r] = e]
      BY <1>5 DEF Replay, Answered
    <2> HIDE DEF e
    <2>4. req'[r] = e
      BY <2>3 DEF RequestsOK
    <2>5. storageKey(r)' = storageKey(r)
      BY <2>2, <2>4 DEF storageKey
    <2>6. NewAnswer(r)
      BY <1>2, <1>3, <2>2, <2>4, <2>5 DEF NewAnswer, Record
    <2> QED
      BY <2>3, <2>6, OneNewAnswer
  <1> QED
    BY <1>4, <1>5

\* The request whose record is stored answers with it.
LEMMA PutRecordKeyed ==
  ASSUME Frame, RequestsOK, NEW r \in Requests, PutRecord(r) PROVE KeyedStep
  <1>1. req[r] \in Request /\ req[r].pc = "put" /\ Running(req[r])
    BY DEF RequestsOK, ReqInv, PutRecord, Running
  <1>2. CASE Found(storageKey(r))
    BY <1>1, <1>2, GoToKeyed DEF PutRecord
  <1>3. CASE ~Found(storageKey(r))
    <2> DEFINE e == [req[r] EXCEPT !.pc = "done", !.code = "CREATED", !.at = now]
    <2>1. req' = [req EXCEPT ![r] = e]
      BY <1>3 DEF PutRecord, Answer, Answered, Ended
    <2>2. /\ e.caller = req[r].caller /\ e.file = req[r].file /\ e.key = req[r].key
          /\ e.at = now /\ e.ticket = req[r].ticket /\ e.told = req[r].told
      BY <1>1 DEF Request
    <2> HIDE DEF e
    <2>3. req'[r] = e
      BY <2>1 DEF RequestsOK
    <2>4. storageKey(r)' = storageKey(r)
      BY <2>2, <2>3 DEF storageKey
    <2>5. storageKey(r) \in StorageKeys /\ store'[storageKey(r)] = IssueRecord(r) /\ StoreStep
      BY <1>1, <1>3, PutOK DEF PutRecord
    <2>6. IssueRecord(r) # Nil
      BY <1>1, PutOK, NilAssumption DEF PutRecord
    <2>7. NewAnswer(r)
      BY <1>1, <2>2, <2>3, <2>4, <2>5, <2>6 DEF NewAnswer, IssueRecord, Request
    <2> QED
      BY <2>1, <2>7, OneNewAnswer
  <1> QED
    BY <1>2, <1>3

\* Reading the file never ends in a ticket.
LEMMA ReadFileKeyed ==
  ASSUME RequestsOK, NEW r \in Requests, ReadFile(r) PROVE KeyedStep
  <1>1. Running(req[r])
    BY DEF ReadFile, Running
  <1>2. ASSUME NEW c \in {"NOT_FOUND", "DENIED", "OK"}, Answer(r, c) PROVE KeyedStep
    BY <1>2, EndedCode, NoNewAnswer DEF Answer, Answered, Plain
  <1>3. GoTo(r, "policy") \/ \E c \in {"NOT_FOUND", "DENIED", "OK"} : Answer(r, c)
    BY DEF ReadFile
  <1> QED
    BY <1>1, <1>2, <1>3, GoToKeyed

\* A request without a key gets its ticket here, one with a key does not.
LEMMA ApplyPolicyKeyed ==
  ASSUME RequestsOK, NEW r \in Requests, ApplyPolicy(r) PROVE KeyedStep
  <1> DEFINE told == now + req[r].ttl
             issued == [req[r] EXCEPT !.ticket = Issue(req[r].file, told), !.told = told]
  <1>1. req[r] \in Request /\ req[r].code = Nil
    BY DEF ApplyPolicy, RequestsOK, ReqInv, Formed, Running
  <1>2. ASSUME NEW c \in {"DENIED", "REDIRECT"}, Answer(r, c) PROVE KeyedStep
    BY <1>2, EndedCode, NoNewAnswer DEF Answer, Answered, Plain
  <1>3. ASSUME req[r].key = Nil PROVE ~KeyedAnswer(Ended(issued, "CREATED"))
    BY <1>1, <1>3 DEF Ended, KeyedAnswer, Request
  <1>4. ~KeyedAnswer([issued EXCEPT !.pc = "put"])
    BY <1>1, AccessAssumption DEF KeyedAnswer, Request
  <1>5. \/ \E c \in {"DENIED", "REDIRECT"} : Answer(r, c)
        \/ req' = [req EXCEPT ![r] = IF req[r].key = Nil THEN Ended(issued, "CREATED")
                                     ELSE [issued EXCEPT !.pc = "put"]]
    BY DEF ApplyPolicy
  <1> HIDE DEF issued
  <1> QED
    BY <1>2, <1>3, <1>4, <1>5, NoNewAnswer

\* Only PutRecord and a replay make a new keyed answer.
LEMMA KeyedSteps == ASSUME IInv, [Next]_vars PROVE KeyedStep
  <1> USE DEF IInv
  <1>1. ASSUME NEW r \in Requests, NEW c, NEW f, GetFile(r, c, f) \/ ResolveDownload(r, c, f)
        PROVE  KeyedStep
    <2>1. ASSUME NEW op PROVE Arrive(r, op, "file", c, f).code = Nil
      BY DEF Arrive, Unused
    <2> QED
      BY <1>1, <2>1, BeginKeyed DEF GetFile, ResolveDownload
  <1>2. ASSUME NEW r \in Requests, NEW c, NEW f, NEW k, NEW t, CreateAccessTicket(r, c, f, k, t)
        PROVE  KeyedStep
    <2> DEFINE q == [Arrive(r, "ticket", IF k = Nil THEN "file" ELSE "lookup", c, f) EXCEPT
                       !.key = k, !.ttl = IF t = 0 THEN DefaultTTL ELSE t]
    <2>1. q.code = Nil
      BY DEF Arrive, Unused
    <2>2. Begin(r, q)
      BY <1>2, Zenon DEF CreateAccessTicket
    <2> QED
      BY <2>1, <2>2, BeginKeyed
  <1>3. ASSUME NEW r \in Requests, NEW a \in Requests, RedirectByAccessTicket(r, a)
        PROVE  KeyedStep
    <2> DEFINE q == [Arrive(r, "redirect", "verify", Nil, req[a].ticket.file) EXCEPT
                       !.ticket = req[a].ticket, !.told = req[a].told, !.start = now]
    <2>1. q.code = Nil
      BY DEF Arrive, Unused
    <2>2. Begin(r, q)
      BY <1>3, Zenon DEF RedirectByAccessTicket
    <2> QED
      BY <2>1, <2>2, BeginKeyed
  <1>4. ASSUME NEW r \in Requests, VerifyTicket(r) PROVE KeyedStep
    BY <1>4, GoToKeyed, EndedCode, NoNewAnswer DEF VerifyTicket, Answer, Answered, Running
  <1>5. ASSUME NEW r \in Requests, LookupRecord(r) PROVE KeyedStep
    BY <1>5, ReplayKeyed, GoToKeyed DEF LookupRecord, Running
  <1>6. ASSUME NEW r \in Requests, ReloadRecord(r) PROVE KeyedStep
    BY <1>6, ReplayKeyed, EndedCode, NoNewAnswer DEF ReloadRecord, Answer, Answered, Plain
  <1>7. ASSUME NEW r \in Requests, CallFails(r) PROVE KeyedStep
    BY <1>7, EndedCode, NoNewAnswer DEF CallFails, Answer, Answered, Plain
  <1>8. ASSUME Restart PROVE KeyedStep
    BY <1>8, EndedCode DEF Restart, Answered, Plain, KeyedStep
  <1>9. CASE UNCHANGED req
    BY <1>9 DEF KeyedStep
  <1>10. CASE UNCHANGED vars \/ Tick \/ \E f \in Files : FileChanges(f)
    BY <1>9, <1>10 DEF vars, Tick, FileChanges
  <1> QED
    BY <1>1, <1>2, <1>3, <1>4, <1>5, <1>6, <1>7, <1>8, <1>10, ReadFileKeyed, ApplyPolicyKeyed,
       PutRecordKeyed DEF Next

\* An earlier answer's record is there, has given way when the ticket had run
\* out, or went in a restart.
LEMMA OldAnswer ==
  ASSUME IInv, [Next]_vars, NEW a \in Requests, KeyedAnswer(req[a]), req'[a] = req[a]
  PROVE  /\ storageKey(a)' = storageKey(a) /\ storageKey(a) \in StorageKeys /\ req[a].told \in Nat
         /\ \/ lost'
            \/ Remembered(a) /\ store'[storageKey(a)] = store[storageKey(a)]
            \/ req[a].told <= now
  <1>1. storageKey(a)' = storageKey(a)
    BY DEF storageKey
  <1>2. req[a] \in Request /\ Formed(req[a])
    BY DEF IInv, RequestsOK, ReqInv
  <1>3. storageKey(a) \in StorageKeys /\ req[a].told \in Nat
    BY <1>2 DEF Formed, Request, KeyedAnswer, storageKey, StorageKeys
  <1>4. a \in Keyed
    BY DEF Keyed, KeyedAnswer
  <1>5. lost => lost'
    BY FlagsStep, Zenon DEF IInv, Frame
  <1>6. CASE Remembered(a) /\ StoreStep
    <2> DEFINE k == storageKey(a)
    <2>1. /\ store[k] # Nil /\ store[k].told = req[a].told /\ store[k].told <= store[k].until
          /\ store[k] \in Record
      BY <1>3, <1>6 DEF Remembered, IInv, RecordsOK, Frame
    <2>2. CASE store'[k] = store[k]
      BY <1>1, <1>3, <1>6, <2>2
    <2>3. CASE ~Found(k)
      <3>1. store[k].until <= now
        BY <2>1, <2>3 DEF Found, Record, IInv, Frame
      <3> QED
        BY <1>1, <1>3, <2>1, <3>1 DEF Record, IInv, Frame
    <2> QED
      BY <1>3, <1>6, <2>2, <2>3 DEF StoreStep
  <1> QED
    BY <1>1, <1>3, <1>4, <1>5, <1>6, StoreSteps DEF IInv, AnswersRemembered

\* Every step keeps the record of a keyed answer while its ticket lives.
LEMMA RememberedStep == ASSUME IInv, [Next]_vars PROVE AnswersRemembered'
  <1> SUFFICES ASSUME NEW a \in Requests, KeyedAnswer(req'[a])
               PROVE  lost' \/ Remembered(a)' \/ req'[a].told <= now'
    BY DEF AnswersRemembered, Keyed, KeyedAnswer
  <1>1. CASE KeyedAnswer(req[a]) /\ req'[a] = req[a]
    <2>1. now \in Nat /\ now' \in Nat /\ now <= now'
      BY ScalarsStep DEF IInv, Frame
    <2> QED
      BY <1>1, <2>1, OldAnswer DEF Remembered
  <1>2. CASE NewAnswer(a)
    BY <1>2 DEF NewAnswer, Remembered
  <1> QED
    BY <1>1, <1>2, KeyedSteps DEF KeyedStep

\* Whether the answers of two requests agree.
Agree(a, b) ==
    \/ storageKey(a) # storageKey(b) \/ req[a].ttl # req[b].ttl
    \/ req[a].ticket = req[b].ticket /\ req[a].told = req[b].told
    \/ req[a].told <= req[a].at \/ req[a].told <= req[b].at
    \/ req[b].told <= req[a].at \/ req[b].told <= req[b].at
    \/ lost

\* Every step keeps the answers in agreement: a new one is that of the record.
LEMMA AgreeStep == ASSUME IInv, [Next]_vars PROVE AnswersAgree'
  <1> SUFFICES ASSUME NEW a \in Requests, NEW b \in Requests,
                      KeyedAnswer(req'[a]), KeyedAnswer(req'[b])
               PROVE  Agree(a, b)'
    BY DEF AnswersAgree, Keyed, KeyedAnswer, Agree
  <1>1. ASSUME NEW x \in Requests, KeyedAnswer(req[x]), req'[x] = req[x],
               NEW y \in Requests, NewAnswer(y), storageKey(x)' = storageKey(y)'
        PROVE  \/ req'[x].ticket = req'[y].ticket /\ req'[x].told = req'[y].told
               \/ req'[x].told <= req'[y].at
               \/ lost'
    BY <1>1, OldAnswer DEF NewAnswer, Remembered
  <1>2. CASE KeyedAnswer(req[a]) /\ req'[a] = req[a] /\ KeyedAnswer(req[b]) /\ req'[b] = req[b]
    <2>1. Agree(a, b)
      BY <1>2 DEF IInv, AnswersAgree, Keyed, KeyedAnswer, Agree
    <2>2. lost => lost'
      BY FlagsStep, Zenon DEF IInv, Frame
    <2> QED
      BY <1>2, <2>1, <2>2 DEF Agree, storageKey
  <1>3. CASE KeyedAnswer(req[a]) /\ req'[a] = req[a] /\ NewAnswer(b)
    BY <1>1, <1>3 DEF Agree
  <1>4. CASE NewAnswer(a) /\ KeyedAnswer(req[b]) /\ req'[b] = req[b]
    BY <1>1, <1>4 DEF Agree
  <1>5. CASE NewAnswer(a) /\ NewAnswer(b)
    BY <1>5 DEF Agree, NewAnswer
  <1> QED
    BY <1>2, <1>3, <1>4, <1>5, KeyedSteps DEF KeyedStep

------------------------------------------------------------------------------
(* The theorems. *)

\* The initial state satisfies the invariant.
LEMMA InitOK == Init => IInv
  <1> SUFFICES ASSUME Init PROVE IInv
    OBVIOUS
  <1>1. Frame
    <2>1. setup \in Setup /\ lost \in BOOLEAN
      BY Zenon DEF Init
    <2>2. /\ now \in Nat /\ faults \in Nat /\ file \in [Files -> {"NONE", "ACTIVE", "DELETED"}]
          /\ store \in [StorageKeys -> Record \cup {Nil}]
      BY DEF Init
    <2> QED
      BY <2>1, <2>2 DEF Frame
  <1>2. RequestsOK
    BY UnusedOK DEF Init, RequestsOK, ReqInv
  <1>3. RecordsOK
    BY DEF Init, RecordsOK
  <1>4. Keyed = {}
    BY AccessAssumption DEF Init, Keyed, Unused
  <1> QED
    BY <1>1, <1>2, <1>3, <1>4 DEF IInv, AnswersRemembered, AnswersAgree

\* IInv is inductive.
LEMMA Inductive == Spec => []IInv
  <1>1. IInv /\ [Next]_vars => IInv'
    BY FrameStep, RequestsStep, RecordsStep, RememberedStep, AgreeStep DEF IInv
  <1> QED
    BY <1>1, InitOK, PTL DEF Spec

\* Every variable of the access service keeps its type.
THEOREM TypeCorrect == Spec => []TypeOK
  <1>1. IInv => TypeOK
    BY DEF IInv, Frame, RequestsOK, TypeOK
  <1> QED
    BY <1>1, Inductive, PTL

\* Requests that repeat an Idempotency-Key for the same thing get the same
\* ticket while it lives: the record outlives the ticket (normalizeTTL), gives
\* way only once expired (PutIfAbsent), and a loser answers with the winner's.
THEOREM AnswersAgreeAlways == Spec => []AnswersAgree
  <1>1. IInv => AnswersAgree
    BY DEF IInv
  <1> QED
    BY <1>1, Inductive, PTL

\* The expiry told to the client and the one signed in the ticket are less than
\* a second apart, so redirects stop at the one and refusals start within a
\* second of it.
THEOREM TicketWindowAlways == Spec => []TicketWindow
  <1>1. IInv => TicketWindow
    BY DEF IInv, RequestsOK, ReqInv, Window, TicketWindow
  <1> QED
    BY <1>1, Inductive, PTL

\* No view, download or redirect is answered for a file deleted before the
\* request came: deletion is final and the row is read after the request came.
THEOREM DeletedNotServedAlways == Spec => []DeletedNotServed
  <1>1. IInv => DeletedNotServed
    BY DEF IInv, RequestsOK, ReqInv, Served, DeletedNotServed
  <1> QED
    BY <1>1, Inductive, PTL

==============================================================================
