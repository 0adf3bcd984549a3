---------------------------- MODULE KeySet_proofs ----------------------------
(***************************************************************************)
(* Proofs about KeySet for any tokens, documents, requests and rotations.  *)
(*                                                                         *)
(* What a key set says of a token (parseJWKS, cachedKey, Verifies) is used *)
(* only through Serves; the argument is about which sets a request can     *)
(* meet on its way: the published one, the ones being fetched by anybody,  *)
(* and, once it has installed its own, the cached one.                     *)
(***************************************************************************)
EXTENDS KeySet, TLAPS

------------------------------------------------------------------------------
(* The inductive invariant. *)

Request ==
    [pc : {"idle", "key", "fetch", "install", "reread", "accepted", "refused"},
     token : Tokens \cup {Nil}, body : Documents \cup {Nil}, retry : BOOLEAN,
     why : {Nil, "claims", "key", "fetch"}, safe : BOOLEAN, unknown : BOOLEAN]

Shape == req \in [Requests -> Request] /\ published \in Documents

\* Only a remote key set is ever fetched; a local one stays what was parsed.
OnlyRemote ==
    /\ ~remote => keys = parseJWKS(published)
    /\ \A r \in Requests : req[r].pc \in {"fetch", "install", "reread"} => remote
    /\ \A r \in Requests : req[r].pc = "install" => req[r].body # Nil

Underway(r) == req[r].pc \in {"key", "fetch", "install", "reread"}

\* A request whose token every set verifies that it could meet.
SafeKnows ==
    \A r \in Requests : req[r].safe /\ Underway(r) =>
       /\ Serves(parseJWKS(published), req[r].token)
       /\ \A q \in Requests : req[q].body # Nil => Serves(parseJWKS(req[q].body), req[r].token)
       /\ req[r].pc = "reread" => Serves(keys, req[r].token)

\* A request whose token no set verifies that it could meet.
UnknownStays ==
    \A r \in Requests : req[r].unknown /\ Underway(r) =>
       /\ ~Serves(keys, req[r].token)
       /\ ~Serves(parseJWKS(published), req[r].token)
       /\ \A q \in Requests : req[q].body # Nil => ~Serves(parseJWKS(req[q].body), req[r].token)

IInv == Shape /\ OnlyRemote /\ SafeKnows /\ UnknownStays /\ PublishedKeyServed /\ UnknownKeyRefused

\* An empty set of keys verifies nothing.
LEMMA NoKeys == ASSUME NEW t PROVE ~Serves(<<>>, t)
  BY DEF Serves, cachedKey

\* A request that is refused for its claims or its fetch, or is not safe, may
\* be refused.
LEMMA RefuseStep ==
  ASSUME IInv, NEW r \in Requests, Underway(r), NEW why \in {"claims", "key", "fetch"}, Refused(r, why),
         why = "key" => ~req[r].safe, UNCHANGED <<published, keys, remote>>
  PROVE  IInv'
  <1> DEFINE e == [Rested EXCEPT !.pc = "refused", !.token = req[r].token, !.why = why,
                                 !.safe = req[r].safe]
  <1>1. req[r] \in Request
    BY DEF IInv, Shape
  <1>2. e \in Request
    BY <1>1 DEF Request, Rested
  <1>3. e.pc = "refused" /\ e.body = Nil /\ e.why = why /\ e.safe = req[r].safe /\ ~e.unknown
    BY DEF Rested
  <1> HIDE DEF e
  <1>4. req' = [req EXCEPT ![r] = e]
    BY DEF Refused, e
  <1>5. req'[r] = e /\ \A q \in Requests : q # r => req'[q] = req[q]
    BY <1>4 DEF IInv, Shape
  <1>6. Shape'
    BY <1>2, <1>4 DEF IInv, Shape
  <1>7. OnlyRemote'
    BY <1>3, <1>5 DEF IInv, OnlyRemote
  <1>8. SafeKnows'
    BY <1>3, <1>5 DEF IInv, SafeKnows, Underway
  <1>9. PublishedKeyServed' /\ UnknownKeyRefused'
    BY <1>3, <1>5 DEF IInv, PublishedKeyServed, UnknownKeyRefused
  <1>10. UnknownStays'
    BY <1>3, <1>5 DEF IInv, UnknownStays, Underway
  <1> QED
    BY <1>6, <1>7, <1>8, <1>9, <1>10 DEF IInv

\* A token whose signature stands is accepted, or refused for its claims.
LEMMA AdmitStep ==
  ASSUME IInv, NEW r \in Requests, Underway(r), Serves(keys, req[r].token), Admit(r),
         UNCHANGED <<published, keys, remote>>
  PROVE  IInv'
  <1>1. CASE ~ClaimsAccepted(req[r].token)
    BY <1>1, RefuseStep DEF Admit
  <1>2. CASE ClaimsAccepted(req[r].token)
    <2> DEFINE e == [Rested EXCEPT !.pc = "accepted", !.token = req[r].token, !.unknown = req[r].unknown]
    <2>1. req[r] \in Request
      BY DEF IInv, Shape
    <2>2. e \in Request
      BY <2>1 DEF Request, Rested
    <2>3. e.pc = "accepted" /\ e.body = Nil /\ ~e.unknown
      BY DEF Rested, IInv, UnknownStays
    <2> HIDE DEF e
    <2>4. req' = [req EXCEPT ![r] = e]
      BY <1>2 DEF Admit, e
    <2>5. req'[r] = e /\ \A q \in Requests : q # r => req'[q] = req[q]
      BY <2>4 DEF IInv, Shape
    <2>6. Shape'
      BY <2>2, <2>4 DEF IInv, Shape
    <2>7. OnlyRemote' /\ SafeKnows' /\ PublishedKeyServed'
      BY <2>3, <2>5 DEF IInv, OnlyRemote, SafeKnows, Underway, PublishedKeyServed
    <2>8. UnknownStays' /\ UnknownKeyRefused'
      BY <2>3, <2>5 DEF IInv, UnknownStays, Underway, UnknownKeyRefused
    <2> QED
      BY <2>6, <2>7, <2>8 DEF IInv
  <1> QED
    BY <1>1, <1>2

\* A request goes on to its fetch.
LEMMA FetchStep ==
  ASSUME IInv, NEW r \in Requests, Underway(r), remote, NEW retry \in BOOLEAN, Fetch(r, retry),
         UNCHANGED <<published, keys, remote>>
  PROVE  IInv'
  <1> DEFINE e == [req[r] EXCEPT !.pc = "fetch", !.retry = retry]
  <1>1. req[r] \in Request
    BY DEF IInv, Shape
  <1>2. e \in Request
    BY <1>1 DEF Request
  <1>3. /\ e.pc = "fetch" /\ e.body = req[r].body /\ e.token = req[r].token /\ e.safe = req[r].safe
        /\ e.unknown = req[r].unknown
    BY <1>1 DEF Request
  <1> HIDE DEF e
  <1>4. req' = [req EXCEPT ![r] = e]
    BY <1>1 DEF Fetch, e, Request
  <1>5. req'[r] = e /\ \A q \in Requests : q # r => req'[q] = req[q]
    BY <1>4 DEF IInv, Shape
  <1>6. Shape'
    BY <1>2, <1>4 DEF IInv, Shape
  <1>7. OnlyRemote'
    BY <1>3, <1>5 DEF IInv, OnlyRemote
  <1>8. SafeKnows'
    BY <1>3, <1>5 DEF IInv, SafeKnows, Underway
  <1>9. PublishedKeyServed' /\ UnknownKeyRefused'
    BY <1>3, <1>5 DEF IInv, PublishedKeyServed, UnknownKeyRefused
  <1>10. UnknownStays'
    BY <1>3, <1>5 DEF IInv, UnknownStays, Underway
  <1> QED
    BY <1>6, <1>7, <1>8, <1>9, <1>10 DEF IInv

------------------------------------------------------------------------------
(* One lemma per action. *)

\* A new request is safe if every set it could meet verifies its token.
LEMMA ArriveStep ==
  ASSUME IInv, NEW r \in Requests, NEW t \in Tokens, Arrive(r, t) PROVE IInv'
  <1> DEFINE safe == \A d \in Reachable : Serves(parseJWKS(d), t)
             unknown == ~Serves(keys, t) /\ \A d \in Reachable : ~Serves(parseJWKS(d), t)
             refused == [Rested EXCEPT !.pc = "refused", !.token = t, !.why = "claims"]
             new == [Rested EXCEPT !.pc = "key", !.token = t, !.safe = safe, !.unknown = unknown]
             e == IF "jwt" \in t.malformed THEN refused ELSE new
  <1>0. UNCHANGED <<published, keys, remote>>
    BY DEF Arrive
  <1>1. e \in Request
    <2>1. refused \in Request
      BY DEF Request, Rested
    <2>2. safe \in BOOLEAN /\ unknown \in BOOLEAN
      OBVIOUS
    <2> HIDE DEF safe, unknown
    <2>3. new \in Request
      BY <2>2 DEF Request, Rested
    <2> QED
      BY <2>1, <2>3
  <1>2. /\ e.body = Nil /\ e.token = t
        /\ \/ e.pc = "refused" /\ e.why = "claims"
           \/ e.pc = "key" /\ (e.safe => safe) /\ (e.unknown => unknown)
    <2> HIDE DEF safe, unknown
    <2> QED
      BY DEF Rested
  <1>r. published \in Reachable /\ \A q \in Requests : req[q].body # Nil => req[q].body \in Reachable
    BY DEF Reachable
  <1>3. req' = [req EXCEPT ![r] = e]
    BY DEF Arrive
  <1> HIDE DEF e
  <1>4. req'[r] = e /\ \A q \in Requests : q # r => req'[q] = req[q]
    BY <1>3 DEF IInv, Shape
  <1>5. Shape'
    BY <1>0, <1>1, <1>3 DEF IInv, Shape
  <1>6. OnlyRemote'
    BY <1>0, <1>2, <1>4 DEF IInv, OnlyRemote
  <1>7. SafeKnows'
    <2> SUFFICES ASSUME NEW q \in Requests, req'[q].safe, Underway(q)'
                 PROVE  /\ Serves(parseJWKS(published), req'[q].token)
                        /\ \A p \in Requests : req'[p].body # Nil =>
                              Serves(parseJWKS(req'[p].body), req'[q].token)
                        /\ req'[q].pc = "reread" => Serves(keys, req'[q].token)
      BY <1>0 DEF SafeKnows
    <2>1. CASE q = r
      BY <1>2, <1>4, <1>r, <2>1 DEF Underway
    <2>2. CASE q # r
      BY <1>2, <1>4, <2>2 DEF IInv, SafeKnows, Underway
    <2> QED
      BY <2>1, <2>2
  <1>8. PublishedKeyServed' /\ UnknownKeyRefused'
    BY <1>2, <1>4 DEF IInv, PublishedKeyServed, UnknownKeyRefused
  <1>9. UnknownStays'
    <2> SUFFICES ASSUME NEW q \in Requests, req'[q].unknown, Underway(q)'
                 PROVE  /\ ~Serves(keys, req'[q].token)
                        /\ ~Serves(parseJWKS(published), req'[q].token)
                        /\ \A p \in Requests : req'[p].body # Nil =>
                              ~Serves(parseJWKS(req'[p].body), req'[q].token)
      BY <1>0 DEF UnknownStays
    <2>1. CASE q = r
      BY <1>2, <1>4, <1>r, <2>1 DEF Underway
    <2>2. CASE q # r
      BY <1>2, <1>4, <2>2 DEF IInv, UnknownStays, Underway
    <2> QED
      BY <2>1, <2>2
  <1> QED
    BY <1>5, <1>6, <1>7, <1>8, <1>9 DEF IInv

\* A local set is the published one, so a safe request finds its key there.
LEMMA LookUpStep == ASSUME IInv, NEW r \in Requests, LookUp(r) PROVE IInv'
  <1> DEFINE key == cachedKey(keys, req[r].token.kid)
  <1>1. Underway(r) /\ req[r].pc = "key" /\ UNCHANGED <<published, keys, remote>>
    BY DEF LookUp, Underway
  <1>2. CASE Serves(keys, req[r].token)
    BY <1>1, <1>2, AdmitStep DEF LookUp, Serves
  <1>3. CASE ~Serves(keys, req[r].token) /\ ~remote
    <2>1. ~req[r].safe
      BY <1>1, <1>3 DEF IInv, OnlyRemote, SafeKnows
    <2> QED
      BY <1>1, <1>3, <2>1, RefuseStep DEF LookUp, Serves
  <1>4. CASE ~Serves(keys, req[r].token) /\ remote
    <2>1. Fetch(r, key # Nil)
      BY <1>4 DEF LookUp, Serves
    <2>2. (key # Nil) \in BOOLEAN
      OBVIOUS
    <2> QED
      BY <1>1, <1>4, <2>1, <2>2, FetchStep
  <1> QED
    BY <1>2, <1>3, <1>4

\* The published set verifies the tokens of all safe requests.
LEMMA FetchReplyStep == ASSUME IInv, NEW r \in Requests, FetchReply(r) PROVE IInv'
  <1> DEFINE e == [req[r] EXCEPT !.pc = "install", !.body = published]
  <1>0. UNCHANGED <<published, keys, remote>> /\ req[r].pc = "fetch"
    BY DEF FetchReply
  <1>1. req[r] \in Request /\ published \in Documents /\ published # Nil
    BY KeySetAssumption DEF IInv, Shape
  <1>2. e \in Request
    BY <1>1 DEF Request
  <1>3. /\ e.pc = "install" /\ e.body = published /\ e.token = req[r].token /\ e.safe = req[r].safe
        /\ e.unknown = req[r].unknown
    BY <1>1 DEF Request
  <1>4. req' = [req EXCEPT ![r] = e]
    BY <1>1 DEF FetchReply, Request
  <1> HIDE DEF e
  <1>5. req'[r] = e /\ \A q \in Requests : q # r => req'[q] = req[q]
    BY <1>4 DEF IInv, Shape
  <1>6. Shape'
    BY <1>0, <1>2, <1>4 DEF IInv, Shape
  <1>7. OnlyRemote'
    BY <1>0, <1>1, <1>3, <1>5 DEF IInv, OnlyRemote
  <1>8. SafeKnows'
    BY <1>0, <1>3, <1>5 DEF IInv, SafeKnows, Underway
  <1>9. PublishedKeyServed' /\ UnknownKeyRefused'
    BY <1>3, <1>5 DEF IInv, PublishedKeyServed, UnknownKeyRefused
  <1>10. UnknownStays'
    BY <1>0, <1>3, <1>5 DEF IInv, UnknownStays, Underway
  <1> QED
    BY <1>6, <1>7, <1>8, <1>9, <1>10 DEF IInv

\* Whatever is installed, in whatever order, verifies the tokens of the safe
\* requests that are about to look.
LEMMA InstallStep == ASSUME IInv, NEW r \in Requests, Install(r) PROVE IInv'
  <1> DEFINE e == [req[r] EXCEPT !.pc = "reread", !.body = Nil]
             parsed == parseJWKS(req[r].body)
  <1>0. UNCHANGED <<published, remote>> /\ req[r].pc = "install" /\ Underway(r)
    BY DEF Install, Underway
  <1>1. req[r] \in Request /\ req[r].body # Nil /\ remote
    BY <1>0 DEF IInv, Shape, OnlyRemote
  <1>2. ASSUME NEW q \in Requests, req[q].safe, Underway(q) PROVE Serves(parsed, req[q].token)
    BY <1>1, <1>2 DEF IInv, SafeKnows
  <1>u. ASSUME NEW q \in Requests, req[q].unknown, Underway(q) PROVE ~Serves(parsed, req[q].token)
    BY <1>1, <1>u DEF IInv, UnknownStays
  <1>3. CASE parsed = <<>>
    <2>1. ~req[r].safe
      BY <1>0, <1>2, <1>3, NoKeys
    <2> QED
      BY <1>0, <1>3, <2>1, RefuseStep DEF Install
  <1>4. CASE parsed # <<>>
    <2>1. e \in Request
      BY <1>1 DEF Request
    <2>2. /\ e.pc = "reread" /\ e.body = Nil /\ e.token = req[r].token /\ e.safe = req[r].safe
          /\ e.unknown = req[r].unknown
      BY <1>1 DEF Request
    <2>3. req' = [req EXCEPT ![r] = e] /\ keys' = parsed
      BY <1>1, <1>4 DEF Install, Request
    <2> HIDE DEF e, parsed
    <2>4. req'[r] = e /\ \A q \in Requests : q # r => req'[q] = req[q]
      BY <2>3 DEF IInv, Shape
    <2>5. Shape'
      BY <1>0, <2>1, <2>3 DEF IInv, Shape
    <2>6. OnlyRemote'
      BY <1>0, <1>1, <2>2, <2>4 DEF IInv, OnlyRemote
    <2>7. SafeKnows'
      BY <1>0, <1>2, <2>2, <2>3, <2>4 DEF IInv, SafeKnows, Underway
    <2>8. PublishedKeyServed' /\ UnknownKeyRefused'
      BY <2>2, <2>4 DEF IInv, PublishedKeyServed, UnknownKeyRefused
    <2>9. UnknownStays'
      BY <1>0, <1>u, <2>2, <2>3, <2>4 DEF IInv, UnknownStays, Underway
    <2> QED
      BY <2>5, <2>6, <2>7, <2>8, <2>9 DEF IInv
  <1> QED
    BY <1>3, <1>4

\* The set a safe request rereads verifies its token, so it is not refused.
LEMMA RereadStep == ASSUME IInv, NEW r \in Requests, Reread(r) PROVE IInv'
  <1> DEFINE key == cachedKey(keys, req[r].token.kid)
  <1>1. /\ Underway(r) /\ req[r].pc = "reread" /\ UNCHANGED <<published, keys, remote>> /\ remote
        /\ req[r].safe => Serves(keys, req[r].token)
    BY DEF Reread, Underway, IInv, OnlyRemote, SafeKnows
  <1>2. CASE Serves(keys, req[r].token)
    BY <1>1, <1>2, AdmitStep DEF Reread, Serves
  <1>3. CASE ~Serves(keys, req[r].token) /\ Refused(r, "key")
    BY <1>1, <1>3, RefuseStep
  <1>4. CASE ~Serves(keys, req[r].token) /\ Fetch(r, TRUE)
    BY <1>1, <1>4, FetchStep
  <1> QED
    BY <1>2, <1>3, <1>4 DEF Reread, Serves

\* A failed fetch is not a refusal for the key.
LEMMA FetchFailsStep == ASSUME IInv, NEW r \in Requests, FetchFails(r) PROVE IInv'
  <1>1. Underway(r) /\ Refused(r, "fetch") /\ UNCHANGED <<published, keys, remote>>
    BY DEF FetchFails, Underway
  <1> QED
    BY <1>1, RefuseStep

\* A rotation withdraws the promise from the requests whose key it removes.
LEMMA RotateStep == ASSUME IInv, NEW d \in Documents, Rotate(d) PROVE IInv'
  <1>1. published' = d /\ UNCHANGED <<keys, remote>> /\ remote
    BY DEF Rotate
  <1>2. ASSUME NEW r \in Requests
        PROVE  /\ req'[r] \in Request
               /\ req'[r].pc = req[r].pc /\ req'[r].token = req[r].token /\ req'[r].body = req[r].body
               /\ req'[r].why = req[r].why
               /\ req'[r].safe => req[r].safe /\ Serves(parseJWKS(d), req[r].token)
               /\ req'[r].unknown => req[r].unknown /\ ~Serves(parseJWKS(d), req[r].token)
    <2> DEFINE safe == req[r].safe /\ Serves(parseJWKS(d), req[r].token)
               unknown == req[r].unknown /\ ~Serves(parseJWKS(d), req[r].token)
    <2>1. req'[r] = [req[r] EXCEPT !.safe = safe, !.unknown = unknown]
      BY DEF Rotate
    <2>2. req[r] \in Request /\ safe \in BOOLEAN /\ unknown \in BOOLEAN
      BY DEF IInv, Shape
    <2>3. /\ safe => req[r].safe /\ Serves(parseJWKS(d), req[r].token)
          /\ unknown => req[r].unknown /\ ~Serves(parseJWKS(d), req[r].token)
      OBVIOUS
    <2> HIDE DEF safe, unknown
    <2> QED
      BY <2>1, <2>2, <2>3 DEF Request
  <1>3. req' \in [Requests -> Request]
    BY <1>2 DEF Rotate
  <1>4. Shape'
    BY <1>1, <1>3 DEF Shape
  <1>5. OnlyRemote'
    BY <1>1, <1>2 DEF IInv, OnlyRemote
  <1>6. SafeKnows'
    BY <1>1, <1>2 DEF IInv, SafeKnows, Underway
  <1>7. PublishedKeyServed' /\ UnknownKeyRefused'
    BY <1>2 DEF IInv, PublishedKeyServed, UnknownKeyRefused
  <1>8. UnknownStays'
    BY <1>1, <1>2 DEF IInv, UnknownStays, Underway
  <1> QED
    BY <1>4, <1>5, <1>6, <1>7, <1>8 DEF IInv

\* Init: no request is underway.
LEMMA InitOK == ASSUME Init PROVE IInv
  <1>1. Rested \in Request
    BY DEF Rested, Request
  <1>2. Shape
    BY <1>1 DEF Init, Shape
  <1>3. \A r \in Requests : req[r].pc = "idle"
    BY DEF Init, Rested
  <1>4. OnlyRemote /\ SafeKnows /\ UnknownStays /\ PublishedKeyServed /\ UnknownKeyRefused
    BY <1>3 DEF Init, OnlyRemote, SafeKnows, UnknownStays, Underway, PublishedKeyServed, UnknownKeyRefused
  <1> QED
    BY <1>2, <1>4 DEF IInv

\* The invariant holds in every reachable state.
LEMMA Inductive == Spec => []IInv
  <1>1. ASSUME IInv, [Next]_vars PROVE IInv'
    <2>1. CASE UNCHANGED <<published, keys, remote, req>>
      BY <1>1, <2>1 DEF IInv, Shape, OnlyRemote, SafeKnows, UnknownStays, Underway, PublishedKeyServed,
                        UnknownKeyRefused
    <2>2. CASE Tick \/ UNCHANGED vars
      BY <2>1, <2>2 DEF Tick, vars
    <2> QED
      BY <1>1, <2>2, ArriveStep, LookUpStep, FetchReplyStep, FetchFailsStep, InstallStep, RereadStep,
         RotateStep DEF Next, Step
  <1> QED
    BY <1>1, InitOK, PTL DEF Spec

------------------------------------------------------------------------------
(* The theorems. *)

\* A token whose key every key set the request can meet verifies is not refused
\* for its key: LookUp, Install and Reread, in any interleaving with the
\* fetches of other requests and with rotations (auth_jwks.go, key and refresh).
THEOREM PublishedKeyServedAlways == Spec => []PublishedKeyServed
  <1>1. IInv => PublishedKeyServed
    BY DEF IInv
  <1> QED
    BY <1>1, Inductive, PTL

\* A token that neither the cached key set nor any set published or fetched
\* while its request is served verifies is not accepted, in any interleaving of
\* LookUp, Install and Reread with fetches and rotations (auth_jwks.go, key,
\* refreshKey and refresh; verifyJWTWithKey is called on whatever they return).
THEOREM UnknownKeyRefusedAlways == Spec => []UnknownKeyRefused
  <1>1. IInv => UnknownKeyRefused
    BY DEF IInv
  <1> QED
    BY <1>1, Inductive, PTL

==============================================================================
