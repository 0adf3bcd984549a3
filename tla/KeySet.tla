-------------------------------- MODULE KeySet --------------------------------
(***************************************************************************)
(* Authentication of bearer tokens: the resolver of the data plane and its *)
(* copy in the admin service.  Both keep the issuer's key set (JWKS) in    *)
(* memory without a lifetime and fetch it again when a token names a key   *)
(* they do not have or fails to verify.  Fetches hold no lock; the set     *)
(* that arrives last is kept.                                              *)
(*                                                                         *)
(* Cryptography is external: a signature verifies under exactly the key    *)
(* that made it.                                                           *)
(***************************************************************************)
EXTENDS Naturals, Sequences

CONSTANTS
    Nil,
    Requests,        \* concurrent HTTP requests, each repeated by its client
    Tokens,          \* bearer tokens, as records
    Documents,       \* JWKS documents the issuer publishes, as sequences of keys
    AllowedIssuers,  \* configured allow list; empty: every issuer
    Skew,            \* maxIATFutureSkew
    MaxRotations,    \* bound on changes of the published document
    MaxTime          \* bound on time

ASSUME KeySetAssumption == {Skew, MaxRotations, MaxTime} \subseteq Nat /\ Nil \notin Documents

VARIABLES
    plane,      \* "data" or "admin": whose copy of the resolver this is
    remote,     \* the source is a URL, not a document
    published,  \* the document the issuer serves
    keys,       \* jwksKeySet.keys
    req,
    rotations,
    now

vars == <<plane, remote, published, keys, req, rotations, now>>

\* A request: the token; the document received and not yet installed; whether
\* the fetch answers a failed verification; why it was refused; and, for the
\* properties, whether every set of keys that it can meet after a fetch verifies
\* its token, and whether no set at all that it could meet does.
Rested == [pc |-> "idle", token |-> Nil, body |-> Nil, retry |-> FALSE, why |-> Nil,
           safe |-> FALSE, unknown |-> FALSE]

------------------------------------------------------------------------------
(* Key documents. *)

SupportedKey(key) == key.kty \in {"RSA", "EC"}

\* parseJWKS: the signing keys of a document.  A key that cannot be decoded
\* spoils the whole document; an unusable document yields no keys.
parseJWKS(document) ==
    LET Signing(key) == key.use \in {"", "sig"} /\ SupportedKey(key)
        usable == SelectSeq(document, Signing) IN
    IF \E i \in DOMAIN usable : usable[i].key = Nil THEN <<>> ELSE usable

\* cachedKey: the first key with the id; a token without an id takes the only key.
cachedKey(set, kid) ==
    LET matches == {i \in DOMAIN set : set[i].kid = kid} IN
    IF kid = "" /\ Len(set) = 1 THEN set[1]
    ELSE IF matches = {} THEN Nil
    ELSE set[CHOOSE i \in matches : \A j \in matches : i <= j]

SignatureType(alg) == IF alg \in {"RS256", "PS256"} THEN "RSA" ELSE IF alg = "ES256" THEN "EC" ELSE "none"

\* verifyJWTWithKey
Verifies(token, key) ==
    /\ key.alg \in {"", token.alg}
    /\ key.kty = SignatureType(token.alg)
    /\ key.key = token.key

\* Whether a set of keys lets the token through.
Serves(set, token) ==
    cachedKey(set, token.kid) # Nil /\ Verifies(token, cachedKey(set, token.kid))

------------------------------------------------------------------------------
(* Claims.  A token lists the claims it carries that are absent where needed,
   or of the wrong form. *)

DataForm == {"jwt", "sub", "subject_type", "tenant_id", "iss", "aud", "iat", "exp", "nbf",
             "scope", "client_id", "jti"}
AdminForm == {"jwt", "sub", "iss", "aud", "iat", "exp", "roles", "tenant_scopes",
              "permissions", "jti"}

\* standardClaimsFromJWT; a token without nbf has nbf 0.
standardClaims(token, time) ==
    /\ token.malformed \cap DataForm = {}
    /\ "data" \in token.aud
    /\ token.iat <= time + Skew
    /\ token.exp > token.iat
    /\ time < token.exp
    /\ time >= token.nbf

\* adminContextInputFromClaims and NewAdminContext; the roles are known ones.
adminContext(token, time) ==
    /\ token.malformed \cap AdminForm = {}
    /\ "admin" \in token.aud
    /\ time < token.exp

AllowedIssuer(token) ==
    "iss" \notin token.malformed /\ (AllowedIssuers = {} \/ token.iss \in AllowedIssuers)

ClaimsAccepted(token) ==
    /\ AllowedIssuer(token)
    /\ IF plane = "data" THEN standardClaims(token, now) ELSE adminContext(token, now)

------------------------------------------------------------------------------
(* Requests. *)

Refused(r, why) == req' = [req EXCEPT ![r] = [Rested EXCEPT !.pc = "refused", !.token = req[r].token,
                                                            !.why = why, !.safe = req[r].safe]]

\* The clock is read once the signature stands.
Admit(r) ==
    IF ClaimsAccepted(req[r].token)
    THEN req' = [req EXCEPT ![r] = [Rested EXCEPT !.pc = "accepted", !.token = req[r].token,
                                                  !.unknown = req[r].unknown]]
    ELSE Refused(r, "claims")

\* The documents that may still be installed, unless another is published.
Reachable == {published} \cup {req[q].body : q \in {p \in Requests : req[p].body # Nil}}

\* A request comes in, or a refused one is sent again.  A token that is not a
\* JWT, or is unsigned, is refused at once.
Arrive(r, t) ==
    /\ \/ req[r].pc = "idle"
       \/ req[r].pc = "refused" /\ req[r].token = t
    /\ req' = [req EXCEPT ![r] =
                  IF "jwt" \in t.malformed
                  THEN [Rested EXCEPT !.pc = "refused", !.token = t, !.why = "claims"]
                  ELSE [Rested EXCEPT !.pc = "key", !.token = t,
                           !.safe = \A d \in Reachable : Serves(parseJWKS(d), t),
                           !.unknown = /\ ~Serves(keys, t)
                                       /\ \A d \in Reachable : ~Serves(parseJWKS(d), t)]]
    /\ UNCHANGED <<plane, remote, published, keys, rotations, now>>

Fetch(r, retry) == req' = [req EXCEPT ![r].pc = "fetch", ![r].retry = retry]

\* Mutant of LookUp: a failed verification is final.
LookUpOnce(r) ==
    LET token == req[r].token
        key == cachedKey(keys, token.kid) IN
    /\ req[r].pc = "key"
    /\ IF key # Nil /\ Verifies(token, key) THEN Admit(r)
       ELSE IF ~remote \/ key # Nil THEN Refused(r, "key")
       ELSE Fetch(r, FALSE)
    /\ UNCHANGED <<plane, remote, published, keys, rotations, now>>

\* key and the first verification, from the keys at hand.
LookUp(r) ==
    LET token == req[r].token
        key == cachedKey(keys, token.kid) IN
    /\ req[r].pc = "key"
    /\ IF key # Nil /\ Verifies(token, key) THEN Admit(r)
       ELSE IF ~remote THEN Refused(r, "key")
       ELSE Fetch(r, key # Nil)
    /\ UNCHANGED <<plane, remote, published, keys, rotations, now>>

\* refresh: the issuer answers with what it publishes at that moment.
FetchReply(r) ==
    /\ req[r].pc = "fetch"
    /\ req' = [req EXCEPT ![r].pc = "install", ![r].body = published]
    /\ UNCHANGED <<plane, remote, published, keys, rotations, now>>

\* refresh: timeout, network error or a status other than 200.
FetchFails(r) ==
    /\ req[r].pc = "fetch"
    /\ Refused(r, "fetch")
    /\ UNCHANGED <<plane, remote, published, keys, rotations, now>>

\* Mutant of Install: new keys are added after the ones at hand.
InstallMerged(r) ==
    /\ req[r].pc = "install"
    /\ IF parseJWKS(req[r].body) = <<>> THEN Refused(r, "key") /\ UNCHANGED keys
       ELSE /\ keys' = IF Len(keys) > 3 THEN keys ELSE keys \o parseJWKS(req[r].body)
            /\ req' = [req EXCEPT ![r].pc = "reread", ![r].body = Nil]
    /\ UNCHANGED <<plane, remote, published, rotations, now>>

\* refresh: a usable document replaces the keys, whatever was installed since
\* it was fetched.
Install(r) ==
    LET parsed == parseJWKS(req[r].body) IN
    /\ req[r].pc = "install"
    /\ IF parsed = <<>> THEN Refused(r, "key") /\ UNCHANGED keys
       ELSE /\ keys' = parsed
            /\ req' = [req EXCEPT ![r].pc = "reread", ![r].body = Nil]
    /\ UNCHANGED <<plane, remote, published, rotations, now>>

\* Mutant of Reread: a key that was just fetched is taken to fit.
RereadTrusting(r) ==
    LET key == cachedKey(keys, req[r].token.kid) IN
    /\ req[r].pc = "reread"
    /\ IF key # Nil THEN Admit(r) ELSE Refused(r, "key")
    /\ UNCHANGED <<plane, remote, published, keys, rotations, now>>

\* The keys are read again, under a new lock.  After a miss the first
\* verification may still fail and ask for another fetch.
Reread(r) ==
    LET token == req[r].token
        key == cachedKey(keys, token.kid) IN
    /\ req[r].pc = "reread"
    /\ IF key # Nil /\ Verifies(token, key) THEN Admit(r)
       ELSE IF key = Nil \/ req[r].retry THEN Refused(r, "key")
       ELSE Fetch(r, TRUE)
    /\ UNCHANGED <<plane, remote, published, keys, rotations, now>>

------------------------------------------------------------------------------
(* Environment. *)

\* The issuer publishes another document.
Rotate(d) ==
    /\ remote /\ rotations < MaxRotations /\ d # published
    /\ published' = d
    /\ rotations' = rotations + 1
    /\ req' = [r \in Requests |->
                  [req[r] EXCEPT !.safe = @ /\ Serves(parseJWKS(d), req[r].token),
                                 !.unknown = @ /\ ~Serves(parseJWKS(d), req[r].token)]]
    /\ UNCHANGED <<plane, remote, keys, now>>

\* Time passes.
Tick ==
    /\ now < MaxTime
    /\ now' = now + 1
    /\ UNCHANGED <<plane, remote, published, keys, req, rotations>>

\* newJWKSKeySet: the service starts only with a usable document.
Init ==
    /\ plane \in {"data", "admin"}
    /\ remote \in BOOLEAN
    /\ published \in {d \in Documents : parseJWKS(d) # <<>>}
    /\ keys = parseJWKS(published)
    /\ req = [r \in Requests |-> Rested]
    /\ rotations = 0
    /\ now = 0

Step(r) ==
    LookUp(r) \/ FetchReply(r) \/ FetchFails(r) \/ Install(r) \/ Reread(r)

Next ==
    \/ \E r \in Requests :
          Step(r) \/ \E t \in Tokens : Arrive(r, t)
    \/ \E d \in Documents : Rotate(d)
    \/ Tick

\* A request that is being served goes on; clients send a refused token again;
\* a fetch that is tried again and again succeeds at some time.
Fairness ==
    \A r \in Requests :
       /\ WF_vars(Step(r))
       /\ SF_vars(FetchReply(r))
       /\ WF_vars(req[r].pc = "refused" /\ \E t \in Tokens : Arrive(r, t))

Spec == Init /\ [][Next]_vars /\ Fairness

------------------------------------------------------------------------------
(* Properties. *)

\* A token whose key the issuer publishes while the request is served is not
\* refused for its key, whatever keys the service had before and whatever other
\* requests fetch meanwhile.  Only an answer fetched before the key was
\* published, still on its way when the request came, can spoil this.
PublishedKeyServed ==
    \A r \in Requests : req[r].pc = "refused" /\ req[r].why = "key" => ~req[r].safe

\* A token whose key is not in the set at hand when its request comes, is not
\* published while it is served, and is in no answer still on its way, is not
\* accepted, whatever sets the requests install one over the other meanwhile: a
\* key withdrawn before all these is not brought back, and a key id that was
\* given to another key does not help.
UnknownKeyRefused == \A r \in Requests : req[r].pc = "accepted" => ~req[r].unknown

\* A client that keeps sending a token whose key stays published is, from some
\* time on, never refused for its key or for a failed fetch: the key set
\* catches up with the issuer, however fetches cross.
KeySetCatchesUp ==
    \A r \in Requests, t \in Tokens :
       <>[](req[r].token = t /\ Serves(parseJWKS(published), t)) => <>[](req[r].why \notin {"key", "fetch"})
==============================================================================
