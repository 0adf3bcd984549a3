------------------------------- MODULE MCKeySet -------------------------------
(***************************************************************************)
(* Instance of KeySet: an issuer with two RSA keys and an EC key, one      *)
(* document that reuses a key id, and one with an undecodable key.         *)
(***************************************************************************)
EXTENDS KeySet

CONSTANTS ka, kb, kc

Jwk(kid, key, kty, alg) == [kid |-> kid, use |-> "sig", kty |-> kty, alg |-> alg, key |-> key]
JwkA == Jwk("a", ka, "RSA", "RS256")
JwkB == Jwk("b", kb, "RSA", "")

MCDocuments ==
    {<<JwkA, JwkB>>,
     <<Jwk("a", kc, "EC", "ES256")>>,
     <<[JwkA EXCEPT !.use = "enc"], Jwk("c", kc, "oct", ""), JwkB>>,
     <<JwkA, Jwk("c", Nil, "EC", "")>>}

Token(kid, key, alg) ==
    [kid |-> kid, key |-> key, alg |-> alg, iss |-> "idp", aud |-> {"data", "admin"},
     iat |-> 0, exp |-> 1, nbf |-> 0, malformed |-> {}]

MCTokens ==
    {Token("a", ka, "RS256"), Token("a", kc, "ES256"),
     [Token("", kb, "PS256") EXCEPT !.nbf = 1, !.iat = 1, !.exp = 2]}
==============================================================================
