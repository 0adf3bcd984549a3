SPECIFICATION Spec
CONSTANTS
  Nil = Nil
  ka = ka
  kb = kb
  kc = kc
  Requests = {r1, r2}
  Tokens <- MCTokens
  Documents <- MCDocuments
  AllowedIssuers = {"idp"}
  Skew = 1
  MaxRotations = 2
  MaxTime = 1
INVARIANTS
  PublishedKeyServed
  UnknownKeyRefused
PROPERTIES
  KeySetCatchesUp
CHECK_DEADLOCK FALSE
