\* One session; only completions overlap, with and without a common Idempotency-Key.
CONSTANTS
    Nil = Nil
    Sessions = {s1}
    Requests = {p1, p2, p3, p4}
    Keys = {k1}
    Contents = {c1, c2}
    MaxParts = 1
    Modes = {"INLINE", "PRESIGNED_SINGLE", "DIRECT"}
    Ops = {"complete", "abort", "inline", "list"}
    Overlap = {"complete"}
    Jobs = {"expire", "repair", "multipart", "finalize", "orphan"}
SPECIFICATION Spec
INVARIANTS
    OneFilePerSession
PROPERTIES
    CompletedIsFinal
    RegisterSpec
SYMMETRY RequestSymmetry
CHECK_DEADLOCK FALSE
