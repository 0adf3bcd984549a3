\* Sessions that carry the same content, deduplicated, deleted and reclaimed.
CONSTANTS
    Nil = Nil
    Sessions = {s1, s2, s3}
    Requests = {p1, p2, p3}
    Keys = {k1}
    Contents = {c1}
    MaxParts = 1
    Modes = {"PRESIGNED_SINGLE"}
    Ops = {"complete"}
    Overlap = {"complete"}
    Jobs = {"expire", "finalize", "orphan"}
SPECIFICATION Spec
INVARIANTS
    ActiveFileReadable
SYMMETRY Symmetry
CHECK_DEADLOCK FALSE
