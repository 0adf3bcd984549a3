\* One session of any mode; every endpoint overlaps every other.
CONSTANTS
    Nil = Nil
    Sessions = {s1}
    Requests = {p1, p2, p3}
    Keys = {k1}
    Contents = {c1, c2}
    MaxParts = 2
    Modes = {"INLINE", "PRESIGNED_SINGLE", "DIRECT"}
    Ops = {"complete", "abort", "inline", "list"}
    Overlap = {"complete", "abort", "inline", "list"}
    Jobs = {"expire", "repair", "multipart", "finalize", "orphan"}
SPECIFICATION Spec
INVARIANTS
    TypeOK
    CompletedIffBound
    BoundFileExists
    RefCountExact
    UsageBytesExact
    NoUploadForgotten
    DirectContentVerified
    EventsMatchFiles
SYMMETRY Symmetry
CHECK_DEADLOCK FALSE
