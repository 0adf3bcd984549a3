\* Liveness of the maintenance jobs; every endpoint overlaps every other.
CONSTANTS
    Nil = Nil
    Sessions = {s1}
    Requests = {p1, p2}
    Keys = {k1}
    Contents = {c1}
    MaxParts = 1
    Modes = {"INLINE", "PRESIGNED_SINGLE", "DIRECT"}
    Ops = {"complete", "abort", "inline", "list"}
    Overlap = {"complete", "abort", "inline", "list"}
    Jobs = {"expire", "repair", "multipart", "reconcile"}
SPECIFICATION FairSpec
PROPERTIES
    SessionsSettle
    UploadsGetClosed
    UsageReconciled
CHECK_DEADLOCK FALSE
