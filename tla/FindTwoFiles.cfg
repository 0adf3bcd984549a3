\* An inline upload that revives a completed session, completed a second time.
CONSTANTS
    Nil = Nil
    Sessions = {s1}
    Requests = {p1, p2, p3}
    Keys = {k1}
    Contents = {c1}
    MaxParts = 1
    Modes = {"INLINE"}
    Ops = {"complete", "inline"}
    Overlap = {"complete", "inline"}
    Jobs = {}
SPECIFICATION Spec
INVARIANTS
    OneFilePerSession
CHECK_DEADLOCK FALSE
