\* A walk over the same rows.
SPECIFICATION Spec
CONSTANTS
    Nil = Nil
    t1 = t1
    t2 = t2
    t3 = t3
    Admins <- MCAdmins
    Tenants = {t1, t2, t3}
    Keys <- MCKeys
    Statuses = {"ACTIVE", "DELETED"}
    Limits = {0, 1, 9}
    DefaultLimit = 1
    MaxLimit = 2
INVARIANTS
    NothingMissed
CHECK_DEADLOCK FALSE
