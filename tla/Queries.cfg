\* Up to four rows, created in pairs at the same time.
SPECIFICATION Spec
CONSTANTS
    Nil = Nil
    t1 = t1
    t2 = t2
    t3 = t3
    Admins <- MCAdmins
    Tenants = {t1, t2, t3}
    Keys <- MCKeys
    Statuses = {"ACTIVE", "DELETED"}
    Limits = {0, 1, 9}
    DefaultLimit = 1
    MaxLimit = 2
INVARIANTS
    InScope
    MissedOnlyAtBoundaries
PROPERTIES
    PagesDescend
CHECK_DEADLOCK FALSE
