\* Two replicas, an old row that is always rejected, one row per batch.
CONSTANTS
    Nil = Nil
    Replicas = {r1, r2}
    Events = {1, 2}
    Supported = {1, 2}
    Rejected = {1}
    BatchSize = 1
    RetryBackoff = 1
    MaxRetryBackoff = 2
    Lease = 3
    LockTTL = 2
    MaxRetry = 2
    MaxHold = 3
    MaxFaults = 2
SPECIFICATION FairSpec
INVARIANTS
    TypeOK
    LeaseExclusive
PROPERTIES
    PublishedIsFinal
    LockOnlyReleasedByOwner
    BackoffBounded
    EventsDelivered
