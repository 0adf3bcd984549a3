\* Every service and configuration.
SPECIFICATION Spec
CONSTANTS
    Requests = {r1, r2}
    Jobs = {j1, j2}
INVARIANTS
    TypeOK
    NoUseAfterClose
    CleanExit
    NoLateReady
PROPERTIES
    SignalledExits
CHECK_DEADLOCK FALSE
