SPECIFICATION HealthySpec
CONSTANTS
    own = own
    shared = shared
    kid = kid
    change = change
    Never = Never
    None = None
    MaxFailures <- Failures
    Window <- Short
    Key = {own, shared}
    Form = {portal}
    Closing = {portal}
    Request = {r1, r2}
    Locks <- PortalLocks
    Clears <- PortalClears
    Wait <- TwoWaits
    ResetAfter = 2
INVARIANTS FullCounterIsBeingLocked SecondLockClosesSession
PROPERTIES CounterForgotten OnlyTimeForgives
