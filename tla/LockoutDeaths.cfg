SPECIFICATION Spec
CONSTANTS
    own = own
    shared = shared
    kid = kid
    change = change
    Never = Never
    None = None
    MaxFailures <- Failures
    Window <- Short
    Key = {own, kid}
    Form = {pin, change}
    Closing = {}
    Request = {r1}
    Locks <- PinLocks
    Clears <- PinClears
    Wait <- TwoWaits
    ResetAfter = 3
PROPERTIES LockEnds
