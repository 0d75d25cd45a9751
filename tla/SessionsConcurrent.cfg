SPECIFICATION Spec
CONSTANTS
    Jti = {j1,j2}
    Sid = {s1}
    Request = {r1,r2}
    RefreshTtl = 2
    Grace = 0
    MaxTime = 3
    None = None
SYMMETRY Symmetry
INVARIANTS OnlyLiveTokensRefresh HistoryComesLast
CHECK_DEADLOCK FALSE
