SPECIFICATION PromptSpec
CONSTANTS
    Jti = {j1,j2,j3}
    Sid = {s1,s2}
    Request = {r1}
    RefreshTtl = 2
    Grace = 0
    MaxTime = 3
    None = None
SYMMETRY Symmetry
INVARIANTS RevokedStaysRevoked
CHECK_DEADLOCK FALSE
