CONSTANTS
    Classroom = {c1}
    Student = {s1}
    EnrollmentId = {e1}
    File = {f1}
    Details = {d1}
    Request = {r1, r2}
    MaxAudit = 2
    NoClass = NoClass
    Nothing = Nothing
SPECIFICATION Spec
SYMMETRY Symmetry
INVARIANT NobodyWaitsOutside
CHECK_DEADLOCK FALSE
