CONSTANTS
    Classroom = {c1, c2}
    Student = {s1, s2}
    EnrollmentId = {e1, e2}
    File = {f1, f2}
    Details = {d1}
    Request = {r1}
    MaxAudit = 4
    NoClass = NoClass
    Nothing = Nothing
SPECIFICATION Spec
SYMMETRY Symmetry
INVARIANTS NobodyWaitsOutside AuditTellsState LogoIsStored
PROPERTIES KeepsThePromise
CHECK_DEADLOCK FALSE
