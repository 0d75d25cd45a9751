CONSTANTS
    Classroom = {c1}
    Student = {s1, s2}
    EnrollmentId = {e1, e2}
    File = {f1}
    Details = {d1}
    Request = {r1, r2}
    MaxAudit = 2
    NoClass = NoClass
    Nothing = Nothing
SPECIFICATION Spec
SYMMETRY Symmetry
PROPERTIES ComesBackOnlyAsking OnlyThroughTheDoor
CHECK_DEADLOCK FALSE
