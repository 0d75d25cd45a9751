SPECIFICATION Spec
CONSTANTS
    Unit = {u1,u2,u3}
    Lesson = {l1}
    Request = {r1}
    Saved = {TRUE,FALSE}
    None = None
SYMMETRY Symmetry
INVARIANTS UnitsInOrder PublishedIsComplete AnnouncedOnce
CHECK_DEADLOCK FALSE
