SPECIFICATION Spec
CONSTANTS
    Unit = {u1,u2}
    Lesson = {l1}
    Request = {r1,r2}
    Saved = {}
    None = None
SYMMETRY Symmetry
CONSTRAINT FewWhenClosed
INVARIANTS LessonsHaveUnits
PROPERTIES ClosedClassIsFrozen
CHECK_DEADLOCK FALSE
