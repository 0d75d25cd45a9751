SPECIFICATION Spec
CONSTANTS
    Unit = {u1}
    Lesson = {l1,l2,l3,l4}
    Request = {r1}
    Saved = {}
    None = None
SYMMETRY Symmetry
PROPERTIES NewLessonIsLast
CHECK_DEADLOCK FALSE
