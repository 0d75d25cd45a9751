SPECIFICATION Spec
CONSTANTS
    Unit = {u1}
    Lesson = {l1}
    Request = {r1}
    Saved = {TRUE}
    None = None
SYMMETRY Symmetry
INVARIANTS NoLessonWithoutItsClass
CHECK_DEADLOCK FALSE
