SPECIFICATION Spec
CONSTANTS
    Unit = {1, 2}
    Lesson = {11}
    catalog <- OneDba
    MaxNew = 1
PROPERTIES WindowsGoAway
CHECK_DEADLOCK FALSE
