--------------------------- MODULE MC_Classroom ---------------------------
\* Small instances of classroom-service for TLC: the .cfg files say how many
\* handlers are in flight.
EXTENDS ClassroomProperties, TLC

\* Ids, files, kids and slots are interchangeable; only safety is checked.
Symmetry == Permutations(Classroom) \cup Permutations(EnrollmentId) \cup Permutations(File)
            \cup Permutations(Student) \cup Permutations(Request)
=============================================================================
