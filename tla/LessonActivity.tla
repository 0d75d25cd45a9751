--------------------------- MODULE LessonActivity ---------------------------
(***************************************************************************)
(* The questions of a lesson or of an extra while they are written: each   *)
(* has two to four options, and the activity how many right answers it     *)
(* takes to pass.  An option is whether it is the right one.               *)
(***************************************************************************)
EXTENDS EditorLists

CONSTANTS
    LIMITS,  \* lessonLimits.ts
    MaxKeys  \* the bound on the keys given

ActivityAssumption ==
    /\ MaxKeys \in Nat /\ LIMITS.questions \in Nat /\ LIMITS.optionsMin \in Nat /\ LIMITS.optionsMax \in Nat
    /\ LIMITS.optionsMin <= 2 /\ 2 <= LIMITS.optionsMax

VARIABLES activity, keys

vars == <<activity, keys>>

newQuestion(k) == [key |-> k, options |-> <<FALSE, FALSE>>]
toEditorActivity(k) == [pass_threshold |-> 1, questions |-> <<newQuestion(k)>>]

Init ==
    /\ activity = toEditorActivity(1)
    /\ keys = 2
newKey == keys < MaxKeys /\ keys' = keys + 1

setQuestionsMutant(next) == activity' = [activity EXCEPT !.questions = next]
setQuestions(next) ==
    activity' = [activity EXCEPT !.questions = next, !.pass_threshold = Least(@, Most(Len(next), 1))]
setQuestion(i, options) == setQuestions([activity.questions EXCEPT ![i].options = options])
addQuestion ==
    /\ Len(activity.questions) < LIMITS.questions
    /\ setQuestions(Append(activity.questions, newQuestion(keys)))
    /\ newKey
Question(i) ==
    /\ i \in DOMAIN activity.questions /\ UNCHANGED keys
    /\ \/ i > 1 /\ setQuestions(move(activity.questions, i, -1))
       \/ i < Len(activity.questions) /\ setQuestions(move(activity.questions, i, 1))
       \/ setQuestions(removeAt(activity.questions, i))
setPassThreshold(count) ==
    /\ count \in 1..Most(Len(activity.questions), 1)
    /\ activity' = [activity EXCEPT !.pass_threshold = count]
    /\ UNCHANGED keys
\* Marking an option as the right one unmarks the others.
Options(i) ==
    /\ i \in DOMAIN activity.questions /\ UNCHANGED keys
    /\ LET options == activity.questions[i].options IN
       \/ \E o \in DOMAIN options : setQuestion(i, [x \in DOMAIN options |-> x = o])
       \/ Len(options) > LIMITS.optionsMin /\ \E o \in DOMAIN options : setQuestion(i, removeAt(options, o))
       \/ Len(options) < LIMITS.optionsMax /\ setQuestion(i, Append(options, FALSE))

Next ==
    \/ addQuestion
    \/ \E i \in 1..LIMITS.questions : Question(i)
    \/ \E count \in 1..LIMITS.questions : setPassThreshold(count)
    \/ \E i \in 1..LIMITS.questions : Options(i)

Spec == Init /\ [][Next]_vars

\* The threshold never goes over the number of questions.
toActivity(a) == Most(1, Least(a.pass_threshold, IF a.questions = <<>> THEN 1 ELSE Len(a.questions)))

-----------------------------------------------------------------------------
(* Properties.                                                             *)

\* The threshold on screen is the one that is sent, and it can be reached; a
\* question has two to four options and at most one is right.
ActivityCanBePassed ==
    /\ activity.pass_threshold = toActivity(activity)
    /\ \A i \in DOMAIN activity.questions :
         LET options == activity.questions[i].options IN
         /\ Len(options) \in LIMITS.optionsMin..LIMITS.optionsMax
         /\ \A a, b \in DOMAIN options : options[a] /\ options[b] => a = b
=============================================================================
