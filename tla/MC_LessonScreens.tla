-------------------------- MODULE MC_LessonScreens --------------------------
(***************************************************************************)
(* A small instance of LessonScreens: two tabs of one browser, one part of *)
(* a lesson that saves, and a lesson of two pages and two questions, with  *)
(* an extra of one question.  A behaviour follows one of the screens       *)
(* (part), with the others still at their start: their properties are      *)
(* checked side by side in one run.                                        *)
(***************************************************************************)
EXTENDS LessonScreens, TLC

CONSTANTS t1, t2, c1, ana

VARIABLE part

OneCall == [c \in {c1} |-> t1]
Texts == 0..3
SlideLimits == [pages |-> 2, blocksPerPage |-> 2, listItems |-> 2, tableRows |-> 3]
QuestionLimits == [questions |-> 2, optionsMin |-> 2, optionsMax |-> 3]
TwoPages == ("" :> 2) @@ ("x" :> 0)
TwoQuestions == ("" :> 2) @@ ("x" :> 1)

editorVars == <<visit, hooks, sent, op, lesson, lessonCache>>
slidesVars == <<pages, deck, uploads, uploading, keys>>
activityVars == <<activity, questionKeys>>
playerVars == <<now, step, known, reach, quiz, asks, content, turns>>
engineVars == <<engineState, load, starting, instance, flags, calibration, driver, asked>>
lessonVars == <<part, vars, editorVars, slidesVars, activityVars, playerVars, engineVars>>

LessonInit ==
    /\ part \in {"session", "editor", "slides", "activity", "player", "engine"}
    /\ Init
    /\ Editor!Init
    /\ Slides!Init
    /\ Activity!Init
    /\ Player!Init
    /\ Engine!Init /\ (part # "engine" => flags.start)

LessonNext ==
    \/ /\ part = "session" /\ Next
       /\ UNCHANGED <<part, editorVars, slidesVars, activityVars, playerVars, engineVars>>
    \/ /\ part = "editor" /\ Editor!Next
       /\ UNCHANGED <<part, vars, slidesVars, activityVars, playerVars, engineVars>>
    \/ /\ part = "slides" /\ Slides!Next
       /\ UNCHANGED <<part, vars, editorVars, activityVars, playerVars, engineVars>>
    \/ /\ part = "activity" /\ Activity!Next
       /\ UNCHANGED <<part, vars, editorVars, slidesVars, playerVars, engineVars>>
    \/ /\ part = "player" /\ Player!Next
       /\ UNCHANGED <<part, vars, editorVars, slidesVars, activityVars, engineVars>>
    \/ /\ part = "engine" /\ Engine!Next
       /\ UNCHANGED <<part, vars, editorVars, slidesVars, activityVars, playerVars>>

LessonSpec == LessonInit /\ [][LessonNext]_lessonVars /\ Fairness /\ Editor!Fairness /\ Player!Fairness
=============================================================================
