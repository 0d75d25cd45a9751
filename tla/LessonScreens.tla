---------------------------- MODULE LessonScreens ----------------------------
(***************************************************************************)
(* The screens of a lesson beside the session behind every screen          *)
(* (WebSession, extended): its editor, its slides and its activity, the    *)
(* player of the kid and the engine that follows the eyes.  They share no  *)
(* state: each is an instance with variables and sizes of its own.         *)
(***************************************************************************)
EXTENDS WebSession

CONSTANTS
    Doc, Value, Unready, Complete, MaxEdits, MaxRetries, MaxVisits,
    Kind, SLIDE_LIMITS, MaxSlideKeys, MaxUploads, MaxSlideMounts,
    QUESTION_LIMITS, MaxQuestionKeys,
    Extra, partPages, partQuestions, MaxPlayerMounts, MaxTurns, MaxTries, MaxVersions,
    MaxStarts

VARIABLES
    visit, hooks, sent, op, lesson, lessonCache,
    pages, deck, uploads, uploading, keys,
    activity, questionKeys,
    now, step, known, reach, quiz, asks, content, turns,
    engineState, load, starting, instance, flags, calibration, driver, asked

Editor == INSTANCE LessonEditor WITH server <- lesson, cache <- lessonCache

Slides == INSTANCE LessonSlides WITH
    LIMITS <- SLIDE_LIMITS, MaxKeys <- MaxSlideKeys, MaxMounts <- MaxSlideMounts

Activity == INSTANCE LessonActivity WITH
    keys <- questionKeys, LIMITS <- QUESTION_LIMITS, MaxKeys <- MaxQuestionKeys

Player == INSTANCE LessonPlayer WITH
    server <- content, pages <- partPages, questions <- partQuestions, MaxMounts <- MaxPlayerMounts

Engine == INSTANCE GazeEngine WITH state <- engineState, page <- calibration

ASSUME LessonAssumption ==
    /\ Editor!EditorAssumption /\ Slides!SlidesAssumption /\ Activity!ActivityAssumption
    /\ Player!PlayerAssumption /\ Engine!EngineAssumption

-----------------------------------------------------------------------------
(* Their properties, stated in each of them.                               *)

OlderNeverWins == Editor!OlderNeverWins
SavingEnds == Editor!SavingEnds
SlidesComeBack == Slides!KeysAreUnique /\ Slides!ComesBackTheSame
UploadUndoesNothing == Slides!UploadUndoesNothing
ActivityCanBePassed == Activity!ActivityCanBePassed
NewestPageWins == Player!NewestPageWins
AnswersComeBack == Player!AnswersComeBack
CalibrationCanEnd == Engine!CalibrationCanEnd
=============================================================================
