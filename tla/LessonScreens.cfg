SPECIFICATION LessonSpec
CONSTANTS
    t1 = t1
    t2 = t2
    c1 = c1
    ana = ana
    Tab = {t1, t2}
    Call = {c1}
    home <- OneCall
    Query = {}
    Mutation = {}
    Panel = {t1}
    Person = {ana}
    MaxSessions = 1
    MaxKey = 2
    Doc = {"details"}
    Value <- Texts
    Unready = {0}
    Complete = {2, 3}
    MaxEdits = 2
    MaxRetries = 1
    MaxVisits = 1
    Kind = {"lista"}
    SLIDE_LIMITS <- SlideLimits
    MaxSlideKeys = 5
    MaxUploads = 1
    MaxSlideMounts = 2
    QUESTION_LIMITS <- QuestionLimits
    MaxQuestionKeys = 5
    Extra = {"x"}
    partPages <- TwoPages
    partQuestions <- TwoQuestions
    MaxPlayerMounts = 2
    MaxTurns = 2
    MaxTries = 1
    MaxVersions = 2
    MaxStarts = 3
INVARIANTS RequestsAreServed SlidesComeBack ActivityCanBePassed CalibrationCanEnd
PROPERTIES SessionEndsForCause OlderNeverWins UploadUndoesNothing NewestPageWins SavingEnds AnswersComeBack RequestsEnd
CHECK_DEADLOCK FALSE
