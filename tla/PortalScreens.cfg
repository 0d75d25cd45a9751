SPECIFICATION PortalSpec
CONSTANTS
    Spot = {1, 2, 3, 4}
    Target = {"bar", "card", "yes"}
    Screen <- TwoScreens
    MOVE_AWAY = 1
    Duration = 2
    kidTrayAtFirst = {1}
    partsOf <- TwoParts
    KID_PER_SCREEN = 1
    MaxDeletions = 1
    MaxElsewhere = 1
    WizardField = {"name", "email", "kid", "password", "confirmation"}
    WizardTyped <- GuardianTyped
    Registered = {2}
    Adult = 1
    DocumentNumbers <- Numbers
    Strong = {1, 2}
    Cards = {1}
    Pin = {1, 2}
    ProfileTyped <- NameTyped
    Wrong = {0}
    Card = {1, 2}
    Finished = {1}
    MaxProfileSaves = 1
    Unit = {1, 2}
    Lesson = {11}
    catalog <- TwoDba
    MaxNew = 1
    trayAtFirst <- OneReceived
    PAGE_SIZE = 1
    MaxNumber = 2
    MaxRequests = 1
    kindOf <- Letters
    Member = {11}
    MaxTexts = 1
    MaxLosses = 1
    size <- Pictures
    Broken = {}
    FRAME = 2
    MAX_ZOOM = 2
    STEP = 1
    MaxMaking = 2
    MaxTouches = 3
    Class = {1, 2}
    Kid = {"kid"}
    MaxClassSaves = 2
    MaxClassLosses = 1
    Child = {"k1"}
    DeletionForm = {1, 2}
    MaxRows = 2
    MaxLate = 1
INVARIANTS CrossesTellTruth ShownAsSaved EvidencesOfTheDba ArrivesOnce LogoIsWhatIsShown OwnChangesShow NothingOlderIsLeft
PROPERTIES NothingByItself DeletionLandsSomewhere DeletionLeavesAPage
CHECK_DEADLOCK FALSE
