SPECIFICATION Spec
CONSTANTS
    t1 = t1
    t2 = t2
    foreign = foreign
    l = l
    a = a
    b = b
    e = e
    Kind = {"suite", "template"}
    Limit = 1
    MaxId = 4
    UserText = UserText
    Archives <- MCArchives
    NoKey = NoKey
    Counter = {t1, NoKey}
    Template = {t1, t2}
    Listing = {l}
    ListingOf <- MCListingOf
    Refs <- MCRefs
    Uses <- MCUses
    Name = {a, b, e}
    OldDict <- MCOldDict
    MaxRuns = 2
    MaxEdits = 1
INVARIANTS
    TypeOK
    MissedAreShifted
    OwnSuite
    OneOfEach
    SuitesApart
    AnswersResolved
    DictionariesClosed
CHECK_DEADLOCK FALSE
