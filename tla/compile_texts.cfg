SPECIFICATION TextsSpec
CONSTANTS
    a = a
    b = b
    quoted = quoted
    A = A
    Code = {a, b, quoted, A}
    Lower <- MCLower
    NameOf <- MCNameOf
    Template = {t}
    Named = {A, b}
    Gateway <- MCGateway
    NoDictionary = NoDictionary
    NoText = NoText
    EmptyText = EmptyText
    Line <- MCLine
    NoMessage = NoMessage
    MaxLines = 4
    MaxListedLines = 0
INVARIANTS
    TypeOK
    SavedIsNeeded
    NeededIsSaved
    OwnTexts
    MessagesAreReported
    FieldsFromOwnBlock
PROPERTIES
    LoopEnds
CHECK_DEADLOCK FALSE
