SPECIFICATION FairSpec
CHECK_DEADLOCK FALSE
CONSTANTS
    Maker = {m1, m2}
    Complect = {c1, c2}
    Code = {k1, k2, k3}
    NoMaker = NoMaker
    NoComplect = NoComplect
    NoCode = NoCode
    MaxNumber = 2
    MaxRenames = 2
    MaxFaults = 1
INVARIANTS
    TypeOK
    Gapless
    RevisionsDistinct
PROPERTIES
    AppendOnly
    SequenceFreed
