SPECIFICATION Spec
CONSTANTS
    w1 = w1
    w2 = w2
    qa = qa
    qb = qb
    NoTask = NoTask
    NoWorker = NoWorker
    Worker = {w1, w2, w3}
    Task = {t1, t2}
    Queue = {qa}
    Untargeted = {}
    Serves <- SharedServes
    ArgKinds = {"mapping"}
    ScriptKinds = {"runs", "missing", "falsy"}
    Delivery = {FALSE, TRUE}
    MaxCrashes = 1
    MaxDbFaults = 1
SYMMETRY Symmetry
INVARIANTS
    TypeOK
    AtMostOnce
    OneRunner
    OldestFirst
    ReportsTrackRow
    VerdictIsBacked
    NoticesInOrder
    NoLockWhileRunning
    OnlyPollsDeadlock
    NoAbandoned
PROPERTIES
    TerminalIsFinal
    LifecycleSpec
