SPECIFICATION FairSpec
CONSTANTS
    w1 = w1
    w2 = w2
    qa = qa
    qb = qb
    NoTask = NoTask
    NoWorker = NoWorker
    Worker = {w1, w2}
    Task = {t1, t2}
    Queue = {qa, qb}
    Untargeted = {qa}
    Serves <- ExclusiveServes
    ArgKinds = {"mapping", "none"}
    ScriptKinds = {"runs", "missing", "falsy", "broken"}
    Delivery = {TRUE}
    MaxCrashes = 1
    MaxDbFaults = 0
PROPERTIES
    EveryTaskEnds
