SPECIFICATION Spec
CONSTANTS
    w1 = w1
    w2 = w2
    m1 = m1
    m2 = m2
    c1 = c1
    None = None
    Dead = Dead
    Procs = {w1, w2}
    Messages = {m1, m2}
    MaxMessages = 1
    Typed = {c1}
    Kind <- MCKind
    Start = "plan_proposed"
    MaxCrashes = 1
    Mortal = {w1}
INVARIANTS TypeOK ExecutedIsTrue LockExcludes
PROPERTIES WatcherRespects LeaseKept WatcherReturns PendingResolved
CHECK_DEADLOCK FALSE
