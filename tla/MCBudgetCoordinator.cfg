SPECIFICATION TimedSpec
CONSTANTS
    s1 = s1 u1 = u1 u2 = u2 o1 = o1 o2 = o2 n1 = n1 w1 = w1 w2 = w2 w3 = w3
    Service = {s1}
    Principal = {u1, u2}
    Org = {o1}
    Worker = {}
    NoWorker = NoWorker
    Waiter = {w1, w2}
    NoWaiter = NoWaiter
    Permit = {p1, p2}
    NoPermit = NoPermit
    Claim <- TwoClasses
    Reserved <- OneInteractive
    Shared = 1
    PhysicalCap = 2
    ClassQueueCap = 2
    UserQueueCap = 2
    NoService = NoService
    Asks <- TwoClassAsks
    Batch = 2
    Impatient = {w2}
    Drainable = {s1, o1}
    Attachable = {s1}
INVARIANTS NoPermitLeak OneHolder NoLostWakeup
PROPERTY DeadlineEndsTheCall
