SPECIFICATION LedgerSpec
CONSTANTS
    s1 = s1 u1 = u1 u2 = u2 o1 = o1 n1 = n1
    Service = {s1}
    Principal = {u1, u2}
    Org = {o1}
    Worker = {n1}
    NoWorker = NoWorker
    Waiter = {w1, w2, w3}
    NoWaiter = NoWaiter
    Permit = {p1, p2}
    NoPermit = NoPermit
    Claim <- TwoUsers
    Reserved <- OneEach
    Shared = 1
    PhysicalCap = 2
    ClassQueueCap = 3
    UserQueueCap = 2
    NoService = NoService
SYMMETRY Ids
INVARIANTS AccountsMatchPermits WithinQuota QueuesWellFormed
PROPERTIES PumpLeavesNoOneBehind DrainedServiceGrantsNothing PrincipalsTakeTurns
