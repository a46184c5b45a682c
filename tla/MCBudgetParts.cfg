SPECIFICATION PartsSpec
CONSTANTS
    Ticket = {t1, t2, t3}
    NoSession = NoSession
    User = {u1, u2}
    Organization = {o1, o2}
    Service = {s1, s2}
    UserSessions = 2
    OrgSessions = 2
    UserEditors = 1
    Connections = 2
SYMMETRY Same
INVARIANTS NoStarvation CountersMatchSessions SessionsWithinQuota
