SPECIFICATION Spec
CONSTANTS
    c1 = c1
    c2 = c2
    c3 = c3
    Session = {s1, s2}
    NoSession = NoSession
    Client = {c1, c2, c3}
    Execution = {e1, e2}
    NoExecution = NoExecution
    Handle = {h1}
    MaxRevision = 2
    Uncancellable = {s2}
    Fragile = {s1}
    SessionLimit = 2
    MaxCalls = 4
    IdleEviction = TRUE
    Duties <- Roles
    Droppable = {c3}
PROPERTY PublishedHandleTakesCancel
CHECK_DEADLOCK FALSE
