SPECIFICATION Spec
CONSTANTS
    User = {u1, nobody}
    Unauthenticated = nobody
    NoToken = NoToken
    MaxChanges = 2
    MaxFailures = 1
INVARIANTS
    OpenAsCurrentUser
    ResumeIsExpected
    NothingForgotten
PROPERTIES
    CatchesUp
CHECK_DEADLOCK FALSE
