CONSTANTS
    Handlers = {h1, h2}
    Users = {u1, u2}
    Passwords = {p1, p2}
    NoPassword = NoPassword
    Sids = {s1}
    NoSession = NoSession
    SessionLife = 2
    AuditDelay = 1
    MaxTime = 3
    MaxEdits = 2
SPECIFICATION Spec
INVARIANTS
    LoginCorrect
PROPERTIES
    NoSessionLost
SYMMETRY Symmetry
