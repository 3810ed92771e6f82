CONSTANTS
    u1 = u1 u2 = u2 u3 = u3 f1 = f1 f2 = f2 i1 = i1 i2 = i2 h1 = h1 h2 = h2
    NoFamily = NoFamily NoInvite = NoInvite
    Users = {u1, u2} Families = {f1} Invites = {i1} Handlers = {h1}
    Uses = {2} Modes = {"open"} Before = {u1, u2}
SPECIFICATION FamiliesSpec
INVARIANT JoinedMayLogIn
CHECK_DEADLOCK FALSE
