CONSTANTS
    u1 = u1 u2 = u2 u3 = u3 f1 = f1 f2 = f2 i1 = i1 i2 = i2 h1 = h1 h2 = h2
    NoFamily = NoFamily NoInvite = NoInvite
    Users = {u1, u2, u3} Families = {f1} Invites = {i1, i2} Handlers = {h1, h2}
    Uses = {1, 2} Modes = {"open", "first_setup", "invite_only"} Before = {u1, u2}
SPECIFICATION FamiliesSpec
SYMMETRY Symmetry
INVARIANTS UsesAreJoins OneOwner
PROPERTIES MembersStay
CHECK_DEADLOCK FALSE
