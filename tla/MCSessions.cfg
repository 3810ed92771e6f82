CONSTANTS
    u1 = u1 u2 = u2 f1 = f1 f2 = f2 d1 = d1 t1 = t1 t2 = t2 t3 = t3 h1 = h1 h2 = h2
    Users = {u1} Families = {f1, f2} Devices = {d1} Tokens = {t1, t2, t3}
    Handlers = {h1, h2}
    MemberOf <- MCMemberOf Managers <- MCManagers
    NoUser = NoUser NoFamily = NoFamily NoDevice = NoDevice NoToken = NoToken
SPECIFICATION SessionsSpec
SYMMETRY Symmetry
INVARIANTS SessionsInv RevokedWithDevice
PROPERTIES RotatesInScope
CHECK_DEADLOCK FALSE
