SPECIFICATION Spec
CONSTANTS
    d1 = d1
    d2 = d2
    x = x
    y = y
    n1 = n1
    n2 = n2
    h1 = h1
    h2 = h2
    s1 = s1
    s2 = s2
    q = q
    NoEntity = NoEntity
    NoKey = NoKey
    Devices = {d1}
    Entities = {x, y}
    Names = {n1, n2}
    Envelopes <- ResolveEnvelopes
    MaySend <- ResolveMaySend
    Malformed <- ResolveMalformed
    Unfit = {}
    Handlers = {h1}
    Resolvers = {s1, s2}
    ResolveKeys = {q}
    BaseCursors = {0}
    MaxBatch = 1
    MaxLog = 4
SYMMETRY Symmetric
INVARIANTS SyncInv ResolvedOnce
PROPERTIES ResolutionReplacesShownVersion
CHECK_DEADLOCK FALSE
