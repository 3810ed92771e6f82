SPECIFICATION Spec
CONSTANTS
    d1 = d1
    d2 = d2
    x = x
    y = y
    n1 = n1
    n2 = n2
    h1 = h1
    h2 = h2
    s1 = s1
    s2 = s2
    q = q
    NoEntity = NoEntity
    NoKey = NoKey
    Devices = {d1, d2}
    Entities = {x}
    Names = {n1}
    Envelopes <- RetryEnvelopes
    MaySend <- RetryMaySend
    Malformed = {}
    Unfit <- RetryUnfit
    Handlers = {h1, h2}
    Resolvers = {}
    ResolveKeys = {}
    BaseCursors = {0, 2}
    MaxBatch = 2
    MaxLog = 3
SYMMETRY Symmetric
INVARIANTS LogReplaysToTables AppliedOnce LedgerTellsTheTruth
    ConflictsAreListed AnswersMatchLedger
PROPERTIES DecisionsAreFinal
CHECK_DEADLOCK FALSE
