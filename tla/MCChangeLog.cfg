SPECIFICATION FairSpec
CONSTANTS
    f1 = f1
    f2 = f2
    w1 = w1
    w2 = w2
    w3 = w3
    r1 = r1
    Families = {f1, f2}
    Writers = {w1, w2, w3}
    Readers = {r1}
    NoWriter = NoWriter
    FamilyOf <- MCFamilyOf
    MaxCursor = 3
    PageLimit = 2
INVARIANTS NoSkippedChange CursorInv
PROPERTIES CommitOrderIsCursorOrder FeedSpec EventuallyDelivered
CHECK_DEADLOCK FALSE
