CONSTANTS
    cat = cat  prod = prod  own = own  rem = rem  h1 = h1  h2 = h2  h3 = h3  here = here
    d1 = d1  u1 = u1  a = a  b = b
    Users = {u1}
    Devices = {d1}
    Admins = {u1}
    UserOf <- MCUserOf
    Workspaces = {here}
    Rows = {cat, prod, own, rem}
    Categories = {cat, own}
    Reminders = {rem}
    NoRow = NoRow
    Parent <- MCParent
    Label <- MCLabel
    Archive = {h1, h2, h3}
    Imports = {i1, i2}
    Manifests <- MCManifests
    Unsupported = {}
    Unstorable <- MCUnstorable
    NoManifest = NoManifest
    NoUser = NoUser
    NoOffer = NoOffer
    Handlers = {a, b}
    Limit = 1
    MaxCheckpoint = 2
    MaxLog = 1
    MaxInt = 1
    CategoryLimit = 2
    NameLimit = 3
    MaxName = 4
SPECIFICATION SmallFamilySpec
INVARIANTS ImportIsSound WithdrawnStaysWithdrawn NothingSkipped PreparedIsStorable
PROPERTY WritesAreSound
SYMMETRY Alike
