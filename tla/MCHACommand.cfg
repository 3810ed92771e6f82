SPECIFICATION TabletGoneSpec
CONSTANTS
    lamp = lamp
    phone = phone
    tablet = tablet
    none = none
    nocall = nocall
    w1 = w1
    w2 = w2
    admin1 = admin1
    NoDevice = none
    NoCall = nocall
    HADevices = {}
    Entities = {lamp}
    DeviceOf <- NoOwner
    Roles = {"member"}
    Commands = {"on"}
    Admins = {admin1}
    Patches = {}
    MaxToken = 1
    MaxDiscoveries = 0
    Devices = {phone, tablet}
    Calls <- MCCalls
    Workers = {w1, w2}
    Brightness <- MCBrightness
    Temperatures <- MCTemperatures
    heat = heat
    HEAT = HEAT
    cool = cool
    Modes = {heat, HEAT, cool}
    Lower <- MCLower
    None = none
    Unsupported = unsupported
INVARIANTS AtMostOnce SuccessIsTrue CommandTablesAgree
PROPERTIES AuditedSuccessStays KeepsPromise SuccessIsRecovered
CHECK_DEADLOCK FALSE
