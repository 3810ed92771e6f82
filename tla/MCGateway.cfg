SPECIFICATION GatewaySpec
CONSTANTS
    lamp = lamp
    plug = plug
    scene = scene
    on = on
    a = a
    b = b
    none = none
    NoDevice = none
    HADevices = {lamp}
    Entities = {plug, scene}
    DeviceOf <- Owners
    Roles = {"member"}
    Commands = {on}
    Admins = {a, b}
    Patches = {"token", "disable", "enable"}
    MaxToken = 2
    MaxDiscoveries = 2
INVARIANTS GatewayInv
PROPERTIES DeletionIsFinal
SYMMETRY Connections
CHECK_DEADLOCK FALSE
