SPECIFICATION Spec
CONSTANTS
    Devices = {"d1", "d2"}
    Messages <- MC_Messages
    WireBodies <- MC_WireBodies
    PingBodies <- MC_PingBodies
    MaxReloads = 1
INVARIANT TypeOK
INVARIANT EveryDeviceIsAskedForOnce
INVARIANT EntitiesShowLatest
INVARIANT UnreadIsSaidOnce
INVARIANT MalformedNumberCostsItself
