SPECIFICATION FairSpec
CONSTANTS
    Slots = {s1, s2}
    NoSlot = NoSlot
    Ports = {p1, p2}
    NoPort = NoPort
    Messages = {m1, m2}
    Auth = Auth
    Never = Never
    ReauthHours = 1
    MaxClock = 1
    MaxReloads = 1
    MaxStops = 1
INVARIANTS TypeOK RecordedIsKept TokenRemembered NothingLeaks
PROPERTIES FileOnlyGrows ComesBack
