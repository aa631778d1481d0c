SPECIFICATION FairSpec
CONSTANTS
    Handlers = {h1, h2}
    Addresses = {a1, a2}
    Local = Local
    None = None
    Idle = Idle
    Ttl = 5
    LookupTimeout = 3
INVARIANTS NeverLoops CacheIsTrue
PROPERTIES FindsTheVendor
