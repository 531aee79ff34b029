\* An origin with cache_ttl 1 behind a cache with default_ttl 3.
SPECIFICATION Spec
CONSTANTS
    p1 = p1  p2 = p2  o1 = o1  o2 = o2
    Paths = {p1}
    Origins = {o1}
    LocalOrigins = {}
    MaxVer = 1
    DefaultTtl = 3
    Admins = {}
    Reqs = {r1}
    Methods = {"GET"}
    Tags <- NoTags
    Route <- OneOriginRoute
    CacheTtl <- ShortTtl
    PrefixKeys = {}
INVARIANTS HonoursCacheTtl
