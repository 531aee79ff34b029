\* Two purges of every kind against each other and a request that refills the cache.
SPECIFICATION Spec
CONSTANTS
    p1 = p1  p2 = p2  o1 = o1  o2 = o2
    Paths = {p1, p2}
    Origins = {o1}
    LocalOrigins = {}
    MaxVer = 1
    DefaultTtl = 2
    Admins = {a1, a2}
    Reqs = {r1}
    Methods = {"GET"}
    Tags <- NoTags
    Route <- OneOriginRoute
    CacheTtl <- OneOriginTtl
    PrefixKeys <- BothPrefixes
SYMMETRY ActorSymmetry
INVARIANTS PurgeProgress PurgeLeavesNothingOlder
PROPERTIES PurgeScope ContractHolds
