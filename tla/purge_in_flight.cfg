\* A purge after a deployment, while a request is in flight.
SPECIFICATION Spec
CONSTANTS
    p1 = p1  p2 = p2  o1 = o1  o2 = o2
    Paths = {p1}
    Origins = {o1}
    LocalOrigins = {}
    MaxVer = 1
    DefaultTtl = 2
    Admins = {a1}
    Reqs = {r1}
    Methods = {"GET"}
    Tags <- NoTags
    Route <- OneOriginRoute
    CacheTtl <- OneOriginTtl
    PrefixKeys = {{p1}}
INVARIANTS PurgeDefeatsStale
