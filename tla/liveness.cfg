\* Two requests and a purge of one path whose origins change meanwhile.
SPECIFICATION FairSpec
CONSTANTS
    p1 = p1  p2 = p2  o1 = o1  o2 = o2
    Paths = {p1}
    Origins = {o1, o2}
    LocalOrigins = {o1}
    MaxVer = 1
    DefaultTtl = 2
    Admins = {a1}
    Reqs = {r1, r2}
    Methods = {"GET"}
    Tags <- NoTags
    Route <- FallbackRoute
    CacheTtl <- OneOriginTtl
    PrefixKeys = {{p1}}
PROPERTIES RequestAnswered PurgeAnswered EventuallyFresh
