\* Two concurrent requests over two routes with a fallback, and over no route.
SPECIFICATION Spec
CONSTANTS
    p1 = p1  p2 = p2  o1 = o1  o2 = o2
    Paths = {p1, p2, p3}
    Origins = {o1, o2}
    LocalOrigins = {o1}
    MaxVer = 1
    DefaultTtl = 1
    Admins = {}
    Reqs = {r1, r2}
    Methods = {"GET", "HEAD", "POST", "OPTIONS"}
    Tags <- FallbackTags
    Route <- FallbackRoute
    CacheTtl <- SecondCached
    PrefixKeys = {}
SYMMETRY RequestSymmetry
INVARIANTS TypeOK RequestInv CachedFromOwnRoute FallbackOrder AnswerIsHonest
PROPERTIES OnlyReadsFill ContractHolds
