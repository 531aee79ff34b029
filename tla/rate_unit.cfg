\* Three requests within two seconds, of a client that is new.
SPECIFICATION Spec
CONSTANTS
    r1 = r1  r2 = r2  r3 = r3  r4 = r4  r5 = r5  s1 = s1
    here = here  there = there
    Requests = {r1, r2, r3, r4, s1}
    AddressOf <- TwoAddresses
    RequestsPerSecond = 2
    BurstSize = 2
    MaxTime = 2
INVARIANTS HonoursRate
CHECK_DEADLOCK FALSE
