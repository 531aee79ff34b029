\* Two clients.  One can exceed its limit when it is new and again after it has
\* waited for all of its tokens.
SPECIFICATION Spec
CONSTANTS
    r1 = r1  r2 = r2  r3 = r3  r4 = r4  r5 = r5  s1 = s1
    here = here  there = there
    Requests = {r1, r2, r3, r4, r5, s1}
    AddressOf <- TwoAddresses
    RequestsPerSecond = 2
    BurstSize = 2
    MaxTime = 6
SYMMETRY Alike
INVARIANTS RefusedOverLimit
\* The run ends when the time and the requests are used up.
CHECK_DEADLOCK FALSE
