CONSTANTS
    e1 = e1
    e2 = e2
    e3 = e3
    r1 = r1
    r2 = r2
    Replicas = {r1, r2}
    Leader = r1
    Entries = {e1, e2, e3}
    HomeOf <- MCHomeOf
    Size <- MCSize
    Limit = 2
    MaxOpen = 0
    Hold = 2
    Admission = 1
    Nobody = Nobody
    MaxFailures = 1
SPECIFICATION Spec
INVARIANTS OneDecider Accounted SeesEverything CapHolds
