CONSTANTS
    w1 = w1
    w2 = w2
    Workers = {w1, w2}
    Ttl = 3
    RenewEvery = 1
    MaxGen = 3
    MaxFaults = 2
SPECIFICATION FairSpec
INVARIANTS ShutdownReleases
PROPERTIES StaleForever RoleServed HonestReadiness
