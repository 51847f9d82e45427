SPECIFICATION Spec
CONSTANTS
    Replicas = {1, 2}
    sniper = sniper
    Trading <- MCTrading
    Requests = {1, 2}
    MaxFaults = 1
INVARIANTS StopIsDurable
PROPERTIES StopReachesAll Converges
CHECK_DEADLOCK FALSE
