CONSTANTS
    w1 = w1
    w2 = w2
    w3 = w3
    Workers <- MCWorkers
    MaxAttempts = 3
    MaxStops = 3
    Faults = {}
SPECIFICATION QueueFairSpec
INVARIANTS QueueTypeOK NoOrphan
PROPERTIES ActiveGetsSettled
CHECK_DEADLOCK FALSE
