CONSTANTS
    w1 = w1
    w2 = w2
    w3 = w3
    Workers <- MCWorkers
    MaxAttempts = 3
    MaxStops = 2
    Faults = {"crash", "write", "requeue"}
SPECIFICATION QueueFairSpec
PROPERTIES AttemptsRunOut
CHECK_DEADLOCK FALSE
