CONSTANTS
    c1 = c1
    c2 = c2
    c3 = c3
    Callers <- MCCallers
    Prebuilt <- MCPrebuilt
    MaxAttempts = 2
    MaxSig = 3
    Faults = {"unheard"}
SPECIFICATION Spec
INVARIANTS AtMostOneLanding
