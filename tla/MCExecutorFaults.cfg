CONSTANTS
    c1 = c1
    c2 = c2
    c3 = c3
    Callers = {c1, c3}
    Prebuilt <- MCPrebuilt
    MaxAttempts = 2
    MaxSig = 3
    Faults = {"unheard", "reread", "redeliver", "restore", "evict"}
SPECIFICATION FairSpec
PROPERTIES RunsReturn
