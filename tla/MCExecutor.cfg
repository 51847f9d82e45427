CONSTANTS
    c1 = c1
    c2 = c2
    c3 = c3
    Callers <- MCCallers
    Prebuilt <- MCPrebuilt
    MaxAttempts = 2
    MaxSig = 4
    Faults = {}
SPECIFICATION FairSpec
INVARIANTS TypeOK AtMostOneLanding RearmableIsDead SoleRunner WriteAhead
PROPERTIES ConfirmedIsFinal LandedGetsClosed
