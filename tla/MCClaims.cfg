CONSTANTS
    t1 = t1
    t2 = t2
    t3 = t3
    r1 = r1
    r2 = r2
    Tasks <- MCTasks
    Replicas <- MCReplicas
    ReplicaOf <- MCReplicaOf
    NoOwner = NoOwner
    Lease = 2
    Grace = 2
    MAX_RENEWALS = 1
    MaxEpoch = 3
SPECIFICATION FairSpec
INVARIANTS SingleOwner TokensUnique
PROPERTIES FencedForever HandoffSticks ImplementsFencingLease HungOwnerLosesLease
