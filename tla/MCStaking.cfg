SPECIFICATION Spec
CONSTANTS
    s1 = s1
    s2 = s2
    k1 = k1
    typo = typo
    zero = zero
    Stakers = {s1, s2}
    Keys = {k1}
    Unowned = {typo}
    Nobody = zero
    Settings <- Settled
    Proposals <- Updates
    Deposits = {0, 2}
    Grants = {0, 4, 6}
    MaxSupply = 5
    MaxFee = 1
    MaxRate = 2
    MaxTimelock = 1
    Bps = 2
    Year = 2
    MaxTime = 3
INVARIANTS Solvent SupplyCapped RewardsAreEarned AdminCanSign
PROPERTIES NoSurprise
SYMMETRY Interchangeable
