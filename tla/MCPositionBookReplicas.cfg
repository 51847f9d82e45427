CONSTANTS
    r1 = r1
    r2 = r2
    Replicas = {r1, r2}
    Sweepers = {r1, r2}
    Opener = r1
    Rules = {"take_profit", "kill_switch"}
    Bought = 2
    Routes = {"pool", "jupiter"}
    Spare = 0
    MaxRepeats = 1
    MaxUpsets = 1
    MaxWorkers = 1
SPECIFICATION Spec
INVARIANTS ExitOnce
CHECK_DEADLOCK FALSE
