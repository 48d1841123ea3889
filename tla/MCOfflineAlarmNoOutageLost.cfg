CONSTANTS
    Clients = {0, 1}
    Rules <- TwoRules
    Threads = {1, 2}
    Delay = 1
    MaxHold = 0
    Cap = 2
SPECIFICATION Spec
INVARIANT NoOutageLost
