SPECIFICATION FairSpec
CONSTANTS
    Requests = {r1, r2, r3}
    Ops = {"login", "guess"}
    Passwords = {p1}
    First = p1
    Threshold = 3
    AccessLife = 1
    RefreshLife = 3
    CheckDepth = 1
    Keep = 2
    KeptTokens = 0
    MaxVersion = 0
    MaxTime = 0
INVARIANTS LocksHold
PROPERTIES GuessingLocks
