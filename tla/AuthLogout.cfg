SPECIFICATION Spec
CONSTANTS
    Requests = {r1, r2}
    Ops = {"login", "refresh", "logout"}
    Passwords = {p1}
    First = p1
    Threshold = 1
    AccessLife = 1
    RefreshLife = 3
    CheckDepth = 1
    Keep = 2
    KeptTokens = 3
    MaxVersion = 0
    MaxTime = 3
SYMMETRY RequestSymmetry
INVARIANTS LogoutIsFinal
