SPECIFICATION Spec
CONSTANTS
    Requests = {r1, r2}
    Ops = {"login", "refresh", "logout", "change"}
    Passwords = {p1, p2}
    First = p1
    Threshold = 1
    AccessLife = 1
    RefreshLife = 3
    CheckDepth = 1
    Keep = 2
    KeptTokens = 3
    MaxVersion = 2
    MaxTime = 2
SYMMETRY RequestSymmetry
INVARIANTS TypeOK OldPasswordIsOut AccessLogoutIsFinal NoQuickReuse
