SPECIFICATION Spec
CONSTANTS
    None = None
    Tokens = {t1, t2}
    Requests = {r1, r2}
    Codes = {k1}
    MaxAttempts = 1
    MaxFailed = 1
    MaxStep = 1
    MaxChanges = 1
SYMMETRY Symmetry
CHECK_DEADLOCK FALSE
INVARIANTS
    TokenOpensOneSession
    CodesUsedOnce
    SessionsNeedActive
    GuessingBounded
    ApprovalOpensItsSignIn
