SPECIFICATION FairSpec
CHECK_DEADLOCK FALSE
CONSTANTS
    Users = {a, b}
    Admins = {a, b}
    Upstream = {b}
    Requests = {r1, r2}
    Never = Never
    MaxTime = 1
    MaxWrites = 3
PROPERTIES
    AdminsOutliveWrites
    EndsAreEnforced
