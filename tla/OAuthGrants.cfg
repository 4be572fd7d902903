SPECIFICATION FairSpec
CONSTANTS
    u1 = u1
    Users = {u1}
    Clients = {c1}
    Sessions = {s1}
    Exchanges = {x1, x2}
    Owner <- OneOwner
    Receivers = {c1}
    MaxCodes = 1
    MaxChanges = 2
    ClientToggles = 1
INVARIANTS
    UsableTokenHasAccess
    SpentStaysSpent
    EndedLoginsAnnounced
PROPERTIES
    LoginsFollowAccess
