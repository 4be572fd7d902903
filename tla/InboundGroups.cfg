CONSTANTS
    Accounts = {root, u1}
    Root = root
    Connectors = {c1}
    Groups = {g1}
    Names = {n1, n2}
    Factors = {f1, f2}
    Graces = {0, 1}
    Writes = {r1, r2}
    Local = local
    Nobody = nobody
    NotRequired = notRequired
    None = none
    MaxInstant = 1
    MaxOps = 5
SPECIFICATION GroupsSpec
SYMMETRY Symmetry
CHECK_DEADLOCK FALSE
INVARIANTS
    PoliciesCanBeMet
PROPERTIES
    GraceNeverRestarts
    StaleWritesUndoNothing
