CONSTANTS
    Users = {u1, u2}
    Connectors = {c1, c2}
    Emails = {e1, e2, e3}
    Requests = {r1}
    Forms = {f1}
    Local = local
    Nobody = nobody
    Connected0 = {c1}
    NoEmail = noEmail
    ByHand = byHand
    MaxOps = 6
SPECIFICATION Spec
SYMMETRY Symmetry
CHECK_DEADLOCK FALSE
INVARIANTS
    StatusFollowsSource
    LinksFitTheirAccount
PROPERTIES
    SidesKeepTheirOwn
