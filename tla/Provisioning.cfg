SPECIFICATION Spec
CONSTANTS
    webhook = webhook
    scim = scim
    Systems = {webhook, scim}
    ScimSystems = {scim}
    Users = {u1}
    Dispatchers = {d1, d2}
    Tokens = {t1, t2, t3}
    NoToken = NoToken
    AttemptLimit = 1
    MaxSerial <- SerialBound
    MaxResets = 1
    Removable = {webhook, scim}
    MaxRestores = 1
SYMMETRY Interchangeable
ACTION_CONSTRAINT Scenarios
INVARIANTS
    OneWriteInFlight
    NoLostDesiredState
    AckedOffboardingIsReal
    RestoreIsQuiet
PROPERTIES
    WritesLandInOrder
