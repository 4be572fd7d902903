SPECIFICATION FairSpec
CONSTANTS
    webhook = webhook
    scim = scim
    Systems = {webhook}
    ScimSystems = {}
    Users = {u1}
    Dispatchers = {d1}
    Tokens = {t1, t2, t3}
    NoToken = NoToken
    AttemptLimit = 2
    MaxSerial <- SerialBound
    MaxResets = 0
    Removable = {}
    MaxRestores = 0
PROPERTIES
    DesiredStateReached
