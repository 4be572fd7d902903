SPECIFICATION FairSpec
CONSTANTS
    Accounts = {a}
    Addresses = {b}
    Connectors = {c}
    Users = {u}
    Subject = subject
    Many = many
    Threshold = 2
    Window = 1
    Cooldown = 2
    Ceiling = 1
    AlertAttempts = 2
    PassEvents = 2
    MaxTime = 2
    MaxOps = 4
ACTION_CONSTRAINT Scenarios
INVARIANTS
    BurstsShown
    LoginNoiseBounded
    MailIsCareful
PROPERTIES
    WorkerCatchesUp
