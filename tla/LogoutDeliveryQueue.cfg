SPECIFICATION FairSpec
CHECK_DEADLOCK FALSE
CONSTANTS
    c1 = c1
    Deliveries = {1, 2}
    Clients = {c1}
    ClientOf <- OneClient
    Workers = {w1, w2}
    Tokens = {t1, t2, t3}
    NoToken = NoToken
    LogoutAttempts = 2
    MaxRetries = 1
    MaxRestarts = 1
INVARIANTS
    OneInFlightUnlessRetried
    AbsenceMeansTold
PROPERTIES
    DeliveredIsFinal
    AttemptsRunOut
