SPECIFICATION Spec
CONSTANTS
    Sessions = {s1, s2}
    Tokens = {t1}
    Requests = {r1, r2}
    Operations = {"totp/enable", "register/finish", "passkey/delete", "recovery-codes", "device/pair"}
    None = None
    MaxAttempts = 2
    MaxChanges = 1
SYMMETRY Symmetry
CHECK_DEADLOCK FALSE
PROPERTIES
    OneProofOneChange
    ProofsKeepTheirLimits
