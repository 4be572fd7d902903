CONSTANTS
    Users = {u1, u2}
    Roles = {r1}
    Root = root
    Holders0 = {u1}
    MaxChanges = 2
SPECIFICATION FairAccessSpec
CHECK_DEADLOCK FALSE
INVARIANTS
    ToldWhatHolds
PROPERTIES
    ApprovalTakesEffect
    FollowUpSettles
