SPECIFICATION Spec
CONSTANTS
    ann = ann
    bob = bob
    s1 = s1
    s2 = s2
    k1 = k1
    q1 = q1
    q2 = q2
    r1 = r1
    r2 = r2
    None = None
    Users = {ann, bob}
    Founder = ann
    Sessions = {s1, s2}
    AccountOf <- MCAccountOf
    Requests = {r1, r2}
    Granted = {"member"}
    Keys = {k1}
    OwnerOf <- BobAsks
    Questions = {q1, q2}
    MaxRevision = 3
    MaxGeneration = 2
    MaxAttempts = 2
INVARIANT
    OneCompletedTurn
CHECK_DEADLOCK FALSE
