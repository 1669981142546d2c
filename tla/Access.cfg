SPECIFICATION AccessSpec
CONSTANTS
    ann = ann
    bob = bob
    cem = cem
    s1 = s1
    s2 = s2
    s3 = s3
    r1 = r1
    r2 = r2
    Users = {ann, bob}
    Founder = ann
    Sessions = {s1, s2}
    AccountOf <- OneLoginEach
    Requests = {r1, r2}
    Granted = {"member", "admin"}
    MaxRevision = 4
    MaxGeneration = 0
SYMMETRY RequestSymmetry
INVARIANTS
    AccessTypeOK
    AdminRemains
    GrantCurrent
CHECK_DEADLOCK FALSE
