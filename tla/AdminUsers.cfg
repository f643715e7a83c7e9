SPECIFICATION MCSpec
CONSTANTS
    ann = ann
    dan = dan
    a1 = a1
    a2 = a2
    a3 = a3
    eAnn = eAnn
    eDan = eDan
    eNew = eNew
    fa = fa
    fb = fb
    fx = fx
    Request = {a1, a2, a3}
    Offered <- AllOps
    Seed <- TwoSeed
    SeedRow <- TwoRow
    SeedGrants <- TwoGrants
    SeedPool <- TwoPool
    Email = {eAnn, eDan, eNew}
    Factory = {fa, fb}
    Name = {fa, fb, fx}
    MaxFaults = 2
    None = None
CHECK_DEADLOCK FALSE
INVARIANTS
    CreatedUsersSignIn
    RowsAgreeInTurn
PROPERTY LocksAreReleased
