SPECIFICATION FairSpec
CONSTANTS
    admin = admin
    ann = ann
    bob = bob
    sales = sales
    ops = ops
    desk = desk
    None = None
    OrgAdmin = admin
    Kind <- MCKind
    Owner <- MCOwner
    InitialRoles <- MCInitialRoles
    Principals = {admin, ann, bob}
    Scopes = {sales, desk}
    Deletable = {sales, desk}
    GrantedRoles = {"none", "reviewer"}
    Jobs = {j1}
    IdemKeys = {k1}
    MaxAttempts = 3
    Lengths = {1, 2}
    Offsets = {0, 1}
INVARIANTS
    TypeOK
    ResultFromLatestClaim
    IndependentVerdict
PROPERTIES
    OutcomeFinal
    LeaseHonoured
    EventuallySettled
