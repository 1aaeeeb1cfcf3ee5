SPECIFICATION Spec
CONSTANTS
    admin = admin
    ann = ann
    bob = bob
    sales = sales
    ops = ops
    desk = desk
    None = None
    OrgAdmin = admin
    Kind <- MCKind
    Owner <- MCOwner
    InitialRoles <- MCInitialRoles
    Principals = {admin, ann}
    Scopes = {sales, ops}
    Deletable = {sales, ops}
    GrantedRoles = {"none", "writer"}
    Jobs = {j1, j2}
    IdemKeys = {k1, k2}
    MaxAttempts = 1
    Lengths = {1}
    Offsets = {0}
SYMMETRY MCSymmetry
INVARIANT OneJobPerKey
