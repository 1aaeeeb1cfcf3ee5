SPECIFICATION Spec
CONSTANTS
    admin = admin
    ann = ann
    sales = sales
    ops = ops
    desk = desk
    k1 = k1
    None = None
    Principals <- MCPrincipals
    OrgAdmin = admin
    Scopes <- MCScopes
    Kind <- MCKind
    Owner <- MCOwner
    Deletable <- MCScopes
    Keys <- MCKeys
    GrantedRoles = {"none", "reviewer"}
    Proposals = {r1, r2, r3}
SYMMETRY MCSymmetry
INVARIANT NeverOverwritesUnseen
