CONSTANTS
    home = home
    other = other
    r1 = r1
    r2 = r2
    r3 = r3
    None = None
    Lost = Lost
    Orgs = {home, other}
    Rows = {r1, r2, r3}
    OrgOf <- MCOrgOf
    Keys = {k1, k2}
    Texts = {t1, t2}
    Clients = {c1, c2}
    MaxVersion = 2
SPECIFICATION Spec
PROPERTIES
    ImplementsStore
    RotationHolds
SYMMETRY MCSymmetry
