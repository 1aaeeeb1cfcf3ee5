CONSTANTS
    home = home
    vendor = vendor
    admin = admin
    bob = bob
    sol = sol
    c1 = c1
    c2 = c2
    k1 = k1
    k2 = k2
    short = short
    long = long
    None = None
    Tenants = {home, vendor}
    Principals = {admin, bob, sol}
    OrgOf <- MCOrgOf
    Admins = {admin}
    Defaults = {sol}
    Reporters = {admin, bob}
    Configurations <- MCConfigurations
    Clients = {c1, c2}
    Calls <- MCCalls
    Keys = {k1}
    Texts = {short, long}
    Size <- MCSize
    ReplySize = 1
    MaxOpen = 1
    MaxTickets = 2
    MaxReplies = 2
    MaxBytes = 4
SPECIFICATION Spec
INVARIANTS
    TypeOK
    WithinLimits
PROPERTIES
    OnlyEligible
    SubmittedOnce
