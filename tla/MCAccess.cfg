SPECIFICATION Spec
CONSTANTS
    chief = chief
    user = user
    guest = guest
    guests = guests
    org = org
    east = east
    west = west
    plan = plan
    chiefs = chiefs
    users = users
    None = None
    Principals = {chief, user}
    OrgAdmin = chief
    Scopes = {org, east, west, plan, chiefs, users}
    Root = org
    Kind <- MCKind
    Name <- MCName
    Personal <- MCPersonal
    Legacy = {user}
    Grantees = {user}
    GrantedRoles = {"writer", "admin"}
    MaxDepth = 3
    MaxGrants = 1
    MaxPolicies = 1
    PolicyChoices = {{}, {"delete", "export"}}
INVARIANTS
    TypeOK
    TreeOK
    PersonalApart
PROPERTIES
    PersonalForAll
    RestrictionsSurvive
    RolesRiseFromAbove
    MergeOpensOnlyMoved
VIEW MCView
