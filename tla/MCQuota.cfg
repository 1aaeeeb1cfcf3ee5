CONSTANTS
    free = free
    paid = paid
    a = a
    b = b
    c = c
    None = None
    Replicas = {a, b}
    Rows <- MCRows
    Kind <- MCKind
    OrgAdmin = 1
    Owner <- MCOwner
    Instance <- MCInstance
    Plans = {free, paid}
    Limits <- MCLimits
    Amounts = {1}
    MaxPayload = 1
    Calls = {"submit", "admit", "purge"}
SPECIFICATION FairSpec
INVARIANT TypeOK
PROPERTIES
    NoOverAdmission
    CounterFollows
    ImplementsAllowance
    NobodyDisplaced
    CallsReturn
CHECK_DEADLOCK FALSE
