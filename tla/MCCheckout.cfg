CONSTANTS
    acme = acme  bell = bell  s1 = s1  s2 = s2
    c1 = c1  c2 = c2  p1 = p1  p2 = p2
    free = free  paid = paid  e1 = e1  e2 = e2  e3 = e3
    None = None
    Orgs = {acme, bell}
    Subscriptions = {s1, s2}
    Customers = {c1}
    CustomerOf <- MCCustomerOf
    Prices = {p1, p2}
    Plans = {free, paid}
    DefaultPlan = free
    PriceMap <- MCPriceMap
    EventIds = {e1, e2}
    AssignedPlans = {}
    BoundByHand = {s1}
    MaxRequests = 2
    MaxTime = 2
SPECIFICATION Spec
SYMMETRY IdsOrgs
INVARIANTS TypeOK OneOrgEach CompletionIsWhole OneSession
PROPERTIES EventsCountOnce
