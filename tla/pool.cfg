SPECIFICATION FairSpec
CONSTANTS
    c1 = c1
    c2 = c2
    c3 = c3
    t1 = t1
    l1 = l1
    l2 = l2
    OrgAdmin = OrgAdmin
    None = None
    Callers <- MCCallers
    Tenants <- MCTenants
    Locators <- MCLocators
    Handles <- MCHandles
    Hung <- MCHung
INVARIANTS
    PoolInv
    OneCallInside
    NothingLeaks
    NoTwin
    ReturnsWhatWasAsked
PROPERTIES
    CallsReturn
