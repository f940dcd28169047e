SPECIFICATION Spec
CONSTANTS
    t1 = t1
    t2 = t2
    s1 = s1
    s2 = s2
    None = None
    SiteOf <- FirstSite
    Tabs = {t1, t2}
    Phones = {p1}
    Jobs = {j1, j2}
    Requests = {r1}
    Sites = {s1}
    HomeTab <- SameSite
    Clickers = {}
    StableTabs = {}
    MaxFaults = 1
INVARIANTS
    StatusIsLock
    GateCoversPoll
    InvitedOnce
PROPERTIES
    KeepsPromise
SYMMETRY TabJobSymmetry
