SPECIFICATION FairSpec
CONSTANTS
    t1 = t1
    t2 = t2
    s1 = s1
    s2 = s2
    None = None
    SiteOf <- FirstSite
    Tabs = {t1}
    Phones = {p1, p2}
    Jobs = {j1}
    Requests = {r1}
    Sites = {s1, s2}
    HomeTab <- SameSite
    Clickers = {t1}
    StableTabs = {t1}
    MaxFaults = 2
INVARIANTS
    RightSiteOnly
    AppliedIsDone
PROPERTIES
    EveryJobSettles
