SPECIFICATION StakeDocsSpec
CONSTANTS
    Names = {maple, oak}
    Wards = {w1}
    Sites = {s1}
    Orgs = {g1}
    Envs = {e1, e2}
    Operators = {o1, o2}
    Tabs = {t1, t2}
    HomeEids = {e1, None}
    None = None
    MaxEdits = 3
    sA = sA
    sB = sB
    w1 = w1
    e2 = e2
    FirstSites <- MCFirstSites
    Stakes = {sA, sB}
    WardCodes = {w1}
    FirstStakes = {sA}
    AccessDocs <- MCAccessDocs
    MaxWrites = 2
    MaxAccounts = 1
    MaxFaults = 1
INVARIANTS
    SitesSound
    Current
PROPERTIES
    WardsStayBound
    RunHeals
\* Every edit, write and account has been made and handled.
CHECK_DEADLOCK FALSE
