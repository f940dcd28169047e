SPECIFICATION FairSpec
CONSTANTS
    w1 = w1
    w2 = w2
    s2 = s2
    b1 = b1
    b2 = b2
    b3 = b3
    c1 = c1
    c2 = c2
    d1 = d1
    d2 = d2
    d3 = d3
    Wards = {w1, w2}
    OtherScopes = {}
    ForeignSites = {s2}
    Buildings = {b1, b2, b3}
    Orgs = {}
    Callings = {c1, c2}
    Doors = {d1, d2, d3}
    WardSite <- MCWardSite
    WardBuilding <- MCWardBuilding
    BuildingSite <- MCBuildingSite
    RuleDoors <- MCRuleDoors
    AppAccess <- MCAppAccess
    WardRank <- MCWardRank
    SeatCap <- MCSeatCap
    StakeSeatCap = 0
    KindooUsers <- MCUsers
    InitUsers <- MCInitUsers
    InitSeats <- MCInitSeats
    Requests <- MCRequests
    MaxKindooChanges = 1
    MaxRequests = 1
PROPERTIES
    OnlySurfacedGrantWritten
    FixHeals
    AccessFollowsGrants
    FixesSettle
\* The rosters agree and no change of Kindoo or request is left.
CHECK_DEADLOCK FALSE
