SPECIFICATION Spec
CONSTANTS
    m1 = m1
    m2 = m2
    w1 = w1
    w2 = w2
    x = x
    s2 = s2
    b1 = b1
    b2 = b2
    o1 = o1
    Wards = {w1, w2}
    OtherScopes = {x}
    ForeignSites = {s2}
    Buildings = {b1, b2}
    Orgs = {o1}
    Callings = {}
    WardSite <- TwoSites
    WardBuilding <- MCWardBuilding
    BuildingSite <- MCBuildingSite
    Principals <- MCPrincipals
    SeatCap <- MCSeatCap
    StakeSeatCap = 2
    Members = {m1}
    ReqIds = {r1, r2, r3, r4}
    Inputs <- OneMemberInputs
    InitSeats <- MCInitSeats
    InitAccess <- MCInitAccess
    MaxDeliveries = 2
INVARIANTS
    SeatsSound
    FormsAdmitted
    RowsMeanWhatTheyShow
PROPERTIES
    CompletionsTouchTheirSlot
    OnlyAddressedGrantsGo
    AccessReapedWithLastGrant
    SettledStays
\* Every request id has been used and settled: nothing is left to do.
CHECK_DEADLOCK FALSE
SYMMETRY ReqSymmetry
