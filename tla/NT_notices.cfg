SPECIFICATION NoticesSpec
CONSTANTS
    m1 = m1
    m2 = m2
    m3 = m3
    w1 = w1
    b1 = b1
    o1 = o1
    Wards = {w1}
    OtherScopes = {}
    ForeignSites = {}
    Buildings = {b1}
    Orgs = {o1}
    Callings = {}
    WardSite <- MCWardSite
    WardBuilding <- MCWardBuilding
    SeatCap <- MCSeatCap
    StakeSeatCap = 2
    Members = {m1, m2, m3}
    ReqIds = {r1, r2}
    Inputs <- MCInputs
    InitSeats <- MCInitSeats
    InitAccess <- MCInitAccess
    MaxDeliveries = 1
    MaxBacklog = 1
    MaxIncidents = 1
INVARIANTS
    OverCapsReflectSeats
    TrailTrue
    OncePerTip
    OutcomeAnnounced
\* Every request id has been used, settled and announced.
CHECK_DEADLOCK FALSE
SYMMETRY ReqSymmetry
