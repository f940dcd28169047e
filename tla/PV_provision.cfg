SPECIFICATION PSpec
CONSTANTS
    m1 = m1
    w1 = w1
    w2 = w2
    s2 = s2
    b1 = b1
    b2 = b2
    b3 = b3
    x1 = x1
    d1 = d1
    d2 = d2
    d3 = d3
    d4 = d4
    Wards = {w1, w2}
    OtherScopes = {}
    ForeignSites = {s2}
    Buildings = {b1, b2, b3}
    Orgs = {}
    Callings = {}
    WardSite <- MCWardSite
    WardBuilding <- MCWardBuilding
    SeatCap <- MCSeatCap
    StakeSeatCap = 0
    Members = {m1}
    ReqIds = {r1, r2, r3}
    Inputs <- MCInputs
    InitSeats <- MCInitSeats
    InitAccess <- MCInitAccess
    MaxDeliveries = 1
    BuildingSite <- MCBuildingSite
    Unruled = {}
    Strays = {x1}
    Doors = {d1, d2, d3, d4}
    DoorsOf <- MCDoorsOf
    InitKindoo <- MCInitKindoo
    MaxFaults = 2
INVARIANTS
    PredictionsHold
    DoorsMatchSeat
PROPERTIES
    OnlyRevokesWhatGoes
\* Every request id has been used and settled: nothing is left to do.
CHECK_DEADLOCK FALSE
SYMMETRY ReqSymmetry
