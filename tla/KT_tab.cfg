SPECIFICATION DevicesSpec
CONSTANTS
    ann = ann
    ben = ben
    maple = maple
    oak = oak
    e1 = e1
    e2 = e2
    t1 = t1
    home = home
    Accounts = {ann, ben}
    StakeIds = {maple, oak}
    Eids = {e1, e2}
    Serves <- MCServes
    FirstRoles <- MCFirstRoles
    MaxEvents = 2
    Addresses = {ann, ben}
    MaxLinks = 4
    MaxSlips = 2
    MaxDrops = 1
    Tabs = {t1, t2}
    StakeSites = {home, s2}
    MaxToggles = 2
    MaxMoves = 1
    Devices = {d1}
    Categories = {"newRequest", "syncReminder"}
    MaxTokens = 2
PROPERTIES
    PanelSettles
    LinksLeadIn
    OffersFollowTabs
    WorkingPrunedOnlyIfNewer
\* Every event, toggle and move has been made, and nobody may be signed in.
CHECK_DEADLOCK FALSE
