SPECIFICATION DevicesSpec
CONSTANTS
    ann = ann
    ben = ben
    maple = maple
    oak = oak
    e1 = e1
    e2 = e2
    t1 = t1
    home = home
    Accounts = {ann, ben}
    StakeIds = {maple, oak}
    Eids = {e1, e2}
    Serves <- MCServes
    FirstRoles <- MCFirstRoles
    MaxEvents = 1
    Addresses = {ann, ben}
    MaxLinks = 1
    MaxSlips = 0
    MaxDrops = 0
    Tabs = {t1}
    StakeSites = {home, s2}
    MaxToggles = 0
    MaxMoves = 0
    Devices = {d1}
    Categories = {"newRequest", "syncReminder"}
    MaxTokens = 2
INVARIANTS
    ManagersComeIn
\* Every event has been made, and nobody may be signed in.
CHECK_DEADLOCK FALSE
