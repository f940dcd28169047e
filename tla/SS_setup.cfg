SPECIFICATION FairSpec
CONSTANTS
    Tabs <- MCTabs
    Stakes <- MCStakes
    New <- MCNew
    MaxMoves = 2
    MaxMisses = 1
INVARIANTS
    StakeNotLost
PROPERTIES
    SetupComes
    WizardFinishes
