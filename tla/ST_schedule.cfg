SPECIFICATION FairSpec
CONSTANTS
    Passes = {p1, p2}
    Cycle = 2
    Slot <- MCSlot
    Backoff <- MCBackoff
    Wards = {}
    MaxQueued = 2
    MaxAttempts = 2
    MaxEdits = 1
    MaxFaults = 2
INVARIANTS
    OptOutKept
    RepeatsCostFaults
PROPERTIES
    SlotNotLost
    ReminderComes
