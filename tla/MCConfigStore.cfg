SPECIFICATION Spec
CONSTANTS
    Handlers = {h1}
    Stats = stats
    None = None
    Bad = Bad
    MaxChanges = 2
    MaxCrashes = 2
    MaxFaults = 1
    MaxCorrupt = 1
    MaxUnreadable = 1
INVARIANTS
    StartFindsPublished
PROPERTY
    ListsReachDisk
