CONSTANTS
    app = app
    list = list
    item = item
    Module <- MCModule
    Entry = app
    Imports <- MCImports
    Upward <- MCUpward
    Unseen <- MCUnseen
    Request = {r1, r2}
    None = None
    RingCapacity = 1
    MaxSaves = 2
    MaxVisits = 1
SPECIFICATION Spec
INVARIANTS PageIsCurrent ErrorsAreTrue StaleEntriesAreKnown CascadeReachesImporters
PROPERTIES ComesToRest
CHECK_DEADLOCK FALSE
