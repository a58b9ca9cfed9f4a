SPECIFICATION EventsSpec
CONSTANTS
    Client = {c1}
    HubCapacity = 2
    SourceCapacity = 1
    AckCapacity = 1
    Clear <- MCClear
    Filters <- MCFilters
    MaxErrors = 2
    MaxExtras = 1
    MaxOthers = 1
    MaxAsks = 2
INVARIANTS
    OnlyWhatWasAskedFor
PROPERTIES
    ViewConverges
    LeaversAreForgotten
CHECK_DEADLOCK FALSE
