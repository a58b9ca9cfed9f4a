CONSTANTS
    Path = {p1, p2}
    ChannelCapacity = 2
    BatchWindow = 1
    BatchDebounce = 3
    MaxWait = 4
    Poll = 2
    MaxEvents = 7
    AgeCap = 8
SPECIFICATION LoopSpec
INVARIANTS OverdueOnlyUnderFire
PROPERTIES ImplementsFeed AcceptedIsDispatched
CHECK_DEADLOCK FALSE
