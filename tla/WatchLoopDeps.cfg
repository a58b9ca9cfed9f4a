\* The dep watcher's timings: a batch window of u64::MAX is never reached.
CONSTANTS
    Path = {p1, p2}
    ChannelCapacity = 2
    BatchWindow = 9
    BatchDebounce = 3
    MaxWait = 4
    Poll = 2
    MaxEvents = 3
    AgeCap = 8
SPECIFICATION LoopSpec
PROPERTIES AcceptedIsDispatched
CHECK_DEADLOCK FALSE
