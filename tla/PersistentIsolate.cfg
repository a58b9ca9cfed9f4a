\* One API call, two renders and a restart over a one-slot channel: one request
\* runs, one is queued, one waits for a slot.
SPECIFICATION FairSpec
CONSTANTS
  Api = {a1}
  Render = {p1, p2}
  a1 = a1
  p1 = p1
  p2 = p2
  Behaviour <- MCBehaviour
  NoOne = NoOne
  MaxRestarts = 1
  ChannelCapacity = 1
CHECK_DEADLOCK FALSE
INVARIANTS
  ForeignAnswersWereAbandoned
  FrameworkUnlessDisturbed
PROPERTIES
  ImplementsService
  WorkEnds
