\* Two requests, for the same or for different packages.
SPECIFICATION FairSpec
CONSTANTS
  Request = {r1, r2}
  Package = {p1, p2}
  NoOne = NoOne
  NoPackage = NoPackage
CHECK_DEADLOCK FALSE
INVARIANTS
  OneInstallerPerPackage
  EntriesHaveInstallers
  InterferenceIsAbandoned
PROPERTIES
  RequestsEnd
