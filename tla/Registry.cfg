SPECIFICATION RegistrySpec
CONSTANTS
  Fetch = {f1, f2}
  Document <- MCDocument
  MaxConcurrent = 2
  MaxRetries = 2
  Updated <- MCUpdated
  Malformed <- MCMalformed
  MaxVersion = 2
  MaxFetches = 3
  MaxUpsets = 1
  None = None
  Empty = Empty
  Garbage = Garbage
SYMMETRY MCSymmetry
CHECK_DEADLOCK FALSE
INVARIANTS
  AnswersAreCurrent
  FailuresHaveACause
