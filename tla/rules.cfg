SPECIFICATION Spec
CONSTANTS
  Names = {home, work}
  NProgs = 2
  MaxId = 2
  MaxRules = 2
  MRules = {precise, empty}
  Unconditional = {empty}
  Entered <- MCEntered
  Files <- MCFiles
  NoDomain = NoDomain
INVARIANTS TypeOK SortedByPriority WellKept SameWhenReopened
SYMMETRY Interchangeable
