SPECIFICATION Spec
CONSTANTS
  Names = {home, work}
  ProgNames = {edit, view}
  MaxStackSize = 2
  MaxDomains = 1
  MaxRules = 1
  MaxHidden = 1
  NoName = NoName
  NoFile = NoFile
  Truncated = Truncated
INVARIANTS TypeOK HiddenAreThere SamePrograms UnchangedIsSavedWhileKept
PROPERTY ImplementsHistory
SYMMETRY Interchangeable
