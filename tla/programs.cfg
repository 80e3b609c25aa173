SPECIFICATION Spec
CONSTANTS
  NProgs = 4
  Key <- MCKey
  TooLong = {2, 3}
  OverDBus = {4}
  MaxResets = 2
INVARIANTS TypeOK NothingLeftBehind NothingMissing
