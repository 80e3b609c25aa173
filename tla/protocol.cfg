SPECIFICATION FairSpec
CONSTANTS
  c1 = c1
  c2 = c2
  p1 = p1
  Calls = {c1, c2}
  Daemons = {d1, d2}
  Progs = {p1}
  comm <- OneProg
  hook <- MixedHooks
  NoPid = NoPid
  Torn = Torn
INVARIANTS TypeOK HookMutex VerdictIsForTheCall QuestionIsWhole BoundedDrift
PROPERTIES CallReturns ImplementsService
