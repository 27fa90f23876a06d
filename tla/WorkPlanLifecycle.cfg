SPECIFICATION Spec
CONSTANTS
  c1 = c1
  c2 = c2
  d1 = d1
  d2 = d2
  p1 = p1
  p2 = p2
  t1 = t1
  w1 = w1
  e1 = e1
  b1 = b1
  here = here
  there = there
  None = None
  Clients = {c1, c2}
  Devices = {d1}
  Plans = {p1}
  LegacyPlans = {p1}
  Dates = {t1}
  Windows = {w1}
  Exceptions = {e1}
  Bases = {b1}
  Contexts = {here, there}
  Technical <- ExceptedFact
  Clocks = {0}
  MaxTime = 3
  MaxChanges = 0
SYMMETRY ClientSymmetry
INVARIANTS TypeOK WorkKeepsToTheProposal ApprovalIsOnRecord
PROPERTIES NoBlindWrite ImplementsLifecycle
