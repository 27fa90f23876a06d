SPECIFICATION RaceSpec
CONSTANTS
  c1 = c1
  c2 = c2
  d1 = d1
  d2 = d2
  p1 = p1
  p2 = p2
  t1 = t1
  w1 = w1
  e1 = e1
  b1 = b1
  here = here
  there = there
  None = None
  Clients = {c1, c2}
  Devices = {d1, d2}
  Plans = {p1, p2}
  LegacyPlans = {}
  Dates = {}
  Windows = {}
  Exceptions = {}
  Bases = {b1}
  Contexts = {here, there}
  Technical <- RacingFacts
  Clocks = {0}
  MaxTime = 1
  MaxChanges = 1
SYMMETRY RaceSymmetry
INVARIANTS OneActivePlanPerDevice
PROPERTIES CreatedAsPreviewed
