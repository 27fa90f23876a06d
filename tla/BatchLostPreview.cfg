SPECIFICATION SpecOfCfg
CONSTANTS
  w1 = w1
  w2 = w2
  w3 = w3
  r1 = r1
  r2 = r2
  r3 = r3
  r4 = r4
  r5 = r5
  r6 = r6
  v1 = v1
  v2 = v2
  k1 = k1
  k2 = k2
  k3 = k3
  q1 = q1
  q2 = q2
  q3 = q3
  None = None
  Rows = {r1, r2}
  Values = {v1}
  Issue <- WarningFirst
  Identity <- SettledRows
  Ambiguous = {}
  RuleSets <- NoRules
  Selections <- FirstRow
  Corrections <- Edits
  Workers = {w1, w2}
  Keys = {}
  Requests = {}
  MaxRevision = 1
  Losses = FALSE
CHECK_DEADLOCK FALSE
INVARIANTS CorrectionsBuildOnEachOther
