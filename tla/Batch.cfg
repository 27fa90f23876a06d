SPECIFICATION SpecAny
CONSTANTS
  w1 = w1
  w2 = w2
  w3 = w3
  r1 = r1
  r2 = r2
  r3 = r3
  r4 = r4
  r5 = r5
  r6 = r6
  v1 = v1
  v2 = v2
  k1 = k1
  k2 = k2
  k3 = k3
  q1 = q1
  q2 = q2
  q3 = q3
  None = None
  Rows <- AllRows
  Values = {v1}
  Issue <- Findings
  Identity <- Devices
  Ambiguous = {r5, r6}
  RuleSets <- NoRules
  Selections <- FirstRow
  Corrections <- EditOrExclude
  Workers = {w1, w2, w3}
  Keys = {k1, k2, k3}
  Requests = {q1, q2, q3}
  MaxRevision = 1
  Losses = FALSE
SYMMETRY Symmetry
CHECK_DEADLOCK FALSE
INVARIANTS RowsArePublishedAsShown HistoryKeepsItsBatch ExcludedStaysOut TurnsAddUp
PROPERTIES PublicationsAreCurrent
