SPECIFICATION SpecAny
CONSTANTS
  None = None
  Engineers = {e1, e2}
  Editors = {w1, w2}
  Ids = {1, 2}
  Trains = {1, 2}
  Identities <- MCIdentities
  TrainNames <- MCTrainNames
  Statuses = {"ALLOWED", "BLOCKED"}
  Equivalences = {"ANY_VERIFIED_VARIANT"}
  MaxWrites = 2
  FirstReleases <- MCFirstReleases
  FirstTrains <- MCFirstTrains
  ReleaseIds <- MCKnownIds
  TrainRows <- MCTrains
  Devices <- MCDevices
  Models <- MCTwoModels
  Standings <- MCNone
  Platforms <- MCNone
  RuleForms <- MCNone
  SaveForms <- MCSaveForms
  ExceptionForms <- MCNone
  Outcomes <- MCOutcomes
  Sites <- MCNone
  Targets <- MCTwo
  Quarter = 2
  MaxTime = 4
  MaxOverrides = 0
  MaxExceptions = 0
  MaxPlans = 0
  MaxChanges = 0
  FirstCatalog <- MCTrained
  FirstDevices <- MCFirstDevices
  FirstPolicies <- MCAnnounced
  FirstRules <- MCNone
INVARIANTS FreshPlansAreNotStale
SYMMETRY Symmetry
CHECK_DEADLOCK FALSE
