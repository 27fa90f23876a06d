SPECIFICATION SpecAny
CONSTANTS
  h1 = h1
  h2 = h2
  h3 = h3
  r1 = r1
  r2 = r2
  r3 = r3
  None = None
  Handlers = {h1, h2, h3}
  Runs = {r1, r2, r3}
  RetryLimit = 1
  MaxJobs = 1
  MaxRequests = 1
  Normal <- NormalForm
  Hardware <- HardwareOf
  Exports <- TheExports
  Known <- TheCatalog
  Switched <- TheModel
  Fixes <- TheFixes
  HandValues <- TheEdits
  HandMade <- TheHandMade
  MaxBatches = 2
  MaxFixes = 1
  MaxHands = 1
  MaxDevices = 3
  Reading <- TheReading
  Words <- TheWords
  CanonicalPlatform <- TheCanonical
  Placeholders <- NoValue
  Sheets <- TheSheets
  Records <- TheRecords
  Volatile <- Wavering
  Aliases <- TheAliases
  Mappings <- TheMappings
  Supports <- TheSupports
  Joined <- TheJoined
  Template <- TheTemplate
  TypeRules <- TheTypeRules
CHECK_DEADLOCK FALSE
SYMMETRY HandlerSymmetry
INVARIANTS TypeOK OneRunAtATime OneSyncAtWork SuccessIsPublished IdentifiersNameOneDevice TrustIsEarned RowsHangTogether
PROPERTIES RepeatsAreQuiet BulkIsRowByRow
