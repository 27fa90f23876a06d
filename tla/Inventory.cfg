SPECIFICATION SpecAny
CONSTANTS
  a1 = a1
  a2 = a2
  j1 = j1
  e1 = e1
  e2 = e2
  g1 = g1
  g2 = g2
  t1 = t1
  t2 = t2
  None = None
  Admins = {a1, a2}
  Jobs = {j1}
  Identities = {e1, e2}
  Grants = {g1, g2}
  Works <- HomeOnly
  MaxRotations = 1
  Losses = FALSE
  Requests <- TheRequests
  Contracts <- TheContracts
  Customers <- TheCustomers
  Units <- TheUnits
  Sites <- TheSites
  Names <- TheNames
  UnitEdits <- TheUnitEdits
  SiteEdits <- TheSiteEdits
  Occupied = {}
  Editors <- TheEditors
  Home <- TheHomes
  Releases <- TheReleases
  Vendors <- TheVendors
  AllDevices <- TheDevices
  FirstModels <- TheModels
  FirstFamilies <- TheFamilies
  Unborn <- TheUnborn
  Edits <- TheEdits
  ModelEdits <- TheModelEdits
  BulkChanges <- TheBulkChanges
  Selections <- TheSelections
  MaxWrites = 3
  Texts <- TheTexts
  Normal <- NormalForm
  Lower <- LowerCase
  Fits <- Patterns
  Changed <- NoTable
  Parts <- NoTable
  Fields <- TheFields
  Context <- TheContext
  Engineers <- TheEngineers
  Rows <- TheRows
  Values <- RowValues
  Guided <- GuidedRules
  Scoped <- ScopedRules
  Asks <- AsksOf
  Managers <- OneManager
  RuleId <- RuleOrder
  MappingKeys <- OneKey
  Targets <- TheRows
  MaxRevisions = 3
  MaxEdits = 1
  MaxVersions = 3
INVARIANTS TypeOK EnabledIsScoped StoredTokenIsLive EnabledIsVerifiedInTurn MemoryHasOneVoice UnitsFormAForest SitesStayWithTheirCustomer RepairChoicesAgree
PROPERTIES RulesDecide ReviewedChangesAreExact
