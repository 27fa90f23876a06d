SPECIFICATION FairSpec
CONSTANTS
  h1 = h1
  h2 = h2
  h3 = h3
  r1 = r1
  r2 = r2
  r3 = r3
  None = None
  Handlers = {h1, h2}
  Runs = {r1, r2}
  RetryLimit = 1
  MaxJobs = 1
  MaxRequests = 1
INVARIANTS CompletedJobsSynced
PROPERTIES OutcomesAreFinal SyncsSettle
