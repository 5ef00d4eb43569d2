CONSTANTS
  t1 = t1
  t2 = t2
  j1 = j1
  Tabs = {t1, t2}
  Jobs = {j1}
  LEASE = 2
  IDLE = 3
  MaxEpoch = 2
  MaxRevision = 3
  MaxActivity = 1
  Nobody = Nobody
  Nothing = Nothing
SPECIFICATION FairSpec
INVARIANTS NoSurprise
PROPERTIES NothingOverwritten ForgottenEnds
