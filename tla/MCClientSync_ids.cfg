\* Rows named <run>_<learner>_<item>.
CONSTANTS
  t1 = t1
  t2 = t2
  r1 = r1
  r2 = r2
  m1 = m1
  m2 = m2
  k1 = k1
  k2 = k2
  Tabs = {t1}
  Calls = {k1, k2}
  Runs = {r1}
  OfflineRuns = {}
  Slots = {m1}
  NoRun = NoRun
  UuidIds = FALSE
  AwareTimestamps = TRUE
  MaxEdits = 1
  MaxLosses = 0
  MaxLogouts = 0
SPECIFICATION FairSpec
PROPERTY
  EditsReachServer
CHECK_DEADLOCK FALSE
