\* The page as it is: the server refuses every batch for its ids.
CONSTANTS
  t1 = t1
  t2 = t2
  r1 = r1
  r2 = r2
  m1 = m1
  m2 = m2
  k1 = k1
  k2 = k2
  Tabs = {t1, t2}
  Calls = {k1, k2}
  Runs = {r1, r2}
  OfflineRuns = {r2}
  Slots = {m1}
  NoRun = NoRun
  UuidIds = FALSE
  AwareTimestamps = TRUE
  MaxEdits = 2
  MaxLosses = 1
  MaxLogouts = 1
SPECIFICATION FairSpec
INVARIANTS
  TypeOK
  TapsAreKept
PROPERTY
  TapsAreSent
CHECK_DEADLOCK FALSE
