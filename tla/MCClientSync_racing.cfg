\* Taps on cells that are being synced, in two tabs, were the ids accepted;
\* on SQLite, where the server reports conflicts.
CONSTANTS
  t1 = t1
  t2 = t2
  r1 = r1
  r2 = r2
  m1 = m1
  m2 = m2
  k1 = k1
  k2 = k2
  Tabs = {t1, t2}
  Calls = {k1, k2}
  Runs = {r1, r2}
  OfflineRuns = {}
  Slots = {m1}
  NoRun = NoRun
  UuidIds = TRUE
  AwareTimestamps = FALSE
  MaxEdits = 2
  MaxLosses = 1
  MaxLogouts = 1
SPECIFICATION Spec
INVARIANTS
  ServerHoldsOwnTaps
SYMMETRY Symmetry
CHECK_DEADLOCK FALSE
