\* PostgreSQL: concurrent requests, time stamps read back with their zone.
CONSTANTS
  s1 = s1
  s2 = s2
  r1 = r1
  r2 = r2
  m1 = m1
  m2 = m2
  m3 = m3
  Handlers = {h1, h2}
  Schools = {s1, s2}
  Runs = {r1, r2}
  RunSchool <- MCRunSchool
  Slots = {m1, m2, m3}
  UnknownSlots = {m3}
  Levels = {1, 2}
  Times = {1, 2}
  BadTime = BadTime
  ServerTimes = {3}
  Batches <- MCRacingBatches
  AwareTimestamps = TRUE
  NoRow = NoRow
SPECIFICATION FairSpec
INVARIANTS
  TenantIsolation
PROPERTY
  ImplementsLww
  EveryRequestAnswered
CHECK_DEADLOCK FALSE
