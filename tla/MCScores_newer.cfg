\* PostgreSQL, one request at a time: what happens to a newer entry.
CONSTANTS
  s1 = s1
  s2 = s2
  r1 = r1
  r2 = r2
  m1 = m1
  m2 = m2
  m3 = m3
  Handlers = {h1}
  Schools = {s1, s2}
  Runs = {r1, r2}
  RunSchool <- MCRunSchool
  Slots = {m1}
  UnknownSlots = {}
  Levels = {1, 2}
  Times = {1, 2, 3}
  BadTime = BadTime
  ServerTimes = {3}
  Batches <- MCAnyBatches
  AwareTimestamps = TRUE
  NoRow = NoRow
SPECIFICATION Spec
INVARIANT
  NewerEntryWins
CHECK_DEADLOCK FALSE
