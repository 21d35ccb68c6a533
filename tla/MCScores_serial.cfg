\* The test engine: one session at a time, time stamps without a zone, a server
\* clock that is not behind the clients'.
CONSTANTS
  s1 = s1
  s2 = s2
  r1 = r1
  r2 = r2
  m1 = m1
  m2 = m2
  m3 = m3
  Handlers = {h1}
  Schools = {s1, s2}
  Runs = {r1, r2}
  RunSchool <- MCRunSchool
  Slots = {m1}
  UnknownSlots = {}
  Levels = {1, 2}
  Times = {1, 2, 3}
  BadTime = BadTime
  ServerTimes = {3, 4}
  Batches <- MCAnyBatches
  AwareTimestamps = FALSE
  NoRow = NoRow
SPECIFICATION Spec
INVARIANTS
  TypeOK
  ConflictJustified
  NewerEntryWins
PROPERTY
  ImplementsLww
CHECK_DEADLOCK FALSE
