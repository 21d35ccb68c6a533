\* Workers crash and deliveries double; nothing is lost.
CONSTANTS
  s1 = s1
  s2 = s2
  x1 = x1
  x2 = x2
  q1 = q1
  q2 = q2
  q3 = q3
  w1 = w1
  w2 = w2
  Owner <- MCOwner
  Family <- MCFamily
  NoKey = NoKey
  NoJob = NoJob
  NoFile = NoFile
  NoMsg = NoMsg
  NoStatus = NoStatus
  NoAsk = NoAsk
  Requests = {q1, q2}
  Workers = {w1, w2}
  Schools = {s1}
  Types = {"assessment_pdf"}
  Subjects = {x1}
  HeaderKeys = {}
  MaxRetries = 1
  RetryCopies = {1, 2}
  Faults = {"worker_crash", "heartbeat_lost"}
  MaxFaults = 2
SPECIFICATION FairSpec
INVARIANTS
  UnfinishedIsCarried
PROPERTY
  EveryJobSettles
CHECK_DEADLOCK FALSE
