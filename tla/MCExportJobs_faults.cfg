\* Every fault, a shared header key and two schools.
CONSTANTS
  s1 = s1
  s2 = s2
  x1 = x1
  x2 = x2
  q1 = q1
  q2 = q2
  q3 = q3
  w1 = w1
  w2 = w2
  Owner <- MCOwner
  Family <- MCFamily
  NoKey = NoKey
  NoJob = NoJob
  NoFile = NoFile
  NoMsg = NoMsg
  NoStatus = NoStatus
  NoAsk = NoAsk
  Requests = {q1, q2}
  Workers = {w1, w2}
  Schools = {s1, s2}
  Types = {"assessment_pdf"}
  Subjects = {x1, x2}
  HeaderKeys = {"k"}
  MaxRetries = 1
  RetryCopies = {1}
  Faults = {"api_crash", "broker_down", "worker_crash", "heartbeat_lost", "interrupt", "too_old"}
  MaxFaults = 2
SPECIFICATION Spec
INVARIANTS
  TypeOK
  OneJobPerKey
  QueuedJobsExist
  CompletedHasFile
  DownloadScoped
PROPERTY
  FileKept
CHECK_DEADLOCK FALSE
