\* What a request for a DOCX gets.
CONSTANTS
  s1 = s1
  s2 = s2
  x1 = x1
  x2 = x2
  q1 = q1
  q2 = q2
  q3 = q3
  w1 = w1
  w2 = w2
  Owner <- MCOwner
  Family <- MCFamily
  NoKey = NoKey
  NoJob = NoJob
  NoFile = NoFile
  NoMsg = NoMsg
  NoStatus = NoStatus
  NoAsk = NoAsk
  Requests = {q1, q2}
  Workers = {w1}
  Schools = {s1}
  Types = {"assessment_pdf", "assessment_docx"}
  Subjects = {x1}
  HeaderKeys = {}
  MaxRetries = 0
  RetryCopies = {1}
  Faults = {}
  MaxFaults = 0
SPECIFICATION Spec
INVARIANT
  DownloadHasAskedType
CHECK_DEADLOCK FALSE
