\* Every part by itself; what is created or edited a bounded number of times
\* may stop there.
SPECIFICATION PlatformSpec
CHECK_DEADLOCK FALSE
SYMMETRY Symmetry
CONSTANTS
  Handlers = {r1, r2}
  MaxPairs = 4
  MaxVersion = 1
  SerialChanges = TRUE
  Requests = {r1, r2}
  None = None
  Schools = {s1, s2}
  Users = {root, admin, teacher}
  Classes = {c1}
  Learners = {l1}
  Works = {w1}
  Root = root
  Admin = admin
  Home = s1
  RecordChanges = 1
  RecordRequests = 1
  PeopleChanges = 2
  PeopleRequests = 2
  Ids = {i1, i2, i3, i4}
  MaxSessions = 1
  MaxToggles = 5
  Ips = {a, b}
  Failures = 2
  Window = 2
  Duration = 2
  MaxCount = 3
  MaxOpened = 1
  MaxStops = 1
  Contents = {1, 2}
  Texts = {ours, mine}
  MaxWeeks = 2
  MaxPerWeek = 2
  MaxWrites = 2
  ClassList = {1, 2}
  MaxMarks = 4
  Entered <- MCEntered
  MaxSaves = 2
  Left = {3}
  Exams <- MCExams
  Maxima <- MCMaxima
  Base = 21
  Sheets <- MCSheets
  Items = {i1, i2}
  Levels = {0, 4}
  DefaultMax = 4
  ListedLearners = 1
  ClientPairs = 3
  MaxEvents = 3
  MaxSubs = 2
  MaxAgain = 1
  Conns = {n1, n2}
  ItemTexts = {1, 2}
  Blank = 1
  Generated = 2
  MaxItems = 2
  AssessmentIds = {1, 2, 3}
  FirstRows <- MCFirstRows
  MaxEdits = 2
  MaxSeeds = 1
  MaxRequests = 1
  MaxCame = 4
  MaxFailed = 1
INVARIANTS
  AllTyped
  SchoolsAgree
  ViewsAgree
  AdminRemains
  AcceptedIsCurrent
  RotationBounded
  SessionsControlled
  GuessesBounded
  WaitingHelps
  ScheduleSound
  SchemeAgrees
  MarksStand
  ReportsAgree
  TokensKept
  CountNearVotes
  SubscriptionKept
  OwnUntilCommit
  ItemsKept
  CatalogueSound
  ThrottleSound
