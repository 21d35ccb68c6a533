------------------------------ MODULE Platform ------------------------------
(***************************************************************************)
(* The components that share no state with each other, side by side: a     *)
(* behaviour of this module is a behaviour of one of them, the one that    *)
(* the initial state chooses.  Accounts is extended, the others are        *)
(* instances.                                                              *)
(***************************************************************************)
EXTENDS Accounts

CONSTANTS
  Requests, None,
  Schools, Users, Classes, Learners, Works, Root, Admin, Home,
  RecordChanges, RecordRequests, PeopleChanges, PeopleRequests,
  Ids, MaxSessions, MaxToggles,
  Ips, Failures, Window, Duration, MaxCount, MaxOpened, MaxStops,
  Contents, Texts, MaxWeeks, MaxPerWeek, MaxWrites,
  ClassList, MaxMarks, Entered, MaxSaves,
  Left, Exams, Maxima, Base, Sheets, Items, Levels, DefaultMax, ListedLearners,
  ClientPairs,
  MaxEvents, MaxSubs, MaxAgain,
  Conns,
  ItemTexts, Blank, Generated, MaxItems, AssessmentIds, FirstRows, MaxEdits,
  MaxSeeds,
  MaxRequests, MaxCame, MaxFailed

VARIABLES
  part,
  index, live, sessionCall, late,
  count, ttl, lock, login, wrong, opened, stops, orphan,
  bank, scheme, cells, draft, making, writes,
  users, classes, learners, works, seen, changes, strays, moved, demoted,
  exam, rows, page, save, last, clash, stale, saves,
  max, marks, items, levels,
  stored, issued, usable, valid, apiCall, revoking, leaving, out, flying, hit,
  votes, voteCount, toggle, overlaps, toggles,
  events, subscription, hook, answered, again, overlap,
  set, now, session,
  newItems, asked, assessments, details, patch, deleting, logged, holed, apart, edits,
  version, cache, reader, seeder, local, copy, lateSet, missed, between,
  shared, memory, connected, alone, ask, came, passed, failed, stuck

Sessions == INSTANCE Sessions WITH Handlers <- Requests, call <- sessionCall

RateLimits == INSTANCE RateLimits WITH Handlers <- Requests

SchemesOfWork == INSTANCE SchemesOfWork WITH Empty <- None

\* The records of a school, and its people without records.
Records == INSTANCE SchoolRecords WITH
  NoRow <- None, MaxChanges <- RecordChanges, MaxRequests <- RecordRequests
People == INSTANCE SchoolRecords WITH
  Classes <- {}, Learners <- {}, Works <- {}, NoRow <- None,
  MaxChanges <- PeopleChanges, MaxRequests <- PeopleRequests

TermExams == INSTANCE TermExams WITH Pages <- Requests, Learners <- ClassList, NoRow <- None

Reports == INSTANCE Reports WITH Learners <- ClassList, Listed <- ListedLearners

ApiClient == INSTANCE ApiClient WITH Calls <- Requests, MaxPairs <- ClientPairs, call <- apiCall

Roadmap == INSTANCE Roadmap WITH Users <- Ids, count <- voteCount

Billing == INSTANCE Billing WITH Hooks <- Requests, NoRow <- None, row <- subscription

TenantPool == INSTANCE TenantPool WITH Nobody <- Home

\* Assessments are made in one part, in the other those there are first are
\* edited.
Assessments == INSTANCE Assessments WITH
  Pages <- Requests, Ids <- AssessmentIds, Stored <- FirstRows, Texts <- ItemTexts,
  draft <- newItems, page <- details

Catalogue == INSTANCE Catalogue WITH
  Readers <- Requests, Seeders <- Requests, MaxVersion <- MaxSeeds, Nothing <- None,
  page <- copy, late <- lateSet

Throttles == INSTANCE Throttles WITH Handlers <- Requests, Workers <- Conns

ASSUME PlatformAssumption ==
  /\ AccountsAssumption /\ Sessions!SessionsAssumption
  /\ RateLimits!RateLimitsAssumption /\ SchemesOfWork!SchemesAssumption
  /\ Records!SchoolRecordsAssumption /\ People!SchoolRecordsAssumption
  /\ TenantPool!TenantPoolAssumption /\ Catalogue!CatalogueAssumption
  /\ Billing!BillingAssumption /\ TermExams!TermExamsAssumption
  /\ Assessments!AssessmentsAssumption /\ Throttles!ThrottlesAssumption
  /\ Reports!ReportsAssumption /\ Roadmap!RoadmapAssumption /\ ApiClient!ApiClientAssumption

-----------------------------------------------------------------------------
Parts == {"records", "people", "accounts", "sessions", "limits", "schemes", "exams", "reports", "client", "roadmap", "billing", "pool",
  "draft", "assessments", "catalogue", "throttles"}

\* What is not running has no state, or its first.
PlatformInit ==
  /\ part \in Parts
  /\ Init
  /\ IF part = "records" THEN Records!Init ELSE IF part = "people" THEN People!Init
     ELSE users = 0 /\ classes = 0 /\ learners = 0 /\ works = 0 /\ seen = 0 /\ changes = 0 /\ strays = 0 /\ moved = 0 /\ demoted = 0
  /\ IF part = "sessions" THEN Sessions!Init
     ELSE index = 0 /\ live = 0 /\ sessionCall = 0 /\ late = 0
  /\ IF part = "limits" THEN RateLimits!Init
     ELSE count = 0 /\ ttl = 0 /\ lock = 0 /\ login = 0 /\ wrong = 0 /\ opened = 0 /\ stops = 0 /\ orphan = 0
  /\ IF part = "schemes" THEN SchemesOfWork!Init
     ELSE bank = 0 /\ scheme = 0 /\ cells = 0 /\ draft = 0 /\ making = 0 /\ writes = 0
  /\ IF part = "exams" THEN TermExams!Init
     ELSE exam = 0 /\ rows = 0 /\ page = 0 /\ save = 0 /\ last = 0 /\ clash = 0 /\ stale = 0 /\ saves = 0
  /\ IF part = "reports" THEN Reports!Init
     ELSE max = 0 /\ marks = 0 /\ items = 0 /\ levels = 0
  /\ IF part = "client" THEN ApiClient!Init
     ELSE stored = 0 /\ issued = 0 /\ usable = 0 /\ valid = 0 /\ apiCall = 0 /\ revoking = 0 /\ leaving = 0 /\ out = 0 /\ flying = 0 /\ hit = 0
  /\ IF part = "roadmap" THEN Roadmap!Init
     ELSE votes = 0 /\ voteCount = 0 /\ toggle = 0 /\ overlaps = 0 /\ toggles = 0
  /\ IF part = "billing" THEN Billing!Init
     ELSE events = 0 /\ subscription = 0 /\ hook = 0 /\ answered = 0 /\ again = 0 /\ overlap = 0
  /\ IF part = "pool" THEN TenantPool!Init
     ELSE set = 0 /\ now = 0 /\ session = 0
  /\ IF part \in {"draft", "assessments"} THEN Assessments!Init
     ELSE newItems = 0 /\ asked = 0 /\ assessments = 0 /\ details = 0 /\ patch = 0 /\ deleting = 0 /\ logged = 0 /\ holed = 0 /\ apart = 0 /\ edits = 0
  /\ IF part = "catalogue" THEN Catalogue!Init
     ELSE version = 0 /\ cache = 0 /\ reader = 0 /\ seeder = 0 /\ local = 0 /\ copy = 0 /\ lateSet = 0 /\ missed = 0 /\ between = 0
  /\ IF part = "throttles" THEN Throttles!Init
     ELSE shared = 0 /\ memory = 0 /\ connected = 0 /\ alone = 0 /\ ask = 0 /\ came = 0 /\ passed = 0 /\ failed = 0 /\ stuck = 0

\* Nothing else changes in a step of part p.
Only(p) ==
  /\ part = p /\ UNCHANGED part
  /\ IF p \in {"records", "people"} THEN TRUE ELSE UNCHANGED <<users, classes, learners, works, seen, changes, strays, moved, demoted>>
  /\ IF p = "accounts" THEN TRUE ELSE UNCHANGED vars
  /\ IF p = "sessions" THEN TRUE ELSE UNCHANGED <<index, live, sessionCall, late>>
  /\ IF p = "limits" THEN TRUE ELSE UNCHANGED <<count, ttl, lock, login, wrong, opened, stops, orphan>>
  /\ IF p = "schemes" THEN TRUE ELSE UNCHANGED <<bank, scheme, cells, draft, making, writes>>
  /\ IF p = "exams" THEN TRUE ELSE UNCHANGED <<exam, rows, page, save, last, clash, stale, saves>>
  /\ IF p = "reports" THEN TRUE ELSE UNCHANGED <<max, marks, items, levels>>
  /\ IF p = "client" THEN TRUE ELSE UNCHANGED <<stored, issued, usable, valid, apiCall, revoking, leaving, out, flying, hit>>
  /\ IF p = "roadmap" THEN TRUE ELSE UNCHANGED <<votes, voteCount, toggle, overlaps, toggles>>
  /\ IF p = "billing" THEN TRUE ELSE UNCHANGED <<events, subscription, hook, answered, again, overlap>>
  /\ IF p = "pool" THEN TRUE ELSE UNCHANGED <<set, now, session>>
  /\ IF p \in {"draft", "assessments"} THEN TRUE ELSE UNCHANGED <<newItems, asked, assessments, details, patch, deleting, logged, holed, apart, edits>>
  /\ IF p = "catalogue" THEN TRUE ELSE UNCHANGED <<version, cache, reader, seeder, local, copy, lateSet, missed, between>>
  /\ IF p = "throttles" THEN TRUE ELSE UNCHANGED <<shared, memory, connected, alone, ask, came, passed, failed, stuck>>

PlatformNext ==
  \/ Only("records") /\ Records!Next
  \/ Only("people") /\ People!Next
  \/ Only("accounts") /\ Next
  \/ Only("sessions") /\ Sessions!Next
  \/ Only("limits") /\ RateLimits!Next
  \/ Only("schemes") /\ SchemesOfWork!Next
  \/ Only("exams") /\ TermExams!Next
  \/ Only("reports") /\ Reports!Next
  \/ Only("client") /\ ApiClient!Next
  \/ Only("roadmap") /\ Roadmap!Next
  \/ Only("billing") /\ Billing!Next
  \/ Only("pool") /\ TenantPool!Next
  \/ Only("draft") /\ (Assessments!MakingActs \/ Assessments!DeletingActs)
  \/ Only("assessments") /\ (Assessments!PageActs \/ Assessments!DeletingActs)
  \/ Only("catalogue") /\ Catalogue!Next
  \/ Only("throttles") /\ Throttles!Next

allVars == <<part, vars, users, classes, learners, works, seen, changes, strays, moved, demoted,
  index, live, sessionCall, late,
  count, ttl, lock, login, wrong, opened, stops, orphan,
  bank, scheme, cells, draft, making, writes,
  exam, rows, page, save, last, clash, stale, saves,
  max, marks, items, levels,
  stored, issued, usable, valid, apiCall, revoking, leaving, out, flying, hit,
  votes, voteCount, toggle, overlaps, toggles,
  events, subscription, hook, answered, again, overlap,
  set, now, session,
  newItems, asked, assessments, details, patch, deleting, logged, holed, apart, edits,
  version, cache, reader, seeder, local, copy, lateSet, missed, between,
  shared, memory, connected, alone, ask, came, passed, failed, stuck>>

PlatformSpec == PlatformInit /\ [][PlatformNext]_allVars

-----------------------------------------------------------------------------
(* The properties of each part, where it is the one that runs; those of    *)
(* Accounts are its own.                                                   *)

\* Every part is well typed.
AllTyped ==
  /\ part \in Parts
  /\ part = "records" => Records!TypeOK
  /\ part = "people" => People!TypeOK
  /\ part = "accounts" => TypeOK
  /\ part = "sessions" => Sessions!TypeOK
  /\ part = "limits" => RateLimits!TypeOK
  /\ part = "schemes" => SchemesOfWork!TypeOK
  /\ part = "exams" => TermExams!TypeOK
  /\ part = "reports" => Reports!TypeOK
  /\ part = "client" => ApiClient!TypeOK
  /\ part = "roadmap" => Roadmap!TypeOK
  /\ part = "billing" => Billing!TypeOK
  /\ part = "pool" => TenantPool!TypeOK
  /\ part \in {"draft", "assessments"} => Assessments!TypeOK
  /\ part = "catalogue" => Catalogue!TypeOK
  /\ part = "throttles" => Throttles!TypeOK

\* Records are in the school of their class.
SchoolsAgree == part = "records" => Records!SchoolsAgree

\* Lists agree, for teachers and school admins.
ViewsAgree == part = "records" => Records!ViewsAgree

\* A super admin is left.
AdminRemains == part = "people" => People!AdminRemains

\* The list of sessions is bounded and complete.
SessionsControlled == part = "sessions" => Sessions!SessionsControlled

\* Guesses from one address are bounded.
GuessesBounded == part = "limits" => RateLimits!GuessesBounded

\* Counts and locks run out together.
WaitingHelps == part = "limits" => RateLimits!WaitingHelps

\* The schedule against its definition.
ScheduleSound == part = "schemes" => SchemesOfWork!ScheduleSound

\* Cells, preview and PDF agree.
SchemeAgrees == part = "schemes" => SchemesOfWork!SchemeAgrees

\* Marks are the last typed, grades those of the marks.
MarksStand == part = "exams" => TermExams!MarksStand

\* Numbers that are given twice agree: those of cards, sheets and analytics,
\* and the totals of the super admin with those of the schools.
ReportsAgree == (part = "reports" => Reports!ReportsAgree) /\ (part = "records" => Records!TotalsAgree)

\* Tokens are kept and dropped for a cause.
TokensKept == part = "client" => ApiClient!TokensKept

\* The vote count is near the votes.
CountNearVotes == part = "roadmap" => Roadmap!CountNearVotes

\* The subscription is one that was paid, with a status it had.
SubscriptionKept == part = "billing" => Billing!SubscriptionKept

\* A request runs under its own school until its first commit.
OwnUntilCommit == part = "pool" => TenantPool!OwnUntilCommit

\* Items stay apart, saved ones are shown, deletions are logged.
ItemsKept == part \in {"draft", "assessments"} => Assessments!ItemsKept

\* The catalogue is whole, and old only for a reason.
CatalogueSound == part = "catalogue" => Catalogue!CatalogueSound

\* What a throttle lets pass and counts is bounded.
ThrottleSound == part = "throttles" => Throttles!ThrottleSound
=============================================================================
