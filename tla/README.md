# A formal model of MwalimuKit

MwalimuKit is an assessment platform for Kenyan schools: a FastAPI service over
PostgreSQL and Redis (`api/app`), a dramatiq worker (`api/app/workers`), and a
React application that works offline over IndexedDB (`web/src`). This directory
holds TLA+ modules of the parts whose correctness depends on interleavings and
failures, TLC configurations that check them on small instances, and TLAPS
proofs about them for instances of any size. Paths below are relative to the
root of the repository.

    tlc -config MCScores_serial.cfg MCScores        # one run
    tlapm Scores_proofs.tla                         # one module of proofs

## 1. Inventory

| Component | State it keeps | Operations | Interacts with | Module |
| --- | --- | --- | --- | --- |
| Score batch endpoint: `routers/scores.py`, `services/scores.py` | `scores`, one row per (run, learner, item) | `post_batch` → `upsert_scores` | transactions of other requests; the score entry page | `Scores` |
| Score entry page: `web/src/pages/ScoreEntryPage.tsx`, `lib/db.ts` | IndexedDB `scores` with `_dirty`; calls under way | tap, `syncScores`, retry effect, timer, refresh button, `initRun`, logout | batch endpoint; other tabs | `ClientSync` |
| Export jobs: `routers/jobs.py`, `workers/exports.py`, `core/jobs.py` | `jobs`; queue in Redis | create, process, poll, download | workers, broker, browser | `ExportJobs` |
| Authentication: `routers/auth.py`, `services/auth.py`, `core/deps.py`, `services/password_reset.py` | the `users` row with `token_version`; revoked tokens; reset tokens | login, refresh, logout, change and reset of the password | every request | `Accounts` |
| Session list: `core/sessions.py` | index and keys in Redis | add with eviction, revoke one or all | authentication | `Sessions` |
| Tokens in the browser: `web/src/lib/api.ts`, `auth-store.ts`, `hooks/useSessionTimeout.ts` | the pair in `localStorage` | `apiFetch`, refresh, `hydrate`, logout, unload | authentication | `ApiClient` |
| Lockout and throttles: `core/rate_limit.py` | counts with times to live, locks; memory of a worker | count, lock, clear | login; every request | `RateLimits`, `Throttles` |
| Tenant context: `core/db.py`, `core/tenant.py` | settings of pooled connections | set at a session's start, lost at its end | row-level security | `TenantPool` |
| Users, classes, learners, runs, term exams: `routers/classes.py`, `learners.py`, `runs.py`, `term_exams.py`, `school_admin.py`, `super_admin.py`, `admin.py`, `services/admin.py` | rows with `school_id` and `deleted_at` | create, move, delete, list, count | everything that names them | `SchoolRecords` |
| Mark sheets: `routers/term_exams.py`, `pages/SBAMarksEntryPage.tsx`, `lib/grades.ts` | `learner_exam_scores` | load, type, save, delete the exam | reports | `TermExams` |
| Reports: `workers/exports.py`, `routers/term_exams.py` | none | report cards, class sheets, summaries, analytics | marks, scores | `Reports` |
| Schemes of work: `routers/schemes_of_work.py`, `services/schemes_of_work.py` | schemes, cells, content bank | generate, edit, preview, print | — | `SchemesOfWork` |
| Assessments: `routers/assessments.py`, `services/assessments.py`, the two pages | assessments, items, activity log | draft, generate, save, edit, delete | language model | `Assessments` |
| Curriculum: `routers/curriculum.py`, `core/cache.py`, `scripts/seed_curriculum.py`, `web/src/lib/curriculum.ts` | three tables, a cached answer, copies in browsers | seed, read, cache, sync | Redis | `Catalogue` |
| Billing: `routers/billing.py` | `subscriptions` | checkout, webhook | Stripe | `Billing` |
| Roadmap: `routers/admin.py` | votes and a count of them | toggle | — | `Roadmap` |
| Migration runner, metrics, news, feature flags, health, the rest of the web application, mobile wrapper, infrastructure | — | — | — | none (section 8) |

What is hard here, and what must hold:

* **Scores.** `upsert_scores` reads a row, compares time stamps and writes, in
  a transaction that other transactions overlap; the session sends inserts
  late, so unique and foreign keys fail somewhere else than where a row was
  added. A cell must hold the newest acknowledged entry, in one piece; a
  conflict must be reported only for a reason; each batch must be answered.
* **Score entry.** Every `await` of `syncScores` is a point where taps, other
  calls and other tabs change the rows. No tap may be dropped before it is
  stored, each must be sent, and the page must not get stuck.
* **Export jobs.** A row and a message are written in two steps, the queue
  delivers at least once, workers die. A key must have one job, a completed
  job a file, and every job an end.
* **Everything that checks and then acts.** Most other handlers read a row or
  a key, await, and write what follows from what they read: the refresh token
  list, the session index, the lock, the super admin who is left, the vote
  count, the webhook's row, the cached catalogue. Each has a property that
  says what overlapping requests can and cannot do to it.
* **Everything that is kept twice.** Marks and grades, cells and preview, the
  page's copy and the row, the catalogue in three places, the tokens shared by
  tabs, the numbers of two reports on one class: these must agree, or differ
  for a named reason.

The hazards, with the line each bites at, are in `PROJECT.json`.

## 2. Modules

| Module | Content |
| --- | --- |
| `Scores` | the batch endpoint: requests as transactions at READ COMMITTED |
| `LwwTable` | abstract specification: a last-write-wins register per cell |
| `ExportJobs` | API, queue, workers and browsers around one jobs table |
| `ClientSync` | taps, `syncScores` calls, tabs and the network |
| `Accounts`, `Sessions`, `ApiClient` | signing in: the account, the list of sessions, the tokens in the browser |
| `RateLimits`, `Throttles` | the lockout of an account; one throttle over several workers |
| `TenantPool` | settings of pooled connections |
| `SchoolRecords` | who may put which record where, and who sees it |
| `TermExams`, `Reports` | mark sheets, and the numbers made of marks and scores |
| `SchemesOfWork`, `Assessments`, `Catalogue`, `Billing`, `Roadmap` | the component of that name |
| `Platform` | these components side by side: their instances and properties |
| `MCScores`, `MCExportJobs`, `MCClientSync`, `MCPlatform` | small instances for TLC |
| `Scores_proofs`, `ExportJobs_proofs`, `ClientSync_proofs`, `RateLimits_proofs`, `Catalogue_proofs` | theorems about the module of that name (section 6) |
| `SignIn_proofs` | theorems about `Accounts`, and about the sessions and the browser's tokens in `Platform` |
| `School_proofs` | theorems about the parts of `Platform` that are a school's own: people, records, schemes, exams, reports, assessments |
| `Platform_proofs` | theorems about the other parts of `Platform`, and, on top of `School_proofs` and `SignIn_proofs`, about the types of all |

Operators named `X_something` right before `X` are plausible slips of the code
(a dropped guard, a missing reset, a swapped order); no specification uses
them. Each property is known to fail when one of them takes the place of `X`.

### Scores

`pc[h]` is where a request is in the loop of `upsert_scores`. One entry takes
`SelectExisting` and then one of `CompareFails`, `ReportConflict`, `UpdateRow`,
`KeepRow`, `AddRow`; `RejectEntry` stands for both early exits. `Commit` ends
the batch.

* `mine[h]` holds the rows a transaction has written and `flushed[h]` those
  whose statement has reached the database, which locks them. `db.add` writes
  only `mine`; `FlushInsert` sends it before the next SELECT (autoflush) or at
  the commit. A row of another transaction blocks it (`Locked`), a committed
  row or an unknown learner makes it fail (`FlushFails`). After that every
  statement of the session raises, each is caught as a rejected entry, and the
  commit raises: the request answers 500 and nothing is stored, so the model
  ends the request at once.
* `UpdateRow` writes the columns that differ from the row as it was *read*
  (`Merged`), which is what the ORM sends; `db.merge` of a persistent object
  does nothing more. An update that leaves `updated_at` alone gets the server's
  `now()`.
* `AwareTimestamps` says what the driver returns for `timestamptz`. `asyncpg`
  keeps the zone, and the comparison of line 52 raises (`CompareFails`); the
  tests' SQLite drops it.
* Deadlocks and lock waits belong to PostgreSQL (`OnCycle`, `DeadlockVictim`).
* Level and note of an entry are one value, `level`. Batches name a cell at
  most once, as the page's IndexedDB table does. Ids of rows are left out.

`ImplementsLww` is the refinement: under `reg <- level of table`, every commit
is an `Acknowledge` of `LwwTable` and every other step stutters. The history
variable `applied` collects what senders were told was stored. When two
different entries carry one stamp (`Contested`), `LwwTable` allows either level,
and the server's own stamp on the row may make a conflict of a later resend,
which `ConflictJustified` admits for such cells only.

### ExportJobs

A job is named by the request that inserted it. The API's steps are the
statements of `_enqueue_job`; `Key` is the header or the hashed payload, of
which the job type is not a part (`Family`). The worker's steps are the
transactions of `_process_export_job_async`. `pollJob` may give up at any time,
which stands for its 60 attempts. dramatiq is modelled from its use:

* a message is taken, and acknowledged when the actor returns; `Requeue` puts
  it back with one more retry or, after `MaxRetries`, drops it;
* the broker comes with a `Retries` middleware and `core/jobs.py` adds another,
  so a failure may put back one copy or two: `RetryCopies`;
* a dead or silent worker's message is delivered again (`WorkerCrash`,
  `HeartbeatLost`); messages over an hour old are dropped (`DropOld`);
* `Interrupt` is what the `except Exception` does not see or cannot record.

Left out: the contents of documents, `expires_at` (written, never read),
`_update_job` (unused), and `cancelled` (never assigned).

### ClientSync

The n-th tap stands for the level it enters and its time stamp, so a row holds
a number, and newer is greater. A call of `syncScores` goes through `read`,
`sent`, `answered` and `mark`; `snap` is `dirtyScores`, `conf` the
`conflicted_rows` of the answer, `left` the rows still to be marked.

* `Edit` starts exactly one call when online. `handleScoreChange` calls the
  `syncScores` of the render it was made in. If that one sees a status other
  than `syncing`, it starts; if it returns at once, `setSyncStatus('pending')`
  takes effect and the effect on `[isOnline, syncStatus]` starts one.
* `StartSync` is that effect or the timer, whose `syncStatus` is current.
* `SetStatus` reaches the page only while it is mounted; each mount has a run
  of its own (`used`), because `POST /runs` makes a new one every time.
* `LeavePage` is navigation within the application, where calls go on;
  `CloseTab` ends them, and what they have sent may still arrive (`late`).
* `Refresh` is the button that is shown for `pending`; unlike the others it
  does not ask whether there is a network.
* `Logout` deletes the database of the browser, the rows of all runs, and what
  the tab was doing.
* The page names its rows `<run>_<learner>_<item>`, which is no UUID, so the
  program is `UuidIds = FALSE`: the schema refuses each batch as a whole
  (`Refuse`), and nothing gets past the request.
* What the code would do past that refusal is modelled for `UuidIds = TRUE`:
  `Stored` and `Conflicts` are `upsert_scores` for one batch, where
  `AwareTimestamps` (as in `Scores`) makes a row that is stored already one
  that is rejected, and `Known` is its check of runs; `MarkRow` and
  `PutConflict` are what the page does with the answer.

### Accounts, Sessions and ApiClient

`Accounts` is one `users` row. A handler is a value of `req`: `refresh_tokens`
goes `RefreshCheck`, `RefreshLoad`, `Rotate`, one action for what lies between
two awaits; `Change`, `Commit`, `Reload`, `Reissue` are `change_password`, and
`reset_password`, `change_school_code` and `revoke_all_sessions_endpoint` are the
same without what they lack. A pair of tokens carries the version that the
handler had read, and the model keeps with it the password it goes back to,
which is what `AcceptedIsCurrent` is about. Deactivation changes `is_active`
only. Time is left out: a token that has run out is one nobody presents.
`SerialChanges` is an assumption: two changes that read the same version both
write that plus one, and then a pair issued after the first is still good after
the second (`routers/auth.py:178`).

`Sessions` is the index and the keys of `core/sessions.py`. Each pipeline is one
transaction of Redis, and what it does was decided from an index read before
it: hence at most one session beyond the cap for each request at work, and
sessions that a revoke-all deletes from the index without having read them
(`late`). No token is checked against this list.

`ApiClient` is `apiFetch` in all tabs of a browser. Parallel calls that are
answered 401 refresh with one token each by itself, and the server takes a token
once. `opening` marks the call that `hydrate` makes in a tab that opens, whose
failure clears the tokens (`HydrateFails`); a logout clears them before and after
its request (`Logout`, `LogoutEnds`); closing a tab clears them (`Unload`); a
refresh token runs out (`RefreshRunsOut`), and a changed password, a reset, a new
school code or a deactivation makes all pairs those of an old version
(`VersionRaised`), the user's own included, as no page stores the new pair. `hit`
says that since the last login one of the mishaps has happened that the code
answers by clearing tokens: a refresh that failed, two refreshes at once, a
failed `hydrate`, a token that ran out or is of an old version, or a login while
a call or a logout from before it was still under way. `out` and `flying` say
that the user left, and whether a refresh was under way then. `TokensKept` is then
about the rest: nothing else signs a user out, what is kept can be refreshed, and
a logout is undone by nothing but a refresh that was under way.

### RateLimits and Throttles

A count is raised and given its time to live in two commands (`Fail`,
`Expire`). `Check` is the question for the lock, `Lock` its setting, `Clear` and
`Unlock` what a right password does: it ends the lock of the account and the
count of its own address, and leaves the others full. When Redis does not answer,
the check looks in the memory of its own process, so a request may come through
a lock that is there (`CheckFails`); a later command without an answer ends the
request, or it goes on without what the command should have done (`Stop`). Ticks divide the window;
no request lasts one. `Throttles` has one key for several workers; a worker that
cannot connect the first time counts alone from then on (`alone`), which
multiplies the limit, and `PassedBounded` says by how much: the histories `came`
and `passed` count, for each number of ticks up to the window, the requests that
came in the last so many and those that each counter let through.

### TenantPool

`set[c]` is what is committed on connection `c`, `now[c]` what holds in the
transaction on it. `Open` sets it, `Commit` keeps it and gives the connection
back, `Continue` takes any free one, `Close` rolls back.

### SchoolRecords

One action per endpoint. A request loads its user (`Arrive`) and goes by that
row. Rows name schools; what a list or a page shows is computed by `ListLearners`,
`GetTermExam`, `Dashboard` and their like, each by the filters of its own
handler, and `ViewsAgree` and `TotalsAgree` compare them. The histories
`strays`, `moved` and `demoted` name what the code lets through: a record put
into a school that is not the one of its class, a teacher who changed the
school, a role changed by an update.

### TermExams and Reports

`TermExams` has the rows of one exam, pages (`page`) and saves (`save`), which
read one row after the other, lock what they have written and commit together,
column by column. `Reports` has no steps: every state is one class's marks and
levels, and the reports are operators over them. A sum or a mean is that of a
function of learners and exams or items, as no report depends on the order in
which its loop adds; the ranking is the set of learners with their averages, and
a place in it the number of those `Before` (the sort is stable, by name below
the average). Percentages are tenths, rounded
from the exact value; the code rounds sums of floats, which may lie to either
side of a tie, and that is left out.

### SchemesOfWork, Assessments, Catalogue, Billing, Roadmap

`SchemesOfWork` computes calendar and schedule as the service does, from
`Blocks` (the i-th entry is the one with i - 1 of a smaller `sequence_order`),
and `ScheduleSound` compares it with its definition; the rest of the module is what is committed when, and what `Preview`,
`GetScheme` and the PDF (`Printed`) make of it. `Assessments` has the draft
(`draft`), stored rows, pages with requests that are committed in any order, and
a deletion in two commits. Generated items have any ids (`Generate`): the mock
provider numbers them, the others pass on what the language model wrote, and a
draft that is not numbered 1, 2, ... is noted (`holed`). `Catalogue` counts rows instead of naming them: version `n` of the seed
is rows 1 to `n`, so a catalogue is how many of each kind it has. `Billing` takes
events of Stripe in any order and number; a status is the number of the event
that set it. `Roadmap` is the vote count that is read, changed and written back.

## 3. Runs

| Run | Bounds | Shows |
| --- | --- | --- |
| `scores_serial` | 1 request at a time, 3 stamps and an unparsable one, 2 levels, any of them under one stamp, a second run of another school, batches of up to 2 entries in either order, server clock at or after the clients' stamps | with comparable stamps the endpoint implements `LwwTable`; a conflict is always justified; newer entries win; types |
| `scores_postgres` | 2 concurrent requests, 3 cells of one run and one of another school, 8 batches that race for one cell and lock two in both orders, one unknown learner | acknowledged entries are stored in one piece; tenancy; each request is answered |
| `jobs_faults` | 2 requests, 2 workers, 2 schools, 2 subjects, a header key, 1 retry, any 2 faults | the safety of jobs |
| `jobs_settle` | 2 requests, 2 workers, 1 retry of one or two copies, 2 crashes or doubled deliveries | no job is orphaned; every job ends |
| `sync_refused` | 2 tabs, a run of the server and one made offline, 2 calls, 2 taps, 1 loss, 1 logout; the ids as the page makes them | no tap is dropped before a logout; with a network and an open page each is sent again and again; types |
| `sync_racing` | 2 tabs on 2 runs, 2 calls, 2 taps, 1 loss, 1 logout; past the refusal of the ids, on SQLite, which reports conflicts | the server holds for a cell only its own taps |
| `platform` | each of 14 components by itself, `SchoolRecords` with records or with people only, `Assessments` with a draft and new rows or with pages that edit a stored one; 2 requests at a time | the properties at the end of `Platform` |

`Platform` puts components together that share no variables: `part` says which
one a behaviour is of, and the others have no state. `Accounts` is extended, so
its properties are checked under their own names; those of the others, which
are instances, stand behind the part they are of (`part = "limits" =>
RateLimits!GuessesBounded`). Bounds: 4 pairs and one version change; a cap of one
session and 4 ids; 2 addresses, 2 failures, windows and locks of 2 ticks, one
request that stops or is not answered; schemes of at most 2 weeks of 2 lessons; 2 learners, 3
exams, marks at and around the grade bands; 3 pairs in the browser; 3 events of 2 subscriptions; 2 connections and 2 schools; 2 items,
2 new assessments and 2 edits; one version of the catalogue over the empty one; 2 workers and 4
requests counted. The two requests are symmetric in every part. Two requests
are what each of these races needs; a third adds none, and as all properties of
`platform` have theorems, that is proved.

Why the other bounds are enough to be interesting: two transactions and two cells
are what a race for a row and a deadlock need; three stamps give a middle entry
that loses to one and beats another. Two deliveries and one retry let a job be
completed, reopened and failed. Two calls and two taps are the shortest
histories with a tap while its cell is on its way, with a cell edited again after
it was sent, and with a conflict. Where `MaxFaults`,
`MaxLosses` or `MaxEdits` is used up, the system goes on without more of them.
`ClientSync` admits at most `Calls` calls at a time: a tap waits for a free one.
`scores_serial` keeps the server's clock at or after the clients' stamps: a row
whose level changes under an equal stamp gets `now()`, and with a clock behind
the client's that would be older than the entry it stands for.

`CHECK_DEADLOCK FALSE` is set because clients may send nothing more, requests
of `ExportJobs` are made once, taps are bounded, and what `Platform` creates
or edits a bounded number of times may stop there.

## 4. Fairness

* `Scores`: every accepted request goes on (the event loop and the database's
  lock manager and deadlock detector). Sending a request is not fair; the
  liveness property assumes that at some time no new ones come, because locks
  are not granted in order of arrival in the model.
* `ExportJobs`: an accepted request runs on, and a worker keeps taking and
  finishing messages. Whether a build succeeds is not assumed, nor that
  browsers poll. `EveryJobSettles` excludes the faults that do lose jobs: a
  crash or broker failure before the send, a time limit in the last attempt, a
  message dropped for its age. Nothing in the repository promises otherwise.
* `ClientSync`: effects and timers of an open page run, promises are resumed,
  each fetch ends. Being online, opening a page and tapping are not fair; the
  properties assume that from some time on there is a network and an open
  page. Losses while online are bounded.
* `Platform` states no fairness and no liveness: its components have no
  retries of their own. What Stripe promises (delivery until it is answered)
  is in `Billing`'s `answered`.

## 5. Where the code and the documents disagree

Three runs end in a counterexample. Each states what a document or the code's own
text says, and TLC shows the code doing something else.

| Run | Property | What happens |
| --- | --- | --- |
| `scores_newer` | `NewerEntryWins` | `services/scores.py:40,52` compares a naive with an aware time stamp: on PostgreSQL no stored score is ever updated (`docs/04-functional-spec.md:90`, last write wins) |
| `jobs_type` | `DownloadHasAskedType` | the key of an export does not hold its type (`routers/jobs.py:119,148`): after a PDF, the DOCX export returns the PDF job |
| `sync_ids` | `EditsReachServer` | the ids of rows are no UUIDs: each batch is refused, and sent again at once (`ScoreEntryPage.tsx:136`, `schemas/run_score.py:26`) |

The refusal of the ids hides what the page would do with an accepted batch, so
no run states it of the program: a tap during a sync is marked clean unsent
(`ScoreEntryPage.tsx:201`), as are the rejected rows of a batch (line 232) - those
of a run made offline, and on PostgreSQL each row that is stored already -, and
a conflict on a row of another run than the page's is written under the page's
run (line 215), clean, over the same learner's cell. `MarkRow` and `PutConflict`
do all of this for `UuidIds = TRUE`. And a page that is online sends a refused
batch again at once, without a pause, because the effect on `pending` does.

Reading the other components turned up more that no run is about, because no
document says otherwise or because it is plain:

* comments: `core/db.py:28` says that settings are reset in `finally`, but that
  reset is rolled back; `create_session` says that the oldest session is evicted
  at the cap, but the new one is not counted and ids have no order of time;
  `schemes_of_work.py:231` previews an empty calendar, without the stored cells,
  when the bank has become empty;
* accounts: `consume_reset_token` is not called, so a reset link works until it
  runs out; revoking one session does not revoke its refresh token;
* records: the update of a learner takes any class; runs and learners can be
  added to a deleted class; a school with an activity log cannot be deleted;
* marks: a save stores learners without marks as 0; the API has no upper limit;
* the class check of the CSV export compares a value with itself
  (`exports.py:689`), and reports of a deleted assessment fail;
* browser: every render of `App.tsx` restarts the inactivity timer
  (`useSessionTimeout.ts:51`), so nobody is signed out by it; closing one tab
  signs out all (line 89), as does an error of the first call of a tab that opens
  (`auth-store.ts:79`), and a changed password signs out the user who changed it
  (line 103); `hooks.ts:105` resets the rubric on every render;
* billing: a late event may put back an older status of the same subscription.

The first finding also hides something: on PostgreSQL the race of two updates of one
row cannot happen, because no update happens. With aware stamps on both sides
the read-compare-write of `upsert_scores` would need a row lock or a condition
in the UPDATE.

## 6. Proofs

All proofs are of safety, for all values of the constants under the modules'
named assumptions (which TLC evaluates in the runs): tables of owners are
total, bounds are naturals, null values are not in the sets they stand beside,
sets that are counted or summed over (requests, learners, exams, items, bank
entries, rows) are finite. They have one shape: an invariant holds initially,
every action keeps it (one lemma per action or kind of action), and it implies
the properties; the last step is temporal logic.

* `Scores_proofs`. `TypeOK` alone is not inductive: a row's time stamp is a
  stamp only because an entry that is being written has been checked
  (`Checked`), and `Append` to `out` stays within the batch because of
  `Walking` and `Reported`. `SeenStays` says that the row a request has read
  is not deleted, which makes `Merged` well defined; `MineOwned` and
  `IdleClean` carry `TenantIsolation` over commits, and `RowExclusive` that the
  rows of two requests are apart.
* `ExportJobs_proofs`. The invariant ties the position of each request to the
  table (a request about to send owns a committed job), each message and each
  worker to a job, a completed job to its file, and an answer to a job with
  the asker's key and school; `KeyScope` is the fact about keys that
  `DownloadScoped` needs. `FileKept` is an action property proved from it.
* `ClientSync_proofs`. `OwnTaps` says that what is dirty, on its way or on the
  server was tapped for that cell; it gives types to snapshots, and
  `ServerHoldsOwnTaps`, without assumptions. For the ids that the page makes,
  `TapsStayToBeSent` adds that no call gets past its request, so nothing cleans
  a row, and a row only ever gets newer taps of its cell.
* `RateLimits_proofs`. `GuessesBounded` and `WaitingHelps` are both corollaries
  of `Counted`: without a lock, a count exceeds its bound by no more than the
  requests that are about to lock, so whoever passes the check then is within
  the number of requests. A request that Redis did not answer is in the bound
  once: either it came through a lock, or it was not counted; the invariant says
  that there is a number of the former for which both hold (`Room`). `Outlasts`
  says why a lock that runs out leaves no full count: who fills one, or finds it
  full, makes a new lock, and a new one lasts as long as any count. That uses
  that the window is no longer than the lock (both are fifteen minutes).
* `Catalogue_proofs`. What is kept anywhere is `Sound` because of `ReadsFit`:
  the areas that a request has read are those of the tables until it reads the
  strands, unless a seed is noted (`between`).

`Scores_proofs` goes on to last write wins, in two settings, because the code
behaves in two ways:

* `PostgresIsLww`: with zone-aware stamps (`AwareTimestamps`), any number of
  overlapping transactions implement `LwwTable`. No row is updated, so
  `OneStored` says that a cell has one acknowledged entry, the one in the table;
  `MineSent`, `Inserted` and `FlushedNew` say that what a transaction is about
  to commit are entries of its own batch, each inserted where no committed row
  was, which the lock on the row keeps true until the commit.
* `SerialIsLww`, `ConflictsAreJustified` and `NewestStays`: with comparable
  stamps, for requests one at a time (`OneByOne`) and a server clock not behind
  the clients' (`ServerClockAhead`). `SeenNow` says that what a request has
  read is what is stored, `ReportsTrue` that each entry it accepted so far is
  stored or overtaken in the batch, and `NewestStored` that a cell has the
  newest entry acknowledged. Both assumptions are needed: two overlapping
  requests can each read the old row, and a clock that is behind lets an equal
  stamp put back the clock of a row.

`NoJobAbandoned` (`ExportJobs_proofs`) says that with crashes and silent workers
as the only faults an unfinished job is always in somebody's hands: its request
has still to send it, a message names it, or a worker works on it. The property
is inductive on top of the module's invariant.

The other three modules are about the components of `Platform`. The
specification is `PlatformSpec` (that of `Accounts`, which `Platform` extends,
for the account), so each theorem says that its part, whatever the others are,
keeps its property.

`SignIn_proofs` is about signing in.

* Account: `Fresh` says that whatever carries a version (a pair, a
  request about to issue one) carries one the row has had, and with the version
  of now goes the password of now; a commit then leaves every carrier behind.
  It needs `SerialChanges`: a request about to commit holds the row's version.
  `Rotations` counts, for each refresh token, its pairs together with the
  requests that may still make one: the sum never exceeds the number of
  requests, because a token that may still be rotated has no pair yet.
* Sessions: `SessionsApart` keeps the plans of concurrent requests apart (none
  drops what another one adds). The bound needs to know who overtook whom:
  for each creation that has still to write, the requests that have written
  since it read the index (`OvertakenBy`); the index exceeds the cap by no more
  than these once its evictions are made. These sets are not in the state; the
  invariant says that there are such sets.
* Client: in a session without a mishap one call at most refreshes, with a token
  that the server takes (`CallInv`), and what is in `localStorage` can be
  refreshed or is being replaced (`StoredInv`); `LeftInv` says, with mishaps or
  without, what may still be there after a logout or a closed tab.

`Platform_proofs` holds the invariants of the other small components.

* Pool: connections are taken by one request at a time (`PoolExclusive`), and
  what a request has set holds until it commits or ends (`PoolHolding`).
* Limits and catalogue: the theorems of their modules, by `INSTANCE`.
* Billing: `BillingHook` says that what a handler is about to write is an event
  that happened and a status of its subscription, `BillingAlone` that the row
  is still as the handler read it unless requests overlapped.
* Roadmap: a count that was read differs from the votes by at most the overlaps
  so far (`Offset`), and by one less on the side to which the request is about
  to move it.
* Throttles (`ThrottlesInv`): the bound at the end of a stretch says nothing of
  how it came about, so `WindowInv` bounds what passed in the last i ticks for
  every i: since the count began no more passed than it counts, up to the limit,
  and before that at most one window's worth; between the two commands one
  request is counted that has not passed. `CameInv` says that, without a count
  left for good, what is counted and what is about to be came since it began.

`School_proofs` treats the parts of a school.

* People (`PeopleInv`): every step that takes a super admin leaves the one who
  took it, or is noted.
* Records (`SchoolInv`): the user a request has loaded is of the school the
  user is of now, and the teacher of a class is of its school, moved users
  apart; a record that is no stray is in the school of its class.
* Schemes (`SchemeInv`): what is stored, and what a generation is about to
  store, are the cells of the whole calendar.
* Exams (`MarksInv`): for a learner nobody typed a mark for, a page sends what
  it got (`SentAsGot`); a learner without a row has never had one
  (`RowsRemain`). `GradesAgree` proves that the bands of the page and those of
  the server give the same grade for every mark and maximum.
* Assessments (`ItemsInv`): the ids of a draft are its positions unless it was
  generated with others or an item other than the last is taken off (`DraftInv`), and every list that is stored,
  shown or under way is one of its row (`OfRow`); a page that is not apart has
  one request at most, which sends what the page shows, and what the handler
  holds is what is stored (`ShownInv`).
* Reports (`ReportsAgree`): the rows are as the endpoints leave them
  (`ReportsRows`), and all else is arithmetic. The library defines a sum by a
  recursion over finite sets. `SumCounts` proves that it is the number of pairs
  of an element and a number below its value (`Units`), so that facts about
  cardinalities give those about sums: that it is additive, monotone, and the
  sum of the sums over groups (`SumGroups`). `RoundedAtLeast` says for which
  n / d the rounded value is at least k; with `MeanBetween` (a mean lies between
  the means of groups) that places each average between the others and the
  printed percentages, and `RoundedNear` bounds the distance of the class sheet.
  The totals of the dashboards are sums over the schools (`PartsSum`).
* Schedules (`ScheduleSound`): the calendar joins the weeks one after the other
  (`Joined`, `Flattened`); its cells stand in their order (`CalendarInOrder`),
  so the lessons up to the i-th cell are those before it and itself
  (`LessonsBefore`), which is how the definition counts them.

`TypesHold` is about all parts at once. Most types are part of an invariant
above; the others need one, which is why they come last: a request's list is
of items because it is one of its row, a handler writes a row of the school of
a user who is loaded, and what the schedule puts into a cell is an entry of the
bank because two entries never have the same `sequence_order`, so each place is
taken (`PlacesTaken`).

Where an induction is needed it is made by a least counterexample, which the
library's facts about well-founded orders give for a set (`SubsetsIn`,
`CountUp`), as its induction theorems take operators, which the provers cannot
instantiate.

The assumptions on constants are those of the modules (`PlatformAssumption`).

Only model-checked: liveness (`EveryRequestAnswered`, `EveryJobSettles`,
`TapsAreSent`), which the prover cannot treat under fairness. All other
properties of the passing runs have a theorem. Those that hold under
assumptions only have them as hypotheses: last write wins as said above, and
`TapsAreKept`, of the ids that the page makes. `NewerEntryWins` on PostgreSQL is refuted (section 5).

## 7. What could come next

`ClientSync` over `Scores`, once the ids of rows are accepted and time stamps can
be compared: then clean can be required to mean stored.

## 8. Not modelled

Listed in `PROJECT.json` with reasons. In short:

* the migration runner: no code inserts the record of a migration, the runner
  awaits what the plain functions of the only migration return, so no run
  succeeds, and a run is one transaction, so a failure leaves nothing behind;
* `report_card_generator.py`, `write_api.py`, `make_user_rate_limiter`: used by
  nothing;
* metrics, middleware, news, feature flags, history, health: single rows or
  counters that nothing depends on;
* providers of language models, layout of documents and views, mail, seed
  data, deployment files, the mobile wrapper.

Of the modelled components: `GET /scores/outbox` (read only), the
service worker's message (its handler returns at once), two ids for one cell;
profile fields, lists and searches without effect, the favourite mark, the
rubric, the inactivity timer, names and dates of rows, the policies of
row-level security (the application connects as the owner of the tables, to
whom they do not apply).
