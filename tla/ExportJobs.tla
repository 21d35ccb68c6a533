----------------------------- MODULE ExportJobs -----------------------------
(***************************************************************************)
(* Export jobs: a request for a report or a document becomes a row of the  *)
(* jobs table and a message on the dramatiq queue                          *)
(* (api/app/routers/jobs.py, _enqueue_job); a worker turns the message     *)
(* into a file stored in the row (api/app/workers/exports.py); the browser *)
(* polls the row and downloads the file (web/src/features/assess/api.ts).  *)
(*                                                                         *)
(* The row is committed before the message is sent, and the queue delivers *)
(* at least once, so the steps of API processes, workers and browsers      *)
(* interleave with crashes, retries and duplicate deliveries.              *)
(***************************************************************************)
EXTENDS Integers, FiniteSets

CONSTANTS
  Requests,     \* export requests, each made once
  Workers,      \* dramatiq worker threads
  Schools,
  Types,        \* job types (JobType)
  Family,       \* the field names of the payload of each type
  Subjects,     \* what is exported: an assessment, a learner's run, a scheme
  Owner,        \* the school that owns each subject
  HeaderKeys,   \* values clients send as X-Idempotency-Key
  NoKey,        \* no such header
  NoJob, NoFile, NoMsg, NoStatus, NoAsk,
  MaxRetries,   \* Retries(max_retries) of core/jobs.py
  RetryCopies,  \* messages a failed attempt puts back: the broker's own
                \* Retries and the one core/jobs.py adds may both act
  Faults,       \* which faults happen
  MaxFaults     \* bound: how many of them

FaultKinds == {"api_crash", "broker_down", "worker_crash", "heartbeat_lost",
               "interrupt", "too_old"}

ASSUME ExportJobsAssumption ==
  /\ Owner \in [Subjects -> Schools]
  /\ DOMAIN Family = Types
  /\ NoKey \notin HeaderKeys
  /\ MaxRetries \in Nat /\ MaxFaults \in Nat
  /\ RetryCopies \subseteq Nat \ {0}
  /\ Faults \subseteq FaultKinds

Asks == [school : Schools, type : Types, subject : Subjects,
         header : HeaderKeys \cup {NoKey}]
File == [school : Schools, type : Types, subject : Subjects]
Status == {"pending", "processing", "completed", "failed"}
Job == [ask : Asks, status : Status, file : File \cup {NoFile}]
Message == [job : Requests, retries : 0..MaxRetries]

ASSUME NullAssumption ==
  NoJob \notin Job /\ NoFile \notin File /\ NoMsg \notin Message /\ NoAsk \notin Asks

VARIABLES
  jobs,    \* the jobs table; a row is named by the request that inserted it
  queue,   \* how many copies of each message wait on the broker
  wpc,     \* worker threads: idle, load, mark, build
  msg,     \* the message a worker is processing
  loaded,  \* job.status in the worker's session
  rpc,     \* requests: idle, lookup, insert, send, poll, fetch, done, error
  ask,     \* what each request asks for
  answer,  \* the job each request was answered with
  got,     \* the file each request downloaded
  faults   \* faults so far

workerVars == <<wpc, msg, loaded>>
requestVars == <<rpc, ask, answer, got>>
vars == <<jobs, queue, wpc, msg, loaded, rpc, ask, answer, got, faults>>

Init ==
  /\ jobs = [j \in Requests |-> NoJob]
  /\ queue = [m \in Message |-> 0]
  /\ wpc = [w \in Workers |-> "idle"]
  /\ msg = [w \in Workers |-> NoMsg]
  /\ loaded = [w \in Workers |-> NoStatus]
  /\ rpc = [r \in Requests |-> "idle"]
  /\ ask = [r \in Requests |-> NoAsk]
  /\ answer = [r \in Requests |-> NoJob]
  /\ got = [r \in Requests |-> NoFile]
  /\ faults = 0

\* The idempotency key: the client's header, or the hash of the payload.
\* The payload does not hold the job type, only the fields of its family.
Key(a) ==
  IF a.header # NoKey THEN <<a.header>>
  ELSE <<Family[a.type], a.subject, a.school>>

Existing == {j \in Requests : jobs[j] # NoJob}
SameKey(a) == {j \in Existing : Key(jobs[j].ask) = Key(a)}

Fault(kind) ==
  /\ kind \in Faults
  /\ faults < MaxFaults
  /\ faults' = faults + 1

-----------------------------------------------------------------------------
(* The API: one action per step of an export endpoint and _enqueue_job.    *)

\* The endpoint finds the subject in the requester's school, or answers 404.
Submit(r, a) ==
  /\ rpc[r] = "idle"
  /\ ask' = [ask EXCEPT ![r] = a]
  /\ rpc' = [rpc EXCEPT ![r] = IF Owner[a.subject] = a.school THEN "lookup" ELSE "error"]
  /\ UNCHANGED <<jobs, queue, workerVars, answer, got, faults>>

\* existing = SELECT ... WHERE idempotency_key AND school_id
Visible_anySchool(r) == SameKey(ask[r])   \* variant: by the key alone
Visible(r) == {j \in SameKey(ask[r]) : jobs[j].ask.school = ask[r].school}

ReturnExisting(r) ==
  /\ rpc[r] = "lookup"
  /\ \E j \in Visible(r) : answer' = [answer EXCEPT ![r] = j]
  /\ rpc' = [rpc EXCEPT ![r] = "poll"]
  /\ UNCHANGED <<jobs, queue, workerVars, ask, got, faults>>

FindNothing(r) ==
  /\ rpc[r] = "lookup" /\ Visible(r) = {}
  /\ rpc' = [rpc EXCEPT ![r] = "insert"]
  /\ UNCHANGED <<jobs, queue, workerVars, ask, answer, got, faults>>

\* Variants: no commit; no unique index; no default for the status.
InsertJob_uncommitted(r) ==
  /\ rpc[r] = "insert" /\ SameKey(ask[r]) = {}
  /\ rpc' = [rpc EXCEPT ![r] = "send"]
  /\ UNCHANGED <<jobs, queue, workerVars, ask, answer, got, faults>>

InsertJob_duplicate(r) ==
  /\ rpc[r] = "insert"
  /\ jobs' = [jobs EXCEPT ![r] = [ask |-> ask[r], status |-> "pending", file |-> NoFile]]
  /\ rpc' = [rpc EXCEPT ![r] = "send"]
  /\ UNCHANGED <<queue, workerVars, ask, answer, got, faults>>

InsertJob_noStatus(r) ==
  /\ rpc[r] = "insert" /\ SameKey(ask[r]) = {}
  /\ jobs' = [jobs EXCEPT ![r] = [ask |-> ask[r], status |-> NoStatus, file |-> NoFile]]
  /\ rpc' = [rpc EXCEPT ![r] = "send"]
  /\ UNCHANGED <<queue, workerVars, ask, answer, got, faults>>

\* db.add(job); commit
InsertJob(r) ==
  /\ rpc[r] = "insert" /\ SameKey(ask[r]) = {}
  /\ jobs' = [jobs EXCEPT ![r] = [ask |-> ask[r], status |-> "pending", file |-> NoFile]]
  /\ rpc' = [rpc EXCEPT ![r] = "send"]
  /\ UNCHANGED <<queue, workerVars, ask, answer, got, faults>>

\* The unique index on idempotency_key, over all schools: 500.
InsertConflicts(r) ==
  /\ rpc[r] = "insert" /\ SameKey(ask[r]) # {}
  /\ rpc' = [rpc EXCEPT ![r] = "error"]
  /\ UNCHANGED <<jobs, queue, workerVars, ask, answer, got, faults>>

\* process_export_job.send(job.id)
SendMessage(r) ==
  /\ rpc[r] = "send"
  /\ queue' = [queue EXCEPT ![[job |-> r, retries |-> 0]] = @ + 1]
  /\ answer' = [answer EXCEPT ![r] = r]
  /\ rpc' = [rpc EXCEPT ![r] = "poll"]
  /\ UNCHANGED <<jobs, workerVars, ask, got, faults>>

SendFails(r) ==
  /\ rpc[r] = "send" /\ Fault("broker_down")
  /\ rpc' = [rpc EXCEPT ![r] = "error"]
  /\ UNCHANGED <<jobs, queue, workerVars, ask, answer, got>>

ApiCrash(r) ==
  /\ rpc[r] \in {"lookup", "insert", "send"} /\ Fault("api_crash")
  /\ rpc' = [rpc EXCEPT ![r] = "error"]
  /\ UNCHANGED <<jobs, queue, workerVars, ask, answer, got>>

-----------------------------------------------------------------------------
(* The browser: pollJob, then the download endpoint's guard.               *)

JobOf(r) == jobs[answer[r]]

PollJob(r) ==
  /\ rpc[r] = "poll"
  /\ \/ JobOf(r).status = "completed" /\ rpc' = [rpc EXCEPT ![r] = "fetch"]
     \/ JobOf(r).status = "failed" /\ rpc' = [rpc EXCEPT ![r] = "error"]
     \* 60 polls passed: "Export timed out"
     \/ /\ JobOf(r).status \in {"pending", "processing"}
        /\ rpc' = [rpc EXCEPT ![r] = "error"]
  /\ UNCHANGED <<jobs, queue, workerVars, ask, answer, got, faults>>

Ready(j) == jobs[j].status = "completed" /\ jobs[j].file # NoFile

Download(r) ==
  /\ rpc[r] = "fetch" /\ Ready(answer[r])
  /\ got' = [got EXCEPT ![r] = JobOf(r).file]
  /\ rpc' = [rpc EXCEPT ![r] = "done"]
  /\ UNCHANGED <<jobs, queue, workerVars, ask, answer, faults>>

\* "Job result is not ready": the status changed since the last poll.
DownloadRefused(r) ==
  /\ rpc[r] = "fetch" /\ ~Ready(answer[r])
  /\ rpc' = [rpc EXCEPT ![r] = "error"]
  /\ UNCHANGED <<jobs, queue, workerVars, ask, answer, got, faults>>

-----------------------------------------------------------------------------
(* The worker: _process_export_job_async between delivery and ack.         *)

Release(w) ==
  /\ wpc' = [wpc EXCEPT ![w] = "idle"]
  /\ msg' = [msg EXCEPT ![w] = NoMsg]
  /\ loaded' = [loaded EXCEPT ![w] = NoStatus]

\* What becomes of the message of an attempt that raised: it comes back
\* with one more retry on its count, or goes to the dead-letter queue.
Requeue(m) ==
  IF m.retries = MaxRetries THEN UNCHANGED queue
  ELSE \E n \in RetryCopies :
         queue' = [queue EXCEPT ![[m EXCEPT !.retries = @ + 1]] = @ + n]

Take(w) ==
  /\ wpc[w] = "idle"
  /\ \E m \in Message :
       /\ queue[m] > 0
       /\ queue' = [queue EXCEPT ![m] = @ - 1]
       /\ msg' = [msg EXCEPT ![w] = m]
  /\ wpc' = [wpc EXCEPT ![w] = "load"]
  /\ UNCHANGED <<jobs, loaded, requestVars, faults>>

\* Variant: a job somebody is processing already is skipped.
Load_skipsProcessing(w) ==
  /\ wpc[w] = "load"
  /\ IF jobs[msg[w].job] = NoJob \/ jobs[msg[w].job].status = "processing"
     THEN Release(w)
     ELSE /\ loaded' = [loaded EXCEPT ![w] = jobs[msg[w].job].status]
          /\ wpc' = [wpc EXCEPT ![w] = "mark"]
          /\ UNCHANGED msg
  /\ UNCHANGED <<jobs, queue, requestVars, faults>>

\* job = session.get(Job, job_id); no such row: return, nothing raised
Load(w) ==
  /\ wpc[w] = "load"
  /\ IF jobs[msg[w].job] = NoJob
     THEN Release(w)
     ELSE /\ loaded' = [loaded EXCEPT ![w] = jobs[msg[w].job].status]
          /\ wpc' = [wpc EXCEPT ![w] = "mark"]
          /\ UNCHANGED msg
  /\ UNCHANGED <<jobs, queue, requestVars, faults>>

\* job.status = processing; commit: no UPDATE if it was loaded so.
Mark(w) ==
  /\ wpc[w] = "mark"
  /\ jobs' = IF loaded[w] = "processing" THEN jobs
             ELSE [jobs EXCEPT ![msg[w].job].status = "processing"]
  /\ loaded' = [loaded EXCEPT ![w] = "processing"]
  /\ wpc' = [wpc EXCEPT ![w] = "build"]
  /\ UNCHANGED <<queue, msg, requestVars, faults>>

\* A builder returns the file: completed, result and file_data in one commit.
Built(a) == [school |-> a.school, type |-> a.type, subject |-> a.subject]

BuildOk_fileLater(w) ==   \* variant: the file is not in that commit
  /\ wpc[w] = "build"
  /\ jobs' = [jobs EXCEPT ![msg[w].job].status = "completed"]
  /\ Release(w)
  /\ UNCHANGED <<queue, requestVars, faults>>

BuildOk(w) ==
  /\ wpc[w] = "build"
  /\ LET j == msg[w].job IN
       jobs' = [jobs EXCEPT ![j] = [ask |-> jobs[j].ask, status |-> "completed",
                                    file |-> Built(jobs[j].ask)]]
  /\ Release(w)
  /\ UNCHANGED <<queue, requestVars, faults>>

\* Variants: the failure is not recorded; it takes an older file along.
BuildFail_unrecorded(w) ==
  /\ wpc[w] = "build"
  /\ Requeue(msg[w])
  /\ Release(w)
  /\ UNCHANGED <<jobs, requestVars, faults>>

BuildFail_dropsFile(w) ==
  /\ wpc[w] = "build"
  /\ LET j == msg[w].job IN
       jobs' = [jobs EXCEPT ![j] = [ask |-> jobs[j].ask, status |-> "failed", file |-> NoFile]]
  /\ Requeue(msg[w])
  /\ Release(w)
  /\ UNCHANGED <<requestVars, faults>>

\* A builder raises ("... not found", a library error): failed, then raise.
BuildFail(w) ==
  /\ wpc[w] = "build"
  /\ jobs' = [jobs EXCEPT ![msg[w].job].status = "failed"]
  /\ Requeue(msg[w])
  /\ Release(w)
  /\ UNCHANGED <<requestVars, faults>>

\* Raised where "except Exception" does not see it or cannot record it:
\* TimeLimitExceeded, or an error of the database in the load or a commit.
Interrupt(w) ==
  /\ wpc[w] # "idle" /\ Fault("interrupt")
  /\ Requeue(msg[w])
  /\ Release(w)
  /\ UNCHANGED <<jobs, requestVars>>

\* The process dies: its unacknowledged message is delivered again.
WorkerCrash(w) ==
  /\ wpc[w] # "idle" /\ Fault("worker_crash")
  /\ queue' = [queue EXCEPT ![msg[w]] = @ + 1]
  /\ Release(w)
  /\ UNCHANGED <<jobs, requestVars>>

\* The broker gives up on a worker that is only slow: a second delivery.
HeartbeatLost(w) ==
  /\ wpc[w] # "idle" /\ Fault("heartbeat_lost")
  /\ queue' = [queue EXCEPT ![msg[w]] = @ + 1]
  /\ UNCHANGED <<jobs, workerVars, requestVars>>

\* AgeLimit: a message older than an hour is dropped.
DropOld ==
  /\ Fault("too_old")
  /\ \E m \in Message : queue[m] > 0 /\ queue' = [queue EXCEPT ![m] = @ - 1]
  /\ UNCHANGED <<jobs, workerVars, requestVars>>

-----------------------------------------------------------------------------

Api(r) ==
  \/ ReturnExisting(r)
  \/ FindNothing(r)
  \/ InsertJob(r)
  \/ InsertConflicts(r)
  \/ SendMessage(r)

Browser(r) == PollJob(r) \/ Download(r) \/ DownloadRefused(r)

Work(w) == Take(w) \/ Load(w) \/ Mark(w) \/ BuildOk(w) \/ BuildFail(w)

WorkerFault(w) == Interrupt(w) \/ WorkerCrash(w) \/ HeartbeatLost(w)

Next ==
  \/ \E r \in Requests :
       \/ \E a \in Asks : Submit(r, a)
       \/ Api(r) \/ SendFails(r) \/ ApiCrash(r)
       \/ Browser(r)
  \/ \E w \in Workers : Work(w) \/ WorkerFault(w)
  \/ DropOld

Spec == Init /\ [][Next]_vars

\* Accepted requests run on, and workers keep taking and finishing messages;
\* whether a builder succeeds is not assumed, nor that a browser goes on.
Fairness ==
  /\ \A r \in Requests : WF_vars(Api(r))
  /\ \A w \in Workers : WF_vars(Work(w))
FairSpec == Spec /\ Fairness

-----------------------------------------------------------------------------
(* Properties.                                                             *)

\* Every variable has its type; a busy worker has a message.
TypeOK ==
  /\ jobs \in [Requests -> Job \cup {NoJob}]
  /\ queue \in [Message -> Nat]
  /\ wpc \in [Workers -> {"idle", "load", "mark", "build"}]
  /\ msg \in [Workers -> Message \cup {NoMsg}]
  /\ loaded \in [Workers -> Status \cup {NoStatus}]
  /\ rpc \in [Requests -> {"idle", "lookup", "insert", "send",
                           "poll", "fetch", "done", "error"}]
  /\ ask \in [Requests -> Asks \cup {NoAsk}]
  /\ answer \in [Requests -> Requests \cup {NoJob}]
  /\ got \in [Requests -> File \cup {NoFile}]
  /\ faults \in Nat
  /\ \A w \in Workers : wpc[w] # "idle" => msg[w] # NoMsg

\* However the lookups and inserts of concurrent requests interleave, one
\* idempotency key has at most one job.
OneJobPerKey ==
  \A i, j \in Existing : Key(jobs[i].ask) = Key(jobs[j].ask) => i = j

\* A message never overtakes the commit of the row it names, so no worker
\* drops one for want of its job (the early return of the worker).
QueuedJobsExist ==
  /\ \A m \in Message : queue[m] > 0 => jobs[m.job] # NoJob
  /\ \A w \in Workers : wpc[w] # "idle" => jobs[msg[w].job] # NoJob

\* A job that polls as completed has its file, also when several deliveries
\* of it are processed at once or one of them fails (download's guard).
CompletedHasFile ==
  \A j \in Existing : jobs[j].status = "completed" => jobs[j].file # NoFile

\* A download is a file of the requester's school, and unless the client
\* chose the key itself, of the subject it asked for.
DownloadScoped ==
  \A r \in Requests : got[r] # NoFile =>
    /\ got[r].school = ask[r].school
    /\ ask[r].header = NoKey => got[r].subject = ask[r].subject

\* What a job has produced is never lost: neither a second delivery nor a
\* failing retry takes the file away.
FileKept ==
  [][\A j \in Requests :
       jobs[j] # NoJob /\ jobs[j].file # NoFile =>
         jobs'[j] # NoJob /\ jobs'[j].file = jobs[j].file]_vars

\* An unfinished job is always in somebody's hands: the request about to
\* send its message, the queue, or a worker.  Processing always has a worker
\* behind it or a delivery to come.
UnfinishedIsCarried ==
  \A j \in Existing : jobs[j].status \in {"pending", "processing"} =>
    \/ rpc[j] = "send"
    \/ \E m \in Message : m.job = j /\ queue[m] > 0
    \/ \E w \in Workers : wpc[w] # "idle" /\ msg[w].job = j

\* Every job is settled for good at last, as completed or as failed, through
\* worker crashes, duplicate deliveries and retries.
Settled(j) == jobs[j] # NoJob /\ jobs[j].status \in {"completed", "failed"}
EveryJobSettles == \A j \in Requests : jobs[j] # NoJob ~> []Settled(j)

\* The file a request downloads is of the type it asked for.
DownloadHasAskedType ==
  \A r \in Requests : got[r] # NoFile => got[r].type = ask[r].type
=============================================================================
