------------------------- MODULE ExportJobs_proofs --------------------------
(***************************************************************************)
(* Safety of export jobs for every number of requests, workers, retries    *)
(* and faults.  The invariants of ExportJobs are not inductive alone: a    *)
(* message names a committed row because the request that sends it has     *)
(* inserted that row (OwnRow), and a download is in scope because a        *)
(* request is only ever answered with a job of its key and school          *)
(* (Answered), whose file is built from the job's own payload (FileBuilt). *)
(***************************************************************************)
EXTENDS ExportJobs, Sequences, TLAPS

OwnRow ==
  \A r \in Requests :
    /\ rpc[r] \in {"idle", "lookup", "insert"} => jobs[r] = NoJob
    /\ rpc[r] = "send" => jobs[r] # NoJob

Asked ==
  \A r \in Requests :
    /\ rpc[r] # "idle" => ask[r] \in Asks
    /\ jobs[r] # NoJob => jobs[r].ask = ask[r]

Answered ==
  \A r \in Requests : rpc[r] \in {"poll", "fetch"} =>
    /\ answer[r] \in Existing
    /\ Key(jobs[answer[r]].ask) = Key(ask[r])
    /\ jobs[answer[r]].ask.school = ask[r].school

FileBuilt ==
  \A j \in Existing : jobs[j].file # NoFile => jobs[j].file = Built(jobs[j].ask)

GotOnce == \A r \in Requests : rpc[r] # "done" => got[r] = NoFile

Inv == TypeOK /\ OwnRow /\ Asked /\ Answered /\ FileBuilt /\ GotOnce
       /\ OneJobPerKey /\ QueuedJobsExist /\ CompletedHasFile /\ DownloadScoped

-----------------------------------------------------------------------------

\* Two requests with the same key and no header of their own ask for the
\* same subject: a header key is never a payload key.
LEMMA KeyScope ==
  ASSUME NEW a \in Asks, NEW b \in Asks, Key(a) = Key(b), b.header = NoKey
  PROVE  a.subject = b.subject /\ a.school = b.school
<1>1. Key(b) = <<Family[b.type], b.subject, b.school>>
  BY DEF Key
<1>2. CASE a.header = NoKey
  BY <1>1, <1>2 DEF Key
<1>3. CASE a.header # NoKey
  <2>1. Key(a) = <<a.header>>
    BY <1>3 DEF Key
  <2>2. Len(Key(a)) = 1 /\ Len(Key(b)) = 3
    BY <1>1, <2>1
  <2> QED
    BY <2>2
<1> QED
  BY <1>2, <1>3

\* At first there is no job, and nobody works.
LEMMA InitInv == Init => Inv
<1> SUFFICES ASSUME Init PROVE Inv
  OBVIOUS
<1>1. TypeOK
  BY DEF Init, TypeOK
<1>2. OwnRow /\ Asked /\ Answered /\ FileBuilt /\ GotOnce
  BY DEF Init, OwnRow, Asked, Answered, FileBuilt, GotOnce, Existing
<1>3. OneJobPerKey /\ QueuedJobsExist /\ CompletedHasFile /\ DownloadScoped
  BY DEF Init, OneJobPerKey, QueuedJobsExist, CompletedHasFile, DownloadScoped, Existing
<1> QED
  BY <1>1, <1>2, <1>3 DEF Inv

\* A step of request r that writes neither the table nor the queue, asks for
\* nothing new, and ends where the request holds no job of its own to send.
LEMMA RequestStepInv ==
  ASSUME Inv, NEW r \in Requests, NEW to, rpc[r] # "idle",
         to \in {"insert", "poll", "fetch", "done", "error"},
         to = "insert" => rpc[r] = "lookup",
         rpc' = [rpc EXCEPT ![r] = to],
         answer' \in [Requests -> Requests \cup {NoJob}],
         \A s \in Requests \ {r} : answer'[s] = answer[s],
         to \in {"poll", "fetch"} =>
           /\ answer'[r] \in Existing
           /\ Key(jobs[answer'[r]].ask) = Key(ask[r])
           /\ jobs[answer'[r]].ask.school = ask[r].school,
         got' \in [Requests -> File \cup {NoFile}],
         \A s \in Requests \ {r} : got'[s] = got[s],
         to # "done" => got'[r] = got[r] /\ rpc[r] # "done",
         to = "done" => \A f \in File : got'[r] = f =>
           /\ f.school = ask[r].school
           /\ ask[r].header = NoKey => f.subject = ask[r].subject,
         faults' \in Nat,
         UNCHANGED <<jobs, queue, wpc, msg, loaded, ask>>
  PROVE  Inv'
<1> USE DEF Inv
<1>1. \A s \in Requests : rpc'[s] = IF s = r THEN to ELSE rpc[s]
  BY DEF TypeOK
<1>2. TypeOK'
  BY DEF TypeOK
<1>3. OwnRow'
  BY <1>1 DEF OwnRow
<1>4. Asked'
  BY <1>1 DEF Asked
<1>5. Answered'
  BY <1>1 DEF Answered, Existing
<1>6. GotOnce'
  BY <1>1 DEF GotOnce
<1>7. FileBuilt' /\ OneJobPerKey' /\ QueuedJobsExist' /\ CompletedHasFile'
  BY DEF FileBuilt, OneJobPerKey, QueuedJobsExist, CompletedHasFile, Existing
<1>8. DownloadScoped'
  BY <1>2 DEF DownloadScoped, TypeOK, GotOnce
<1> QED
  BY <1>2, <1>3, <1>4, <1>5, <1>6, <1>7, <1>8

\* A step of workers and queue that leaves the table alone: messages move,
\* but only messages of jobs that exist.
LEMMA MessageStepInv ==
  ASSUME Inv,
         queue' \in [Message -> Nat],
         wpc' \in [Workers -> {"idle", "load", "mark", "build"}],
         msg' \in [Workers -> Message \cup {NoMsg}],
         loaded' \in [Workers -> Status \cup {NoStatus}],
         faults' \in Nat,
         \A w \in Workers : wpc'[w] # "idle" => msg'[w] # NoMsg,
         \A m \in Message : queue'[m] > 0 => jobs[m.job] # NoJob,
         \A w \in Workers : wpc'[w] # "idle" => jobs[msg'[w].job] # NoJob,
         UNCHANGED <<jobs, rpc, ask, answer, got>>
  PROVE  Inv'
<1> USE DEF Inv
<1>1. TypeOK'
  BY DEF TypeOK
<1>2. QueuedJobsExist'
  BY DEF QueuedJobsExist
<1>3. OwnRow' /\ Asked' /\ Answered' /\ FileBuilt' /\ GotOnce'
  BY DEF OwnRow, Asked, Answered, FileBuilt, GotOnce, Existing
<1>4. OneJobPerKey' /\ CompletedHasFile' /\ DownloadScoped'
  BY DEF OneJobPerKey, CompletedHasFile, DownloadScoped, Existing
<1> QED
  BY <1>1, <1>2, <1>3, <1>4

\* A worker changes status or file of an existing job j, and nothing else in
\* the table; the file, if new, is built from the job's payload.  Messages
\* move as above.
LEMMA JobStepInv ==
  ASSUME Inv, NEW j \in Existing, NEW st \in Status, NEW f \in File \cup {NoFile},
         jobs' = [jobs EXCEPT ![j] = [ask |-> jobs[j].ask, status |-> st, file |-> f]],
         f # NoFile => f = Built(jobs[j].ask),
         st = "completed" => f # NoFile,
         queue' \in [Message -> Nat],
         wpc' \in [Workers -> {"idle", "load", "mark", "build"}],
         msg' \in [Workers -> Message \cup {NoMsg}],
         loaded' \in [Workers -> Status \cup {NoStatus}],
         \A w \in Workers : wpc'[w] # "idle" => msg'[w] # NoMsg,
         \A m \in Message : queue'[m] > 0 => jobs[m.job] # NoJob,
         \A w \in Workers : wpc'[w] # "idle" => jobs[msg'[w].job] # NoJob,
         UNCHANGED <<rpc, ask, answer, got, faults>>
  PROVE  Inv'
<1> USE DEF Inv
<1>1. j \in Requests /\ jobs[j] \in Job /\ jobs[j].ask \in Asks
  BY DEF Existing, TypeOK, Job
<1>2. [ask |-> jobs[j].ask, status |-> st, file |-> f] \in Job
  BY <1>1 DEF Job
<1>3. /\ jobs' \in [Requests -> Job \cup {NoJob}]
      /\ \A i \in Requests : i # j => jobs'[i] = jobs[i]
      /\ jobs'[j] = [ask |-> jobs[j].ask, status |-> st, file |-> f]
      /\ jobs'[j] # NoJob
  BY <1>1, <1>2, NullAssumption DEF TypeOK
<1>4. /\ Existing' = Existing
      /\ \A i \in Existing : jobs'[i].ask = jobs[i].ask
  BY <1>1, <1>3 DEF Existing
<1>5. TypeOK'
  BY <1>3 DEF TypeOK
<1>6. OwnRow' /\ Asked' /\ GotOnce'
  BY <1>1, <1>3, <1>4 DEF OwnRow, Asked, GotOnce, Existing
<1>7. Answered'
  BY <1>4 DEF Answered, Key
<1>8. FileBuilt'
  BY <1>1, <1>3, <1>4 DEF FileBuilt, Existing, Built
<1>9. OneJobPerKey'
  <2>1. \A i \in Existing : Key(jobs'[i].ask) = Key(jobs[i].ask)
    BY <1>4
  <2> QED
    BY <1>4, <2>1 DEF OneJobPerKey
<1>10. QueuedJobsExist'
  <2>1. \A i : jobs[i] # NoJob => jobs'[i] # NoJob
    BY <1>1, <1>3, NullAssumption DEF TypeOK
  <2> QED
    BY <2>1 DEF QueuedJobsExist
<1>11. CompletedHasFile'
  BY <1>1, <1>3, <1>4 DEF CompletedHasFile, Existing
<1>12. DownloadScoped'
  BY DEF DownloadScoped
<1> QED
  BY <1>5, <1>6, <1>7, <1>8, <1>9, <1>10, <1>11, <1>12

-----------------------------------------------------------------------------
(* The API's steps.                                                        *)

LEMMA SubmitInv ==
  ASSUME Inv, NEW r \in Requests, NEW a \in Asks, Submit(r, a)
  PROVE  Inv'
<1> USE DEF Inv
<1>1. /\ rpc[r] = "idle"
      /\ ask' = [ask EXCEPT ![r] = a]
      /\ rpc' = [rpc EXCEPT ![r] = IF Owner[a.subject] = a.school THEN "lookup" ELSE "error"]
      /\ UNCHANGED <<jobs, queue, wpc, msg, loaded, answer, got, faults>>
  BY DEF Submit, workerVars
<1>2. jobs[r] = NoJob
  BY <1>1 DEF OwnRow
<1>3. TypeOK'
  BY <1>1 DEF TypeOK
<1>4. OwnRow' /\ Asked'
  BY <1>1, <1>2 DEF OwnRow, Asked, TypeOK
<1>5. Answered' /\ GotOnce'
  BY <1>1 DEF Answered, GotOnce, Existing, TypeOK
<1>6. FileBuilt' /\ OneJobPerKey' /\ QueuedJobsExist' /\ CompletedHasFile'
  BY <1>1 DEF FileBuilt, OneJobPerKey, QueuedJobsExist, CompletedHasFile, Existing
<1>7. DownloadScoped'
  BY <1>1 DEF DownloadScoped, GotOnce, TypeOK
<1> QED
  BY <1>3, <1>4, <1>5, <1>6, <1>7

\* A job that is inserted is the only one of its key, and has the asker's
\* school.
LEMMA InsertJobInv ==
  ASSUME Inv, NEW r \in Requests, InsertJob(r)
  PROVE  Inv'
<1> USE DEF Inv
<1> DEFINE row == [ask |-> ask[r], status |-> "pending", file |-> NoFile]
<1>1. /\ rpc[r] = "insert" /\ SameKey(ask[r]) = {}
      /\ jobs' = [jobs EXCEPT ![r] = row]
      /\ rpc' = [rpc EXCEPT ![r] = "send"]
      /\ UNCHANGED <<queue, wpc, msg, loaded, ask, answer, got, faults>>
  BY DEF InsertJob, workerVars
<1>2. ask[r] \in Asks /\ jobs[r] = NoJob
  BY <1>1 DEF Asked, OwnRow
<1>3. row \in Job /\ row # NoJob
  BY <1>2, NullAssumption DEF Job, Status
<1>4. /\ jobs'[r] = row
      /\ \A j \in Requests : j # r => jobs'[j] = jobs[j]
      /\ Existing' = Existing \cup {r}
      /\ \A j \in Existing : j # r
  BY <1>1, <1>2, <1>3 DEF TypeOK, Existing
<1>5. row.ask = ask[r] /\ row.status = "pending" /\ row.file = NoFile
  OBVIOUS
<1> HIDE DEF row
<1>6. TypeOK'
  BY <1>1, <1>3 DEF TypeOK
<1>7. OwnRow' /\ Asked' /\ GotOnce'
  BY <1>1, <1>3, <1>4, <1>5 DEF OwnRow, Asked, GotOnce, TypeOK
<1>8. Answered'
  <2>1. \A j \in Existing : jobs'[j] = jobs[j]
    BY <1>4 DEF Existing
  <2> QED
    BY <1>1, <1>4, <2>1 DEF Answered, TypeOK
<1>9. FileBuilt' /\ CompletedHasFile'
  BY <1>4, <1>5 DEF FileBuilt, CompletedHasFile, Existing
<1>10. OneJobPerKey'
  <2>1. \A j \in Existing : Key(jobs[j].ask) # Key(ask[r])
    BY <1>1 DEF SameKey
  <2>2. \A j \in Existing : jobs'[j] = jobs[j]
    BY <1>4 DEF Existing
  <2> QED
    BY <1>4, <1>5, <2>1, <2>2 DEF OneJobPerKey
<1>11. QueuedJobsExist'
  <2>1. \A j : jobs[j] # NoJob => jobs'[j] # NoJob
    BY <1>1, <1>3 DEF TypeOK
  <2> QED
    BY <1>1, <2>1 DEF QueuedJobsExist
<1>12. DownloadScoped'
  BY <1>1 DEF DownloadScoped
<1> QED
  BY <1>6, <1>7, <1>8, <1>9, <1>10, <1>11, <1>12

\* A message is sent for the job that its request has committed.
LEMMA SendMessageInv ==
  ASSUME Inv, NEW r \in Requests, SendMessage(r)
  PROVE  Inv'
<1> USE DEF Inv
<1> DEFINE m == [job |-> r, retries |-> 0]
<1>1. /\ rpc[r] = "send"
      /\ queue' = [queue EXCEPT ![m] = @ + 1]
      /\ answer' = [answer EXCEPT ![r] = r]
      /\ rpc' = [rpc EXCEPT ![r] = "poll"]
      /\ UNCHANGED <<jobs, wpc, msg, loaded, ask, got, faults>>
  BY DEF SendMessage, workerVars
<1>2. m \in Message /\ m.job = r
  BY ExportJobsAssumption DEF Message
<1>3. r \in Existing /\ jobs[r].ask = ask[r]
  BY <1>1 DEF OwnRow, Asked, Existing
<1> HIDE DEF m
<1>4. TypeOK'
  BY <1>1, <1>2 DEF TypeOK
<1>5. QueuedJobsExist'
  BY <1>1, <1>2, <1>3 DEF QueuedJobsExist, Existing, TypeOK
<1>6. Answered'
  BY <1>1, <1>3 DEF Answered, Existing, TypeOK
<1>7. OwnRow' /\ Asked' /\ GotOnce'
  BY <1>1 DEF OwnRow, Asked, GotOnce, TypeOK
<1>8. FileBuilt' /\ OneJobPerKey' /\ CompletedHasFile' /\ DownloadScoped'
  BY <1>1 DEF FileBuilt, OneJobPerKey, CompletedHasFile, DownloadScoped, Existing
<1> QED
  BY <1>4, <1>5, <1>6, <1>7, <1>8

\* The other statements of _enqueue_job answer with the job of the key, or
\* fail.
LEMMA OtherApiInv ==
  ASSUME Inv, NEW r \in Requests,
         \/ ReturnExisting(r) \/ FindNothing(r) \/ InsertConflicts(r)
         \/ SendFails(r) \/ ApiCrash(r)
  PROVE  Inv'
<1> USE DEF Inv
<1>0. /\ answer \in [Requests -> Requests \cup {NoJob}]
      /\ got \in [Requests -> File \cup {NoFile}]
      /\ faults \in Nat /\ faults + 1 \in Nat
  BY DEF TypeOK
<1>1. CASE ReturnExisting(r)
  <2>1. PICK j \in Visible(r) : answer' = [answer EXCEPT ![r] = j]
    BY <1>1 DEF ReturnExisting
  <2>2. j \in Existing /\ Key(jobs[j].ask) = Key(ask[r]) /\ jobs[j].ask.school = ask[r].school
    BY DEF Visible, SameKey
  <2>3. j \in Requests
    BY <2>2 DEF Existing
  <2> QED
    BY <1>0, <1>1, <2>1, <2>2, <2>3, RequestStepInv DEF ReturnExisting, workerVars
<1>2. CASE FindNothing(r)
  BY <1>0, <1>2, RequestStepInv DEF FindNothing, workerVars
<1>3. CASE InsertConflicts(r)
  BY <1>0, <1>3, RequestStepInv DEF InsertConflicts, workerVars
<1>4. CASE SendFails(r)
  BY <1>0, <1>4, RequestStepInv DEF SendFails, Fault, workerVars
<1>5. CASE ApiCrash(r)
  BY <1>0, <1>5, RequestStepInv DEF ApiCrash, Fault, workerVars
<1> QED
  BY <1>1, <1>2, <1>3, <1>4, <1>5

-----------------------------------------------------------------------------
(* The browser's steps.                                                    *)

LEMMA BrowserInv ==
  ASSUME Inv, NEW r \in Requests, Browser(r)
  PROVE  Inv'
<1> USE DEF Inv
<1>0. /\ answer \in [Requests -> Requests \cup {NoJob}]
      /\ got \in [Requests -> File \cup {NoFile}]
      /\ faults \in Nat
  BY DEF TypeOK
<1>1. CASE PollJob(r)
  <2>1. rpc[r] = "poll" /\ UNCHANGED <<jobs, queue, wpc, msg, loaded, ask, answer, got, faults>>
    BY <1>1 DEF PollJob, workerVars
  <2>2. PICK to \in {"fetch", "error"} : rpc' = [rpc EXCEPT ![r] = to]
    BY <1>1 DEF PollJob
  <2> QED
    BY <1>0, <2>1, <2>2, RequestStepInv DEF Answered
<1>2. CASE Download(r)
  <2> DEFINE j == answer[r]
             f == jobs[j].file
  <2>1. rpc[r] = "fetch" /\ Ready(j)
        /\ got' = [got EXCEPT ![r] = f]
        /\ rpc' = [rpc EXCEPT ![r] = "done"]
        /\ UNCHANGED <<jobs, queue, wpc, msg, loaded, ask, answer, faults>>
    BY <1>2 DEF Download, JobOf, workerVars
  <2>2. j \in Existing /\ Key(jobs[j].ask) = Key(ask[r])
        /\ jobs[j].ask.school = ask[r].school
    BY <2>1 DEF Answered
  <2>3. ask[r] \in Asks /\ jobs[j].ask \in Asks /\ f = Built(jobs[j].ask)
    BY <2>1, <2>2 DEF Asked, FileBuilt, Ready, Existing, TypeOK, Job
  <2>4. f.school = jobs[j].ask.school /\ f.subject = jobs[j].ask.subject /\ f \in File
    BY <2>3 DEF Built, File, Asks
  <2>5. ask[r].header = NoKey => f.subject = ask[r].subject
    BY <2>2, <2>3, <2>4, KeyScope
  <2> HIDE DEF j, f
  <2> QED
    BY <1>0, <2>1, <2>2, <2>4, <2>5, RequestStepInv
<1>3. CASE DownloadRefused(r)
  BY <1>0, <1>3, RequestStepInv DEF DownloadRefused, workerVars
<1> QED
  BY <1>1, <1>2, <1>3 DEF Browser

-----------------------------------------------------------------------------
(* The workers' steps.                                                     *)

\* A worker that gives its message up has nothing left.
LEMMA ReleaseType ==
  ASSUME TypeOK, NEW w \in Workers, Release(w)
  PROVE  /\ wpc' \in [Workers -> {"idle", "load", "mark", "build"}]
         /\ msg' \in [Workers -> Message \cup {NoMsg}]
         /\ loaded' \in [Workers -> Status \cup {NoStatus}]
         /\ \A v \in Workers : wpc'[v] # "idle" => wpc[v] # "idle" /\ msg'[v] = msg[v]
BY DEF TypeOK, Release

\* A failed attempt puts back only messages of the same job.
LEMMA RequeueType ==
  ASSUME TypeOK, NEW m \in Message, Requeue(m)
  PROVE  /\ queue' \in [Message -> Nat]
         /\ \A n \in Message : queue'[n] > 0 => queue[n] > 0 \/ n.job = m.job
<1>1. CASE m.retries = MaxRetries
  BY <1>1 DEF Requeue, TypeOK
<1>2. CASE m.retries # MaxRetries
  <2> DEFINE again == [m EXCEPT !.retries = @ + 1]
  <2>1. again \in Message /\ again.job = m.job
    BY <1>2, ExportJobsAssumption DEF Message
  <2>2. PICK n \in RetryCopies : queue' = [queue EXCEPT ![again] = @ + n]
    BY <1>2 DEF Requeue
  <2>3. n \in Nat
    BY ExportJobsAssumption
  <2> HIDE DEF again
  <2> QED
    BY <2>1, <2>2, <2>3 DEF TypeOK
<1> QED
  BY <1>1, <1>2

\* A busy worker holds a message of a job that exists.
LEMMA BusyWorker ==
  ASSUME Inv, NEW w \in Workers, wpc[w] # "idle"
  PROVE  msg[w] \in Message /\ msg[w].job \in Requests /\ msg[w].job \in Existing
BY DEF Inv, TypeOK, QueuedJobsExist, Existing, Message

\* A worker takes a message of the queue, which names a job.
LEMMA TakeInv ==
  ASSUME Inv, NEW w \in Workers, Take(w)
  PROVE  Inv'
<1>1. PICK m \in Message :
        /\ queue[m] > 0
        /\ queue' = [queue EXCEPT ![m] = @ - 1]
        /\ msg' = [msg EXCEPT ![w] = m]
  BY DEF Take
<1>2. /\ wpc' = [wpc EXCEPT ![w] = "load"]
      /\ UNCHANGED <<jobs, loaded, rpc, ask, answer, got, faults>>
  BY DEF Take, requestVars
<1>3. queue' \in [Message -> Nat]
  BY <1>1 DEF Inv, TypeOK
<1>4. /\ msg' \in [Workers -> Message \cup {NoMsg}]
      /\ wpc' \in [Workers -> {"idle", "load", "mark", "build"}]
      /\ loaded' \in [Workers -> Status \cup {NoStatus}] /\ faults' \in Nat
  BY <1>1, <1>2 DEF Inv, TypeOK
<1>5. \A n \in Message : queue'[n] > 0 => jobs[n.job] # NoJob
  BY <1>1 DEF Inv, TypeOK, QueuedJobsExist
<1>6. \A v \in Workers : wpc'[v] # "idle" => msg'[v] # NoMsg /\ jobs[msg'[v].job] # NoJob
  BY <1>1, <1>2, NullAssumption DEF Inv, TypeOK, QueuedJobsExist
<1> QED
  BY <1>2, <1>3, <1>4, <1>5, <1>6, MessageStepInv

\* The worker reads the status of the job ...
LEMMA LoadInv ==
  ASSUME Inv, NEW w \in Workers, Load(w)
  PROVE  Inv'
<1>1. msg[w].job \in Existing
  BY BusyWorker DEF Load
<1>2. /\ loaded' = [loaded EXCEPT ![w] = jobs[msg[w].job].status]
      /\ wpc' = [wpc EXCEPT ![w] = "mark"] /\ wpc[w] = "load"
      /\ UNCHANGED <<jobs, queue, msg, rpc, ask, answer, got, faults>>
  BY <1>1 DEF Load, Existing, requestVars
<1>3. jobs[msg[w].job].status \in Status
  BY <1>1 DEF Inv, TypeOK, Existing, Job
<1>4. /\ wpc' \in [Workers -> {"idle", "load", "mark", "build"}]
      /\ loaded' \in [Workers -> Status \cup {NoStatus}]
  BY <1>2, <1>3 DEF Inv, TypeOK
<1>5. /\ queue' \in [Message -> Nat] /\ msg' \in [Workers -> Message \cup {NoMsg}]
      /\ faults' \in Nat
  BY <1>2 DEF Inv, TypeOK
<1>6. \A v \in Workers : wpc'[v] # "idle" => wpc[v] # "idle"
  BY <1>2 DEF Inv, TypeOK
<1> QED
  BY <1>2, <1>4, <1>5, <1>6, MessageStepInv DEF Inv, TypeOK, QueuedJobsExist

\* ... sets it to processing ...
LEMMA MarkInv ==
  ASSUME Inv, NEW w \in Workers, Mark(w)
  PROVE  Inv'
<1> DEFINE j == msg[w].job
<1>1. j \in Existing /\ j \in Requests
  BY BusyWorker DEF Mark
<1>2. /\ wpc' = [wpc EXCEPT ![w] = "build"] /\ wpc[w] = "mark"
      /\ loaded' = [loaded EXCEPT ![w] = "processing"]
      /\ UNCHANGED <<queue, msg, rpc, ask, answer, got, faults>>
  BY DEF Mark, requestVars
<1>3. /\ wpc' \in [Workers -> {"idle", "load", "mark", "build"}]
      /\ loaded' \in [Workers -> Status \cup {NoStatus}]
  BY <1>2 DEF Inv, TypeOK, Status
<1>4. /\ queue' \in [Message -> Nat] /\ msg' \in [Workers -> Message \cup {NoMsg}]
      /\ faults' \in Nat
  BY <1>2 DEF Inv, TypeOK
<1>5. /\ \A v \in Workers : wpc'[v] # "idle" => msg'[v] # NoMsg /\ jobs[msg'[v].job] # NoJob
      /\ \A m \in Message : queue'[m] > 0 => jobs[m.job] # NoJob
  BY <1>2 DEF Inv, TypeOK, QueuedJobsExist
<1>6. CASE jobs' = jobs
  BY <1>2, <1>3, <1>4, <1>5, <1>6, MessageStepInv
<1>7. CASE jobs' = [jobs EXCEPT ![j].status = "processing"]
  <2>1. jobs[j] \in Job /\ jobs[j].file \in File \cup {NoFile}
    BY <1>1 DEF Existing, Inv, TypeOK, Job
  <2>2. [jobs[j] EXCEPT !.status = "processing"]
          = [ask |-> jobs[j].ask, status |-> "processing", file |-> jobs[j].file]
    BY <2>1 DEF Job
  <2>3. jobs' = [jobs EXCEPT ![j] = [ask |-> jobs[j].ask, status |-> "processing",
                                     file |-> jobs[j].file]]
    BY <1>7, <2>2
  <2>4. "processing" \in Status /\ (jobs[j].file # NoFile => jobs[j].file = Built(jobs[j].ask))
    BY <1>1 DEF Status, Inv, FileBuilt
  <2> HIDE DEF j
  <2> QED
    BY <1>1, <1>2, <1>3, <1>4, <1>5, <2>1, <2>3, <2>4, JobStepInv
<1> QED
  BY <1>6, <1>7 DEF Mark

\* ... and stores the file of its own job with the status completed ...
LEMMA BuildOkInv ==
  ASSUME Inv, NEW w \in Workers, BuildOk(w)
  PROVE  Inv'
<1> DEFINE j == msg[w].job
<1>1. j \in Existing /\ j \in Requests
  BY BusyWorker DEF BuildOk
<1>2. jobs[j] \in Job /\ jobs[j].ask \in Asks
  BY <1>1 DEF Existing, Inv, TypeOK, Job
<1>3. PICK f \in File : f = Built(jobs[j].ask)
  BY <1>2 DEF Built, File, Asks
<1>4. jobs' = [jobs EXCEPT ![j] = [ask |-> jobs[j].ask, status |-> "completed", file |-> f]]
  BY <1>3 DEF BuildOk
<1>5. Release(w) /\ UNCHANGED <<queue, rpc, ask, answer, got, faults>>
  BY DEF BuildOk, requestVars
<1>6. /\ wpc' \in [Workers -> {"idle", "load", "mark", "build"}]
      /\ msg' \in [Workers -> Message \cup {NoMsg}]
      /\ loaded' \in [Workers -> Status \cup {NoStatus}]
      /\ \A v \in Workers : wpc'[v] # "idle" => wpc[v] # "idle" /\ msg'[v] = msg[v]
  BY <1>5, ReleaseType DEF Inv
<1>7. /\ queue' \in [Message -> Nat]
      /\ \A m \in Message : queue'[m] > 0 => jobs[m.job] # NoJob
      /\ \A v \in Workers : wpc'[v] # "idle" => msg'[v] # NoMsg /\ jobs[msg'[v].job] # NoJob
  BY <1>5, <1>6 DEF Inv, TypeOK, QueuedJobsExist
<1>8. "completed" \in Status /\ f \in File \cup {NoFile} /\ f # NoFile
  BY NullAssumption DEF Status
<1>9. UNCHANGED <<rpc, ask, answer, got, faults>>
  BY <1>5
<1> HIDE DEF j
<1> QED
  BY <1>1, <1>3, <1>4, <1>6, <1>7, <1>8, <1>9, JobStepInv

\* ... or the status failed, and the message is put back or dropped.
LEMMA BuildFailInv ==
  ASSUME Inv, NEW w \in Workers, BuildFail(w)
  PROVE  Inv'
<1> DEFINE j == msg[w].job
<1>1. j \in Existing /\ j \in Requests /\ msg[w] \in Message
  BY BusyWorker DEF BuildFail
<1>2. jobs[j] \in Job /\ jobs[j].file \in File \cup {NoFile}
  BY <1>1 DEF Existing, Inv, TypeOK, Job
<1>3. [jobs[j] EXCEPT !.status = "failed"]
        = [ask |-> jobs[j].ask, status |-> "failed", file |-> jobs[j].file]
  BY <1>2 DEF Job
<1>4. jobs' = [jobs EXCEPT ![j] = [ask |-> jobs[j].ask, status |-> "failed",
                                   file |-> jobs[j].file]]
  BY <1>3 DEF BuildFail
<1>5. Release(w) /\ Requeue(msg[w]) /\ UNCHANGED <<rpc, ask, answer, got, faults>>
  BY DEF BuildFail, requestVars
<1>6. /\ wpc' \in [Workers -> {"idle", "load", "mark", "build"}]
      /\ msg' \in [Workers -> Message \cup {NoMsg}]
      /\ loaded' \in [Workers -> Status \cup {NoStatus}]
      /\ \A v \in Workers : wpc'[v] # "idle" => wpc[v] # "idle" /\ msg'[v] = msg[v]
  BY <1>5, ReleaseType DEF Inv
<1>7. /\ queue' \in [Message -> Nat]
      /\ \A m \in Message : queue'[m] > 0 => queue[m] > 0 \/ m.job = j
  BY <1>1, <1>5, RequeueType DEF Inv
<1>8. /\ \A m \in Message : queue'[m] > 0 => jobs[m.job] # NoJob
      /\ \A v \in Workers : wpc'[v] # "idle" => msg'[v] # NoMsg /\ jobs[msg'[v].job] # NoJob
  BY <1>1, <1>6, <1>7 DEF Inv, TypeOK, QueuedJobsExist, Existing
<1>9. "failed" \in Status /\ (jobs[j].file # NoFile => jobs[j].file = Built(jobs[j].ask))
  BY <1>1 DEF Status, Inv, FileBuilt
<1> HIDE DEF j
<1> QED
  BY <1>1, <1>2, <1>4, <1>5, <1>6, <1>7, <1>8, <1>9, JobStepInv

\* A worker that is interrupted, crashes or is silent leaves the job as it
\* is, and its message goes back to the queue or is dropped.
LEMMA WorkerFaultInv ==
  ASSUME Inv, NEW w \in Workers, WorkerFault(w)
  PROVE  Inv'
<1>1. msg[w] \in Message /\ msg[w].job \in Existing
  BY BusyWorker DEF WorkerFault, Interrupt, WorkerCrash, HeartbeatLost
<1>2. UNCHANGED <<jobs, rpc, ask, answer, got>> /\ faults' \in Nat
  BY DEF WorkerFault, Interrupt, WorkerCrash, HeartbeatLost, Fault, requestVars, Inv, TypeOK
<1>3. /\ queue' \in [Message -> Nat]
      /\ \A m \in Message : queue'[m] > 0 => queue[m] > 0 \/ m.job = msg[w].job
  <2>1. CASE Interrupt(w)
    BY <1>1, <2>1, RequeueType DEF Interrupt, Inv
  <2>2. CASE WorkerCrash(w) \/ HeartbeatLost(w)
    BY <1>1, <2>2 DEF WorkerCrash, HeartbeatLost, Inv, TypeOK
  <2> QED
    BY <2>1, <2>2 DEF WorkerFault
<1>4. /\ wpc' \in [Workers -> {"idle", "load", "mark", "build"}]
      /\ msg' \in [Workers -> Message \cup {NoMsg}]
      /\ loaded' \in [Workers -> Status \cup {NoStatus}]
      /\ \A v \in Workers : wpc'[v] # "idle" => wpc[v] # "idle" /\ msg'[v] = msg[v]
  <2>1. CASE Interrupt(w) \/ WorkerCrash(w)
    BY <2>1, ReleaseType DEF Interrupt, WorkerCrash, Inv
  <2>2. CASE HeartbeatLost(w)
    BY <2>2 DEF HeartbeatLost, workerVars, Inv, TypeOK
  <2> QED
    BY <2>1, <2>2 DEF WorkerFault
<1>5. /\ \A m \in Message : queue'[m] > 0 => jobs[m.job] # NoJob
      /\ \A v \in Workers : wpc'[v] # "idle" => msg'[v] # NoMsg /\ jobs[msg'[v].job] # NoJob
  BY <1>1, <1>3, <1>4 DEF Inv, TypeOK, QueuedJobsExist, Existing
<1> QED
  BY <1>2, <1>3, <1>4, <1>5, MessageStepInv

\* A message that is dropped for its age changes no job.
LEMMA DropOldInv ==
  ASSUME Inv, DropOld
  PROVE  Inv'
<1>1. PICK m \in Message : queue[m] > 0 /\ queue' = [queue EXCEPT ![m] = @ - 1]
  BY DEF DropOld
<1>2. UNCHANGED <<jobs, wpc, msg, loaded, rpc, ask, answer, got>> /\ faults' \in Nat
  BY DEF DropOld, Fault, workerVars, requestVars, Inv, TypeOK
<1>3. queue' \in [Message -> Nat] /\ \A n \in Message : queue'[n] > 0 => queue[n] > 0
  BY <1>1 DEF Inv, TypeOK
<1> QED
  BY <1>2, <1>3, MessageStepInv DEF Inv, TypeOK, QueuedJobsExist

-----------------------------------------------------------------------------

\* Nothing changes when nothing happens.
LEMMA StutterInv == Inv /\ UNCHANGED vars => Inv'
<1> SUFFICES ASSUME Inv, UNCHANGED vars PROVE Inv'
  OBVIOUS
<1> QED
  BY MessageStepInv DEF vars, Inv, TypeOK, QueuedJobsExist

\* Every step keeps the invariant.
LEMMA StepInv == Inv /\ Next => Inv'
<1> SUFFICES ASSUME Inv, Next PROVE Inv'
  OBVIOUS
<1>1. ASSUME NEW r \in Requests, NEW a \in Asks, Submit(r, a)
      PROVE  Inv'
  BY <1>1, SubmitInv
<1>2. ASSUME NEW r \in Requests, Api(r) \/ SendFails(r) \/ ApiCrash(r)
      PROVE  Inv'
  BY <1>2, InsertJobInv, SendMessageInv, OtherApiInv DEF Api
<1>3. ASSUME NEW r \in Requests, Browser(r)
      PROVE  Inv'
  BY <1>3, BrowserInv
<1>4. ASSUME NEW w \in Workers, Work(w) \/ WorkerFault(w)
      PROVE  Inv'
  BY <1>4, TakeInv, LoadInv, MarkInv, BuildOkInv, BuildFailInv, WorkerFaultInv DEF Work
<1> QED
  BY <1>1, <1>2, <1>3, <1>4, DropOldInv DEF Next

\* The inductive invariant: the theorems below follow from it.
THEOREM Invariance == Spec => []Inv
<1>1. Inv /\ [Next]_vars => Inv'
  BY StepInv, StutterInv
<1> QED
  BY InitInv, <1>1, PTL DEF Spec

\* Every variable keeps its type, under every fault.
THEOREM TypeCorrect == Spec => []TypeOK
<1>1. Inv => TypeOK
  BY DEF Inv
<1> QED
  BY Invariance, <1>1, PTL

\* One idempotency key never has two jobs, however requests interleave.
THEOREM Idempotent == Spec => []OneJobPerKey
<1>1. Inv => OneJobPerKey
  BY DEF Inv
<1> QED
  BY Invariance, <1>1, PTL

\* No message reaches a worker before the row it names is committed.
THEOREM CommitBeforeSend == Spec => []QueuedJobsExist
<1>1. Inv => QueuedJobsExist
  BY DEF Inv
<1> QED
  BY Invariance, <1>1, PTL

\* A job that polls as completed can be downloaded.
THEOREM Downloadable == Spec => []CompletedHasFile
<1>1. Inv => CompletedHasFile
  BY DEF Inv
<1> QED
  BY Invariance, <1>1, PTL

\* A download is of the requester's school and, without a header key, of the
\* subject that was asked for.
THEOREM Scoped == Spec => []DownloadScoped
<1>1. Inv => DownloadScoped
  BY DEF Inv
<1> QED
  BY Invariance, <1>1, PTL

-----------------------------------------------------------------------------
(* A file, once built, stays.                                              *)

Keeps ==
  \A j \in Requests :
    jobs[j] # NoJob /\ jobs[j].file # NoFile =>
      jobs'[j] # NoJob /\ jobs'[j].file = jobs[j].file

\* No step takes a file away, or puts another one in its place.
LEMMA StepKeeps ==
  ASSUME Inv, [Next]_vars
  PROVE  Keeps
<1>1. CASE UNCHANGED jobs
  BY <1>1 DEF Keeps
<1>2. ASSUME NEW r \in Requests, InsertJob(r)
      PROVE  Keeps
  BY <1>2 DEF InsertJob, Keeps, Inv, OwnRow, TypeOK
<1>3. ASSUME NEW w \in Workers, Mark(w) \/ BuildOk(w) \/ BuildFail(w)
      PROVE  Keeps
  <2> DEFINE i == msg[w].job
  <2>1. i \in Existing /\ i \in Requests
    BY <1>3, BusyWorker DEF Mark, BuildOk, BuildFail
  <2>2. jobs[i] \in Job /\ (jobs[i].file # NoFile => jobs[i].file = Built(jobs[i].ask))
    BY <2>1 DEF Inv, TypeOK, FileBuilt, Existing
  <2>3. \A j \in Requests : j # i => jobs'[j] = jobs[j]
    BY <1>3, <2>1 DEF Mark, BuildOk, BuildFail, Inv, TypeOK
  <2>4. jobs[i].file # NoFile => jobs'[i].file = jobs[i].file
    BY <1>3, <2>1, <2>2 DEF Mark, BuildOk, BuildFail, Inv, TypeOK, Job
  <2>5. jobs'[i] # NoJob
    <3>1. Inv'
      BY <1>3, MarkInv, BuildOkInv, BuildFailInv
    <3>2. \E st \in Status, f \in File \cup {NoFile} :
            jobs'[i] = [ask |-> jobs[i].ask, status |-> st, file |-> f]
      <4>1. CASE Mark(w)
        BY <2>1, <2>2, <4>1 DEF Mark, Inv, TypeOK, Job, Status
      <4>2. CASE BuildOk(w)
        BY <2>1, <2>2, <4>2 DEF BuildOk, Inv, TypeOK, Job, Status, Built, File, Asks
      <4>3. CASE BuildFail(w)
        BY <2>1, <2>2, <4>3 DEF BuildFail, Inv, TypeOK, Job, Status
      <4> QED
        BY <1>3, <4>1, <4>2, <4>3
    <3> QED
      BY <2>2, <3>2, NullAssumption DEF Job
  <2> HIDE DEF i
  <2> QED
    BY <2>3, <2>4, <2>5 DEF Keeps
<1>4. UNCHANGED jobs
      \/ (\E r \in Requests : InsertJob(r))
      \/ (\E w \in Workers : Mark(w) \/ BuildOk(w) \/ BuildFail(w))
  BY DEF Next, vars, Submit, Api, ReturnExisting, FindNothing, InsertConflicts, SendMessage,
     SendFails, ApiCrash, Browser, PollJob, Download, DownloadRefused, Work, Take, Load,
     WorkerFault, Interrupt, WorkerCrash, HeartbeatLost, DropOld
<1> QED
  BY <1>1, <1>2, <1>3, <1>4

\* No step of anybody takes a built file away or replaces it by another.
THEOREM FilesKept == Spec => FileKept
<1>1. Inv /\ [Next]_vars => [Keeps]_vars
  BY StepKeeps
<1> QED
  BY Invariance, <1>1, PTL DEF Spec, FileKept, Keeps

-----------------------------------------------------------------------------
(* An unfinished job is carried on, as long as the faults are those that   *)
(* put a delivery back: a request, a broker or a worker that gives up      *)
(* without recording it may leave a job behind, those two may not.         *)

Carried(j) ==
  \/ rpc[j] = "send"
  \/ \E m \in Message : m.job = j /\ queue[m] > 0
  \/ \E w \in Workers : wpc[w] # "idle" /\ msg[w].job = j

Unfinished(j) == j \in Existing /\ jobs[j].status \in {"pending", "processing"}

\* A failed attempt takes no message away.
LEMMA RequeueKeeps ==
  ASSUME TypeOK, NEW m \in Message, Requeue(m), NEW n \in Message, queue[n] > 0
  PROVE  queue'[n] > 0
<1>1. CASE m.retries = MaxRetries
  BY <1>1 DEF Requeue
<1>2. CASE m.retries # MaxRetries
  <2> DEFINE again == [m EXCEPT !.retries = @ + 1]
  <2>1. PICK k \in RetryCopies : queue' = [queue EXCEPT ![again] = @ + k]
    BY <1>2 DEF Requeue
  <2>2. k \in Nat
    BY ExportJobsAssumption
  <2> HIDE DEF again
  <2> QED
    BY <2>1, <2>2 DEF TypeOK
<1> QED
  BY <1>1, <1>2

\* A request carries its job from the insert to the message.
LEMMA RequestCarries ==
  ASSUME Inv, UnfinishedIsCarried, NEW r \in Requests,
         (\E a \in Asks : Submit(r, a)) \/ Api(r) \/ Browser(r)
  PROVE  UnfinishedIsCarried'
<1> SUFFICES ASSUME NEW j \in Requests, Unfinished(j)' PROVE Carried(j)'
  BY DEF UnfinishedIsCarried, Carried, Unfinished, Existing
<1>1. Unfinished(j) => Carried(j)
  BY DEF UnfinishedIsCarried, Unfinished, Carried
<1>2. CASE InsertJob(r)
  <2>1. rpc'[r] = "send" /\ UNCHANGED <<queue, wpc, msg>>
    BY <1>2 DEF InsertJob, workerVars, Inv, TypeOK
  <2>2. j # r => Unfinished(j) /\ rpc'[j] = rpc[j]
    BY <1>2 DEF InsertJob, Unfinished, Existing, Inv, TypeOK
  <2> QED
    BY <1>1, <2>1, <2>2 DEF Carried
<1>3. CASE SendMessage(r)
  <2> DEFINE sent == [job |-> r, retries |-> 0]
  <2>1. sent \in Message /\ sent.job = r
    BY ExportJobsAssumption DEF Message
  <2>2. /\ queue' = [queue EXCEPT ![sent] = @ + 1] /\ rpc' = [rpc EXCEPT ![r] = "poll"]
        /\ UNCHANGED <<jobs, wpc, msg>>
    BY <1>3 DEF SendMessage, workerVars
  <2> HIDE DEF sent
  <2>3. queue'[sent] > 0 /\ \A m \in Message : queue[m] > 0 => queue'[m] > 0
    BY <2>1, <2>2 DEF Inv, TypeOK
  <2>4. Carried(j)
    BY <1>1, <2>2 DEF Unfinished, Existing
  <2>5. j # r => rpc'[j] = rpc[j]
    BY <2>2 DEF Inv, TypeOK
  <2> QED
    BY <2>1, <2>2, <2>3, <2>4, <2>5 DEF Carried
<1>4. CASE (\E a \in Asks : Submit(r, a)) \/ ReturnExisting(r) \/ FindNothing(r) \/ InsertConflicts(r) \/ Browser(r)
  <2>1. UNCHANGED <<jobs, queue, wpc, msg>> /\ rpc[r] # "send"
    BY <1>4 DEF Submit, ReturnExisting, FindNothing, InsertConflicts, Browser, PollJob, Download, DownloadRefused,
         workerVars
  <2>2. j # r => rpc'[j] = rpc[j]
    BY <1>4 DEF Submit, ReturnExisting, FindNothing, InsertConflicts, Browser, PollJob, Download, DownloadRefused,
         Inv, TypeOK
  <2>3. Carried(j)
    BY <1>1, <2>1 DEF Unfinished, Existing
  <2> QED
    BY <2>1, <2>2, <2>3 DEF Carried
<1> QED
  BY <1>2, <1>3, <1>4 DEF Api

\* A worker carries the job of its message until the job is finished or the
\* message is back.
LEMMA WorkerCarries ==
  ASSUME Inv, UnfinishedIsCarried, NEW w \in Workers, Work(w) \/ WorkerCrash(w) \/ HeartbeatLost(w)
  PROVE  UnfinishedIsCarried'
<1> SUFFICES ASSUME NEW j \in Requests, Unfinished(j)' PROVE Carried(j)'
  BY DEF UnfinishedIsCarried, Carried, Unfinished, Existing
<1>1. Unfinished(j) => Carried(j)
  BY DEF UnfinishedIsCarried, Unfinished, Carried
<1>2. rpc' = rpc
  BY DEF Work, Take, Load, Mark, BuildOk, BuildFail, WorkerCrash, HeartbeatLost, requestVars
<1>3. CASE Take(w)
  <2>1. PICK m \in Message : queue[m] > 0 /\ queue' = [queue EXCEPT ![m] = @ - 1] /\ msg' = [msg EXCEPT ![w] = m]
    BY <1>3 DEF Take
  <2>2. wpc[w] = "idle" /\ wpc' = [wpc EXCEPT ![w] = "load"] /\ jobs' = jobs
    BY <1>3 DEF Take
  <2>3. Carried(j)
    BY <1>1, <2>2 DEF Unfinished, Existing
  <2>4. wpc'[w] # "idle" /\ msg'[w] = m /\ \A v \in Workers \ {w} : wpc'[v] = wpc[v] /\ msg'[v] = msg[v]
    BY <2>1, <2>2 DEF Inv, TypeOK
  <2>5. \A n \in Message : queue[n] > 0 => n = m \/ queue'[n] > 0
    BY <2>1 DEF Inv, TypeOK
  <2> QED
    BY <1>2, <2>2, <2>3, <2>4, <2>5 DEF Carried
<1>4. CASE Load(w) \/ Mark(w)
  <2>1. wpc[w] # "idle" /\ wpc'[w] # "idle" /\ UNCHANGED <<queue, msg>> /\ \A v \in Workers \ {w} : wpc'[v] = wpc[v]
    BY <1>4, BusyWorker DEF Load, Mark, Existing, Inv, TypeOK
  <2>2. j # msg[w].job => Unfinished(j)
    BY <1>4 DEF Load, Mark, Unfinished, Existing, Inv, TypeOK
  <2> QED
    BY <1>1, <1>2, <2>1, <2>2 DEF Carried
<1>5. CASE BuildOk(w) \/ BuildFail(w)
  <2> DEFINE i == msg[w].job
  <2>1. i \in Existing /\ i \in Requests /\ msg[w] \in Message
    BY <1>5, BusyWorker DEF BuildOk, BuildFail
  <2>2. jobs'[i].status \in {"completed", "failed"} /\ \A k \in Requests \ {i} : jobs'[k] = jobs[k]
    BY <1>5, <2>1 DEF BuildOk, BuildFail, Inv, TypeOK, Existing, Job
  <2>3. j # i /\ Unfinished(j)
    BY <2>2 DEF Unfinished, Existing
  <2>4. \A n \in Message : queue[n] > 0 => queue'[n] > 0
    BY <1>5, <2>1, RequeueKeeps DEF BuildOk, BuildFail, Inv
  <2>5. \A v \in Workers \ {w} : wpc'[v] = wpc[v] /\ msg'[v] = msg[v]
    BY <1>5 DEF BuildOk, BuildFail, Release, Inv, TypeOK
  <2> QED
    BY <1>1, <1>2, <2>3, <2>4, <2>5 DEF Carried
<1>6. CASE WorkerCrash(w) \/ HeartbeatLost(w)
  <2>1. msg[w] \in Message /\ jobs' = jobs /\ queue' = [queue EXCEPT ![msg[w]] = @ + 1]
    BY <1>6, BusyWorker DEF WorkerCrash, HeartbeatLost
  <2>2. queue'[msg[w]] > 0 /\ \A n \in Message : queue[n] > 0 => queue'[n] > 0
    BY <2>1 DEF Inv, TypeOK
  <2>3. \A v \in Workers \ {w} : wpc'[v] = wpc[v] /\ msg'[v] = msg[v]
    BY <1>6 DEF WorkerCrash, HeartbeatLost, Release, workerVars, Inv, TypeOK
  <2>4. Carried(j)
    BY <1>1, <2>1 DEF Unfinished, Existing
  <2> QED
    BY <1>2, <2>1, <2>2, <2>3, <2>4 DEF Carried
<1> QED
  BY <1>3, <1>4, <1>5, <1>6 DEF Work

\* Where the only faults are worker crashes and lost heartbeats, an unfinished
\* job is always in somebody's hands, for every number of them.
THEOREM NoJobAbandoned ==
  ASSUME Faults \subseteq {"worker_crash", "heartbeat_lost"}
  PROVE  Spec => []UnfinishedIsCarried
<1>1. Init => UnfinishedIsCarried
  BY DEF Init, UnfinishedIsCarried, Existing
<1>2. Inv /\ UnfinishedIsCarried /\ [Next]_vars => UnfinishedIsCarried'
  <2> SUFFICES ASSUME Inv, UnfinishedIsCarried, [Next]_vars PROVE UnfinishedIsCarried'
    OBVIOUS
  <2>1. CASE UNCHANGED vars
    BY <2>1 DEF vars, workerVars, requestVars, UnfinishedIsCarried, Existing
  <2>2. ~DropOld /\ \A r \in Requests : ~SendFails(r) /\ ~ApiCrash(r)
    BY DEF DropOld, SendFails, ApiCrash, Fault
  <2>3. \A w \in Workers : ~Interrupt(w)
    BY DEF Interrupt, Fault
  <2> QED
    BY <2>1, <2>2, <2>3, RequestCarries, WorkerCarries DEF Next, WorkerFault
<1> QED
  BY <1>1, <1>2, Invariance, PTL DEF Spec
=============================================================================
