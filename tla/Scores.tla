------------------------------- MODULE Scores -------------------------------
(***************************************************************************)
(* The server side of score entry: POST /api/v1/scores/batch               *)
(* (api/app/routers/scores.py) and the service it calls, upsert_scores     *)
(* (api/app/services/scores.py).                                           *)
(*                                                                         *)
(* Several requests run at once, each in one database transaction at READ  *)
(* COMMITTED.  upsert_scores takes the entries of a batch one by one: it   *)
(* SELECTs the row of the entry's cell, compares time stamps, then updates *)
(* the row or adds a new one; one commit ends the batch.  What other       *)
(* requests do between the SELECT, the UPDATE or INSERT, and the commit is *)
(* what this module is about.                                              *)
(***************************************************************************)
EXTENDS Integers, Sequences, FiniteSets

CONSTANTS
  Handlers,         \* requests the server works on at the same time
  Schools,          \* tenants
  Runs,             \* assessment runs
  RunSchool,        \* the school that owns each run
  Slots,            \* (learner, item) pairs a score can be recorded for
  UnknownSlots,     \* those whose learner has no row in the learners table
  Levels,           \* rubric levels (with their note)
  Times,            \* time stamps the clients put on their entries
  BadTime,          \* a string datetime.fromisoformat does not parse
  ServerTimes,      \* what now() may return on the database server
  Batches,          \* the batches clients send
  AwareTimestamps,  \* TRUE: the driver reads timestamptz back with its zone
                    \* (asyncpg on PostgreSQL); FALSE: without (the test engine)
  NoRow             \* "there is no such row"

Cells == Runs \X Slots
RunOf(c) == c[1]
SlotOf(c) == c[2]

Entry == [cell : Cells, level : Levels, ts : Times \cup {BadTime}]
Stamp == [level : Levels, ts : Times]
Row == [level : Levels, ts : Times \cup ServerTimes, school : Schools]
Outcome == {"accepted", "conflict", "rejected"}

ASSUME ScoresAssumption ==
  /\ RunSchool \in [Runs -> Schools]
  /\ UnknownSlots \subseteq Slots
  /\ Times \subseteq Int /\ ServerTimes \subseteq Int
  /\ BadTime \notin Int
  /\ NoRow \notin Row
  /\ AwareTimestamps \in BOOLEAN
  /\ Batches \subseteq Seq(Entry)
  \* The only writer of batches keeps one row per cell in IndexedDB
  \* (web/src/pages/ScoreEntryPage.tsx), so no batch names a cell twice.
  /\ \A b \in Batches : \A i, j \in 1..Len(b) : b[i].cell = b[j].cell => i = j

VARIABLES
  table,    \* committed rows: [Cells -> Row \cup {NoRow}]
  pc,       \* where each request is: idle, select, write, commit
  school,   \* user.school_id of the request
  batch,    \* payload.scores
  at,       \* index of the current entry of the batch
  seen,     \* the row the current entry's SELECT returned
  mine,     \* rows written by the request's transaction, not yet committed
  flushed,  \* cells whose statement reached the database: row locks held
  out,      \* what the request will report for each entry so far
  reply,    \* the last answer the request slot gave
  applied   \* history: entries whose sender was told they were stored

vars == <<table, pc, school, batch, at, seen, mine, flushed, out, reply, applied>>

Nothing == [c \in Cells |-> NoRow]
NoReply == [status |-> "none", school |-> NoRow, batch |-> <<>>, out |-> <<>>]

Init ==
  /\ table = Nothing
  /\ pc = [h \in Handlers |-> "idle"]
  /\ school \in [Handlers -> Schools]
  /\ batch = [h \in Handlers |-> <<>>]
  /\ at = [h \in Handlers |-> 1]
  /\ seen = [h \in Handlers |-> NoRow]
  /\ mine = [h \in Handlers |-> Nothing]
  /\ flushed = [h \in Handlers |-> {}]
  /\ out = [h \in Handlers |-> <<>>]
  /\ reply = [h \in Handlers |-> NoReply]
  /\ applied = [c \in Cells |-> {}]

-----------------------------------------------------------------------------
(* The current entry and the locks it needs.                               *)

Current(h) == batch[h][at[h]]

\* Variant: any run is accepted.
ValidRun_unchecked(h, c) == TRUE

\* valid_run_set: the run exists and belongs to the requester's school.
ValidRun(h, c) == RunSchool[RunOf(c)] = school[h]

\* Variant: a time stamp that does not parse is not noticed.
Acceptable_unparsed(h) == ValidRun(h, Current(h).cell)

\* The entry passes both checks made before the database is asked.
Acceptable(h) == ValidRun(h, Current(h).cell) /\ Current(h).ts # BadTime

\* Rows added to the session whose INSERT has not been sent yet.
Pending(h) == {c \in Cells : mine[h][c] # NoRow} \ flushed[h]

\* Another transaction has an uncommitted statement on this row.
Locked(h, c) == \E g \in Handlers \ {h} : c \in flushed[g]

\* After the current entry: the next one, or the commit.
Advance(h, outcome) ==
  /\ out' = [out EXCEPT ![h] = Append(@, outcome)]
  /\ at' = [at EXCEPT ![h] = @ + 1]
  /\ pc' = [pc EXCEPT ![h] = IF at[h] = Len(batch[h]) THEN "commit" ELSE "select"]

-----------------------------------------------------------------------------
(* One action per step of upsert_scores.                                   *)

\* The request arrives; valid_run_set is computed from runs that never change.
Post(h, s, b) ==
  /\ pc[h] = "idle"
  /\ school' = [school EXCEPT ![h] = s]
  /\ batch' = [batch EXCEPT ![h] = b]
  /\ at' = [at EXCEPT ![h] = 1]
  /\ out' = [out EXCEPT ![h] = <<>>]
  /\ pc' = [pc EXCEPT ![h] = IF b = <<>> THEN "commit" ELSE "select"]
  /\ reply' = [reply EXCEPT ![h] = NoReply]
  /\ UNCHANGED <<table, seen, mine, flushed, applied>>

\* "Run not found or access denied", or a time stamp that does not parse.
RejectEntry(h) ==
  /\ pc[h] = "select"
  /\ ~Acceptable(h)
  /\ Advance(h, "rejected")
  /\ UNCHANGED <<table, school, batch, seen, mine, flushed, reply, applied>>

\* The session sends a pending INSERT before its next SELECT (autoflush) or
\* at the commit.  It waits for another transaction's row of the same cell.
MustFlush(h) ==
  /\ Pending(h) # {}
  /\ \/ pc[h] = "commit"
     \/ pc[h] = "select" /\ Acceptable(h)

\* Variant: no unique constraint on (run_id, learner_id, item_id).
FlushInsert_unconstrained(h) ==
  /\ MustFlush(h)
  /\ \E c \in Pending(h) :
       /\ ~Locked(h, c)
       /\ flushed' = [flushed EXCEPT ![h] = @ \cup {c}]
  /\ UNCHANGED <<table, pc, school, batch, at, seen, mine, out, reply, applied>>

FlushInsert(h) ==
  /\ MustFlush(h)
  /\ \E c \in Pending(h) :
       /\ ~Locked(h, c)
       /\ table[c] = NoRow
       /\ SlotOf(c) \notin UnknownSlots
       /\ flushed' = [flushed EXCEPT ![h] = @ \cup {c}]
  /\ UNCHANGED <<table, pc, school, batch, at, seen, mine, out, reply, applied>>

\* existing = SELECT ... WHERE run_id, learner_id, item_id
SelectExisting(h) ==
  /\ pc[h] = "select" /\ Acceptable(h)
  /\ Pending(h) = {}
  /\ seen' = [seen EXCEPT ![h] = table[Current(h).cell]]
  /\ pc' = [pc EXCEPT ![h] = "write"]
  /\ UNCHANGED <<table, school, batch, at, mine, flushed, out, reply, applied>>

\* updated_at lost its zone, existing.updated_at kept it: "can't compare
\* offset-naive and offset-aware datetimes" is caught and reported.
CompareFails(h) ==
  /\ pc[h] = "write"
  /\ seen[h] # NoRow /\ AwareTimestamps
  /\ Advance(h, "rejected")
  /\ UNCHANGED <<table, school, batch, seen, mine, flushed, reply, applied>>

Comparable(h) == seen[h] # NoRow /\ ~AwareTimestamps

\* Variants: a tie is a conflict; the comparison the wrong way round; none.
ServerNewer_orEqual(h) == seen[h].ts >= Current(h).ts
ServerNewer_reversed(h) == seen[h].ts < Current(h).ts
ServerNewer_never(h) == FALSE

ServerNewer(h) == seen[h].ts > Current(h).ts

\* The server's row is newer: it is kept, and reported to the client.
ReportConflict(h) ==
  /\ pc[h] = "write"
  /\ Comparable(h) /\ ServerNewer(h)
  /\ Advance(h, "conflict")
  /\ UNCHANGED <<table, school, batch, seen, mine, flushed, reply, applied>>

\* The UPDATE names only the columns that differ from the row that was
\* read; the others keep what the table holds by then.  A row that changes
\* under an equal time stamp gets onupdate=func.now().
Merged(h, now) ==
  LET e == Current(h)
      row == table[e.cell]
  IN  [level  |-> IF e.level # seen[h].level THEN e.level ELSE row.level,
       ts     |-> IF e.ts # seen[h].ts THEN e.ts ELSE now,
       school |-> row.school]

SameAsSeen(h) ==
  /\ Current(h).level = seen[h].level
  /\ Current(h).ts = seen[h].ts

UpdateRow(h) ==
  /\ pc[h] = "write"
  /\ Comparable(h) /\ ~ServerNewer(h) /\ ~SameAsSeen(h)
  /\ ~Locked(h, Current(h).cell)
  /\ \E now \in ServerTimes :
       mine' = [mine EXCEPT ![h][Current(h).cell] = Merged(h, now)]
  /\ flushed' = [flushed EXCEPT ![h] = @ \cup {Current(h).cell}]
  /\ Advance(h, "accepted")
  /\ UNCHANGED <<table, school, batch, seen, reply, applied>>

\* Nothing differs from the row that was read: no statement is sent.
KeepRow(h) ==
  /\ pc[h] = "write"
  /\ Comparable(h) /\ SameAsSeen(h)
  /\ Advance(h, "accepted")
  /\ UNCHANGED <<table, school, batch, seen, mine, flushed, reply, applied>>

\* db.add(score): the INSERT is sent later.
AddRow(h) ==
  LET e == Current(h) IN
  /\ pc[h] = "write"
  /\ seen[h] = NoRow
  /\ mine' = [mine EXCEPT ![h][e.cell] =
                [level |-> e.level, ts |-> e.ts, school |-> RunSchool[RunOf(e.cell)]]]
  /\ Advance(h, "accepted")
  /\ UNCHANGED <<table, school, batch, seen, flushed, reply, applied>>

Finish(h, status) ==
  /\ reply' = [reply EXCEPT ![h] = [status |-> status, school |-> school[h],
                                       batch |-> batch[h], out |-> out[h]]]
  /\ pc' = [pc EXCEPT ![h] = "idle"]
  /\ mine' = [mine EXCEPT ![h] = Nothing]
  /\ flushed' = [flushed EXCEPT ![h] = {}]
  /\ seen' = [seen EXCEPT ![h] = NoRow]
  /\ batch' = [batch EXCEPT ![h] = <<>>]
  /\ out' = [out EXCEPT ![h] = <<>>]
  /\ at' = [at EXCEPT ![h] = 1]
  /\ UNCHANGED school

\* The entries of a request that it reports as stored on this cell.
AckedOn(h, c) ==
  {[level |-> batch[h][i].level, ts |-> batch[h][i].ts] :
     i \in {j \in 1..Len(batch[h]) : out[h][j] = "accepted" /\ batch[h][j].cell = c}}

Commit(h) ==
  /\ pc[h] = "commit" /\ Pending(h) = {}
  /\ table' = [c \in Cells |-> IF mine[h][c] # NoRow THEN mine[h][c] ELSE table[c]]
  /\ applied' = [c \in Cells |-> applied[c] \cup AckedOn(h, c)]
  /\ Finish(h, "ok")

\* A unique or foreign-key violation fails the flush; every later statement
\* of the session and the final commit then raise too, and the request
\* answers 500 with nothing stored.
FlushFails(h) ==
  /\ MustFlush(h)
  /\ \E c \in Pending(h) : ~Locked(h, c) /\ (table[c] # NoRow \/ SlotOf(c) \in UnknownSlots)
  /\ Finish(h, "error")
  /\ UNCHANGED <<table, applied>>

\* Which row a request is waiting for, and who holds it.
Wants(h, c) ==
  \/ MustFlush(h) /\ c \in Pending(h)
  \/ /\ pc[h] = "write" /\ Comparable(h) /\ ~ServerNewer(h) /\ ~SameAsSeen(h)
     /\ c = Current(h).cell

WaitsFor(h, g) == h # g /\ \E c \in flushed[g] : Wants(h, c)

\* Variant: nobody looks for deadlocks.
OnCycle_never(h) == FALSE

OnCycle(h) ==
  \E S \in SUBSET Handlers :
    /\ h \in S
    /\ \A x \in S : /\ \E y \in S : WaitsFor(x, y)
                    /\ \E y \in S : WaitsFor(y, x)

\* PostgreSQL's deadlock detector aborts one transaction of a cycle.
DeadlockVictim(h) ==
  /\ OnCycle(h)
  /\ Finish(h, "error")
  /\ UNCHANGED <<table, applied>>

Step(h) ==
  \/ RejectEntry(h)
  \/ FlushInsert(h)
  \/ SelectExisting(h)
  \/ CompareFails(h)
  \/ ReportConflict(h)
  \/ UpdateRow(h)
  \/ KeepRow(h)
  \/ AddRow(h)
  \/ Commit(h)
  \/ FlushFails(h)
  \/ DeadlockVictim(h)

Next ==
  \/ \E h \in Handlers, s \in Schools, b \in Batches : Post(h, s, b)
  \/ \E h \in Handlers : Step(h)

Spec == Init /\ [][Next]_vars

\* The event loop runs every request it has accepted, and the database
\* grants locks and detects deadlocks; no client has to send anything.
Fairness == \A h \in Handlers : WF_vars(Step(h))
FairSpec == Spec /\ Fairness

-----------------------------------------------------------------------------
(* Properties.                                                             *)

\* Every variable has its type; locks are held on written rows only and at
\* most one SELECTed row is remembered per request.
TypeOK ==
  /\ table \in [Cells -> Row \cup {NoRow}]
  /\ pc \in [Handlers -> {"idle", "select", "write", "commit"}]
  /\ school \in [Handlers -> Schools]
  /\ batch \in [Handlers -> Batches \cup {<<>>}]
  /\ at \in [Handlers -> Nat]
  /\ seen \in [Handlers -> Row \cup {NoRow}]
  /\ mine \in [Handlers -> [Cells -> Row \cup {NoRow}]]
  /\ flushed \in [Handlers -> SUBSET Cells]
  /\ out \in [Handlers -> Seq(Outcome)]
  /\ applied \in [Cells -> SUBSET Stamp]

\* upsert_scores writes only rows of runs that its requester's school owns,
\* and every stored row carries the school that owns its run, whoever wrote
\* last (score_school_id, valid_run_set).
TenantIsolation ==
  /\ \A c \in Cells : table[c] # NoRow => table[c].school = RunSchool[RunOf(c)]
  /\ \A h \in Handlers, c \in Cells :
       mine[h][c] # NoRow => RunSchool[RunOf(c)] = school[h]

\* A conflict is reported to a client only when an entry strictly newer than
\* its own was stored, or when the server has put its own time stamp on the
\* cell because two different entries carried the same one.  Resending what
\* is already stored is otherwise never a conflict.
Contested(c) ==
  \E f, g \in applied[c] : f.ts = g.ts /\ f.level # g.level
ConflictJustified ==
  \A h \in Handlers : \A i \in 1..Len(reply[h].out) :
    LET e == reply[h].batch[i] IN
    reply[h].out[i] = "conflict" =>
      Contested(e.cell) \/ \E f \in applied[e.cell] : f.ts > e.ts

\* When a batch is answered, every well-formed entry for a run of the
\* sender's school has either been stored or lost to a newer one.
NewerEntryWins ==
  \A h \in Handlers : \A i \in 1..Len(reply[h].batch) :
    LET e == reply[h].batch[i] IN
    /\ reply[h].status = "ok"
    /\ RunSchool[RunOf(e.cell)] = reply[h].school
    /\ e.ts # BadTime
    => table[e.cell] # NoRow /\ table[e.cell].ts >= e.ts

\* The batch endpoint is a last-write-wins register per cell: after every
\* commit a cell shows the level of the newest entry acknowledged for it, or
\* of one of the newest if they tie.
Lww == INSTANCE LwwTable WITH
  Nothing <- NoRow,
  acked <- applied,
  reg <- [c \in Cells |-> IF table[c] = NoRow THEN NoRow ELSE table[c].level]
ImplementsLww == Lww!Spec

\* Every request is answered, whatever rows it has to wait for, unless
\* clients send new ones for ever: no set of batches blocks each other.
NoNewRequests == <>[][\A h \in Handlers : pc[h] = "idle" => pc'[h] = "idle"]_vars
EveryRequestAnswered ==
  NoNewRequests => \A h \in Handlers : pc[h] # "idle" ~> pc[h] = "idle"
=============================================================================
