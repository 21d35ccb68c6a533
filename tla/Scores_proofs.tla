--------------------------- MODULE Scores_proofs ----------------------------
(***************************************************************************)
(* Safety of the score batch endpoint for every set of requests, schools,  *)
(* runs, cells, time stamps and batches: types, tenancy and row locking.   *)
(* None of the three is inductive alone; Inv adds where a request is in    *)
(* its batch (Walking), what it has reported so far (Reported), what it    *)
(* has checked when it writes (Checked), that the row it read is still     *)
(* there (SeenStays), which school its pending rows carry (MineOwned) and  *)
(* that an idle request holds nothing (IdleClean).                         *)
(*                                                                         *)
(* Then what LwwTable promises: on PostgreSQL for any number of requests,  *)
(* on the test engine for one at a time.                                   *)
(***************************************************************************)
EXTENDS Scores, TLAPS

Walking ==
  \A h \in Handlers : pc[h] \in {"select", "write"} => at[h] \in 1..Len(batch[h])

Reported ==
  \A h \in Handlers :
    /\ Len(out[h]) = at[h] - 1
    /\ pc[h] = "commit" => at[h] = Len(batch[h]) + 1
    /\ \A i \in 1..Len(out[h]) : out[h][i] = "accepted" => batch[h][i].ts # BadTime

Checked ==
  \A h \in Handlers : pc[h] = "write" =>
    ValidRun(h, Current(h).cell) /\ Current(h).ts # BadTime

SeenStays ==
  \A h \in Handlers : pc[h] = "write" /\ seen[h] # NoRow =>
    table[Current(h).cell] # NoRow

MineOwned ==
  \A h \in Handlers : \A c \in Cells :
    mine[h][c] # NoRow => mine[h][c].school = RunSchool[RunOf(c)]

IdleClean ==
  \A h \in Handlers : pc[h] = "idle" => mine[h] = Nothing /\ flushed[h] = {}

\* The database's row locks, which commits rely on.
RowExclusive ==
  /\ \A g, h \in Handlers : g # h => flushed[g] \cap flushed[h] = {}
  /\ \A h \in Handlers : \A c \in flushed[h] : mine[h][c] # NoRow

Inv == TypeOK /\ Walking /\ Reported /\ Checked /\ SeenStays
       /\ MineOwned /\ IdleClean /\ TenantIsolation /\ RowExclusive

-----------------------------------------------------------------------------

\* The entry a request works on is an entry of the clients' batches.
LEMMA CurrentIsEntry ==
  ASSUME TypeOK, NEW h \in Handlers, at[h] \in 1..Len(batch[h])
  PROVE  /\ Current(h) \in Entry
         /\ Current(h).cell \in Cells
         /\ Current(h).level \in Levels
         /\ Current(h).ts \in Times \cup {BadTime}
<1>1. batch[h] \in Seq(Entry)
  BY ScoresAssumption DEF TypeOK
<1>2. Current(h) \in Entry
  BY <1>1 DEF Current
<1> QED
  BY <1>2 DEF Entry

\* A cell belongs to a run, and so to a school.
LEMMA CellOwner ==
  ASSUME NEW c \in Cells
  PROVE  RunOf(c) \in Runs /\ RunSchool[RunOf(c)] \in Schools
BY ScoresAssumption DEF Cells, RunOf

\* No row in sight: the types of the empty table and of the empty answer.
LEMMA NothingType == Nothing \in [Cells -> Row \cup {NoRow}]
BY DEF Nothing

\* Advancing keeps the types and leads to a request that walks its batch.
LEMMA AdvanceType ==
  ASSUME TypeOK, Walking, NEW h \in Handlers, NEW o \in Outcome,
         pc[h] \in {"select", "write"}, Advance(h, o)
  PROVE  /\ out' \in [Handlers -> Seq(Outcome)]
         /\ at' \in [Handlers -> Nat]
         /\ pc' \in [Handlers -> {"idle", "select", "write", "commit"}]
         /\ pc'[h] \in {"select", "commit"}
         /\ pc'[h] = "select" => at'[h] \in 1..Len(batch[h])
         /\ \A g \in Handlers \ {h} : pc'[g] = pc[g] /\ at'[g] = at[g]
<1>1. at[h] \in 1..Len(batch[h]) /\ batch[h] \in Seq(Entry)
  BY ScoresAssumption DEF TypeOK, Walking
<1>2. Len(batch[h]) \in Nat
  BY <1>1
<1>3. out[h] \in Seq(Outcome) /\ Append(out[h], o) \in Seq(Outcome)
  BY DEF TypeOK
<1>4. out' \in [Handlers -> Seq(Outcome)]
  BY <1>3 DEF TypeOK, Advance
<1>5. at' \in [Handlers -> Nat]
  BY <1>1, <1>2 DEF TypeOK, Advance
<1>6. pc' \in [Handlers -> {"idle", "select", "write", "commit"}]
  BY DEF TypeOK, Advance
<1>7. pc'[h] \in {"select", "commit"}
  BY DEF TypeOK, Advance
<1>8. pc'[h] = "select" => at'[h] \in 1..Len(batch[h])
  BY <1>1, <1>2 DEF TypeOK, Advance
<1>9. \A g \in Handlers \ {h} : pc'[g] = pc[g] /\ at'[g] = at[g]
  BY DEF TypeOK, Advance
<1> QED
  BY <1>4, <1>5, <1>6, <1>7, <1>8, <1>9

\* Advancing appends the report on the current entry and nothing else.
LEMMA AdvanceReported ==
  ASSUME TypeOK, Walking, Reported, NEW h \in Handlers, NEW o \in Outcome,
         pc[h] \in {"select", "write"}, Advance(h, o), UNCHANGED batch,
         o = "accepted" => Current(h).ts # BadTime
  PROVE  Reported'
<1>1. /\ at[h] \in 1..Len(batch[h]) /\ Len(out[h]) = at[h] - 1
      /\ batch[h] \in Seq(Entry) /\ out[h] \in Seq(Outcome)
  BY ScoresAssumption DEF TypeOK, Walking, Reported
<1>2. /\ out'[h] = Append(out[h], o)
      /\ at'[h] = at[h] + 1
      /\ pc'[h] = "commit" => at[h] = Len(batch[h])
  BY DEF Advance, TypeOK
<1>3. /\ Len(out'[h]) = at'[h] - 1
      /\ pc'[h] = "commit" => at'[h] = Len(batch[h]) + 1
  BY <1>1, <1>2
<1>4. ASSUME NEW i \in 1..Len(out'[h]), out'[h][i] = "accepted"
      PROVE  batch[h][i].ts # BadTime
  <2>1. CASE i = at[h]
    BY <1>1, <1>2, <1>4, <2>1 DEF Current
  <2>2. CASE i # at[h]
    BY <1>1, <1>2, <1>4, <2>2 DEF Reported
  <2> QED
    BY <2>1, <2>2
<1>5. \A g \in Handlers \ {h} : out'[g] = out[g] /\ at'[g] = at[g] /\ pc'[g] = pc[g]
  BY DEF Advance, TypeOK
<1> QED
  BY <1>3, <1>4, <1>5 DEF Reported

\* Finishing a request keeps the types and leaves it with nothing.
LEMMA FinishType ==
  ASSUME TypeOK, NEW h \in Handlers, NEW s, Finish(h, s)
  PROVE  /\ pc' = [pc EXCEPT ![h] = "idle"]
         /\ mine' = [mine EXCEPT ![h] = Nothing]
         /\ flushed' = [flushed EXCEPT ![h] = {}]
         /\ pc' \in [Handlers -> {"idle", "select", "write", "commit"}]
         /\ school' \in [Handlers -> Schools]
         /\ batch' \in [Handlers -> Batches \cup {<<>>}]
         /\ at' \in [Handlers -> Nat]
         /\ seen' \in [Handlers -> Row \cup {NoRow}]
         /\ mine' \in [Handlers -> [Cells -> Row \cup {NoRow}]]
         /\ flushed' \in [Handlers -> SUBSET Cells]
         /\ out' \in [Handlers -> Seq(Outcome)]
<1>1. <<>> \in Seq(Outcome)
  OBVIOUS
<1> QED
  BY <1>1, NothingType DEF TypeOK, Finish

-----------------------------------------------------------------------------

\* At first nothing is stored and no request is at work.
LEMMA InitInv == Init => Inv
<1> SUFFICES ASSUME Init PROVE Inv
  OBVIOUS
<1>1. TypeOK
  <2>1. <<>> \in Seq(Outcome)
    OBVIOUS
  <2> QED
    BY <2>1, NothingType DEF TypeOK, Init
<1>2. Walking /\ Reported /\ Checked /\ SeenStays /\ IdleClean
  BY DEF Init, Walking, Reported, Checked, SeenStays, IdleClean
<1>3. MineOwned /\ TenantIsolation /\ RowExclusive
  BY DEF Init, MineOwned, TenantIsolation, RowExclusive, Nothing
<1> QED
  BY <1>1, <1>2, <1>3 DEF Inv

\* A step that only advances past the current entry.
LEMMA AdvanceInv ==
  ASSUME Inv, NEW h \in Handlers, NEW o \in Outcome,
         pc[h] \in {"select", "write"}, Advance(h, o),
         o = "accepted" => Current(h).ts # BadTime,
         UNCHANGED <<table, school, batch, seen, mine, flushed, reply, applied>>
  PROVE  Inv'
<1> USE DEF Inv
<1>1. /\ pc'[h] \in {"select", "commit"}
      /\ pc'[h] = "select" => at'[h] \in 1..Len(batch[h])
      /\ \A g \in Handlers \ {h} : pc'[g] = pc[g] /\ at'[g] = at[g]
  BY AdvanceType
<1>2. TypeOK'
  BY AdvanceType DEF TypeOK
<1>3. Walking'
  BY <1>1 DEF Walking
<1>4. Checked'
  BY <1>1 DEF Checked, Current, ValidRun
<1>5. SeenStays'
  BY <1>1 DEF SeenStays, Current
<1>6. IdleClean'
  BY <1>1 DEF IdleClean, Nothing
<1>7. MineOwned' /\ TenantIsolation' /\ RowExclusive'
  BY DEF MineOwned, TenantIsolation, RowExclusive
<1>8. Reported'
  BY AdvanceReported
<1> QED
  BY <1>2, <1>3, <1>4, <1>5, <1>6, <1>7, <1>8

\* A step that ends a request with nothing stored.
LEMMA AbortInv ==
  ASSUME Inv, NEW h \in Handlers, NEW s, Finish(h, s), UNCHANGED <<table, applied>>
  PROVE  Inv'
<1> USE DEF Inv
<1>1. /\ pc' = [pc EXCEPT ![h] = "idle"]
      /\ mine' = [mine EXCEPT ![h] = Nothing]
      /\ flushed' = [flushed EXCEPT ![h] = {}]
  BY FinishType
<1>2. \A g \in Handlers \ {h} :
        batch'[g] = batch[g] /\ at'[g] = at[g] /\ seen'[g] = seen[g]
  BY DEF Finish, TypeOK
<1>3. TypeOK'
  BY FinishType DEF TypeOK
<1>4. Walking'
  BY <1>1, <1>2 DEF Walking, TypeOK
<1>5. Checked'
  BY <1>1, <1>2 DEF Checked, Current, ValidRun, TypeOK, Finish
<1>6. SeenStays'
  BY <1>1, <1>2 DEF SeenStays, Current, TypeOK
<1>7. IdleClean'
  BY <1>1 DEF IdleClean, Nothing, TypeOK
<1>8. MineOwned' /\ TenantIsolation' /\ RowExclusive'
  BY <1>1 DEF MineOwned, TenantIsolation, RowExclusive, Nothing, TypeOK, Finish
<1>9. Reported'
  BY DEF Reported, Finish, TypeOK
<1> QED
  BY <1>3, <1>4, <1>5, <1>6, <1>7, <1>8, <1>9

\* A step in which a request only sends its pending INSERT.
LEMMA FlushInsertInv ==
  ASSUME Inv, NEW h \in Handlers, FlushInsert(h)
  PROVE  Inv'
<1> USE DEF Inv
<1>1. PICK c \in Pending(h) :
        /\ ~Locked(h, c)
        /\ flushed' = [flushed EXCEPT ![h] = @ \cup {c}]
  BY DEF FlushInsert
<1>2. c \in Cells /\ mine[h][c] # NoRow
  BY DEF Pending
<1>3. UNCHANGED <<table, pc, school, batch, at, seen, mine, out, reply, applied>>
  BY DEF FlushInsert
<1>4. TypeOK'
  BY <1>1, <1>2, <1>3 DEF TypeOK
<1>5. Walking' /\ Reported' /\ Checked' /\ SeenStays' /\ MineOwned' /\ TenantIsolation'
  BY <1>3 DEF Walking, Reported, Checked, SeenStays, MineOwned, TenantIsolation, Current, ValidRun
<1>6. IdleClean'
  <2>1. pc[h] # "idle"
    BY DEF FlushInsert, MustFlush
  <2> QED
    BY <1>1, <1>3, <2>1 DEF IdleClean, Nothing, TypeOK
<1>7. RowExclusive'
  BY <1>1, <1>2, <1>3 DEF RowExclusive, Locked, TypeOK
<1> QED
  BY <1>4, <1>5, <1>6, <1>7

\* The SELECT of the current entry only remembers what it read.
LEMMA SelectExistingInv ==
  ASSUME Inv, NEW h \in Handlers, SelectExisting(h)
  PROVE  Inv'
<1> USE DEF Inv
<1>1. /\ pc[h] = "select"
      /\ ValidRun(h, Current(h).cell) /\ Current(h).ts # BadTime
      /\ seen' = [seen EXCEPT ![h] = table[Current(h).cell]]
      /\ pc' = [pc EXCEPT ![h] = "write"]
      /\ UNCHANGED <<table, school, batch, at, mine, flushed, out, reply, applied>>
  BY DEF SelectExisting, Acceptable
<1>2. Current(h).cell \in Cells
  BY <1>1, CurrentIsEntry DEF Walking
<1>3. TypeOK'
  BY <1>1, <1>2 DEF TypeOK
<1>4. Walking' /\ Reported' /\ MineOwned' /\ TenantIsolation' /\ RowExclusive'
  BY <1>1 DEF Walking, Reported, MineOwned, TenantIsolation, RowExclusive, TypeOK
<1>5. Checked'
  BY <1>1 DEF Checked, Current, ValidRun, TypeOK
<1>6. SeenStays'
  BY <1>1 DEF SeenStays, Current, TypeOK
<1>7. IdleClean'
  BY <1>1 DEF IdleClean, Nothing, TypeOK
<1> QED
  BY <1>3, <1>4, <1>5, <1>6, <1>7

\* What UPDATE and INSERT put into a row: typed, and owned by the run's school.
LEMMA MergedType ==
  ASSUME Inv, NEW h \in Handlers, pc[h] = "write", Comparable(h), NEW now \in ServerTimes
  PROVE  /\ Merged(h, now) \in Row
         /\ Merged(h, now).school = RunSchool[RunOf(Current(h).cell)]
<1> DEFINE e == Current(h)
<1>1. e.cell \in Cells /\ e.level \in Levels /\ e.ts \in Times
  BY CurrentIsEntry DEF Inv, Walking, Checked
<1>2. table[e.cell] \in Row
  BY <1>1 DEF Inv, SeenStays, Comparable, TypeOK
<1>3. table[e.cell].school = RunSchool[RunOf(e.cell)]
  BY <1>1, <1>2, ScoresAssumption DEF Inv, TenantIsolation
<1> HIDE DEF e
<1>4. Merged(h, now).school = table[e.cell].school
  BY DEF Merged, e
<1>5. Merged(h, now) \in Row
  BY <1>1, <1>2 DEF Merged, e, Row
<1> QED
  BY <1>3, <1>4, <1>5 DEF e

\* A step that writes row r of cell c into the transaction of request h:
\* UPDATE holds the lock of the row (L = {c}), a pending INSERT does not.
LEMMA WriteInv ==
  ASSUME Inv, NEW h \in Handlers, NEW c \in Cells, NEW r \in Row, NEW L \in SUBSET {c},
         pc[h] = "write", ValidRun(h, c), r.school = RunSchool[RunOf(c)],
         L # {} => ~Locked(h, c),
         mine' = [mine EXCEPT ![h][c] = r],
         flushed' = [flushed EXCEPT ![h] = @ \cup L],
         Advance(h, "accepted"),
         UNCHANGED <<table, school, batch, seen, reply, applied>>
  PROVE  Inv'
<1> USE DEF Inv
<1>0. "accepted" \in Outcome
  BY DEF Outcome
<1>1. /\ pc'[h] \in {"select", "commit"}
      /\ pc'[h] = "select" => at'[h] \in 1..Len(batch[h])
      /\ \A g \in Handlers \ {h} : pc'[g] = pc[g] /\ at'[g] = at[g]
  BY <1>0, AdvanceType
<1>2. r # NoRow
  BY ScoresAssumption
<1>3. TypeOK'
  <2>1. mine' \in [Handlers -> [Cells -> Row \cup {NoRow}]]
    BY DEF TypeOK
  <2>2. flushed' \in [Handlers -> SUBSET Cells]
    BY DEF TypeOK
  <2> QED
    BY <1>0, <2>1, <2>2, AdvanceType DEF TypeOK
<1>4. Walking'
  BY <1>1 DEF Walking
<1>5. Checked'
  BY <1>1 DEF Checked, Current, ValidRun
<1>6. SeenStays'
  BY <1>1 DEF SeenStays, Current
<1>7. IdleClean'
  BY <1>1 DEF IdleClean, Nothing, TypeOK
<1>8. \A g \in Handlers, d \in Cells :
        mine'[g][d] = IF g = h /\ d = c THEN r ELSE mine[g][d]
  BY DEF TypeOK
<1>9. MineOwned'
  BY <1>8 DEF MineOwned
<1>10. TenantIsolation'
  BY <1>8 DEF TenantIsolation, ValidRun
<1>11. RowExclusive'
  <2>1. \A g \in Handlers : flushed'[g] = IF g = h THEN flushed[h] \cup L ELSE flushed[g]
    BY DEF TypeOK
  <2>2. \A f, g \in Handlers : f # g => flushed'[f] \cap flushed'[g] = {}
    BY <2>1 DEF RowExclusive, Locked
  <2>3. \A g \in Handlers : \A d \in flushed'[g] : mine'[g][d] # NoRow
    BY <1>2, <1>8, <2>1 DEF RowExclusive, TypeOK
  <2> QED
    BY <2>2, <2>3 DEF RowExclusive
<1>12. Reported'
  BY <1>0, AdvanceReported DEF Checked
<1> QED
  BY <1>3, <1>4, <1>5, <1>6, <1>7, <1>9, <1>10, <1>11, <1>12

\* An UPDATE keeps the school of its row.
LEMMA UpdateRowInv ==
  ASSUME Inv, NEW h \in Handlers, UpdateRow(h)
  PROVE  Inv'
<1> DEFINE c == Current(h).cell
<1>1. /\ pc[h] = "write" /\ Comparable(h) /\ ~Locked(h, c)
      /\ flushed' = [flushed EXCEPT ![h] = @ \cup {c}]
      /\ Advance(h, "accepted")
      /\ UNCHANGED <<table, school, batch, seen, reply, applied>>
  BY DEF UpdateRow
<1>2. PICK now \in ServerTimes : mine' = [mine EXCEPT ![h][c] = Merged(h, now)]
  BY DEF UpdateRow
<1>3. c \in Cells /\ ValidRun(h, c)
  BY <1>1, CurrentIsEntry DEF Inv, Walking, Checked
<1>4. Merged(h, now) \in Row /\ Merged(h, now).school = RunSchool[RunOf(c)]
  BY <1>1, MergedType
<1> HIDE DEF c
<1> QED
  BY <1>1, <1>2, <1>3, <1>4, WriteInv

\* An added row is of the school that owns the run.
LEMMA AddRowInv ==
  ASSUME Inv, NEW h \in Handlers, AddRow(h)
  PROVE  Inv'
<1> DEFINE e == Current(h)
           r == [level |-> e.level, ts |-> e.ts, school |-> RunSchool[RunOf(e.cell)]]
<1>1. /\ pc[h] = "write"
      /\ mine' = [mine EXCEPT ![h][e.cell] = r]
      /\ Advance(h, "accepted")
      /\ UNCHANGED <<table, school, batch, seen, flushed, reply, applied>>
  BY DEF AddRow
<1>2. e.cell \in Cells /\ e.level \in Levels /\ e.ts \in Times /\ ValidRun(h, e.cell)
  BY <1>1, CurrentIsEntry DEF Inv, Walking, Checked
<1>3. r \in Row /\ r.school = RunSchool[RunOf(e.cell)]
  BY <1>2, CellOwner DEF Row
<1>4. flushed' = [flushed EXCEPT ![h] = @ \cup {}]
  BY <1>1 DEF Inv, TypeOK
<1>5. {} \in SUBSET {e.cell}
  OBVIOUS
<1> HIDE DEF e, r
<1> QED
  BY <1>1, <1>2, <1>3, <1>4, <1>5, WriteInv

\* A new request starts with nothing.
LEMMA PostInv ==
  ASSUME Inv, NEW h \in Handlers, NEW s \in Schools, NEW b \in Batches, Post(h, s, b)
  PROVE  Inv'
<1> USE DEF Inv
<1>1. /\ pc[h] = "idle"
      /\ school' = [school EXCEPT ![h] = s]
      /\ batch' = [batch EXCEPT ![h] = b]
      /\ at' = [at EXCEPT ![h] = 1]
      /\ out' = [out EXCEPT ![h] = <<>>]
      /\ pc' = [pc EXCEPT ![h] = IF b = <<>> THEN "commit" ELSE "select"]
      /\ UNCHANGED <<table, seen, mine, flushed, applied>>
  BY DEF Post
<1>2. mine[h] = Nothing /\ flushed[h] = {}
  BY <1>1 DEF IdleClean
<1>3. TypeOK'
  <2>1. <<>> \in Seq(Outcome)
    OBVIOUS
  <2> QED
    BY <1>1, <2>1 DEF TypeOK
<1>4. Walking'
  <2>1. b \in Seq(Entry)
    BY ScoresAssumption
  <2>2. b # <<>> => 1 \in 1..Len(b)
    BY <2>1
  <2> QED
    BY <1>1, <2>2 DEF Walking, TypeOK
<1>5. Checked' /\ SeenStays'
  BY <1>1 DEF Checked, SeenStays, Current, ValidRun, TypeOK
<1>6. IdleClean' /\ MineOwned' /\ RowExclusive'
  BY <1>1 DEF IdleClean, MineOwned, RowExclusive, Nothing, TypeOK
<1>7. TenantIsolation'
  BY <1>1, <1>2 DEF TenantIsolation, Nothing, TypeOK
<1>8. Reported'
  BY <1>1 DEF Reported, TypeOK
<1> QED
  BY <1>3, <1>4, <1>5, <1>6, <1>7, <1>8

\* A commit stores rows of the schools that own them.
LEMMA CommitInv ==
  ASSUME Inv, NEW h \in Handlers, Commit(h)
  PROVE  Inv'
<1> USE DEF Inv
<1>1. /\ pc[h] = "commit"
      /\ table' = [c \in Cells |-> IF mine[h][c] # NoRow THEN mine[h][c] ELSE table[c]]
      /\ applied' = [c \in Cells |-> applied[c] \cup AckedOn(h, c)]
      /\ Finish(h, "ok")
  BY DEF Commit
<1>2. /\ pc' = [pc EXCEPT ![h] = "idle"]
      /\ mine' = [mine EXCEPT ![h] = Nothing]
      /\ flushed' = [flushed EXCEPT ![h] = {}]
  BY <1>1, FinishType
<1>3. \A g \in Handlers \ {h} :
        batch'[g] = batch[g] /\ at'[g] = at[g] /\ seen'[g] = seen[g]
  BY <1>1 DEF Finish, TypeOK
<1>4. TypeOK'
  <2>1. table' \in [Cells -> Row \cup {NoRow}]
    BY <1>1 DEF TypeOK
  <2>2. applied' \in [Cells -> SUBSET Stamp]
    <3>1. batch[h] \in Seq(Entry) /\ out[h] \in Seq(Outcome)
      <4>1. batch[h] \in Batches \cup {<<>>} /\ out[h] \in Seq(Outcome)
        BY DEF TypeOK
      <4>2. Batches \subseteq Seq(Entry)
        BY ScoresAssumption
      <4>3. <<>> \in Seq(Entry)
        OBVIOUS
      <4>4. batch[h] \in Seq(Entry)
        BY <4>1, <4>2, <4>3
      <4> QED
        BY <4>1, <4>4
    <3>2. Len(out[h]) = Len(batch[h])
      BY <1>1, <3>1 DEF Reported, TypeOK
    <3>3. ASSUME NEW i \in 1..Len(batch[h]), out[h][i] = "accepted"
          PROVE  [level |-> batch[h][i].level, ts |-> batch[h][i].ts] \in Stamp
      <4>1. batch[h][i] \in Entry /\ batch[h][i].ts # BadTime
        BY <3>1, <3>2, <3>3 DEF Reported
      <4> QED
        BY <4>1 DEF Entry, Stamp
    <3>4. \A c \in Cells : AckedOn(h, c) \subseteq Stamp
      BY <3>3 DEF AckedOn
    <3> QED
      BY <1>1, <3>4 DEF TypeOK
  <2> QED
    BY <1>1, <2>1, <2>2, FinishType DEF TypeOK
<1>5. Walking'
  BY <1>2, <1>3 DEF Walking, TypeOK
<1>6. Checked'
  BY <1>1, <1>2, <1>3 DEF Checked, Current, ValidRun, TypeOK, Finish
<1>7. SeenStays'
  <2>1. \A c \in Cells : table[c] # NoRow => table'[c] # NoRow
    BY <1>1 DEF TypeOK
  <2>2. \A g \in Handlers : pc[g] = "write" => Current(g).cell \in Cells
    BY CurrentIsEntry DEF Walking
  <2> QED
    BY <1>2, <1>3, <2>1, <2>2 DEF SeenStays, Current, TypeOK
<1>8. IdleClean'
  BY <1>2 DEF IdleClean, Nothing, TypeOK
<1>9. MineOwned' /\ RowExclusive' /\ Reported'
  BY <1>1, <1>2 DEF Reported, Finish, MineOwned, RowExclusive, Nothing, TypeOK
<1>10. TenantIsolation'
  <2>1. \A c \in Cells : table'[c] # NoRow => table'[c].school = RunSchool[RunOf(c)]
    BY <1>1 DEF MineOwned, TenantIsolation
  <2> QED
    BY <1>1, <1>2, <2>1 DEF TenantIsolation, Nothing, TypeOK, Finish
<1> QED
  BY <1>4, <1>5, <1>6, <1>7, <1>8, <1>9, <1>10

-----------------------------------------------------------------------------

\* A step that changes nothing.
LEMMA StutterInv == Inv /\ UNCHANGED vars => Inv'
<1> SUFFICES ASSUME Inv, UNCHANGED vars PROVE Inv'
  OBVIOUS
<1> USE DEF Inv, vars
<1>1. TypeOK'
  BY DEF TypeOK
<1>2. Walking' /\ Reported' /\ Checked' /\ SeenStays'
  BY DEF Walking, Reported, Checked, SeenStays, Current, ValidRun
<1>3. MineOwned' /\ IdleClean' /\ TenantIsolation' /\ RowExclusive'
  BY DEF MineOwned, IdleClean, TenantIsolation, RowExclusive, Nothing
<1> QED
  BY <1>1, <1>2, <1>3

\* Each step of the endpoint.
LEMMA StepInv == Inv /\ Next => Inv'
<1> SUFFICES ASSUME Inv, Next PROVE Inv'
  OBVIOUS
<1> USE DEF Outcome
<1>1. ASSUME NEW h \in Handlers, NEW s \in Schools, NEW b \in Batches, Post(h, s, b)
      PROVE  Inv'
  BY <1>1, PostInv
<1>2. ASSUME NEW h \in Handlers, Step(h)
      PROVE  Inv'
  <2>1. CASE RejectEntry(h)
    BY <2>1, AdvanceInv DEF RejectEntry
  <2>2. CASE FlushInsert(h)
    BY <2>2, FlushInsertInv
  <2>3. CASE SelectExisting(h)
    BY <2>3, SelectExistingInv
  <2>4. CASE CompareFails(h)
    BY <2>4, AdvanceInv DEF CompareFails
  <2>5. CASE ReportConflict(h)
    BY <2>5, AdvanceInv DEF ReportConflict
  <2>6. CASE UpdateRow(h)
    BY <2>6, UpdateRowInv
  <2>7. CASE KeepRow(h)
    BY <2>7, AdvanceInv DEF KeepRow, Inv, Checked
  <2>8. CASE AddRow(h)
    BY <2>8, AddRowInv
  <2>9. CASE Commit(h)
    BY <2>9, CommitInv
  <2>10. CASE FlushFails(h)
    BY <2>10, AbortInv DEF FlushFails
  <2>11. CASE DeadlockVictim(h)
    BY <2>11, AbortInv DEF DeadlockVictim
  <2> QED
    BY <1>2, <2>1, <2>2, <2>3, <2>4, <2>5, <2>6, <2>7, <2>8, <2>9, <2>10, <2>11 DEF Step
<1> QED
  BY <1>1, <1>2 DEF Next

\* The inductive invariant: everything below follows from it.
THEOREM Invariance == Spec => []Inv
<1>1. Inv /\ [Next]_vars => Inv'
  BY StepInv, StutterInv
<1> QED
  BY InitInv, <1>1, PTL DEF Spec

\* Every variable keeps its type, whatever is posted and however it interleaves.
THEOREM TypeCorrect == Spec => []TypeOK
<1>1. Inv => TypeOK
  BY DEF Inv
<1> QED
  BY Invariance, <1>1, PTL

\* A request writes only rows of runs of its requester's school, and every
\* stored score carries the school that owns its run.
THEOREM Tenancy == Spec => []TenantIsolation
<1>1. Inv => TenantIsolation
  BY DEF Inv
<1> QED
  BY Invariance, <1>1, PTL

-----------------------------------------------------------------------------
(* Last write wins.  What a request will commit, and what it will report,  *)
(* is related to its entries and to the table; what the table holds, to    *)
(* the entries acknowledged.  On PostgreSQL nothing is ever updated, so a  *)
(* cell holds the one entry acknowledged for it; on the test engine one    *)
(* request runs at a time, so the row it read is the row it updates.       *)

StampOf(e) == [level |-> e.level, ts |-> e.ts]

\* A request writes the cells of the entries it accepts, and no others.
MineSent ==
  \A h \in Handlers : \A c \in Cells : mine[h][c] # NoRow =>
    \E i \in 1..Len(out[h]) : out[h][i] = "accepted" /\ batch[h][i].cell = c

\* PostgreSQL: what is accepted is what is written, into cells without a row.
Inserted ==
  \A h \in Handlers : \A i \in 1..Len(out[h]) :
    LET e == batch[h][i]
        new == mine[h][e.cell]
    IN  out[h][i] = "accepted" => new # NoRow /\ new.level = e.level /\ new.ts = e.ts

FlushedNew == \A h \in Handlers : \A c \in flushed[h] : table[c] = NoRow

OneStored == \A c \in Cells : applied[c] = IF table[c] = NoRow THEN {} ELSE {StampOf(table[c])}

AwareInv == Inv /\ MineSent /\ Inserted /\ FlushedNew /\ OneStored

\* The test engine.
OneByOne == \A g, h \in Handlers : g = h
ServerClockAhead == \A t \in Times, now \in ServerTimes : t <= now

\* The row that was read is the row there is.
SeenNow == \A h \in Handlers : pc[h] = "write" => seen[h] = table[Current(h).cell]

\* An accepted entry is what the row holds, or what it will hold once the
\* request commits; with another time stamp only if it ties with the row.
Stored(h, e) ==
  LET old == table[e.cell]
      new == mine[h][e.cell]
  IN  IF new = NoRow THEN old # NoRow /\ old.level = e.level /\ old.ts = e.ts
      ELSE /\ new.level = e.level /\ e.ts <= new.ts
           /\ old = NoRow => new.ts = e.ts
           /\ old # NoRow =>
                /\ old.ts <= e.ts
                /\ new.ts = e.ts \/ (old.ts = e.ts /\ old.level # e.level)

\* What is reported for an entry is so.
ReportsTrue ==
  \A h \in Handlers : \A i \in 1..Len(out[h]) :
    LET e == batch[h][i] IN
    /\ out[h][i] = "accepted" => Stored(h, e)
    /\ out[h][i] = "conflict" => table[e.cell] # NoRow /\ table[e.cell].ts > e.ts
    /\ out[h][i] = "rejected" => ~(ValidRun(h, e.cell) /\ e.ts # BadTime)

\* A row shows the newest entry acknowledged, under its time stamp or, if the
\* cell is contested, a later one; without a row none was acknowledged.
NewestStored ==
  \A c \in Cells :
    /\ table[c] = NoRow => applied[c] = {}
    /\ table[c] # NoRow =>
         \E f \in applied[c] :
           /\ f.level = table[c].level /\ \A g \in applied[c] : g.ts <= f.ts
           /\ f.ts <= table[c].ts /\ (f.ts = table[c].ts \/ Contested(c))

\* Every request has a last answer.
Answers == reply = [h \in Handlers |-> reply[h]]

SerialInv == Inv /\ Answers /\ MineSent /\ SeenNow /\ ReportsTrue /\ NewestStored
             /\ ConflictJustified /\ NewerEntryWins

\* The entries already reported on are for other cells than the current one.
LEMMA OtherCells ==
  ASSUME TypeOK, Walking, Reported, NEW h \in Handlers, pc[h] \in {"select", "write"}
  PROVE  /\ Len(out[h]) \in Nat /\ at[h] = Len(out[h]) + 1 /\ at[h] \in 1..Len(batch[h])
         /\ \A i \in 1..Len(out[h]) : batch[h][i] \in Entry /\ batch[h][i].cell # Current(h).cell
<1>1. /\ at[h] \in 1..Len(batch[h]) /\ Len(out[h]) = at[h] - 1 /\ at[h] \in Nat
      /\ batch[h] \in Batches \cup {<<>>}
  BY DEF Walking, Reported, TypeOK
<1>2. batch[h] \in Seq(Entry) /\ batch[h] # <<>>
  BY <1>1, ScoresAssumption
<1>3. Len(batch[h]) \in Nat /\ 1..Len(out[h]) \subseteq 1..Len(batch[h])
  BY <1>1, <1>2
<1>4. \A i, j \in 1..Len(batch[h]) : batch[h][i].cell = batch[h][j].cell => i = j
  BY <1>1, <1>2, ScoresAssumption
<1>5. ASSUME NEW i \in 1..Len(out[h]) PROVE batch[h][i] \in Entry /\ batch[h][i].cell # Current(h).cell
  <2>1. i \in 1..Len(batch[h]) /\ i # at[h]
    BY <1>1, <1>3
  <2> QED
    BY <2>1, <1>1, <1>2, <1>4 DEF Current
<1> QED
  BY <1>1, <1>5

\* Advancing reports on the current entry; the earlier reports stand.
LEMMA AdvanceOut ==
  ASSUME TypeOK, Walking, Reported, NEW h \in Handlers, NEW o \in Outcome,
         pc[h] \in {"select", "write"}, Advance(h, o)
  PROVE  /\ Len(out'[h]) = Len(out[h]) + 1 /\ out'[h][at[h]] = o
         /\ \A i \in 1..Len(out[h]) : out'[h][i] = out[h][i]
         /\ \A i \in 1..Len(out'[h]) : i = at[h] \/ i \in 1..Len(out[h])
         /\ \A g \in Handlers \ {h} : out'[g] = out[g]
<1>1. out[h] \in Seq(Outcome) /\ out'[h] = Append(out[h], o)
  BY DEF TypeOK, Advance
<1>2. Len(out[h]) \in Nat /\ at[h] = Len(out[h]) + 1
  BY OtherCells
<1>3. /\ Len(out'[h]) = Len(out[h]) + 1 /\ out'[h][Len(out[h]) + 1] = o
      /\ \A i \in 1..Len(out[h]) : out'[h][i] = out[h][i]
  BY <1>1
<1>4. \A g \in Handlers \ {h} : out'[g] = out[g]
  BY DEF TypeOK, Advance
<1>5. \A i \in 1..Len(out'[h]) : i = at[h] \/ i \in 1..Len(out[h])
  BY <1>2, <1>3
<1> QED
  BY <1>2, <1>3, <1>4, <1>5

\* A step of the current entry may write its cell, if it accepts it.
LEMMA MineSentAdvance ==
  ASSUME TypeOK, Walking, Reported, MineSent, NEW h \in Handlers, NEW o \in Outcome,
         pc[h] \in {"select", "write"}, Advance(h, o), UNCHANGED batch,
         \A g \in Handlers \ {h} : mine'[g] = mine[g],
         \A c \in Cells : mine'[h][c] = mine[h][c] \/ (c = Current(h).cell /\ o = "accepted")
  PROVE  MineSent'
<1> SUFFICES ASSUME NEW g \in Handlers, NEW c \in Cells, mine'[g][c] # NoRow
             PROVE  \E i \in 1..Len(out'[g]) : out'[g][i] = "accepted" /\ batch[g][i].cell = c
  BY DEF MineSent
<1>1. CASE g = h /\ c = Current(h).cell /\ o = "accepted"
  <2>1. at[h] \in 1..Len(out'[h])
    BY OtherCells, AdvanceOut
  <2> QED
    BY <2>1, <1>1, AdvanceOut DEF Current
<1>2. CASE ~(g = h /\ c = Current(h).cell /\ o = "accepted")
  <2>1. mine[g][c] # NoRow
    BY <1>2
  <2>2. PICK i \in 1..Len(out[g]) : out[g][i] = "accepted" /\ batch[g][i].cell = c
    BY <2>1 DEF MineSent
  <2>3. i \in 1..Len(out'[g]) /\ out'[g][i] = out[g][i]
    <3>1. CASE g = h
      BY <3>1, AdvanceOut, OtherCells
    <3>2. CASE g # h
      BY <3>2, AdvanceOut
    <3> QED
      BY <3>1, <3>2
  <2> QED
    BY <2>2, <2>3
<1> QED
  BY <1>1, <1>2

\* A request that commits has reported on every entry, and each is for a cell
\* of its own.
LEMMA AllReported ==
  ASSUME Inv, NEW h \in Handlers, pc[h] = "commit"
  PROVE  /\ Len(out[h]) = Len(batch[h])
         /\ \A i \in 1..Len(out[h]) : batch[h][i] \in Entry
         /\ \A i, j \in 1..Len(out[h]) : batch[h][i].cell = batch[h][j].cell => i = j
<1>1. batch[h] \in Batches \cup {<<>>} /\ out[h] \in Seq(Outcome) /\ at[h] \in Nat
  BY DEF Inv, TypeOK
<1>2. batch[h] \in Seq(Entry)
  <2>1. <<>> \in Seq(Entry)
    OBVIOUS
  <2>2. Batches \subseteq Seq(Entry)
    BY ScoresAssumption
  <2> QED
    BY <1>1, <2>1, <2>2
<1>3. Len(batch[h]) \in Nat /\ Len(out[h]) = at[h] - 1 /\ at[h] = Len(batch[h]) + 1
  BY <1>2 DEF Inv, Reported
<1>4. Len(out[h]) = Len(batch[h])
  BY <1>1, <1>3
<1>5. \A i, j \in 1..Len(batch[h]) : batch[h][i].cell = batch[h][j].cell => i = j
  <2>1. CASE batch[h] \in Batches
    BY <2>1, ScoresAssumption
  <2>2. CASE batch[h] = <<>>
    BY <2>2
  <2> QED
    BY <1>1, <2>1, <2>2
<1>6. \A i \in 1..Len(out[h]) : batch[h][i] \in Entry
  BY <1>2, <1>4
<1> QED
  BY <1>4, <1>5, <1>6

\* What a request acknowledges on a cell, entry by entry.
LEMMA AckedOnCell ==
  ASSUME Inv, NEW h \in Handlers, NEW c \in Cells, pc[h] = "commit"
  PROVE  /\ \A i \in 1..Len(out[h]) : batch[h][i] \in Entry
         /\ \A f : f \in AckedOn(h, c) <=>
              \E i \in 1..Len(out[h]) : out[h][i] = "accepted" /\ batch[h][i].cell = c /\ f = StampOf(batch[h][i])
         /\ \A i, j \in 1..Len(out[h]) : batch[h][i].cell = batch[h][j].cell => i = j
<1>1. \A f : f \in AckedOn(h, c) <=>
        \E i \in 1..Len(out[h]) : out[h][i] = "accepted" /\ batch[h][i].cell = c /\ f = StampOf(batch[h][i])
  BY AllReported DEF AckedOn, StampOf
<1> QED
  BY <1>1, AllReported

\* Whoever finishes has nothing pending and has reported nothing.
LEMMA FinishClears ==
  ASSUME TypeOK, NEW h \in Handlers, NEW s, Finish(h, s)
  PROVE  /\ out'[h] = <<>> /\ mine'[h] = Nothing /\ flushed'[h] = {} /\ pc'[h] = "idle"
         /\ \A g \in Handlers \ {h} :
              /\ out'[g] = out[g] /\ mine'[g] = mine[g] /\ flushed'[g] = flushed[g] /\ pc'[g] = pc[g]
              /\ batch'[g] = batch[g] /\ at'[g] = at[g] /\ seen'[g] = seen[g]
         /\ school' = school
BY DEF TypeOK, Finish

\* Having nothing pending, it has sent all it wrote.
LEMMA MineSentFinish ==
  ASSUME TypeOK, MineSent, NEW h \in Handlers, NEW s, Finish(h, s)
  PROVE  MineSent'
<1>1. \A c \in Cells : mine'[h][c] = NoRow
  BY FinishClears DEF Nothing
<1> QED
  BY <1>1, FinishClears DEF MineSent

-----------------------------------------------------------------------------
(* PostgreSQL.                                                             *)

\* At first nothing is stored, and nothing acknowledged.
LEMMA AwareInit == Init => AwareInv
<1> SUFFICES ASSUME Init PROVE AwareInv
  OBVIOUS
<1>1. MineSent /\ Inserted /\ FlushedNew
  BY DEF Init, MineSent, Inserted, FlushedNew, Nothing
<1>2. OneStored
  BY DEF Init, OneStored, Nothing
<1> QED
  BY <1>1, <1>2, InitInv DEF AwareInv

\* A report other than an acceptance changes nothing that is related.
LEMMA AwareAdvance ==
  ASSUME AwareInv, NEW h \in Handlers, NEW o \in Outcome, o # "accepted",
         pc[h] \in {"select", "write"}, Advance(h, o),
         UNCHANGED <<table, batch, mine, flushed, applied>>
  PROVE  MineSent' /\ Inserted' /\ FlushedNew' /\ OneStored'
<1> USE DEF AwareInv, Inv
<1>1. MineSent'
  BY MineSentAdvance
<1>2. ASSUME NEW g \in Handlers, NEW i \in 1..Len(out'[g]), out'[g][i] = "accepted"
      PROVE  i \in 1..Len(out[g]) /\ out[g][i] = "accepted"
  BY <1>2, AdvanceOut
<1>3. Inserted'
  BY <1>2 DEF Inserted
<1>4. FlushedNew' /\ OneStored'
  BY DEF FlushedNew, OneStored, StampOf
<1> QED
  BY <1>1, <1>3, <1>4

\* A new row carries the entry that it is added for.
LEMMA AwareAddRow ==
  ASSUME AwareInv, NEW h \in Handlers, AddRow(h)
  PROVE  MineSent' /\ Inserted' /\ FlushedNew' /\ OneStored'
<1> USE DEF AwareInv, Inv
<1> DEFINE e == Current(h)
           r == [level |-> e.level, ts |-> e.ts, school |-> RunSchool[RunOf(e.cell)]]
<1>0. "accepted" \in Outcome
  BY DEF Outcome
<1>1. /\ pc[h] = "write" /\ Advance(h, "accepted")
      /\ mine' = [mine EXCEPT ![h][e.cell] = r]
      /\ UNCHANGED <<table, school, batch, seen, flushed, reply, applied>>
  BY DEF AddRow
<1>2. e.cell \in Cells /\ e.level \in Levels /\ e.ts \in Times
  BY <1>1, CurrentIsEntry DEF Walking, Checked
<1>3. r \in Row /\ r # NoRow /\ r.level = e.level /\ r.ts = e.ts
  BY <1>2, CellOwner, ScoresAssumption DEF Row
<1> HIDE DEF r
<1>4. /\ mine'[h][e.cell] = r
      /\ \A c \in Cells \ {e.cell} : mine'[h][c] = mine[h][c]
      /\ \A g \in Handlers \ {h} : mine'[g] = mine[g]
  BY <1>1, <1>2 DEF TypeOK
<1>5. MineSent'
  BY <1>0, <1>1, <1>4, MineSentAdvance
<1>6. ASSUME NEW g \in Handlers, NEW i \in 1..Len(out'[g]), out'[g][i] = "accepted"
      PROVE  LET new == mine'[g][batch[g][i].cell] IN
             new # NoRow /\ new.level = batch[g][i].level /\ new.ts = batch[g][i].ts
  <2>1. CASE g = h /\ i = at[h]
    BY <2>1, <1>3, <1>4 DEF Current
  <2>2. CASE g = h /\ i # at[h]
    <3>1. i \in 1..Len(out[h]) /\ out[h][i] = "accepted"
      BY <2>2, <1>0, <1>1, <1>6, AdvanceOut
    <3>2. batch[h][i].cell \in Cells \ {e.cell}
      BY <3>1, <1>1, OtherCells DEF Entry
    <3> QED
      BY <2>2, <3>1, <3>2, <1>4 DEF Inserted
  <2>3. CASE g # h
    <3>1. i \in 1..Len(out[g]) /\ out[g][i] = "accepted"
      BY <2>3, <1>0, <1>1, <1>6, AdvanceOut
    <3> QED
      BY <2>3, <3>1, <1>4 DEF Inserted
  <2> QED
    BY <2>1, <2>2, <2>3
<1>7. Inserted'
  BY <1>1, <1>6 DEF Inserted
<1>8. FlushedNew' /\ OneStored'
  BY <1>1 DEF FlushedNew, OneStored, StampOf
<1> QED
  BY <1>5, <1>7, <1>8

\* A request that stops stores nothing.
LEMMA AwareAbort ==
  ASSUME AwareInv, NEW h \in Handlers, NEW s, Finish(h, s), UNCHANGED <<table, applied>>
  PROVE  MineSent' /\ Inserted' /\ FlushedNew' /\ OneStored'
<1> USE DEF AwareInv, Inv
<1>1. MineSent'
  BY MineSentFinish
<1>2. Inserted'
  BY FinishClears DEF Inserted
<1>3. FlushedNew' /\ OneStored'
  BY FinishClears DEF FlushedNew, OneStored, StampOf
<1> QED
  BY <1>1, <1>2, <1>3

\* A commit gives each of its cells, which had no row, the one entry that it
\* acknowledges for it.
LEMMA AwareCommit ==
  ASSUME AwareInv, NEW h \in Handlers, Commit(h)
  PROVE  /\ MineSent' /\ Inserted' /\ FlushedNew' /\ OneStored'
         /\ \A c \in Cells : table[c] # NoRow => table'[c] = table[c] /\ applied'[c] = applied[c]
<1> USE DEF AwareInv, Inv
<1>1. /\ pc[h] = "commit" /\ Finish(h, "ok") /\ \A c \in Cells : mine[h][c] # NoRow => c \in flushed[h]
      /\ table' = [c \in Cells |-> IF mine[h][c] # NoRow THEN mine[h][c] ELSE table[c]]
      /\ applied' = [c \in Cells |-> applied[c] \cup AckedOn(h, c)]
  BY DEF Commit, Pending
<1>2. ASSUME NEW c \in Cells, mine[h][c] # NoRow
      PROVE  /\ table[c] = NoRow /\ applied[c] = {} /\ table'[c] = mine[h][c]
             /\ applied'[c] = {StampOf(table'[c])}
  <2>1. table[c] = NoRow /\ applied[c] = {} /\ table'[c] = mine[h][c]
    BY <1>1, <1>2 DEF FlushedNew, OneStored
  <2>2. PICK i \in 1..Len(out[h]) : out[h][i] = "accepted" /\ batch[h][i].cell = c
    BY <1>2 DEF MineSent
  <2>3. StampOf(mine[h][c]) = StampOf(batch[h][i])
    BY <2>2 DEF Inserted, StampOf
  <2>4. \A f : f \in AckedOn(h, c) <=> f = StampOf(batch[h][i])
    BY <2>2, <1>1, AckedOnCell
  <2> QED
    BY <2>1, <2>3, <2>4, <1>1
<1>3. ASSUME NEW c \in Cells, mine[h][c] = NoRow
      PROVE  table'[c] = table[c] /\ applied'[c] = applied[c]
  <2>1. \A f : f \notin AckedOn(h, c)
    BY <1>1, <1>3, AckedOnCell DEF Inserted
  <2> QED
    BY <2>1, <1>1, <1>3
<1>4. OneStored'
  <2> SUFFICES ASSUME NEW c \in Cells
               PROVE  applied'[c] = IF table'[c] = NoRow THEN {} ELSE {StampOf(table'[c])}
    BY DEF OneStored, StampOf
  <2>1. CASE mine[h][c] # NoRow
    BY <2>1, <1>2
  <2>2. CASE mine[h][c] = NoRow
    BY <2>2, <1>3 DEF OneStored
  <2> QED
    BY <2>1, <2>2
<1>5. FlushedNew'
  <2> SUFFICES ASSUME NEW g \in Handlers, NEW c \in Cells, c \in flushed'[g] PROVE table'[c] = NoRow
    BY <1>1, CommitInv DEF FlushedNew, TypeOK
  <2>1. g # h /\ c \in flushed[g] /\ c \notin flushed[h]
    BY <1>1, FinishClears DEF RowExclusive
  <2> QED
    BY <2>1, <1>1 DEF FlushedNew
<1>6. MineSent' /\ Inserted'
  <2>1. /\ out'[h] = <<>>
        /\ \A g \in Handlers \ {h} : out'[g] = out[g] /\ mine'[g] = mine[g] /\ batch'[g] = batch[g]
    BY <1>1, FinishClears
  <2>2. Inserted'
    BY <2>1 DEF Inserted
  <2> QED
    BY <1>1, <2>2, MineSentFinish
<1> QED
  BY <1>1, <1>2, <1>3, <1>4, <1>5, <1>6

\* The other steps.
LEMMA AwareNext ==
  ASSUME AwareTimestamps, AwareInv, [Next]_vars
  PROVE  /\ AwareInv'
         /\ UNCHANGED <<table, applied>> \/ \E h \in Handlers : Commit(h)
<1> USE DEF AwareInv
<1> DEFINE Kept == MineSent' /\ Inserted' /\ FlushedNew' /\ OneStored' /\ UNCHANGED <<table, applied>>
<1>1. CASE UNCHANGED vars
  <2>1. MineSent' /\ Inserted' /\ FlushedNew' /\ UNCHANGED <<table, applied>>
    BY <1>1 DEF vars, MineSent, Inserted, FlushedNew
  <2>2. OneStored'
    BY <1>1 DEF vars, OneStored, StampOf
  <2> QED
    BY <2>1, <2>2, <1>1, StutterInv
<1>2. ASSUME NEW h \in Handlers, NEW s \in Schools, NEW b \in Batches, Post(h, s, b) PROVE Kept
  <2>1. /\ UNCHANGED <<table, mine, flushed, applied>> /\ pc[h] = "idle" /\ mine[h] = Nothing
        /\ out'[h] = <<>> /\ \A g \in Handlers \ {h} : out'[g] = out[g] /\ batch'[g] = batch[g]
    BY <1>2 DEF Post, Inv, IdleClean, TypeOK
  <2>2. MineSent'
    BY <2>1 DEF MineSent, Nothing
  <2>3. Inserted'
    BY <2>1 DEF Inserted
  <2> QED
    BY <2>1, <2>2, <2>3 DEF FlushedNew, OneStored, StampOf
<1>3. ASSUME NEW h \in Handlers, RejectEntry(h) \/ CompareFails(h) PROVE Kept
  <2>1. /\ pc[h] \in {"select", "write"} /\ Advance(h, "rejected")
        /\ UNCHANGED <<table, batch, mine, flushed, applied>>
    BY <1>3 DEF RejectEntry, CompareFails
  <2> QED
    BY <2>1, AwareAdvance DEF Outcome
<1>4. ASSUME NEW h \in Handlers, FlushInsert(h) PROVE Kept
  <2>1. PICK c \in Pending(h) : table[c] = NoRow /\ flushed' = [flushed EXCEPT ![h] = @ \cup {c}]
    BY <1>4 DEF FlushInsert
  <2>2. UNCHANGED <<table, batch, mine, out, applied>>
    BY <1>4 DEF FlushInsert
  <2>3. FlushedNew'
    BY <2>1, <2>2 DEF FlushedNew, Inv, TypeOK
  <2>4. OneStored'
    BY <2>2 DEF OneStored, StampOf
  <2> QED
    BY <2>2, <2>3, <2>4 DEF MineSent, Inserted
<1>5. ASSUME NEW h \in Handlers, SelectExisting(h) PROVE Kept
  <2>1. UNCHANGED <<table, batch, mine, flushed, out, applied>>
    BY <1>5 DEF SelectExisting
  <2>2. OneStored'
    BY <2>1 DEF OneStored, StampOf
  <2> QED
    BY <2>1, <2>2 DEF MineSent, Inserted, FlushedNew
<1>6. ASSUME NEW h \in Handlers PROVE ~ReportConflict(h) /\ ~UpdateRow(h) /\ ~KeepRow(h)
  BY DEF ReportConflict, UpdateRow, KeepRow, Comparable
<1>7. ASSUME NEW h \in Handlers, AddRow(h) PROVE Kept
  BY <1>7, AwareAddRow DEF AddRow
<1>8. ASSUME NEW h \in Handlers, FlushFails(h) \/ DeadlockVictim(h) PROVE Kept
  <2>1. Finish(h, "error") /\ UNCHANGED <<table, applied>>
    BY <1>8 DEF FlushFails, DeadlockVictim
  <2> QED
    BY <2>1, AwareAbort
<1>9. CASE Next
  <2>1. Inv'
    BY <1>9, StepInv
  <2>2. Kept \/ \E h \in Handlers : Commit(h)
    BY <1>9, <1>2, <1>3, <1>4, <1>5, <1>6, <1>7, <1>8 DEF Next, Step
  <2>3. (\E h \in Handlers : Commit(h)) => MineSent' /\ Inserted' /\ FlushedNew' /\ OneStored'
    BY AwareCommit
  <2> QED
    BY <2>1, <2>2, <2>3
<1> QED
  BY <1>1, <1>9

\* On PostgreSQL a cell shows the one entry acknowledged for it, whatever
\* requests run at once: every step of the endpoint is one of the table of
\* last-write-wins registers, or does not touch it (upsert_scores).
THEOREM PostgresIsLww == ASSUME AwareTimestamps PROVE Spec => ImplementsLww
<1>1. Init => Lww!Init
  BY DEF Init, Lww!Init, Nothing
<1>2. AwareInv /\ [Next]_vars => [Lww!Acknowledge]_<<[c \in Cells |-> IF table[c] = NoRow THEN NoRow ELSE table[c].level], applied>>
  <2> SUFFICES ASSUME AwareInv, [Next]_vars, ~UNCHANGED <<table, applied>> PROVE Lww!Acknowledge
    OBVIOUS
  <2>1. PICK h \in Handlers : Commit(h)
    BY AwareNext
  <2>2. AwareInv'
    BY AwareNext
  <2>3. applied' \in [Cells -> SUBSET Stamp] /\ \A c \in Cells : applied[c] \subseteq applied'[c]
    BY <2>1, <2>2 DEF Commit, AwareInv, Inv, TypeOK
  <2>4. Lww!Stamp = Stamp
    BY DEF Lww!Stamp, Stamp
  <2>5. ASSUME NEW c \in Cells
        PROVE  (IF table'[c] = NoRow THEN NoRow ELSE table'[c].level) \in Lww!Shown(applied'[c])
    <3>1. CASE table'[c] = NoRow
      BY <3>1, <2>2 DEF AwareInv, OneStored, Lww!Shown
    <3>2. CASE table'[c] # NoRow
      <4>1. applied'[c] = {StampOf(table'[c])} /\ table'[c] \in Row
        BY <3>2, <2>2 DEF AwareInv, OneStored, StampOf, Inv, TypeOK
      <4>2. StampOf(table'[c]).ts \in Int /\ StampOf(table'[c]).level = table'[c].level
        BY <4>1, ScoresAssumption DEF StampOf, Row
      <4>3. StampOf(table'[c]) \in Lww!Newest(applied'[c])
        BY <4>1, <4>2 DEF Lww!Newest
      <4> QED
        BY <3>2, <4>1, <4>2, <4>3 DEF Lww!Shown
    <3> QED
      BY <3>1, <3>2
  <2> QED
    BY <2>3, <2>4, <2>5 DEF Lww!Acknowledge
<1>3. AwareInv /\ [Next]_vars => AwareInv'
  BY AwareNext
<1> QED
  BY <1>1, <1>2, <1>3, AwareInit, PTL DEF Spec, ImplementsLww, Lww!Spec

-----------------------------------------------------------------------------
(* The test engine: one request at a time, a server clock that is not      *)
(* behind the clients'.                                                    *)

\* At first nothing is stored, acknowledged or answered.
LEMMA SerialInit == Init => SerialInv
<1> SUFFICES ASSUME Init PROVE SerialInv
  OBVIOUS
<1>1. MineSent /\ SeenNow /\ ReportsTrue
  BY DEF Init, MineSent, SeenNow, ReportsTrue, Nothing
<1>2. NewestStored
  BY DEF Init, NewestStored, Nothing
<1>3. Answers
  BY DEF Init, Answers
<1>4. \A h \in Handlers : reply[h].out = <<>> /\ reply[h].batch = <<>>
  BY DEF Init, NoReply
<1>5. ConflictJustified /\ NewerEntryWins
  BY <1>4 DEF ConflictJustified, NewerEntryWins
<1> QED
  BY <1>1, <1>2, <1>3, <1>5, InitInv DEF SerialInv

\* A step that leaves table and answers leaves what relates them.
LEMMA SerialKeeps ==
  ASSUME SerialInv, UNCHANGED <<table, reply, applied>>
  PROVE  Answers' /\ NewestStored' /\ ConflictJustified' /\ NewerEntryWins'
<1> USE DEF SerialInv
<1>1. Answers' /\ NewerEntryWins'
  BY DEF Answers, NewerEntryWins
<1>2. \A c \in Cells : Contested(c)' <=> Contested(c)
  BY DEF Contested
<1>3. NewestStored'
  BY <1>2 DEF NewestStored
<1>4. ConflictJustified'
  BY DEF ConflictJustified, Contested
<1> QED
  BY <1>1, <1>3, <1>4

\* A report on the current entry that is true leaves the others true: those
\* are on other cells.
LEMMA ReportsAdvance ==
  ASSUME SerialInv, NEW h \in Handlers, NEW o \in Outcome,
         pc[h] \in {"select", "write"}, Advance(h, o),
         UNCHANGED <<table, school, batch, seen>>,
         \A g \in Handlers \ {h} : mine'[g] = mine[g],
         \A c \in Cells : c # Current(h).cell => mine'[h][c] = mine[h][c],
         NEW e, e = Current(h),
         o = "accepted" => Stored(h, e)',
         o = "conflict" => table[e.cell] # NoRow /\ table[e.cell].ts > e.ts,
         o = "rejected" => ~(ValidRun(h, e.cell) /\ e.ts # BadTime)
  PROVE  ReportsTrue' /\ SeenNow'
<1> USE DEF SerialInv, Inv
<1>1. SeenNow'
  <2>1. pc'[h] # "write"
    BY AdvanceType
  <2>2. \A g \in Handlers \ {h} : pc'[g] = pc[g] /\ at'[g] = at[g]
    BY AdvanceType
  <2> QED
    BY <2>1, <2>2 DEF SeenNow, Current
<1>2. ASSUME NEW g \in Handlers, NEW i \in 1..Len(out'[g])
      PROVE  LET b == batch[g][i] IN
             /\ out'[g][i] = "accepted" => Stored(g, b)'
             /\ out'[g][i] = "conflict" => table[b.cell] # NoRow /\ table[b.cell].ts > b.ts
             /\ out'[g][i] = "rejected" => ~(ValidRun(g, b.cell) /\ b.ts # BadTime)
  <2> DEFINE b == batch[g][i]
  <2>1. CASE g = h /\ i = at[h]
    <3>1. b = e /\ out'[g][i] = o
      BY <2>1, AdvanceOut DEF Current
    <3>2. UNCHANGED batch
      OBVIOUS
    <3> QED
      BY <2>1, <3>1, <3>2 DEF Stored
  <2>2. CASE ~(g = h /\ i = at[h])
    <3>1. i \in 1..Len(out[g]) /\ out'[g][i] = out[g][i]
      BY <2>2, AdvanceOut
    <3>2. out[g][i] = "accepted" => mine'[g][b.cell] = mine[g][b.cell]
      <4>1. CASE g = h
        <5>1. b.cell \in Cells /\ b.cell # Current(h).cell
          BY <4>1, <3>1, OtherCells DEF Entry
        <5> QED
          BY <4>1, <5>1
      <4>2. CASE g # h
        BY <4>2
      <4> QED
        BY <4>1, <4>2
    <3>3. out[g][i] = "accepted" => Stored(g, b)
      BY <3>1 DEF ReportsTrue
    <3>4. out[g][i] = "accepted" => Stored(g, b)'
      BY <3>2, <3>3 DEF Stored
    <3> QED
      BY <3>1, <3>4 DEF ReportsTrue
  <2> QED
    BY <2>1, <2>2
<1>3. ReportsTrue'
  BY <1>2 DEF ReportsTrue, ValidRun
<1> QED
  BY <1>1, <1>3

\* The steps of one entry before its row is written.
LEMMA SerialReports ==
  ASSUME SerialInv, NEW h \in Handlers,
         ~AwareTimestamps,
         RejectEntry(h) \/ ReportConflict(h) \/ KeepRow(h)
  PROVE  MineSent' /\ ReportsTrue' /\ SeenNow' /\ UNCHANGED <<table, reply, applied>>
<1> USE DEF SerialInv, Inv
<1> DEFINE e == Current(h)
<1>0. Outcome = {"accepted", "conflict", "rejected"}
  BY DEF Outcome
<1>1. UNCHANGED <<table, school, batch, seen, mine, flushed, reply, applied>> /\ pc[h] \in {"select", "write"}
  BY DEF RejectEntry, ReportConflict, KeepRow
<1>2. \A o \in Outcome : Advance(h, o) => MineSent'
  BY <1>1, MineSentAdvance
<1>3. CASE RejectEntry(h)
  <2>1. Advance(h, "rejected") /\ ~(ValidRun(h, e.cell) /\ e.ts # BadTime)
    BY <1>3 DEF RejectEntry, Acceptable
  <2> HIDE DEF e
  <2>2. ReportsTrue' /\ SeenNow'
    BY <1>0, <1>1, <2>1, ReportsAdvance DEF e
  <2> QED
    BY <1>0, <1>1, <1>2, <2>1, <2>2
<1>4. CASE ReportConflict(h)
  <2>1. Advance(h, "conflict") /\ table[e.cell] # NoRow /\ table[e.cell].ts > e.ts
    BY <1>4 DEF ReportConflict, Comparable, ServerNewer, SeenNow
  <2>2. ReportsTrue' /\ SeenNow'
    BY <1>0, <1>1, <2>1, ReportsAdvance
  <2> QED
    BY <1>0, <1>1, <1>2, <2>1, <2>2
<1>5. CASE KeepRow(h)
  <2>1. /\ Advance(h, "accepted") /\ pc[h] = "write"
        /\ table[e.cell] # NoRow /\ table[e.cell].level = e.level /\ table[e.cell].ts = e.ts
    BY <1>5 DEF KeepRow, Comparable, SameAsSeen, SeenNow
  <2>2. e.cell \in Cells
    BY <2>1, CurrentIsEntry DEF Walking
  <2>3. mine[h][e.cell] = NoRow
    BY <2>1, <2>2, OtherCells DEF MineSent
  <2>4. UNCHANGED <<table, mine>>
    BY <1>1
  <2> HIDE DEF e
  <2>5. Stored(h, e) /\ (\A x : x = e => Stored(h, x)')
    BY <2>1, <2>3, <2>4 DEF Stored
  <2>6. ReportsTrue' /\ SeenNow'
    BY <1>0, <1>1, <2>1, <2>5, ReportsAdvance DEF e
  <2> QED
    BY <1>0, <1>1, <1>2, <2>1, <2>6
<1> QED
  BY <1>3, <1>4, <1>5

\* A row is written for the current entry: added for it, or updated to it.
LEMMA SerialWrites ==
  ASSUME SerialInv, ~AwareTimestamps, ServerClockAhead,
         NEW h \in Handlers, AddRow(h) \/ UpdateRow(h)
  PROVE  MineSent' /\ ReportsTrue' /\ SeenNow' /\ UNCHANGED <<table, reply, applied>>
<1> USE DEF SerialInv, Inv
<1> DEFINE e == Current(h)
<1>0. "accepted" \in Outcome
  BY DEF Outcome
<1>1. /\ pc[h] = "write" /\ Advance(h, "accepted")
      /\ UNCHANGED <<table, school, batch, seen, reply, applied>>
  BY DEF AddRow, UpdateRow
<1>2. e.cell \in Cells /\ e.level \in Levels /\ e.ts \in Times
  BY <1>1, CurrentIsEntry DEF Walking, Checked
<1>3. seen[h] = table[e.cell] /\ seen[h] \in Row \cup {NoRow}
  BY <1>1 DEF SeenNow, TypeOK
<1>4. Times \subseteq Int /\ ServerTimes \subseteq Int /\ NoRow \notin Row
  BY ScoresAssumption
<1>5. \E r \in Row :
        /\ mine' = [mine EXCEPT ![h][e.cell] = r]
        /\ r.level = e.level /\ e.ts <= r.ts
        /\ table[e.cell] = NoRow => r.ts = e.ts
        /\ table[e.cell] # NoRow =>
             /\ table[e.cell].ts <= e.ts
             /\ r.ts = e.ts \/ (table[e.cell].ts = e.ts /\ table[e.cell].level # e.level)
  <2>1. CASE AddRow(h)
    <3> DEFINE r == [level |-> e.level, ts |-> e.ts, school |-> RunSchool[RunOf(e.cell)]]
    <3>1. mine' = [mine EXCEPT ![h][e.cell] = r] /\ seen[h] = NoRow
      BY <2>1 DEF AddRow
    <3>2. r \in Row /\ r.level = e.level /\ r.ts = e.ts
      BY <1>2, CellOwner DEF Row
    <3>3. e.ts \in Int
      BY <1>2, <1>4
    <3> HIDE DEF r, e
    <3>4. e.ts <= r.ts
      BY <3>2, <3>3
    <3> QED
      BY <3>1, <3>2, <3>4, <1>3
  <2>2. CASE UpdateRow(h)
    <3>1. PICK now \in ServerTimes : mine' = [mine EXCEPT ![h][e.cell] = Merged(h, now)]
      BY <2>2 DEF UpdateRow
    <3>2. Comparable(h) /\ ~(seen[h].ts > e.ts) /\ ~(e.level = seen[h].level /\ e.ts = seen[h].ts) /\ seen[h] # NoRow
      BY <2>2 DEF UpdateRow, ServerNewer, SameAsSeen, Comparable
    <3> DEFINE r == Merged(h, now)
    <3>3. r \in Row
      BY <1>1, <3>2, MergedType
    <3>4. /\ r.level = IF e.level # seen[h].level THEN e.level ELSE table[e.cell].level
          /\ r.ts = IF e.ts # seen[h].ts THEN e.ts ELSE now
      BY DEF Merged
    <3>5. e.ts \in Int /\ now \in Int /\ e.ts <= now /\ seen[h].ts \in Int
      BY <1>2, <1>3, <1>4, <3>2 DEF ServerClockAhead, Row
    <3> HIDE DEF r, e
    <3>6. r.level = e.level
      BY <3>4, <1>3
    <3>7. e.ts <= r.ts /\ table[e.cell].ts <= e.ts
      BY <3>2, <3>4, <3>5, <1>3
    <3>8. r.ts = e.ts \/ (table[e.cell].ts = e.ts /\ table[e.cell].level # e.level)
      BY <3>2, <3>4, <1>3
    <3>9. mine' = [mine EXCEPT ![h][e.cell] = r]
      BY <3>1 DEF r
    <3> QED
      BY <3>2, <3>3, <3>6, <3>7, <3>8, <3>9, <1>3
  <2> QED
    BY <2>1, <2>2
<1>6. PICK r \in Row :
        /\ mine' = [mine EXCEPT ![h][e.cell] = r]
        /\ r.level = e.level /\ e.ts <= r.ts
        /\ table[e.cell] = NoRow => r.ts = e.ts
        /\ table[e.cell] # NoRow =>
             /\ table[e.cell].ts <= e.ts
             /\ r.ts = e.ts \/ (table[e.cell].ts = e.ts /\ table[e.cell].level # e.level)
  BY <1>5
<1>7. /\ mine'[h][e.cell] = r /\ r # NoRow
      /\ \A c \in Cells : c # e.cell => mine'[h][c] = mine[h][c]
      /\ \A g \in Handlers \ {h} : mine'[g] = mine[g]
  BY <1>2, <1>4, <1>6 DEF TypeOK
<1>8. MineSent'
  BY <1>0, <1>1, <1>7, MineSentAdvance
<1> HIDE DEF e
<1>9. \A x : x = e => Stored(h, x)'
  BY <1>1, <1>6, <1>7 DEF Stored
<1>10. ReportsTrue' /\ SeenNow'
  BY <1>0, <1>1, <1>7, <1>9, ReportsAdvance DEF e
<1> QED
  BY <1>1, <1>8, <1>10

\* Whoever is contested stays so, and the acknowledged entries stay.
LEMMA ContestedStays ==
  ASSUME NEW c, applied[c] \subseteq applied'[c], Contested(c)
  PROVE  Contested(c)'
BY DEF Contested

\* A cell that is written shows the entry it was written for, the newest now.
LEMMA CellWritten ==
  ASSUME SerialInv, NEW h \in Handlers, Commit(h), NEW c \in Cells, mine[h][c] # NoRow
  PROVE  /\ table'[c] # NoRow /\ (table[c] # NoRow => table[c].ts <= table'[c].ts)
         /\ \E f \in applied'[c] :
              /\ f.level = table'[c].level /\ \A g \in applied'[c] : g.ts <= f.ts
              /\ f.ts <= table'[c].ts /\ (f.ts = table'[c].ts \/ Contested(c)')
<1> USE DEF SerialInv, Inv
<1>1. /\ pc[h] = "commit" /\ table'[c] = mine[h][c] /\ applied'[c] = applied[c] \cup AckedOn(h, c)
  BY DEF Commit
<1>2. PICK i \in 1..Len(out[h]) : out[h][i] = "accepted" /\ batch[h][i].cell = c
  BY DEF MineSent
<1> DEFINE e == batch[h][i]
           new == mine[h][c]
           old == table[c]
           f == StampOf(e)
<1>3. /\ e \in Entry /\ e.cell = c
      /\ \A x : x \in AckedOn(h, c) <=> x = f
  BY <1>1, <1>2, AckedOnCell
<1>4. f.level = e.level /\ f.ts = e.ts
  BY DEF StampOf
<1>5. Stored(h, e)
  BY <1>2 DEF ReportsTrue
<1>6. /\ new.level = e.level /\ e.ts <= new.ts
      /\ old = NoRow => new.ts = e.ts
      /\ old # NoRow =>
           /\ old.ts <= e.ts
           /\ new.ts = e.ts \/ (old.ts = e.ts /\ old.level # e.level)
  BY <1>2, <1>5 DEF Stored
<1>7. /\ new \in Row /\ old \in Row \cup {NoRow} /\ applied[c] \subseteq Stamp
      /\ Times \subseteq Int /\ ServerTimes \subseteq Int /\ BadTime \notin Int
  BY ScoresAssumption DEF TypeOK
<1>8. e.ts # BadTime /\ e.ts \in Times \cup {BadTime}
  BY <1>2, <1>3 DEF Reported, Entry
<1>9. e.ts \in Int /\ new.ts \in Int /\ (old # NoRow => old.ts \in Int) /\ \A g \in applied[c] : g.ts \in Int
  BY <1>7, <1>8 DEF Row, Stamp
<1>10. f \in applied'[c] /\ \A g \in applied'[c] : g \in applied[c] \/ g = f
  BY <1>1, <1>3
<1> HIDE DEF f, e, new, old
<1>11. old = NoRow => applied[c] = {}
  BY DEF NewestStored, old
<1>12. old # NoRow =>
         \E f0 \in applied[c] :
           /\ f0.level = old.level /\ \A g \in applied[c] : g.ts <= f0.ts
           /\ f0.ts <= old.ts /\ (f0.ts = old.ts \/ Contested(c))
  BY DEF NewestStored, old
<1>13. \A g \in applied[c] : g.ts <= e.ts
  BY <1>6, <1>9, <1>11, <1>12
<1>14. \A g \in applied'[c] : g.ts <= f.ts
  BY <1>4, <1>9, <1>10, <1>13
<1>15. new.ts # e.ts => Contested(c)'
  <2> SUFFICES ASSUME new.ts # e.ts PROVE Contested(c)'
    OBVIOUS
  <2>1. PICK f0 \in applied[c] : f0.level = old.level /\ (f0.ts = old.ts \/ Contested(c))
    BY <1>6, <1>12
  <2>2. CASE Contested(c)
    BY <2>2, <1>1, ContestedStays
  <2>3. CASE f0.ts = old.ts
    <3>1. f0 \in applied'[c] /\ f \in applied'[c] /\ f0.ts = f.ts /\ f0.level # f.level
      BY <2>1, <2>3, <1>1, <1>4, <1>6, <1>10
    <3> QED
      BY <3>1 DEF Contested
  <2> QED
    BY <2>1, <2>2, <2>3
<1>16. table'[c] = new /\ new # NoRow
  BY <1>1 DEF new
<1>17. old # NoRow => old.ts <= new.ts
  BY <1>6, <1>9
<1>18. f.level = table'[c].level /\ f.ts <= table'[c].ts /\ (f.ts = table'[c].ts \/ Contested(c)')
  BY <1>4, <1>6, <1>15, <1>16
<1> QED
  BY <1>10, <1>14, <1>16, <1>17, <1>18 DEF old

\* A cell that is not written shows what it did; what is acknowledged for it,
\* if anything, is what it shows.
LEMMA CellKept ==
  ASSUME SerialInv, NEW h \in Handlers, Commit(h), NEW c \in Cells, mine[h][c] = NoRow
  PROVE  /\ table'[c] = table[c]
         /\ table'[c] = NoRow => applied'[c] = {}
         /\ table'[c] # NoRow =>
              \E f \in applied'[c] :
                /\ f.level = table'[c].level /\ \A g \in applied'[c] : g.ts <= f.ts
                /\ f.ts <= table'[c].ts /\ (f.ts = table'[c].ts \/ Contested(c)')
<1> USE DEF SerialInv, Inv
<1> DEFINE s == StampOf(table[c])
<1>1. /\ pc[h] = "commit" /\ table'[c] = table[c] /\ applied'[c] = applied[c] \cup AckedOn(h, c)
  BY DEF Commit
<1>2. ASSUME NEW x \in AckedOn(h, c) PROVE table[c] # NoRow /\ x = s
  <2>1. PICK i \in 1..Len(out[h]) :
          out[h][i] = "accepted" /\ batch[h][i].cell = c /\ x = StampOf(batch[h][i])
    BY <1>1, AckedOnCell
  <2>2. Stored(h, batch[h][i])
    BY <2>1 DEF ReportsTrue
  <2> QED
    BY <2>1, <2>2 DEF Stored, StampOf
<1>3. table[c] = NoRow => applied[c] = {}
  BY DEF NewestStored
<1>4. table[c] # NoRow =>
        \E f \in applied[c] :
          /\ f.level = table[c].level /\ \A g \in applied[c] : g.ts <= f.ts
          /\ f.ts <= table[c].ts /\ (f.ts = table[c].ts \/ Contested(c))
  BY DEF NewestStored
<1>5. s.level = table[c].level /\ s.ts = table[c].ts
  BY DEF StampOf
<1>6. /\ table[c] \in Row \cup {NoRow} /\ applied[c] \subseteq Stamp
      /\ Times \subseteq Int /\ ServerTimes \subseteq Int
  BY ScoresAssumption DEF TypeOK
<1>7. (table[c] # NoRow => table[c].ts \in Int) /\ \A g \in applied[c] : g.ts \in Int
  BY <1>6 DEF Row, Stamp
<1> HIDE DEF s
<1>8. CASE AckedOn(h, c) = {}
  <2>1. applied'[c] = applied[c]
    BY <1>1, <1>8
  <2>2. Contested(c) => Contested(c)'
    BY <2>1, ContestedStays
  <2> QED
    BY <2>1, <2>2, <1>1, <1>3, <1>4
<1>9. CASE AckedOn(h, c) # {}
  <2>1. table[c] # NoRow /\ s \in applied'[c] /\ \A g \in applied'[c] : g \in applied[c] \/ g = s
    BY <1>1, <1>2, <1>9
  <2>2. \A g \in applied[c] : g.ts <= s.ts
    BY <2>1, <1>4, <1>5, <1>7
  <2>3. \A g \in applied'[c] : g.ts <= s.ts
    BY <2>1, <2>2, <1>5, <1>7
  <2>4. s.level = table'[c].level /\ s.ts <= table'[c].ts /\ s.ts = table'[c].ts
    BY <1>1, <1>5, <1>7, <2>1
  <2> QED
    BY <2>1, <2>3, <2>4, <1>1
<1> QED
  BY <1>8, <1>9

\* A conflict that is answered is justified.
LEMMA SerialAnswers ==
  ASSUME SerialInv, OneByOne, NEW h \in Handlers, NEW s, Finish(h, s),
         pc[h] # "idle", \A c \in Cells : applied[c] \subseteq applied'[c]
  PROVE  Answers' /\ MineSent' /\ SeenNow' /\ ReportsTrue' /\ ConflictJustified'
<1> USE DEF SerialInv, Inv
<1>1. /\ reply'[h] = [status |-> s, school |-> school[h], batch |-> batch[h], out |-> out[h]]
      /\ reply' = [reply EXCEPT ![h] = reply'[h]]
  BY DEF Finish, Answers
<1>2. Answers'
  BY <1>1 DEF Answers
<1>3. \A g \in Handlers : g = h
  BY DEF OneByOne
<1>4. out'[h] = <<>> /\ pc'[h] = "idle"
  BY FinishClears
<1>5. SeenNow' /\ ReportsTrue'
  BY <1>3, <1>4 DEF SeenNow, ReportsTrue
<1>6. ASSUME NEW i \in 1..Len(out[h]), out[h][i] = "conflict", NEW c, c = batch[h][i].cell
      PROVE  Contested(c)' \/ \E f \in applied'[c] : f.ts > batch[h][i].ts
  <2> DEFINE t == batch[h][i].ts
  <2>1. table[c] # NoRow /\ table[c].ts > t
    BY <1>6 DEF ReportsTrue
  <2>2. c \in Cells
    <3>1. batch[h] \in Seq(Entry) /\ i \in 1..Len(batch[h])
      <4>1. batch[h] \in Batches \cup {<<>>} /\ at[h] \in Nat /\ out[h] \in Seq(Outcome) /\ Len(out[h]) = at[h] - 1
        BY DEF TypeOK, Reported
      <4>2. <<>> \in Seq(Entry)
        OBVIOUS
      <4>3. Batches \subseteq Seq(Entry)
        BY ScoresAssumption
      <4>4. batch[h] \in Seq(Entry)
        BY <4>1, <4>2, <4>3
      <4>5. pc[h] \in {"select", "write", "commit"}
        BY DEF TypeOK
      <4>6. at[h] - 1 <= Len(batch[h])
        BY <4>1, <4>4, <4>5 DEF Walking, Reported
      <4> QED
        BY <4>1, <4>4, <4>6
    <3>2. batch[h][i] \in Entry
      BY <3>1
    <3> QED
      BY <3>2, <1>6 DEF Entry
  <2>3. PICK f \in applied[c] : f.ts = table[c].ts \/ Contested(c)
    BY <2>1, <2>2 DEF NewestStored
  <2>4. CASE f.ts = table[c].ts
    BY <2>1, <2>2, <2>3, <2>4
  <2>5. CASE Contested(c)
    BY <2>2, <2>5, ContestedStays
  <2> QED
    BY <2>3, <2>4, <2>5
<1>7. ConflictJustified'
  <2> SUFFICES ASSUME NEW i \in 1..Len(out[h]), out[h][i] = "conflict", NEW c, c = batch[h][i].cell
               PROVE  (\E f, g \in applied'[c] : f.ts = g.ts /\ f.level # g.level)
                        \/ \E f \in applied'[c] : f.ts > batch[h][i].ts
    BY <1>1, <1>3 DEF ConflictJustified, Contested
  <2> QED
    BY <1>6 DEF Contested
<1> QED
  BY <1>2, <1>5, <1>7, MineSentFinish

\* A commit stores what it reports, and keeps what it reports as newer.
LEMMA SerialCommit ==
  ASSUME SerialInv, OneByOne, NEW h \in Handlers, Commit(h)
  PROVE  Answers' /\ MineSent' /\ SeenNow' /\ ReportsTrue' /\ NewestStored'
         /\ ConflictJustified' /\ NewerEntryWins'
<1> USE DEF SerialInv, Inv
<1>1. /\ pc[h] = "commit" /\ Finish(h, "ok")
      /\ \A c \in Cells : applied[c] \subseteq applied'[c]
  BY DEF Commit
<1>2. Answers' /\ MineSent' /\ SeenNow' /\ ReportsTrue' /\ ConflictJustified'
  BY <1>1, SerialAnswers
<1>3. NewestStored'
  <2> SUFFICES ASSUME NEW c \in Cells
               PROVE  /\ table'[c] = NoRow => applied'[c] = {}
                      /\ table'[c] # NoRow =>
                           \E f \in applied'[c] :
                             /\ f.level = table'[c].level /\ \A g \in applied'[c] : g.ts <= f.ts
                             /\ f.ts <= table'[c].ts /\ (f.ts = table'[c].ts \/ Contested(c)')
    BY DEF NewestStored
  <2>1. CASE mine[h][c] # NoRow
    BY <2>1, CellWritten
  <2>2. CASE mine[h][c] = NoRow
    BY <2>2, CellKept
  <2> QED
    BY <2>1, <2>2
<1>4. /\ Len(out[h]) = Len(batch[h]) /\ out[h] \in Seq(Outcome)
      /\ \A i \in 1..Len(out[h]) : batch[h][i] \in Entry
      /\ \A i, j \in 1..Len(out[h]) : batch[h][i].cell = batch[h][j].cell => i = j
  BY <1>1, AllReported DEF TypeOK
<1>5. ASSUME NEW i \in 1..Len(batch[h]), NEW e, e = batch[h][i], ValidRun(h, e.cell), e.ts # BadTime
      PROVE  table'[e.cell] # NoRow /\ table'[e.cell].ts >= e.ts
  <2>1. i \in 1..Len(out[h]) /\ out[h][i] \in Outcome
    BY <1>4
  <2>2. out[h][i] \in {"accepted", "conflict"}
    BY <2>1, <1>5 DEF ReportsTrue, Outcome
  <2>3. e.cell \in Cells /\ e.ts \in Times
    BY <1>4, <1>5 DEF Entry
  <2>4. table'[e.cell] = IF mine[h][e.cell] # NoRow THEN mine[h][e.cell] ELSE table[e.cell]
    BY <2>3 DEF Commit
  <2>5. /\ Times \subseteq Int /\ ServerTimes \subseteq Int
        /\ mine[h][e.cell] \in Row \cup {NoRow} /\ table[e.cell] \in Row \cup {NoRow}
    BY <2>3, ScoresAssumption DEF TypeOK
  <2>6. CASE out[h][i] = "accepted"
    <3>1. Stored(h, e)
      BY <2>1, <2>6, <1>5 DEF ReportsTrue
    <3>2. CASE mine[h][e.cell] = NoRow
      <4>1. table'[e.cell] # NoRow /\ table'[e.cell].ts = e.ts /\ e.ts \in Int
        BY <3>1, <3>2, <2>3, <2>4, <2>5 DEF Stored
      <4> QED
        BY <4>1
    <3>3. CASE mine[h][e.cell] # NoRow
      <4>1. e.ts <= mine[h][e.cell].ts /\ mine[h][e.cell].ts \in Int /\ e.ts \in Int
        BY <3>1, <3>3, <2>3, <2>5 DEF Stored, Row
      <4> QED
        BY <4>1, <3>3, <2>4
    <3> QED
      BY <3>2, <3>3
  <2>7. CASE out[h][i] = "conflict"
    <3>1. table[e.cell] # NoRow /\ table[e.cell].ts > e.ts
      BY <2>1, <2>7, <1>5 DEF ReportsTrue
    <3>2. mine[h][e.cell] = NoRow
      BY <2>1, <2>3, <2>7, <1>4, <1>5 DEF MineSent
    <3>3. table[e.cell].ts \in Int /\ e.ts \in Int
      BY <3>1, <2>3, <2>5 DEF Row
    <3> QED
      BY <3>1, <3>2, <3>3, <2>4
  <2> QED
    BY <2>2, <2>6, <2>7
<1>6. NewerEntryWins'
  <2>1. \A g \in Handlers : g = h
    BY DEF OneByOne
  <2>2. reply'[h] = [status |-> "ok", school |-> school[h], batch |-> batch[h], out |-> out[h]]
    BY <1>1 DEF Finish, Answers
  <2> QED
    BY <1>5, <2>1, <2>2 DEF NewerEntryWins, ValidRun
<1> QED
  BY <1>2, <1>3, <1>6

\* A request that stops stores nothing, and promises nothing.
LEMMA SerialAbort ==
  ASSUME SerialInv, OneByOne, NEW h \in Handlers, Finish(h, "error"), pc[h] # "idle",
         UNCHANGED <<table, applied>>
  PROVE  Answers' /\ MineSent' /\ SeenNow' /\ ReportsTrue' /\ NewestStored'
         /\ ConflictJustified' /\ NewerEntryWins'
<1> USE DEF SerialInv, Inv
<1>1. Answers' /\ MineSent' /\ SeenNow' /\ ReportsTrue' /\ ConflictJustified'
  BY SerialAnswers
<1>2. NewestStored'
  BY DEF NewestStored, Contested
<1>3. NewerEntryWins'
  <2>1. \A g \in Handlers : g = h
    BY DEF OneByOne
  <2>2. reply'[h] = [status |-> "error", school |-> school[h], batch |-> batch[h], out |-> out[h]]
    BY DEF Finish, Answers
  <2> QED
    BY <2>1, <2>2 DEF NewerEntryWins
<1> QED
  BY <1>1, <1>2, <1>3

\* A new request has nothing to answer for yet.
LEMMA SerialPost ==
  ASSUME SerialInv, OneByOne, NEW h \in Handlers, NEW s \in Schools, NEW b \in Batches, Post(h, s, b)
  PROVE  Answers' /\ MineSent' /\ SeenNow' /\ ReportsTrue' /\ NewestStored'
         /\ ConflictJustified' /\ NewerEntryWins'
<1> USE DEF SerialInv, Inv
<1>1. \A g \in Handlers : g = h
  BY DEF OneByOne
<1>2. /\ out'[h] = <<>> /\ pc'[h] # "write" /\ mine[h] = Nothing
      /\ UNCHANGED <<table, mine, applied>> /\ reply' = [reply EXCEPT ![h] = NoReply]
  BY DEF Post, TypeOK, IdleClean
<1>3. reply'[h] = NoReply
  BY <1>2 DEF Answers
<1>4. Answers'
  BY <1>2, <1>3 DEF Answers
<1>5. MineSent' /\ SeenNow' /\ ReportsTrue'
  BY <1>1, <1>2 DEF MineSent, SeenNow, ReportsTrue, Nothing
<1>6. NewestStored'
  BY <1>2 DEF NewestStored, Contested
<1>7. reply'[h].out = <<>> /\ reply'[h].batch = <<>>
  BY <1>3 DEF NoReply
<1>8. ConflictJustified' /\ NewerEntryWins'
  BY <1>1, <1>7 DEF ConflictJustified, NewerEntryWins
<1> QED
  BY <1>4, <1>5, <1>6, <1>8

\* The one request's SELECT reads the row that its UPDATE will find.
LEMMA SerialReads ==
  ASSUME SerialInv, OneByOne, NEW h \in Handlers, FlushInsert(h) \/ SelectExisting(h)
  PROVE  MineSent' /\ SeenNow' /\ ReportsTrue' /\ UNCHANGED <<table, reply, applied>>
<1> USE DEF SerialInv, Inv
<1>1. \A g \in Handlers : g = h
  BY DEF OneByOne
<1>2. UNCHANGED <<table, school, batch, at, mine, out, reply, applied>>
  BY DEF FlushInsert, SelectExisting
<1>3. MineSent' /\ ReportsTrue'
  BY <1>2 DEF MineSent, ReportsTrue, Stored, ValidRun
<1>4. CASE FlushInsert(h)
  <2>1. UNCHANGED <<pc, seen>>
    BY <1>4 DEF FlushInsert
  <2> QED
    BY <2>1, <1>2, <1>3 DEF SeenNow, Current
<1>5. CASE SelectExisting(h)
  <2>1. seen'[h] = table[Current(h).cell]
    BY <1>5 DEF SelectExisting, TypeOK
  <2> QED
    BY <2>1, <1>1, <1>2, <1>3 DEF SeenNow, Current
<1> QED
  BY <1>4, <1>5

\* Every step keeps what was promised; only a commit changes the table.
LEMMA SerialNext ==
  ASSUME ~AwareTimestamps, OneByOne, ServerClockAhead, SerialInv, [Next]_vars
  PROVE  /\ SerialInv'
         /\ UNCHANGED <<table, applied>> \/ \E h \in Handlers : Commit(h)
<1> DEFINE Kept == Answers' /\ MineSent' /\ SeenNow' /\ ReportsTrue' /\ NewestStored'
                   /\ ConflictJustified' /\ NewerEntryWins'
<1>1. CASE UNCHANGED vars
  <2>1. Answers' /\ NewestStored' /\ ConflictJustified' /\ NewerEntryWins'
    BY <1>1, SerialKeeps DEF vars
  <2>2. MineSent' /\ ReportsTrue'
    BY <1>1 DEF SerialInv, vars, MineSent, ReportsTrue, Stored, ValidRun
  <2>3. SeenNow'
    BY <1>1 DEF SerialInv, vars, SeenNow, Current
  <2>4. Inv'
    BY <1>1, StutterInv DEF SerialInv
  <2> QED
    BY <2>1, <2>2, <2>3, <2>4, <1>1 DEF SerialInv, vars
<1>2. ASSUME NEW h \in Handlers, NEW s \in Schools, NEW b \in Batches, Post(h, s, b)
      PROVE  Kept /\ UNCHANGED <<table, applied>>
  BY <1>2, SerialPost DEF Post
<1>3. ASSUME NEW h \in Handlers,
             \/ RejectEntry(h) \/ ReportConflict(h) \/ KeepRow(h) \/ AddRow(h) \/ UpdateRow(h)
             \/ FlushInsert(h) \/ SelectExisting(h)
      PROVE  Kept /\ UNCHANGED <<table, applied>>
  <2>1. MineSent' /\ SeenNow' /\ ReportsTrue' /\ UNCHANGED <<table, reply, applied>>
    BY <1>3, SerialReports, SerialWrites, SerialReads
  <2> QED
    BY <2>1, SerialKeeps
<1>4. ASSUME NEW h \in Handlers PROVE ~CompareFails(h)
  BY DEF CompareFails
<1>5. ASSUME NEW h \in Handlers, FlushFails(h) \/ DeadlockVictim(h)
      PROVE  Kept /\ UNCHANGED <<table, applied>>
  <2>1. Finish(h, "error") /\ UNCHANGED <<table, applied>>
    BY <1>5 DEF FlushFails, DeadlockVictim
  <2>2. pc[h] # "idle"
    <3>1. CASE FlushFails(h)
      BY <3>1 DEF FlushFails, MustFlush
    <3>2. CASE DeadlockVictim(h)
      BY <3>2 DEF DeadlockVictim, OnCycle, WaitsFor, OneByOne
    <3> QED
      BY <3>1, <3>2, <1>5
  <2> QED
    BY <2>1, <2>2, SerialAbort
<1>6. ASSUME NEW h \in Handlers, Commit(h) PROVE Kept
  BY <1>6, SerialCommit
<1>7. CASE Next
  <2>1. Inv'
    BY <1>7, StepInv DEF SerialInv
  <2>2. Kept /\ (UNCHANGED <<table, applied>> \/ \E h \in Handlers : Commit(h))
    <3> HIDE DEF Kept
    <3> QED
      BY <1>7, <1>2, <1>3, <1>4, <1>5, <1>6 DEF Next, Step
  <2> QED
    BY <2>1, <2>2 DEF SerialInv
<1> QED
  BY <1>1, <1>7

\* What one request at a time keeps.
LEMMA SerialInvariance ==
  ASSUME ~AwareTimestamps, OneByOne, ServerClockAhead PROVE Spec => []SerialInv
<1>1. SerialInv /\ [Next]_vars => SerialInv'
  BY SerialNext
<1> QED
  BY SerialInit, <1>1, PTL DEF Spec

\* Time stamps that can be compared: a conflict is reported to a client only
\* if a newer entry was stored, or the cell is contested (upsert_scores).
THEOREM ConflictsAreJustified ==
  ASSUME ~AwareTimestamps, OneByOne, ServerClockAhead PROVE Spec => []ConflictJustified
<1>1. SerialInv => ConflictJustified
  BY DEF SerialInv
<1> QED
  BY SerialInvariance, <1>1, PTL

\* Time stamps that can be compared: an entry that was answered has been
\* stored, or lost to a newer one (upsert_scores).
THEOREM NewestStays ==
  ASSUME ~AwareTimestamps, OneByOne, ServerClockAhead PROVE Spec => []NewerEntryWins
<1>1. SerialInv => NewerEntryWins
  BY DEF SerialInv
<1> QED
  BY SerialInvariance, <1>1, PTL

\* One request at a time with time stamps that can be compared is a table of
\* last-write-wins registers, ties and contested cells included
\* (upsert_scores).
THEOREM SerialIsLww ==
  ASSUME ~AwareTimestamps, OneByOne, ServerClockAhead PROVE Spec => ImplementsLww
<1>1. Init => Lww!Init
  BY DEF Init, Lww!Init, Nothing
<1>2. SerialInv /\ [Next]_vars =>
        [Lww!Acknowledge]_<<[c \in Cells |-> IF table[c] = NoRow THEN NoRow ELSE table[c].level], applied>>
  <2> SUFFICES ASSUME SerialInv, [Next]_vars, ~UNCHANGED <<table, applied>> PROVE Lww!Acknowledge
    OBVIOUS
  <2>1. PICK h \in Handlers : Commit(h)
    BY SerialNext
  <2>2. SerialInv'
    BY SerialNext
  <2>3. applied' \in [Cells -> SUBSET Stamp] /\ \A c \in Cells : applied[c] \subseteq applied'[c]
    BY <2>1, <2>2 DEF Commit, SerialInv, Inv, TypeOK
  <2>4. Lww!Stamp = Stamp
    BY DEF Lww!Stamp, Stamp
  <2>5. ASSUME NEW c \in Cells
        PROVE  (IF table'[c] = NoRow THEN NoRow ELSE table'[c].level) \in Lww!Shown(applied'[c])
    <3>1. CASE table'[c] = NoRow
      BY <3>1, <2>2 DEF SerialInv, NewestStored, Lww!Shown
    <3>2. CASE table'[c] # NoRow
      <4>1. PICK f \in applied'[c] : f.level = table'[c].level /\ \A g \in applied'[c] : g.ts <= f.ts
        BY <3>2, <2>2 DEF SerialInv, NewestStored
      <4>2. f \in Lww!Newest(applied'[c])
        BY <4>1 DEF Lww!Newest
      <4> QED
        BY <3>2, <4>1, <4>2 DEF Lww!Shown
    <3> QED
      BY <3>1, <3>2
  <2> QED
    BY <2>3, <2>4, <2>5 DEF Lww!Acknowledge
<1>3. SerialInv /\ [Next]_vars => SerialInv'
  BY SerialNext
<1> QED
  BY <1>1, <1>2, <1>3, SerialInit, PTL DEF Spec, ImplementsLww, Lww!Spec
=============================================================================
