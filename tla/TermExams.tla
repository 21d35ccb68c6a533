----------------------------- MODULE TermExams ------------------------------
(***************************************************************************)
(* The mark sheet of one term exam: the learner_exam_scores rows, the      *)
(* batch endpoint, the deletion of the exam and the pages on which         *)
(* teachers enter marks (api/app/routers/term_exams.py and                 *)
(* web/src/pages/SBAMarksEntryPage.tsx).  Who may reach the exam is in     *)
(* SchoolRecords, what is computed from the rows in Reports.               *)
(*                                                                         *)
(* The endpoint reads the row of one learner after the other.  Each read   *)
(* flushes the write of the learner before, which locks that row until the *)
(* request ends; a flush waits for another request's lock.  The writes     *)
(* become visible together.  An update sets the columns whose value        *)
(* differs from what was read, and only those.                             *)
(***************************************************************************)
EXTENDS Integers

CONSTANTS
  Pages,      \* open mark-entry pages, each on a device of its own
  Learners,   \* the learners of the class, 1 .. n in order of their names
  MaxMarks,   \* max_marks of the exam
  Entered,    \* bound: by learner, the marks that are typed
  NoRow,      \* no row; also no mark
  MaxSaves    \* bound: saves

VARIABLES
  exam,    \* the term_exams row exists
  rows,    \* learner_exam_scores by learner
  page,    \* each page: the rows it got, and what was typed since
  save,    \* the request of each page's save: where it is, what it was sent,
           \* what was typed of that, the rows it has read
  last,    \* history: the mark last typed and saved for a learner
  clash,   \* history: learners written by two requests that overlapped
  stale,   \* history: learners overwritten from a page that got them earlier
  saves    \* saves made

vars == <<exam, rows, page, save, last, clash, stale, saves>>

Marks == 0 .. MaxMarks
Grades == {"EE", "ME", "AE", "BE"}
Row == [marks : Marks, grade : Grades]
Rows == [Learners -> Row \cup {NoRow}]
Typed == UNION {[ls -> Marks] : ls \in SUBSET Learners}
NoRows == [l \in Learners |-> NoRow]

TermExamsAssumption ==
  {MaxMarks, MaxSaves} \subseteq Nat /\ NoRow \notin Row /\ \A l \in Learners : Entered[l] \subseteq Marks

\* (marks / max_marks) * 100 >= percent, 0 percent of an exam without marks.
AtLeast(marks, max, percent) == max > 0 /\ 100 * marks >= percent * max

\* _compute_grade
ComputeGrade(marks, max) ==
  IF AtLeast(marks, max, 75) THEN "EE"
  ELSE IF AtLeast(marks, max, 41) THEN "ME"
  ELSE IF AtLeast(marks, max, 21) THEN "AE" ELSE "BE"

\* The page's own bands (web/src/lib/grades.ts), the least percentage of each;
\* the percentage shown beside the grade is rounded, the one behind it is not.
GradeBands == [EE |-> 75, ME |-> 41, AE |-> 21, BE |-> 0]
GradeShown(marks, max) ==
  CHOOSE g \in Grades :
    LET in == {b \in Grades : GradeBands[b] = 0 \/ AtLeast(marks, max, GradeBands[b])} IN
    g \in in /\ \A b \in in : GradeBands[b] <= GradeBands[g]

-----------------------------------------------------------------------------
Closed == [open |-> FALSE, got |-> NoRows, typed |-> [l \in {} |-> 0]]
NoSave == [at |-> "none", sent |-> [l \in Learners |-> 0], typed |-> {}, got |-> NoRows, next |-> 0, seen |-> NoRows]

\* The sheet is new, or was filled in before.
Init ==
  /\ exam = TRUE
  /\ last \in {[l \in Learners |-> NoRow]} \cup {f \in [Learners -> Marks] : \A l \in Learners : f[l] \in Entered[l]}
  /\ rows = [l \in Learners |->
       IF last[l] = NoRow THEN NoRow ELSE [marks |-> last[l], grade |-> ComputeGrade(last[l], MaxMarks)]]
  /\ page = [p \in Pages |-> Closed] /\ save = [p \in Pages |-> NoSave]
  /\ clash = {} /\ stale = {} /\ saves = 0

\* list_exam_scores, and the effect that takes what it returns.
OpenPage(p) ==
  /\ exam /\ ~page[p].open /\ saves < MaxSaves
  /\ page' = [page EXCEPT ![p] = [open |-> TRUE, got |-> rows, typed |-> [l \in {} |-> 0]]]
  /\ UNCHANGED <<exam, rows, save, last, clash, stale, saves>>

ClosePage(p) ==
  /\ page[p].open /\ save[p] = NoSave
  /\ page' = [page EXCEPT ![p] = Closed]
  /\ UNCHANGED <<exam, rows, save, last, clash, stale, saves>>

\* The field keeps a mark between 0 and max_marks.
Type(p, l, m) ==
  /\ page[p].open /\ saves < MaxSaves
  /\ page' = [page EXCEPT ![p].typed = [k \in DOMAIN @ \cup {l} |-> IF k = l THEN m ELSE @[k]]]
  /\ UNCHANGED <<exam, rows, save, last, clash, stale, saves>>

\* What the fields show: 0 for a learner who has no row.
Sheet(pg) ==
  [l \in Learners |-> IF l \in DOMAIN pg.typed THEN pg.typed[l]
                      ELSE IF pg.got[l] = NoRow THEN 0 ELSE pg.got[l].marks]

\* saveMutation: every learner is sent, without a grade; 404 without the exam.
\* The button is disabled until the answer is there.
Save(p) ==
  /\ exam /\ page[p].open /\ save[p] = NoSave /\ saves < MaxSaves
  /\ saves' = saves + 1
  /\ save' = [save EXCEPT ![p] = [at |-> "read", sent |-> Sheet(page[p]), typed |-> DOMAIN page[p].typed,
                                  got |-> page[p].got, next |-> 1, seen |-> NoRows]]
  /\ UNCHANGED <<exam, rows, page, last, clash, stale>>

\* Variant: an existing row keeps its grade.
Written_keepsGrade(s, l) ==
  [marks |-> s.sent[l],
   grade |-> IF s.seen[l] = NoRow THEN ComputeGrade(s.sent[l], MaxMarks) ELSE s.seen[l].grade]

\* What the handler gives the row of l.
Written(s, l) == [marks |-> s.sent[l], grade |-> ComputeGrade(s.sent[l], MaxMarks)]

\* A row is locked once it was flushed; a request changes nothing of a row
\* that has what it was sent.
Locked(p) == {l \in Learners : l < save[p].next - 1 /\ save[p].seen[l] # Written(save[p], l)}
Flushes(p, l) == l \in Learners => \A q \in Pages \ {p} : l \notin Locked(q)

\* upsert_exam_scores: the next learner's row.
ReadRow(p) ==
  LET l == save[p].next IN
  /\ save[p].at = "read" /\ l \in Learners
  /\ Flushes(p, l - 1)
  /\ save' = [save EXCEPT ![p].next = @ + 1, ![p].seen[l] = rows[l]]
  /\ UNCHANGED <<exam, rows, page, last, clash, stale, saves>>

\* An insert needs the exam and no row yet, an update its row.
Applies(s, l) ==
  \/ s.seen[l] = Written(s, l)
  \/ exam /\ (s.seen[l] = NoRow <=> rows[l] = NoRow)

\* The columns that differ from what was read.
Merged(s, l) ==
  LET w == Written(s, l) IN
  IF s.seen[l] = NoRow THEN w
  ELSE IF s.seen[l] = w THEN rows[l]
  ELSE [marks |-> IF w.marks = s.seen[l].marks THEN rows[l].marks ELSE w.marks,
        grade |-> IF w.grade = s.seen[l].grade THEN rows[l].grade ELSE w.grade]

\* commit: all rows, or none when one of them cannot be written.
Commit(p) ==
  LET s == save[p]
      overlap == {l \in Learners : s.seen[l] # rows[l]} IN
  /\ s.at = "read" /\ s.next \notin Learners
  /\ Flushes(p, s.next - 1)
  /\ IF \A l \in Learners : Applies(s, l)
     THEN /\ rows' = [l \in Learners |-> Merged(s, l)]
          /\ last' = [l \in Learners |-> IF l \in s.typed \/ last[l] = NoRow THEN s.sent[l] ELSE last[l]]
          /\ clash' = clash \cup overlap
          /\ stale' = stale \cup {l \in Learners \ s.typed : s.got[l] # rows[l]}
          /\ save' = [save EXCEPT ![p] = [NoSave EXCEPT !.at = "answered"]]
     ELSE save' = [save EXCEPT ![p] = NoSave] /\ UNCHANGED <<rows, last, clash, stale>>
  /\ UNCHANGED <<exam, page, saves>>

\* onSuccess asks for the scores again.  When they differ from what the page
\* had, they replace the fields, what was typed meanwhile included.
Refetch(p) ==
  /\ save[p].at = "answered"
  /\ save' = [save EXCEPT ![p] = NoSave]
  /\ page' = [page EXCEPT ![p] =
       IF exam /\ rows # @.got THEN [open |-> TRUE, got |-> rows, typed |-> [l \in {} |-> 0]] ELSE @]
  /\ UNCHANGED <<exam, rows, last, clash, stale, saves>>

\* delete_term_exam: the rows, then the exam, in one transaction that waits
\* for the locks of others.
DeleteTermExam ==
  /\ exam /\ \A p \in Pages : Locked(p) = {}
  /\ exam' = FALSE /\ rows' = NoRows /\ last' = NoRows
  /\ UNCHANGED <<page, save, clash, stale, saves>>

Next ==
  \/ DeleteTermExam
  \/ \E p \in Pages :
       \/ OpenPage(p) \/ ClosePage(p) \/ Save(p) \/ ReadRow(p) \/ Commit(p) \/ Refetch(p)
       \/ \E l \in Learners : \E m \in Entered[l] : Type(p, l, m)

Spec == Init /\ [][Next]_vars

-----------------------------------------------------------------------------
TypeOK ==
  /\ exam \in BOOLEAN /\ rows \in Rows /\ saves \in 0 .. MaxSaves
  /\ page \in [Pages -> [open : BOOLEAN, got : Rows, typed : Typed]]
  /\ save \in [Pages -> [at : {"none", "read", "answered"}, sent : [Learners -> Marks],
                         typed : SUBSET Learners, got : Rows, next : Nat, seen : Rows]]
  /\ last \in [Learners -> Marks \cup {NoRow}]
  /\ clash \subseteq Learners /\ stale \subseteq Learners

\* The grade of a row is that of its marks, and the one the page shows beside
\* them, by bands of its own: only requests that overlapped on
\* a learner, each setting the column that it changed, leave the marks of one
\* with the grade of the other.
GradeFits ==
  \A l \in Learners \ clash :
    rows[l] # NoRow => rows[l].grade = GradeShown(rows[l].marks, MaxMarks)

\* A mark that a teacher typed and saved stands until another one is typed
\* and saved, though every save sends the whole sheet: only a page that got
\* the learner's row before it was written puts an older mark back, and only
\* requests that overlapped lose one.
LastTypedStands ==
  \A l \in Learners \ (clash \cup stale) :
    rows[l] # NoRow => rows[l].marks = last[l]

\* A mark sheet holds what was last typed, with the grade it deserves,
\* through pages that are out of date and saves that overlap.
MarksStand == GradeFits /\ LastTypedStands
=============================================================================
