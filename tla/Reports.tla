------------------------------- MODULE Reports ------------------------------
(***************************************************************************)
(* What the reports compute: the report card and the class summary of one  *)
(* assessment run, the report card, the class sheet and the analytics of   *)
(* the term exams of a year, and the totals on an assessment's printout    *)
(* (api/app/workers/exports.py and api/app/routers/term_exams.py).  Layout *)
(* and names are left out, and so is who may ask: see SchoolRecords.       *)
(*                                                                         *)
(* A percentage is in tenths of a percent, the precision of the reports.   *)
(* round(x, 1) is that of the exact value; on a tie the sum of floats that *)
(* the code rounds may lie to either side.                                 *)
(***************************************************************************)
EXTENDS Integers, FiniteSets, FiniteSetsExt

CONSTANTS
  Learners,       \* learners of the class, 1 .. n in order of their names
  Left,           \* learners who have marks or scores and left the class
  Exams,          \* term exams of the class in the year: area, type, term
  Maxima, Base,   \* bounds: max_marks, by exam; a multiple of all of them
  Sheets,         \* bound: marks or None, by learner and exam
  Items,          \* item ids; DefaultMax is what an item without max_level has
  Levels,         \* bound: levels that are scored; 0 is a score without one
  DefaultMax,
  Listed,         \* how many learners the analytics list, 5 in the code
  None            \* no mark, no score

ReportsAssumption ==
  /\ IsFiniteSet(Learners) /\ Learners \subseteq Nat /\ IsFiniteSet(Exams) /\ IsFiniteSet(Items)
  /\ {Base, DefaultMax} \subseteq Nat \ {0} /\ Listed \in Nat /\ Levels \subseteq Nat /\ None \notin Nat
  /\ Maxima \subseteq [Exams -> {m \in 1 .. Base : Base % m = 0}]
  /\ Sheets \subseteq [Learners \cup Left -> [Exams -> Nat \cup {None}]]

VARIABLES
  max,      \* max_marks by exam
  marks,    \* marks by learner and exam
  items,    \* max_level by item of the assessment
  levels    \* scores by learner and item: an edit of the assessment may have
            \* taken a scored item away

vars == <<max, marks, items, levels>>

Everyone == Learners \cup Left
AllItems == UNION {[s -> {1, DefaultMax}] : s \in SUBSET Items}

\* Rows as the endpoints leave them, whatever came before.
Init ==
  \/ /\ max \in Maxima /\ marks \in Sheets
     /\ items = [i \in {} |-> 0] /\ levels = [l \in Learners |-> [i \in Items |-> None]]
  \/ /\ items \in AllItems /\ levels \in [Learners -> [Items -> Levels \cup {None}]]
     /\ max = [e \in Exams |-> Base] /\ marks = [l \in Everyone |-> [e \in Exams |-> None]]

\* Reports change nothing.
Next == UNCHANGED vars

Spec == Init /\ [][Next]_vars

-----------------------------------------------------------------------------
Sum(f) == MapThenSumSet(LAMBDA x : f[x], DOMAIN f)

\* n / d to the nearest integer, to the even one on a tie.
Rounded(n, d) ==
  LET q == n \div d  r == 2 * (n % d) IN
  IF r > d \/ (r = d /\ q % 2 = 1) THEN q + 1 ELSE q

Tenths(part, whole) == IF whole > 0 THEN Rounded(1000 * part, whole) ELSE 0

\* The mean of the percentages of marks, a set of <<learner, exam>>; 0 of none.
Share(le) == marks[le[1]][le[2]] * (Base \div max[le[2]])
Mean(les) == Tenths(Sum([le \in les |-> Share(le)]), Base * Cardinality(les))

Marked(ls, es) == {le \in ls \X es : marks[le[1]][le[2]] # None}

-----------------------------------------------------------------------------
(* Term exams.                                                             *)

Terms == {e.term : e \in Exams}
OfTerm(t) == {e \in Exams : e.term = t}

Percentage(l, e) == Tenths(marks[l][e], max[e])

\* exam_type_scores: the marks there are.
Counted(l) == [t \in Terms |-> Marked({l}, OfTerm(t))]

\* The averages of learner_sba_report_card and of its PDF: a term without
\* marks has none, the overall average goes over all marks.
TermAverages(l) == [t \in {u \in Terms : Counted(l)[u] # {}} |-> Mean(Counted(l)[t])]

OverallAverage(l) == Mean(UNION {Counted(l)[t] : t \in Terms})

\* _build_sba_report_card_pdf: a row for each exam, with marks or without,
\* and below those of a term its average.
SbaRows(l) ==
  [e \in Exams |-> [term |-> e.term, percentage |-> IF marks[l][e] = None THEN None ELSE Percentage(l, e)]]

\* _build_term_exam_class_csv: the average of the rounded percentages.
ClassCsvAverage(l) ==
  LET es == {e \in Exams : marks[l][e] # None} IN
  IF es = {} THEN 0 ELSE Rounded(Sum([e \in es |-> Percentage(l, e)]), Cardinality(es))

\* class_analytics, by area and exam type; those who left still count.
SubjectMarks ==
  [k \in {<<e.area, e.type>> : e \in Exams} |->
     Marked(Everyone, {e \in Exams : <<e.area, e.type>> = k})]
SubjectAverages == [k \in {j \in DOMAIN SubjectMarks : SubjectMarks[j] # {}} |-> Mean(SubjectMarks[k])]
ClassAverage == Mean(UNION {SubjectMarks[k] : k \in DOMAIN SubjectMarks})

\* Variant: the learners who left are ranked too.
Ranking_everyone ==
  {[name |-> l, average |-> Mean(Marked({l}, Exams))] : l \in {k \in Everyone : Marked({k}, Exams) # {}}}

\* learner_avgs, the best first; sort is stable, and the rows are in the order
\* of the names.
Ranking ==
  {[name |-> l, average |-> Mean(Marked({l}, Exams))] : l \in {k \in Learners : Marked({k}, Exams) # {}}}

Before(a, b) == a.average > b.average \/ (a.average = b.average /\ a.name < b.name)

\* The first of the sorted list, and the last.
TopLearners == {r \in Ranking : Cardinality({q \in Ranking : Before(q, r)}) < Listed}
BottomLearners == {r \in Ranking : Cardinality({q \in Ranking : Before(r, q)}) < Listed}

-----------------------------------------------------------------------------
(* One run of an assessment.                                               *)

\* An item that the assessment no longer has counts as DefaultMax.
MaxLevel(i) == IF i \in DOMAIN items THEN items[i] ELSE DefaultMax
MaxOf(is) == Sum([i \in is |-> MaxLevel(i)])

Scored(l) == {i \in Items : levels[l][i] # None}
Total(l, is) == Sum([i \in is \cap Scored(l) |-> levels[l][i]])

\* _build_report_card_pdf: a row for each score there is; without any there
\* is no card.
CardRows(l) == [i \in Scored(l) |-> [level |-> levels[l][i], max |-> MaxLevel(i)]]
ReportCard(l) ==
  LET rows == CardRows(l)
      total == Sum([i \in DOMAIN rows |-> rows[i].level])
      possible == Sum([i \in DOMAIN rows |-> rows[i].max]) IN
  IF DOMAIN rows = {} THEN None
  ELSE [rows |-> rows, total |-> total, possible |-> possible, percentage |-> Tenths(total, possible)]

\* _build_class_summary_csv: the assessment's items, then others that someone
\* of the class has a score for.
Columns == DOMAIN items \cup UNION {Scored(l) : l \in Learners}
SummaryPercentage(l) == Tenths(Total(l, Columns), MaxOf(Columns))

\* _build_assessment_pdf and _build_assessment_docx
TotalMarks == MaxOf(DOMAIN items)

-----------------------------------------------------------------------------
TypeOK ==
  /\ max \in [Exams -> 1 .. Base]
  /\ \A l \in Everyone, e \in Exams : marks[l][e] # None => marks[l][e] \in Nat
  /\ DOMAIN items \subseteq Items /\ TotalMarks \in Nat

\* The class sheet averages percentages that are rounded, the report card
\* averages exact ones: they differ by at most a tenth of a percent.
SheetNearCard ==
  \A l \in Learners : ClassCsvAverage(l) - OverallAverage(l) \in -1 .. 1

\* On a report card the overall average lies between the term averages, and
\* each of these between the percentages printed above it, also with exams
\* that have no mark and terms that have none; a term has an average when a
\* percentage is printed for it.
OverallBetweenTerms ==
  \A l \in Learners :
    LET averages == TermAverages(l)
        printed(t) == {SbaRows(l)[e].percentage : e \in {f \in Exams : SbaRows(l)[f].term = t}} \ {None} IN
    /\ DOMAIN averages # {} =>
         \E low, high \in DOMAIN averages : OverallAverage(l) \in averages[low] .. averages[high]
    /\ DOMAIN averages = {t \in Terms : printed(t) # {}}
    /\ \A t \in DOMAIN averages : \E low, high \in printed(t) : averages[t] \in low .. high

\* Whoever is listed in the analytics is in the class, with the average of
\* the report card; nobody left out of the top has a higher one, and nobody
\* left out of the bottom a lower one.
RankingMatchesCards ==
  /\ \A r \in TopLearners \cup BottomLearners : r.name \in Learners /\ r.average = OverallAverage(r.name)
  /\ \A l \in Learners : Marked({l}, Exams) # {} =>
       LET average == OverallAverage(l) IN
       /\ \A r \in TopLearners : r.average < average => \E t \in TopLearners : t.name = l
       /\ \A r \in BottomLearners : r.average > average => \E t \in BottomLearners : t.name = l

\* The run's report card counts the items the learner has a score for, the
\* class summary all: the card never shows less, and the same when the
\* learner has a score for each.
CardAboveSummary ==
  \A l \in Learners : ReportCard(l) # None =>
    LET card == ReportCard(l) IN
    /\ card.percentage >= SummaryPercentage(l)
    /\ DOMAIN card.rows = Columns => card.percentage = SummaryPercentage(l)

\* The reports agree with each other, though each computes from the rows in
\* a way of its own.
ReportsAgree ==
  SheetNearCard /\ OverallBetweenTerms /\ RankingMatchesCards /\ CardAboveSummary
=============================================================================
