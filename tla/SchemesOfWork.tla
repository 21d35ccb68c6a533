--------------------------- MODULE SchemesOfWork ----------------------------
(***************************************************************************)
(* One scheme of work: the content bank its lessons are taken from, the    *)
(* schedule, the cells that are stored and that the teacher edits, what    *)
(* the preview shows and what the PDF prints (api/app/services/            *)
(* schemes_of_work.py, routers/schemes_of_work.py and the scheme builder   *)
(* of workers/exports.py).                                                 *)
(*                                                                         *)
(* The preview computes the schedule again from the bank of the moment and *)
(* lays the stored cells over it; get_scheme returns the stored cells and  *)
(* the PDF prints them, without their topics.  Of a lesson's fields two    *)
(* are kept: the topic, which is laid over when it is stored at all, and   *)
(* one list, which is laid over when it is not empty (the five list fields *)
(* are treated alike).                                                     *)
(***************************************************************************)
EXTENDS Integers, Sequences, FiniteSets, SequencesExt

CONSTANTS
  Contents,    \* entries of the content bank: 1 .. some number
  Texts,       \* what curators and teachers write; Empty is not one of them
  Empty,       \* an empty list
  MaxWeeks, MaxPerWeek,   \* bounds: total_weeks (20 in the code), lessons_per_week (10)
  MaxWrites    \* bound: writes to the bank and to cells

SchemesAssumption ==
  /\ IsFiniteSet(Contents) /\ Contents \subseteq Nat /\ Empty \notin Texts
  /\ MaxWeeks \in Nat \ {0} /\ MaxPerWeek \in Nat \ {0} /\ MaxWrites \in Nat

VARIABLES
  bank,     \* lesson_content rows: is it of the scheme's sub-strand and term,
            \* sequence_order, text
  scheme,   \* the schemes_of_work row: does it exist, and its calendar
  cells,    \* scheme_lessons rows by <<week, lesson>>; lesson 0 is a break
  draft,    \* the cells a create request is about to insert
  making,   \* what the create request is at
  writes    \* writes made

vars == <<bank, scheme, cells, draft, making, writes>>

Entry == [here : BOOLEAN, order : Nat, topic : Texts, list : Texts \cup {Empty}]
Cell == [content : Contents \cup {0}, topic : Texts \cup {Empty}, list : Texts \cup {Empty}]
Break == [content |-> 0, topic |-> Empty, list |-> Empty]
NoCells == [c \in {} |-> Break]

-----------------------------------------------------------------------------
(* The scheduling engine.                                                  *)

\* _build_calendar: a break takes its whole week, and its cell is lesson 0.
Calendar(s) ==
  FlattenSeq([w \in 1 .. s.weeks |->
    IF w \in s.breaks THEN << <<w, 0>> >> ELSE [l \in 1 .. s.perWeek |-> <<w, l>>]])

\* load_content_bank, in sequence_order: the i-th has i - 1 before it.
Blocks ==
  LET here == {c \in DOMAIN bank : bank[c].here} IN
  [i \in 1 .. Cardinality(here) |->
     CHOOSE c \in here : Cardinality({d \in here : bank[d].order < bank[c].order}) = i - 1]

\* Variant: a break uses up a block.
Slots_breaksCount(calendar, i) == i

\* content_index + 1 at the i-th cell: the lessons up to it.
Slots(calendar, i) == Cardinality({j \in 1 .. i : calendar[j][2] # 0})

\* schedule_lessons: the next block, and the last one when there are no more.
BlockOf(calendar, n, i) == LET k == Slots(calendar, i) IN IF k < n THEN k ELSE n
Schedule(s, blocks) ==
  LET calendar == Calendar(s)
      at == [i \in DOMAIN calendar |->
               IF calendar[i][2] = 0 \/ blocks = <<>> THEN 0
               ELSE blocks[BlockOf(calendar, Len(blocks), i)]] IN
  [c \in Range(calendar) |-> at[CHOOSE i \in DOMAIN calendar : calendar[i] = c]]

Filled(c) == IF c = 0 THEN Break
             ELSE [content |-> c, topic |-> bank[c].topic, list |-> bank[c].list]

-----------------------------------------------------------------------------
Init ==
  /\ \E b \in SUBSET Contents :
       bank \in {[c \in b |-> [here |-> TRUE, order |-> c, topic |-> t, list |-> t]] : t \in Texts}
  /\ scheme \in {[is |-> FALSE, weeks |-> w, perWeek |-> p, breaks |-> b] :
                   w \in 1 .. MaxWeeks, p \in 1 .. MaxPerWeek, b \in SUBSET (1 .. MaxWeeks)}
  /\ cells = NoCells /\ draft = NoCells /\ making = "new" /\ writes = 0

\* create_scheme: the scheme is committed ...
Create ==
  /\ making = "new"
  /\ scheme' = [scheme EXCEPT !.is = TRUE] /\ making' = "read"
  /\ UNCHANGED <<bank, cells, draft, writes>>

\* ... the bank is read; 409 when it has nothing, and the scheme stays ...
GenerateReads ==
  /\ making = "read"
  /\ IF Blocks = <<>>
     THEN making' = "failed" /\ UNCHANGED draft
     ELSE /\ making' = "write"
          /\ LET plan == Schedule(scheme, Blocks) IN draft' = [c \in DOMAIN plan |-> Filled(plan[c])]
  /\ UNCHANGED <<bank, scheme, cells, writes>>

\* Foreign keys: the scheme and every entry that is used must still exist.
KeysHold(drafted) ==
  scheme.is /\ \A c \in DOMAIN drafted : drafted[c].content \in DOMAIN bank \cup {0}

\* Variant: a cell whose entry is gone is left out.
GenerateWrites_skips ==
  /\ making = "write"
  /\ draft' = NoCells /\ making' = "done"
  /\ cells' = [c \in {d \in DOMAIN draft : draft[d].content \in DOMAIN bank \cup {0}} |-> draft[c]]
  /\ UNCHANGED <<bank, scheme, writes>>

\* ... and the cells are inserted, all of them or, on an error, none.
GenerateWrites ==
  /\ making = "write"
  /\ draft' = NoCells
  /\ IF KeysHold(draft) THEN cells' = draft /\ making' = "done"
     ELSE making' = "failed" /\ UNCHANGED cells
  /\ UNCHANGED <<bank, scheme, writes>>

\* The process stops between the commits.
Stop ==
  /\ making \in {"read", "write"}
  /\ making' = "failed" /\ draft' = NoCells
  /\ UNCHANGED <<bank, scheme, cells, writes>>

Write == writes < MaxWrites /\ writes' = writes + 1

\* update_lesson_cell: the fields the body holds; 404 without such a cell.
\* A break has a cell too.
UpdateLessonCell(c, topic, list) ==
  /\ Write /\ c \in DOMAIN cells
  /\ cells' = [cells EXCEPT ![c].topic = topic, ![c].list = list]
  /\ UNCHANGED <<bank, scheme, draft, making>>

DeleteScheme ==
  /\ scheme.is
  /\ scheme' = [scheme EXCEPT !.is = FALSE] /\ cells' = NoCells
  /\ UNCHANGED <<bank, draft, making, writes>>

\* create_lesson_content and update_lesson_content: every column is set.
\* Curators number the entries of a sub-strand differently.
PutContent(c, here, text, list) ==
  /\ Write
  /\ bank' = [d \in DOMAIN bank \cup {c} |->
                IF d = c THEN [here |-> here, order |-> c, topic |-> text, list |-> list] ELSE bank[d]]
  /\ UNCHANGED <<scheme, cells, draft, making>>

\* delete_lesson_content: refused by the foreign key while a cell uses it.
DeleteContent(c) ==
  /\ Write /\ c \in DOMAIN bank /\ \A d \in DOMAIN cells : cells[d].content # c
  /\ bank' = [d \in DOMAIN bank \ {c} |-> bank[d]]
  /\ UNCHANGED <<scheme, cells, draft, making>>

Next ==
  \/ Create \/ GenerateReads \/ GenerateWrites \/ Stop \/ DeleteScheme
  \/ \E c \in DOMAIN cells :
       \E t \in Texts \cup {cells[c].topic}, l \in Texts \cup {Empty} : UpdateLessonCell(c, t, l)
  \/ \E c \in Contents :
       \/ DeleteContent(c)
       \/ \E here \in BOOLEAN, t \in Texts : \E l \in {t, Empty} : PutContent(c, here, t, l)

Spec == Init /\ [][Next]_vars

-----------------------------------------------------------------------------
\* edit_map: what is stored for the lesson goes before what was computed.
Overlaid(c, shown) ==
  IF c \in DOMAIN cells /\ c[2] # 0
  THEN [shown EXCEPT !.topic = cells[c].topic,
                     !.list = IF cells[c].list = Empty THEN @ ELSE cells[c].list]
  ELSE shown

\* preview_payload: a break is blank, and so is a lesson without a block.
PreviewPayload(plan) == [c \in DOMAIN plan |-> Filled(plan[c])]

\* preview_scheme: without a bank, the empty calendar.
Preview ==
  LET payload == PreviewPayload(Schedule(scheme, Blocks)) IN
  [c \in DOMAIN payload |-> IF Blocks = <<>> THEN payload[c] ELSE Overlaid(c, payload[c])]

\* get_scheme: the rows that are stored, those of breaks too.
GetScheme == cells

\* _build_scheme_of_work_pdf: the lists of the stored rows; a break has its
\* label and, whatever its row holds, nothing else.
Printed == [c \in DOMAIN cells |-> IF c[2] = 0 THEN Empty ELSE cells[c].list]

-----------------------------------------------------------------------------
TypeOK ==
  /\ DOMAIN bank \subseteq Contents /\ \A c \in DOMAIN bank : bank[c] \in Entry
  /\ scheme.is \in BOOLEAN
  /\ \A c \in DOMAIN cells : cells[c] \in Cell
  /\ \A c \in DOMAIN draft : draft[c] \in Cell
  /\ making \in {"new", "read", "write", "done", "failed"} /\ writes \in 0 .. MaxWrites

\* The schedule against its definition: week by week either the break or the
\* lessons, each once; the entries in their order, none left out while there
\* are lessons for it, and the last one again when they run out.
ScheduleSound ==
  LET n == Len(Blocks)
      plan == Schedule(scheme, Blocks)
      before(c) == Cardinality({d \in DOMAIN plan : d[2] # 0 /\
                     (d[1] < c[1] \/ (d[1] = c[1] /\ d[2] < c[2]))}) IN
  /\ DOMAIN plan = UNION {IF w \in scheme.breaks THEN {<<w, 0>>} ELSE {w} \X (1 .. scheme.perWeek) :
                          w \in 1 .. scheme.weeks}
  /\ n > 0 => \A c \in DOMAIN plan : c[2] # 0 =>
       plan[c] = IF before(c) < n THEN Blocks[before(c) + 1] ELSE Blocks[n]

\* A scheme has the cells of its whole calendar or none: the preview never
\* offers some lessons that can be edited and some that answer 404, whatever
\* happens to the bank while the scheme is made.
WholeOrNone == cells = NoCells \/ DOMAIN cells = DOMAIN Schedule(scheme, Blocks)

\* What the preview shows of a lesson is what get_scheme returns and the PDF
\* prints, whatever was written to the bank since the scheme was made, as
\* long as it holds something for the sub-strand and term; a list that is
\* stored empty is shown as the bank has it.  What is written to the row of a
\* break appears in neither.
PreviewIsPrinted ==
  Blocks # <<>> => \A c \in DOMAIN Printed :
    /\ c[2] # 0 => Preview[c].topic = GetScheme[c].topic
    /\ c[2] = 0 \/ Printed[c] # Empty => Preview[c].list = Printed[c]

\* What is stored, shown and printed of a scheme agrees, whatever happens to
\* the bank while it is made and afterwards.
SchemeAgrees == WholeOrNone /\ PreviewIsPrinted
=============================================================================
