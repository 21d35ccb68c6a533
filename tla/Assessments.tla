---------------------------- MODULE Assessments -----------------------------
(***************************************************************************)
(* The items of assessments: the draft on the page for a new one, the      *)
(* stored rows, the pages that edit them and the requests they send        *)
(* (api/app/services/assessments.py, api/app/routers/assessments.py,       *)
(* web/src/pages/AssessmentNewPage.tsx and AssessmentDetailPage.tsx).      *)
(* An item is its id and a text; what else an assessment has is left out,  *)
(* as is the favourite mark, which no page sets.                           *)
(***************************************************************************)
EXTENDS Integers, Sequences, FiniteSets, SequencesExt

CONSTANTS
  Pages, Requests,   \* detail pages; requests under way at the same time
  Ids,               \* assessments, one after the other
  Texts, Blank, Generated,   \* what an item says, one just added, and a generated one
  Stored,            \* bound: the rows there are at first
  MaxItems,          \* bound: items of a draft
  MaxEdits,          \* bound: edits on detail pages
  None

Item == [id : 1 .. MaxItems, text : Texts]
Distinct(items) == \A i, j \in DOMAIN items : items[i].id = items[j].id => i = j

\* Ids are numbered in the order of creation.
AssessmentsAssumption ==
  /\ {Blank, Generated} \subseteq Texts /\ {MaxItems, MaxEdits} \subseteq Nat
  /\ Ids \subseteq Nat \ {0} /\ DOMAIN Stored \subseteq Ids /\ None \notin Ids \cup Pages
  /\ \A a \in DOMAIN Stored :
       /\ Stored[a] \in [items : Seq(Item), gone : {FALSE}]
       /\ Distinct(Stored[a].items)

VARIABLES
  draft,      \* the items on the page for a new assessment
  asked,      \* it waits for generated items
  assessments,\* the stored rows by id
  page,       \* each detail page: what it shows, and what its query has
  patch,      \* each PATCH: where it is, its page, the row, the list it
              \* sends, the list the handler loaded
  deleting,   \* rows whose deletion is logged and not made yet
  logged,     \* rows with assessment.deleted in activity_logs
  holed,      \* history: the draft is numbered otherwise than from 1, as it
              \* was generated so or an item other than the last was taken
              \* off, or the one was that a row was made from
  apart,      \* history: pages that may show something else than is stored
  edits       \* edits made on detail pages

vars == <<draft, asked, assessments, page, patch, deleting, logged, holed, apart, edits>>

Closed == [on |-> None, shown |-> <<>>, cached |-> <<>>]
NoPatch == [at |-> "none", page |-> None, on |-> None, items |-> <<>>, seen |-> <<>>]
NewDraft == 0   \* as a member of holed; rows are numbered from 1

Init ==
  /\ draft = <<>> /\ asked = FALSE
  /\ assessments = Stored /\ page = [p \in Pages |-> Closed] /\ patch = [r \in Requests |-> NoPatch]
  /\ deleting = {} /\ logged = {} /\ holed = {} /\ apart = {} /\ edits = 0

Live(a) == a \in DOMAIN assessments /\ ~assessments[a].gone
Room == \E a \in Ids : a \notin DOMAIN assessments   \* bound: no draft after the last row
DraftOnly == Room /\ UNCHANGED <<assessments, page, patch, deleting, logged, apart, edits>>

-----------------------------------------------------------------------------
(* The draft.                                                              *)

\* The button is there while there are no items.
AskGenerate ==
  /\ draft = <<>> /\ ~asked
  /\ asked' = TRUE /\ UNCHANGED <<draft, holed>> /\ DraftOnly

\* The items replace what was added meanwhile; the handler fails without any.
\* The mock provider numbers them from 1; the others pass on the ids that the
\* language model wrote, and the schemas take any.
Generate(ids) ==
  /\ asked /\ asked' = FALSE
  /\ draft' = [i \in DOMAIN ids |-> [id |-> ids[i], text |-> Generated]]
  /\ holed' = IF \A i \in DOMAIN ids : ids[i] = i THEN holed \ {NewDraft} ELSE holed \cup {NewDraft}
  /\ DraftOnly

GenerateFails == asked /\ asked' = FALSE /\ UNCHANGED <<draft, holed>> /\ DraftOnly

\* Variant: the number of items there are.
NewId_sameAsLast(items) == IF items = <<>> THEN 1 ELSE Len(items)

NewId(items) == Len(items) + 1

AddItem ==
  /\ Len(draft) < MaxItems
  /\ draft' = Append(draft, [id |-> NewId(draft), text |-> Blank])
  /\ UNCHANGED <<asked, holed>> /\ DraftOnly

RemoveItem(i) ==
  /\ draft' = RemoveAt(draft, i)
  /\ holed' = CASE Len(draft) = 1 -> holed \ {NewDraft}
                [] i < Len(draft) -> holed \cup {NewDraft}
                [] OTHER -> holed
  /\ UNCHANGED asked /\ DraftOnly

UpdateItem(i, t) ==
  /\ draft[i].text # t /\ draft' = [draft EXCEPT ![i].text = t]
  /\ UNCHANGED <<asked, holed>> /\ DraftOnly

\* The next row.
IsNext(a) == a \notin DOMAIN assessments /\ \A b \in Ids : b < a => b \in DOMAIN assessments
Put(a, items) ==
  assessments' = [b \in DOMAIN assessments \cup {a} |->
    IF b = a THEN [items |-> items, gone |-> FALSE] ELSE assessments[b]]
HoledBy(a, b) == IF b \in holed THEN holed \cup {a} ELSE holed

\* create_assessment commits, and logs in a transaction of its own; when that
\* or the answer is lost the page keeps its items and can save them again.
Create(a, lost) ==
  /\ draft # <<>> /\ IsNext(a) /\ Put(a, draft)
  /\ draft' = IF lost THEN draft ELSE <<>>
  /\ holed' = IF lost THEN HoledBy(a, NewDraft) ELSE HoledBy(a, NewDraft) \ {NewDraft}
  /\ asked' = (asked /\ lost)
  /\ UNCHANGED <<page, patch, deleting, logged, apart, edits>>

DuplicateAssessment(a, b) ==
  /\ Live(a) /\ IsNext(b) /\ Put(b, assessments[a].items) /\ holed' = HoledBy(b, a)
  /\ UNCHANGED <<draft, asked, page, patch, deleting, logged, apart, edits>>

-----------------------------------------------------------------------------
(* A detail page.                                                          *)

Open(p, a) ==
  /\ page[p] = Closed /\ Live(a) /\ edits < MaxEdits
  /\ page' = [page EXCEPT ![p] = [on |-> a, shown |-> assessments[a].items, cached |-> assessments[a].items]]
  /\ apart' = apart \ {p}
  /\ UNCHANGED <<draft, asked, assessments, patch, deleting, logged, holed, edits>>

\* Its requests go on without it.
Close(p) ==
  /\ page[p] # Closed
  /\ page' = [page EXCEPT ![p] = Closed] /\ apart' = apart \ {p}
  /\ patch' = [r \in Requests |-> IF patch[r].page = p THEN [patch[r] EXCEPT !.page = None] ELSE patch[r]]
  /\ UNCHANGED <<draft, asked, assessments, deleting, logged, holed, edits>>

\* The effect of the page: an empty list is filled with what the query has.
Filled(shown, cached) == IF shown = <<>> THEN cached ELSE shown

\* handleItemsChange: the page shows the new list and sends all of it.
Change(p, r, updated) ==
  /\ edits < MaxEdits /\ patch[r] = NoPatch
  /\ edits' = edits + 1
  /\ page' = [page EXCEPT ![p].shown = Filled(updated, page[p].cached)]
  /\ patch' = [patch EXCEPT ![r] =
       [at |-> "sent", page |-> p, on |-> page[p].on, items |-> updated, seen |-> <<>>]]
  /\ apart' = IF Filled(updated, page[p].cached) # updated \/ \E q \in Requests : patch[q].page = p
              THEN apart \cup {p} ELSE apart
  /\ UNCHANGED <<draft, asked, assessments, deleting, logged, holed>>

\* saveEdit and removeItem go by the item's id; the others stay in their order.
EditItem(p, r, i, t) ==
  LET items == page[p].shown
      edited == [items[i] EXCEPT !.text = t] IN
  Change(p, r, [j \in DOMAIN items |-> IF items[j].id = edited.id THEN edited ELSE items[j]])
RemoveShown(p, r, i) ==
  LET items == page[p].shown
      kept == {j \in DOMAIN items : items[j].id # items[i].id} IN
  \E at \in [1 .. Cardinality(kept) -> kept] :
    /\ \A j, k \in DOMAIN at : j < k => at[j] < at[k]
    /\ Change(p, r, [j \in DOMAIN at |-> items[at[j]]])

\* update_assessment: 404 for a deleted row ...
LoadRow(r) ==
  /\ patch[r].at = "sent" /\ Live(patch[r].on)
  /\ patch' = [patch EXCEPT ![r].at = "loaded", ![r].seen = assessments[patch[r].on].items]
  /\ UNCHANGED <<draft, asked, assessments, page, deleting, logged, holed, apart, edits>>

\* ... and the commit, which sets the column when it differs from what was
\* loaded, whether or not the row was deleted meanwhile.
CommitRow(r) ==
  LET a == patch[r].on IN
  /\ patch[r].at = "loaded"
  /\ assessments' = IF patch[r].items = patch[r].seen THEN assessments
                    ELSE [assessments EXCEPT ![a].items = patch[r].items]
  /\ patch' = [patch EXCEPT ![r].at = "answered"]
  /\ apart' = IF assessments' = assessments THEN apart
              ELSE apart \cup {p \in Pages : page[p].on = a /\ p # patch[r].page}
  /\ UNCHANGED <<draft, asked, page, deleting, logged, holed, edits>>

\* The query is fetched again; the list stays unless it is empty.
TakeAnswer(r) ==
  LET p == patch[r].page
      now == IF Live(patch[r].on) THEN assessments[patch[r].on].items ELSE page[p].cached IN
  /\ patch[r].at = "answered"
  /\ patch' = [patch EXCEPT ![r] = NoPatch]
  /\ page' = IF p \in Pages
             THEN [page EXCEPT ![p].cached = now, ![p].shown = Filled(@, now)] ELSE page
  /\ UNCHANGED <<draft, asked, assessments, deleting, logged, holed, apart, edits>>

\* Refused, or lost before or after the commit: a message, and the list stays.
PatchFails(r) ==
  /\ patch[r] # NoPatch
  /\ patch' = [patch EXCEPT ![r] = NoPatch]
  /\ apart' = apart \cup ({patch[r].page} \cap Pages)
  /\ UNCHANGED <<draft, asked, assessments, page, deleting, logged, holed, edits>>

-----------------------------------------------------------------------------
(* soft_delete: the log is committed, then the row is loaded again and     *)
(* marked.                                                                 *)

LogDeletion(a) ==
  /\ Live(a) /\ logged' = logged \cup {a} /\ deleting' = deleting \cup {a}
  /\ UNCHANGED <<draft, asked, assessments, page, patch, holed, apart, edits>>

MarkDeleted(a) ==
  /\ a \in deleting /\ deleting' = deleting \ {a}
  /\ assessments' = [assessments EXCEPT ![a].gone = TRUE]
  /\ UNCHANGED <<draft, asked, page, patch, logged, holed, apart, edits>>

DeletionStops(a) ==
  /\ a \in deleting /\ deleting' = deleting \ {a}
  /\ UNCHANGED <<draft, asked, assessments, page, patch, logged, holed, apart, edits>>

MakingActs ==
  \/ AskGenerate \/ GenerateFails \/ AddItem
  \/ \E n \in 1 .. MaxItems : \E ids \in [1 .. n -> 1 .. MaxItems] : Generate(ids)
  \/ \E i \in DOMAIN draft : RemoveItem(i) \/ \E t \in Texts : UpdateItem(i, t)
  \/ \E a \in Ids :
       (\E lost \in BOOLEAN : Create(a, lost)) \/ \E b \in Ids : DuplicateAssessment(a, b)

DeletingActs == \E a \in Ids : LogDeletion(a) \/ MarkDeleted(a) \/ DeletionStops(a)

PageActs ==
  \/ \E p \in Pages :
       \/ Close(p) \/ \E a \in Ids : Open(p, a)
       \/ \E r \in Requests, i \in DOMAIN page[p].shown :
            RemoveShown(p, r, i) \/ \E t \in Texts : EditItem(p, r, i, t)
  \/ \E r \in Requests : LoadRow(r) \/ CommitRow(r) \/ TakeAnswer(r) \/ PatchFails(r)

Next == MakingActs \/ DeletingActs \/ PageActs

Spec == Init /\ [][Next]_vars

-----------------------------------------------------------------------------
TypeOK ==
  /\ draft \in Seq(Item) /\ asked \in BOOLEAN /\ edits \in 0 .. MaxEdits
  /\ \A a \in DOMAIN assessments :
       a \in Ids /\ assessments[a].items \in Seq(Item) /\ assessments[a].gone \in BOOLEAN
  /\ \A p \in Pages :
       /\ page[p].on \in DOMAIN assessments \cup {None}
       /\ {page[p].shown, page[p].cached} \subseteq Seq(Item)
  /\ \A r \in Requests :
       /\ patch[r].at \in {"none", "sent", "loaded", "answered"}
       /\ patch[r].page \in Pages \cup {None} /\ patch[r].on \in DOMAIN assessments \cup {None}
       /\ {patch[r].items, patch[r].seen} \subseteq Seq(Item)
  /\ logged \cup deleting \subseteq DOMAIN assessments
  /\ apart \subseteq Pages /\ holed \subseteq {NewDraft} \cup DOMAIN assessments

\* The items of an assessment have ids of their own, added, saved, copied or
\* edited, as edits, removals and marks go by the id.  Two things break it
\* and are set apart: generated items that are not numbered from 1, whose ids
\* nothing checks, and an item taken out of the middle of a draft, after
\* which the next one takes the id of the last.
DistinctIds ==
  /\ NewDraft \in holed \/ Distinct(draft)
  /\ \A a \in DOMAIN assessments \ holed : Distinct(assessments[a].items)
  /\ \A p \in Pages : page[p].on \in holed \/ Distinct(page[p].shown)

\* With no request under way a page shows what is stored, unless one of its
\* requests failed or overlapped another, the row was changed from elsewhere
\* or deleted, or the page had filled a list that was emptied.
SavedIsShown ==
  \A p \in Pages \ apart :
    /\ page[p] # Closed /\ Live(page[p].on)
    /\ \A r \in Requests : patch[r].page # p
    => page[p].shown = assessments[page[p].on].items

\* A deleted assessment is in the log, wherever the handler stopped.
DeletedIsLogged == \A a \in DOMAIN assessments : assessments[a].gone => a \in logged

\* Items stay apart, an edit that was saved is shown, and what is gone can be
\* found in the log, through edits that overlap, fail and arrive late.
ItemsKept == DistinctIds /\ SavedIsShown /\ DeletedIsLogged
=============================================================================
