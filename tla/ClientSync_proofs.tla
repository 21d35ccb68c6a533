------------------------- MODULE ClientSync_proofs --------------------------
(***************************************************************************)
(* Safety of score entry in the browser for every number of tabs, calls,   *)
(* runs, cells, taps and losses.                                           *)
(*                                                                         *)
(* Inv carries the type invariant: that what is dirty, on its way or on    *)
(* the server was tapped for that very cell (OwnTaps) is what makes a      *)
(* snapshot of the dirty rows well formed.  Where the server refuses the   *)
(* ids of the page, KeepInv adds that no call gets past its request, so    *)
(* that nothing ever cleans a row.                                         *)
(***************************************************************************)
EXTENDS ClientSync, TLAPS

USE DEF history

Tap(c, n) == n \in 1..Len(edits) /\ edits[n] = c

OwnTaps ==
  /\ \A c \in dirty : Tap(c, local[c])
  /\ \A k \in Calls : \A c \in DOMAIN call[k].snap : Tap(c, call[k].snap[c])
  /\ \A s \in late : \A c \in DOMAIN s : Tap(c, s[c])
  /\ \A c \in Cells : server[c] # NoRow => Tap(c, server[c])

Inv == TypeOK /\ Len(edits) <= MaxEdits /\ OwnTaps

\* The requests of an action's next state are ones there were before.
SnapsKept ==
  /\ \A k \in Calls : call'[k].snap = call[k].snap \/ DOMAIN call'[k].snap = {}
  /\ \A s \in late' : s \in late \/ \E k \in Calls : s = call[k].snap

-----------------------------------------------------------------------------

\* A snapshot maps some cells to taps, and every such map is a snapshot.
LEMMA SnapshotFacts ==
  ASSUME NEW s \in Snapshots
  PROVE  DOMAIN s \subseteq Cells /\ \A c \in DOMAIN s : s[c] \in 1..MaxEdits
BY DEF Snapshots

\* A map of some cells to taps is a snapshot.
LEMMA SnapshotIntro ==
  ASSUME NEW D \in SUBSET Cells, NEW s \in [D -> 1..MaxEdits]
  PROVE  s \in Snapshots
BY DEF Snapshots

\* A call that has ended is a call, and sends nothing.
LEMMA IdleTyped == Idle \in CallState /\ DOMAIN Idle.snap = {}
<1>1. Nothing \in [{} -> 1..MaxEdits]
  BY DEF Nothing
<1>2. Nothing \in Snapshots
  BY <1>1, SnapshotIntro
<1> QED
  BY <1>2 DEF Idle, CallState, Nothing

\* A call can be entered in the calls wherever it has the type.
LEMMA CallUpdate ==
  ASSUME TypeOK, NEW k \in Calls, NEW x \in CallState, call' = [call EXCEPT ![k] = x]
  PROVE  call' \in [Calls -> CallState]
BY DEF TypeOK

\* setSyncStatus keeps the status of each tab one of the three.
LEMMA StatusTyped ==
  ASSUME TypeOK, NEW k \in Calls, NEW s \in {"synced", "pending", "syncing"}, SetStatus(k, s)
  PROVE  status' \in [Tabs -> {"synced", "pending", "syncing"}]
BY DEF TypeOK, SetStatus

\* A call that fails ends, and its snapshot with it.
LEMMA FailTyped ==
  ASSUME TypeOK, NEW k \in Calls, Fail(k)
  PROVE  /\ call' \in [Calls -> CallState]
         /\ status' \in [Tabs -> {"synced", "pending", "syncing"}]
         /\ \A j \in Calls : call'[j].snap = call[j].snap \/ DOMAIN call'[j].snap = {}
<1>1. call' = [call EXCEPT ![k] = Idle] /\ SetStatus(k, "pending")
  BY DEF Fail
<1> QED
  BY <1>1, IdleTyped, CallUpdate, StatusTyped DEF TypeOK

\* Losses stay within their bound.
LEMMA LossTyped ==
  ASSUME TypeOK, Loss
  PROVE  losses' \in 0..MaxLosses
BY ClientSyncAssumption DEF TypeOK, Loss

-----------------------------------------------------------------------------
(* Inv is kept.                                                            *)

LEMMA InitInv == Init => Inv
<1> SUFFICES ASSUME Init PROVE Inv
  OBVIOUS
<1>1. TypeOK
  BY IdleTyped, ClientSyncAssumption DEF Init, TypeOK, NoRow
<1>2. OwnTaps
  BY IdleTyped DEF Init, OwnTaps
<1> QED
  BY <1>1, <1>2, ClientSyncAssumption DEF Init, Inv

\* The rows, the server and the taps are left alone: nothing to show but types.
LEMMA QuietInv ==
  ASSUME Inv, TypeOK', SnapsKept, UNCHANGED <<local, server, history>>, dirty' \subseteq dirty
  PROVE  Inv'
<1>1. OwnTaps'
  BY DEF Inv, OwnTaps, SnapsKept, Tap
<1> QED
  BY <1>1 DEF Inv

\* An entry of a request that reaches the server is a tap of its cell.
LEMMA StoredInv ==
  ASSUME Inv, TypeOK', NEW s \in Snapshots, \A c \in DOMAIN s : Tap(c, s[c]),
         server' = Stored(s), SnapsKept, UNCHANGED <<local, history>>, dirty' \subseteq dirty
  PROVE  Inv'
<1>1. \A c \in Cells : server'[c] # NoRow => Tap(c, server'[c])
  BY DEF Inv, OwnTaps, Stored, Tap
<1>2. OwnTaps'
  BY <1>1 DEF Inv, OwnTaps, SnapsKept, Tap
<1> QED
  BY <1>2 DEF Inv

\* What the server holds after a batch are taps.
LEMMA StoredTyped ==
  ASSUME TypeOK, NEW s \in Snapshots
  PROVE  Stored(s) \in [Cells -> 0..MaxEdits]
<1>1. \A c \in DOMAIN s : s[c] \in 0..MaxEdits
  BY SnapshotFacts, ClientSyncAssumption
<1> QED
  BY <1>1 DEF TypeOK, Stored

\* The conflicted rows of an answer are a snapshot.
LEMMA ConflictsTyped ==
  ASSUME TypeOK, NEW s \in Snapshots
  PROVE  Conflicts(s) \in Snapshots
<1> DEFINE D == {c \in DOMAIN s : Known(c) /\ Comparable(c) /\ server[c] > s[c]}
<1>1. D \in SUBSET Cells
  BY SnapshotFacts
<1>2. \A c \in D : server[c] \in 1..MaxEdits
  BY <1>1, SnapshotFacts, ClientSyncAssumption DEF TypeOK
<1>3. Restrict(server, D) \in [D -> 1..MaxEdits]
  BY <1>2 DEF Restrict
<1> QED
  BY <1>1, <1>3, SnapshotIntro DEF Conflicts

\* Opening a page changes no row.
LEMMA OpenPageInv == ASSUME Inv, NEW t \in Tabs, NEW r \in Runs, OpenPage(t, r) PROVE Inv'
<1>1. TypeOK'
  BY DEF Inv, OpenPage, TypeOK
<1> QED
  BY <1>1, QuietInv DEF OpenPage, SnapsKept

\* Nor does leaving it; its calls go on.
LEMMA LeavePageInv == ASSUME Inv, NEW t \in Tabs, LeavePage(t) PROVE Inv'
<1>1. TypeOK'
  BY DEF Inv, LeavePage, TypeOK
<1> QED
  BY <1>1, QuietInv DEF LeavePage, SnapsKept

\* Calls that end leave behind what they have sent.
LEMMA EndedTyped ==
  ASSUME Inv, NEW t \in Tabs, EndCalls(t)
  PROVE  call' \in [Calls -> CallState] /\ late' \subseteq Snapshots /\ SnapsKept
<1>1. call' \in [Calls -> CallState]
  BY IdleTyped DEF Inv, TypeOK, EndCalls
<1>2. late' \subseteq Snapshots
  BY DEF Inv, TypeOK, EndCalls, CallState
<1>3. SnapsKept
  BY IdleTyped DEF EndCalls, SnapsKept
<1> QED
  BY <1>1, <1>2, <1>3

\* What a closed tab has sent was tapped.
LEMMA CloseTabInv == ASSUME Inv, NEW t \in Tabs, CloseTab(t) PROVE Inv'
<1>1. EndCalls(t) /\ UNCHANGED <<local, dirty, used, status, online, server, history, losses>>
      /\ run' = [run EXCEPT ![t] = NoRun]
  BY DEF CloseTab
<1>2. TypeOK'
  BY <1>1, EndedTyped DEF Inv, TypeOK
<1> QED
  BY <1>1, <1>2, EndedTyped, QuietInv

\* After a logout no row is left; what was sent before it was tapped.
LEMMA LogoutInv == ASSUME Inv, NEW t \in Tabs, Logout(t) PROVE Inv'
<1>1. /\ EndCalls(t) /\ logouts < MaxLogouts
      /\ local' = [c \in Cells |-> NoRow] /\ dirty' = {}
      /\ run' = [run EXCEPT ![t] = NoRun]
      /\ deleted' = Len(edits) /\ logouts' = logouts + 1
      /\ UNCHANGED <<used, status, online, server, edits, losses>>
  BY DEF Logout
<1>2. /\ call' \in [Calls -> CallState] /\ late' \subseteq Snapshots /\ SnapsKept
  BY <1>1, EndedTyped
<1>3. deleted' \in 0..Len(edits') /\ logouts' \in 0..MaxLogouts
  BY <1>1, ClientSyncAssumption DEF Inv, TypeOK
<1>4. local' \in [Cells -> 0..MaxEdits]
  BY <1>1, ClientSyncAssumption DEF NoRow
<1>5. TypeOK'
  BY <1>1, <1>2, <1>3, <1>4 DEF Inv, TypeOK
<1>6. OwnTaps'
  BY <1>1, <1>2 DEF Inv, OwnTaps, SnapsKept, Tap
<1> QED
  BY <1>1, <1>5, <1>6 DEF Inv

\* A tap appends to the history, so older taps stay what they were.
LEMMA EditInv == ASSUME Inv, NEW t \in Tabs, NEW m \in Slots, Edit(t, m) PROVE Inv'
<1> DEFINE c == <<run[t], m>>
<1>1. c \in Cells
  BY DEF Inv, TypeOK, Edit, Cells
<1>2. edits' = Append(edits, c) /\ edits \in Seq(Cells) /\ Len(edits) < MaxEdits
  BY DEF Edit, Inv, TypeOK
<1>3. /\ Len(edits') = Len(edits) + 1 /\ Len(edits') \in 1..MaxEdits
      /\ edits'[Len(edits')] = c /\ edits' \in Seq(Cells)
      /\ \A n \in 1..Len(edits) : edits'[n] = edits[n]
  BY <1>1, <1>2, ClientSyncAssumption
<1>4. \A d, n : Tap(d, n) => n \in 1..Len(edits') /\ edits'[n] = d
  BY <1>2, <1>3 DEF Tap
<1>5. Len(edits') \in 1..Len(edits')
  BY <1>3
<1>6. Begin(t) \in CallState /\ DOMAIN Begin(t).snap = {}
  BY IdleTyped DEF Begin, CallState, Inv, TypeOK
<1>7. /\ call' \in [Calls -> CallState]
      /\ \A j \in Calls : call'[j].snap = call[j].snap \/ DOMAIN call'[j].snap = {}
  BY <1>6 DEF Edit, Inv, TypeOK
<1>8. local' = [local EXCEPT ![c] = Len(edits')] /\ dirty' = dirty \cup {c}
      /\ UNCHANGED <<run, used, online, late, server, deleted, logouts, losses>>
  BY DEF Edit
<1>9. TypeOK'
  <2>1. local' \in [Cells -> 0..MaxEdits]
    <3>1. Len(edits') \in 0..MaxEdits
      BY <1>3, ClientSyncAssumption
    <3>2. local \in [Cells -> 0..MaxEdits]
      BY DEF Inv, TypeOK
    <3> QED
      BY <1>8, <3>1, <3>2
  <2>2. status' \in [Tabs -> {"synced", "pending", "syncing"}]
    BY DEF Edit, Inv, TypeOK
  <2>3. deleted' \in 0..Len(edits') /\ logouts' \in 0..MaxLogouts
    BY <1>2, <1>3, <1>8 DEF Inv, TypeOK
  <2> HIDE DEF c
  <2> QED
    BY <1>1, <1>3, <1>7, <1>8, <2>1, <2>2, <2>3 DEF Inv, TypeOK
<1>10. OwnTaps'
  <2>1. (\A d \in dirty : Tap(d, local[d]))'
    <3>1. local \in [Cells -> 0..MaxEdits] /\ dirty \subseteq Cells
      BY DEF Inv, TypeOK
    <3>2. local'[c] = Len(edits') /\ \A d \in dirty : d # c => local'[d] = local[d]
      BY <1>1, <1>8, <3>1
    <3>3. \A d \in dirty : Tap(d, local[d])
      BY DEF Inv, OwnTaps
    <3>4. ASSUME NEW d \in dirty', d # c PROVE local'[d] \in 1..Len(edits') /\ edits'[local'[d]] = d
      BY <1>4, <1>8, <3>2, <3>3, <3>4
    <3>5. local'[c] \in 1..Len(edits') /\ edits'[local'[c]] = c
      BY <1>3, <1>5, <3>2
    <3> HIDE DEF c
    <3> QED
      BY <3>4, <3>5 DEF Tap
  <2>2. (\A k \in Calls : \A d \in DOMAIN call[k].snap : Tap(d, call[k].snap[d]))'
    BY <1>4, <1>7 DEF Inv, OwnTaps, Tap
  <2>3. (\A s \in late : \A d \in DOMAIN s : Tap(d, s[d]))'
    BY <1>4, <1>8 DEF Inv, OwnTaps, Tap
  <2>4. (\A d \in Cells : server[d] # NoRow => Tap(d, server[d]))'
    BY <1>4, <1>8 DEF Inv, OwnTaps, Tap
  <2> QED
    BY <2>1, <2>2, <2>3, <2>4 DEF OwnTaps
<1> QED
  BY <1>3, <1>9, <1>10 DEF Inv

\* A call begins with nothing to send.
LEMMA StartSyncInv == ASSUME Inv, NEW t \in Tabs, NEW k \in Calls, StartSync(t, k) PROVE Inv'
<1>1. Begin(t) \in CallState /\ DOMAIN Begin(t).snap = {}
  BY IdleTyped DEF Begin, CallState, Inv, TypeOK
<1>2. /\ call' \in [Calls -> CallState]
      /\ \A j \in Calls : call'[j].snap = call[j].snap \/ DOMAIN call'[j].snap = {}
  BY <1>1 DEF StartSync, Inv, TypeOK
<1>3. TypeOK'
  BY <1>2 DEF Inv, StartSync, TypeOK
<1> QED
  BY <1>2, <1>3, QuietInv DEF StartSync, SnapsKept

\* Nor has one that the button starts.
LEMMA RefreshInv == ASSUME Inv, NEW t \in Tabs, NEW k \in Calls, Refresh(t, k) PROVE Inv'
<1>1. Begin(t) \in CallState /\ DOMAIN Begin(t).snap = {}
  BY IdleTyped DEF Begin, CallState, Inv, TypeOK
<1>2. /\ call' \in [Calls -> CallState]
      /\ \A j \in Calls : call'[j].snap = call[j].snap \/ DOMAIN call'[j].snap = {}
  BY <1>1 DEF Refresh, Inv, TypeOK
<1>3. TypeOK'
  BY <1>2 DEF Inv, Refresh, TypeOK
<1> QED
  BY <1>2, <1>3, QuietInv DEF Refresh, SnapsKept

\* What ReadDirty takes along are taps of the rows' own cells.
LEMMA ReadDirtyInv == ASSUME Inv, NEW k \in Calls, ReadDirty(k) PROVE Inv'
<1> DEFINE s == Restrict(local, dirty)
<1>1. UNCHANGED <<local, dirty, run, used, online, late, server, history, losses>>
  BY DEF ReadDirty
<1>2. CASE dirty = {}
  <2>1. call' = [call EXCEPT ![k] = Idle] /\ SetStatus(k, "synced")
    BY <1>2 DEF ReadDirty
  <2>2. call' \in [Calls -> CallState]
    BY <2>1, IdleTyped, CallUpdate DEF Inv
  <2>3. TypeOK'
    BY <1>1, <2>1, <2>2, StatusTyped DEF Inv, TypeOK
  <2>4. SnapsKept
    BY <1>1, <2>1, IdleTyped DEF SnapsKept, Inv, TypeOK
  <2> QED
    BY <1>1, <2>3, <2>4, QuietInv
<1>3. CASE dirty # {}
  <2>1. call' = [call EXCEPT ![k].pc = "sent", ![k].snap = s] /\ UNCHANGED status
    BY <1>3 DEF ReadDirty
  <2>2. \A c \in dirty : s[c] = local[c] /\ Tap(c, s[c]) /\ s[c] \in 1..MaxEdits
    BY ClientSyncAssumption DEF Inv, OwnTaps, Tap, TypeOK, Restrict
  <2>3. DOMAIN s = dirty /\ s \in [dirty -> 1..MaxEdits]
    BY <2>2 DEF Restrict
  <2>4. s \in Snapshots
    BY <2>3, SnapshotIntro DEF Inv, TypeOK
  <2>5. call' \in [Calls -> CallState]
    <3>1. call[k] \in CallState /\ call \in [Calls -> CallState]
      BY DEF Inv, TypeOK
    <3> HIDE DEF s
    <3> QED
      BY <2>1, <2>4, <3>1 DEF CallState
  <2>6. TypeOK'
    BY <1>1, <2>1, <2>5 DEF Inv, TypeOK
  <2>7. \A j \in Calls : call'[j].snap = IF j = k THEN s ELSE call[j].snap
    BY <2>1 DEF Inv, TypeOK, CallState
  <2>8. \A j \in Calls : \A c \in DOMAIN call'[j].snap : Tap(c, call'[j].snap[c])
    <3> TAKE j \in Calls
    <3>1. CASE j = k
      BY <3>1, <2>2, <2>3, <2>7
    <3>2. CASE j # k
      BY <3>2, <2>7 DEF Inv, OwnTaps
    <3> QED
      BY <3>1, <3>2
  <2>9. OwnTaps'
    BY <1>1, <2>8 DEF Inv, OwnTaps, Tap
  <2> QED
    BY <1>1, <2>6, <2>9 DEF Inv
<1> QED
  BY <1>2, <1>3

\* The server stores what the call was sent with.
LEMMA DeliverInv == ASSUME Inv, NEW k \in Calls, Deliver(k) PROVE Inv'
<1> DEFINE s == call[k].snap
<1>1. /\ server' = Stored(s)
      /\ call' = [call EXCEPT ![k].pc = "answered", ![k].conf = Conflicts(s),
                              ![k].left = DOMAIN s]
      /\ UNCHANGED <<local, dirty, run, used, status, online, late, history, losses>>
  BY DEF Deliver
<1>2. s \in Snapshots /\ \A c \in DOMAIN s : Tap(c, s[c])
  BY DEF Inv, OwnTaps, TypeOK, CallState
<1>3. DOMAIN s \in SUBSET Cells /\ Conflicts(s) \in Snapshots
      /\ Stored(s) \in [Cells -> 0..MaxEdits]
  BY <1>2, SnapshotFacts, ConflictsTyped, StoredTyped DEF Inv
<1>4. call' \in [Calls -> CallState] /\ \A j \in Calls : call'[j].snap = call[j].snap
  <2>1. call[k] \in CallState /\ call \in [Calls -> CallState]
    BY DEF Inv, TypeOK
  <2> HIDE DEF s
  <2> QED
    BY <1>1, <1>3, <2>1 DEF CallState
<1>5. TypeOK'
  BY <1>1, <1>3, <1>4 DEF Inv, TypeOK
<1> QED
  BY <1>1, <1>2, <1>4, <1>5, StoredInv DEF SnapsKept

\* A refused batch changes no row.
LEMMA RefuseInv == ASSUME Inv, NEW k \in Calls, Refuse(k) PROVE Inv'
<1>1. losses' \in 0..MaxLosses
  BY LossTyped DEF Inv, Refuse, TypeOK
<1>2. TypeOK'
  BY <1>1, FailTyped DEF Inv, Refuse, TypeOK
<1> QED
  BY <1>2, FailTyped, QuietInv DEF Refuse, SnapsKept, Inv

\* Nor does a request that is lost ...
LEMMA LoseRequestInv == ASSUME Inv, NEW k \in Calls, LoseRequest(k) PROVE Inv'
<1>1. losses' \in 0..MaxLosses /\ call[k].snap \in Snapshots
  BY LossTyped DEF Inv, LoseRequest, TypeOK, CallState
<1>2. TypeOK'
  BY <1>1, FailTyped DEF Inv, LoseRequest, TypeOK
<1> QED
  BY <1>2, FailTyped, QuietInv DEF LoseRequest, SnapsKept, Inv

\* ... or an answer that is.
LEMMA LoseReplyInv == ASSUME Inv, NEW k \in Calls, LoseReply(k) PROVE Inv'
<1>1. losses' \in 0..MaxLosses
  BY LossTyped DEF Inv, LoseReply
<1>2. TypeOK'
  BY <1>1, FailTyped DEF Inv, LoseReply, TypeOK
<1> QED
  BY <1>2, FailTyped, QuietInv DEF LoseReply, SnapsKept, Inv

\* The answer leaves the rows to be marked where they are.
LEMMA ReceiveInv == ASSUME Inv, NEW k \in Calls, Receive(k) PROVE Inv'
<1>1. call' \in [Calls -> CallState] /\ \A j \in Calls : call'[j].snap = call[j].snap
  BY DEF Receive, Inv, TypeOK, CallState
<1>2. TypeOK'
  BY <1>1 DEF Inv, Receive, TypeOK
<1> QED
  BY <1>1, <1>2, QuietInv DEF Receive, SnapsKept

\* A row that is marked keeps its tap.
LEMMA MarkRowInv == ASSUME Inv, NEW k \in Calls, MarkRow(k) PROVE Inv'
<1>1. PICK c \in call[k].left : /\ dirty' = dirty \ {c}
                                /\ call' = [call EXCEPT ![k].left = @ \ {c}]
  BY DEF MarkRow
<1>2. call' \in [Calls -> CallState] /\ \A j \in Calls : call'[j].snap = call[j].snap
  BY <1>1 DEF Inv, TypeOK, CallState
<1>3. TypeOK'
  BY <1>1, <1>2 DEF Inv, MarkRow, TypeOK
<1> QED
  BY <1>1, <1>2, <1>3, QuietInv DEF MarkRow, SnapsKept

\* The row written may be another run's, but it is clean: it is never sent.
LEMMA PutConflictInv == ASSUME Inv, NEW k \in Calls, PutConflict(k) PROVE Inv'
<1>1. PICK c \in DOMAIN call[k].conf :
        LET d == <<call[k].run, c[2]>> IN
        /\ local' = [local EXCEPT ![d] = call[k].conf[c]]
        /\ dirty' = dirty \ {d}
        /\ call' = [call EXCEPT ![k].conf = Restrict(@, DOMAIN @ \ {c})]
  BY DEF PutConflict
<1> DEFINE f == call[k].conf  d == <<call[k].run, c[2]>>
<1>2. call \in [Calls -> CallState] /\ call[k] \in CallState /\ f \in Snapshots
  BY DEF Inv, TypeOK, CallState
<1>3. f[c] \in 0..MaxEdits
  BY <1>1, <1>2, SnapshotFacts, ClientSyncAssumption
<1>4. Restrict(f, DOMAIN f \ {c}) \in Snapshots
  <2>1. Restrict(f, DOMAIN f \ {c}) \in [DOMAIN f \ {c} -> 1..MaxEdits]
    BY <1>2, SnapshotFacts DEF Restrict
  <2> QED
    BY <1>2, <2>1, SnapshotFacts, SnapshotIntro
<1>5. call' \in [Calls -> CallState] /\ \A j \in Calls : call'[j].snap = call[j].snap
  BY <1>1, <1>2, <1>4 DEF CallState
<1>6. local' = [local EXCEPT ![d] = f[c]] /\ dirty' = dirty \ {d}
      /\ UNCHANGED <<run, used, status, online, late, server, history, losses>>
  BY <1>1 DEF PutConflict
<1>7. local' \in [Cells -> 0..MaxEdits] /\ \A b \in dirty' : local'[b] = local[b]
  <2>1. local \in [Cells -> 0..MaxEdits] /\ dirty \subseteq Cells
    BY DEF Inv, TypeOK
  <2> HIDE DEF f, d
  <2> QED
    BY <1>3, <1>6, <2>1
<1>8. TypeOK'
  <2> HIDE DEF f, d
  <2>1. dirty' \subseteq dirty
    BY <1>6
  <2>2. TypeOK
    BY DEF Inv
  <2>3. /\ dirty' \subseteq Cells
        /\ UNCHANGED <<run, used, status, online, late, server, losses>>
        /\ UNCHANGED <<edits, deleted, logouts>>
    BY <1>6, <2>1, <2>2 DEF TypeOK
  <2> QED
    BY <1>5, <1>7, <2>2, <2>3 DEF TypeOK
<1>9. OwnTaps'
  <2>1. dirty' \subseteq dirty /\ UNCHANGED <<late, server, edits>>
    BY <1>6
  <2> HIDE DEF f, d
  <2>2. \A b \in dirty' : Tap(b, local'[b])
    BY <1>7, <2>1 DEF Inv, OwnTaps
  <2> QED
    BY <1>5, <2>1, <2>2 DEF Inv, OwnTaps, Tap
<1> QED
  BY <1>6, <1>8, <1>9 DEF Inv

\* A call ends when no row is left to be marked.
LEMMA FinishInv == ASSUME Inv, NEW k \in Calls, Finish(k) PROVE Inv'
<1>1. call' = [call EXCEPT ![k] = Idle] /\ SetStatus(k, "synced")
  BY DEF Finish
<1>2. call' \in [Calls -> CallState]
  BY <1>1, IdleTyped, CallUpdate DEF Inv
<1>3. TypeOK'
  BY <1>1, <1>2, StatusTyped DEF Inv, TypeOK, Finish
<1>4. SnapsKept
  BY <1>1, IdleTyped DEF SnapsKept, Inv, TypeOK, Finish
<1> QED
  BY <1>3, <1>4, QuietInv DEF Finish

\* What a closed tab has sent arrives: its own taps.
LEMMA DeliverLateInv == ASSUME Inv, NEW s \in late, DeliverLate(s) PROVE Inv'
<1>1. s \in Snapshots /\ \A c \in DOMAIN s : Tap(c, s[c])
  BY DEF Inv, OwnTaps, TypeOK
<1>2. TypeOK'
  BY <1>1, StoredTyped DEF Inv, TypeOK, DeliverLate
<1>3. /\ UNCHANGED <<local, dirty, call, history>> /\ SnapsKept
      /\ server' = Stored(s) \/ server' = server
  BY DEF DeliverLate, SnapsKept
<1> QED
  BY <1>1, <1>2, <1>3, StoredInv, QuietInv

\* The network comes and goes.
LEMMA NetworkInv == ASSUME Inv, GoOnline \/ GoOffline PROVE Inv'
<1>1. TypeOK'
  BY DEF Inv, GoOnline, GoOffline, TypeOK
<1> QED
  BY <1>1, QuietInv DEF GoOnline, GoOffline, SnapsKept

\* Every step of a call keeps the invariant.
LEMMA ProgressInv == ASSUME Inv, NEW k \in Calls, Progress(k) PROVE Inv'
BY ReadDirtyInv, DeliverInv, RefuseInv, LoseRequestInv, LoseReplyInv, ReceiveInv,
   MarkRowInv, PutConflictInv, FinishInv DEF Progress

\* Every step keeps the invariant ...
LEMMA StepInv == ASSUME Inv, Next PROVE Inv'
BY OpenPageInv, LeavePageInv, CloseTabInv, LogoutInv, EditInv, StartSyncInv, RefreshInv,
   ProgressInv, DeliverLateInv, NetworkInv DEF Next

\* ... and so does none.
LEMMA StutterInv == ASSUME Inv, UNCHANGED vars PROVE Inv'
<1>1. TypeOK'
  BY DEF Inv, vars, TypeOK
<1> QED
  BY <1>1, QuietInv DEF vars, SnapsKept

\* The inductive invariant of every history of taps, calls and losses.
THEOREM Invariance == Spec => []Inv
<1>1. Inv /\ [Next]_vars => Inv'
  BY StepInv, StutterInv
<1> QED
  BY InitInv, <1>1, PTL DEF Spec

\* Every variable keeps its type: what a call sends is always a well-formed
\* snapshot of tapped rows, and every conflict it is answered names a cell.
THEOREM TypeCorrect == Spec => []TypeOK
<1>1. Inv => TypeOK
  BY DEF Inv
<1> QED
  BY Invariance, <1>1, PTL

\* Whatever overlaps, fails or arrives late, and although a conflict may be
\* written to another run's row, the server holds for a cell only what was
\* tapped for it.
THEOREM TapsStayInTheirCell == Spec => []ServerHoldsOwnTaps
<1>1. Inv => ServerHoldsOwnTaps
  BY DEF Inv, OwnTaps, Tap, ServerHoldsOwnTaps
<1> QED
  BY Invariance, <1>1, PTL

-----------------------------------------------------------------------------
(* What was tapped stays to be sent, as long as the server takes nothing.  *)

NoAnswer == \A k \in Calls : call[k].pc \notin {"answered", "mark"}

KeepInv == Inv /\ NoAnswer /\ TapsAreKept

\* At first there is neither a tap nor a call.
LEMMA InitKeep == Init => KeepInv
<1> SUFFICES ASSUME Init PROVE KeepInv
  OBVIOUS
<1>1. NoAnswer
  BY DEF Init, NoAnswer, Idle
<1>2. TapsAreKept
  BY DEF Init, TapsAreKept
<1> QED
  BY <1>1, <1>2, InitInv DEF KeepInv

\* A tap is the newest of its cell, and its row is dirty.
LEMMA EditKeep ==
  ASSUME KeepInv, NEW t \in Tabs, NEW m \in Slots, Edit(t, m)
  PROVE  NoAnswer' /\ TapsAreKept'
<1> DEFINE c == <<run[t], m>>
<1>1. /\ edits' = Append(edits, c) /\ local' = [local EXCEPT ![c] = Len(edits')]
      /\ dirty' = dirty \cup {c} /\ deleted' = deleted
  BY DEF Edit
<1>2. c \in Cells /\ local \in [Cells -> 0..MaxEdits] /\ edits \in Seq(Cells)
  BY DEF KeepInv, Inv, TypeOK, Edit, Cells
<1>3. NoAnswer'
  <2>1. \A k \in Calls : call'[k] = call[k] \/ call'[k] = Begin(t)
    BY DEF Edit, KeepInv, Inv, TypeOK
  <2> QED
    BY <2>1 DEF KeepInv, NoAnswer, Begin, Idle
<1> HIDE DEF c
<1>4. /\ Len(edits') = Len(edits) + 1 /\ edits'[Len(edits')] = c
      /\ \A n \in 1..Len(edits) : edits'[n] = edits[n] /\ edits[n] \in Cells
  BY <1>1, <1>2
<1>5. local'[c] = Len(edits') /\ \A d \in Cells : d # c => local'[d] = local[d]
  BY <1>1, <1>2
<1>6. TapsAreKept'
  <2> SUFFICES ASSUME NEW n \in 1..Len(edits'), n > deleted
               PROVE  local'[edits'[n]] >= n /\ edits'[n] \in dirty'
    BY <1>1 DEF TapsAreKept
  <2>1. CASE edits'[n] = c
    BY <1>1, <1>4, <1>5, <2>1
  <2>2. CASE edits'[n] # c
    <3>1. n \in 1..Len(edits)
      BY <1>2, <1>4, <2>2
    <3>2. local[edits[n]] >= n /\ edits[n] \in dirty
      BY <3>1 DEF KeepInv, TapsAreKept
    <3> QED
      BY <1>1, <1>4, <1>5, <2>2, <3>1, <3>2
  <2> QED
    BY <2>1, <2>2
<1> QED
  BY <1>3, <1>6

\* A call that is refused, lost or done changes no row.
LEMMA ProgressKeep ==
  ASSUME KeepInv, ~UuidIds, NEW k \in Calls, Progress(k)
  PROVE  NoAnswer' /\ TapsAreKept'
<1>1. ReadDirty(k) \/ Refuse(k) \/ LoseRequest(k)
  BY DEF Progress, Deliver, LoseReply, Receive, MarkRow, PutConflict, Finish,
         KeepInv, NoAnswer
<1>2. UNCHANGED <<local, dirty, history>>
  BY <1>1 DEF ReadDirty, Refuse, LoseRequest
<1>3. \A j \in Calls : call'[j].pc = call[j].pc \/ call'[j].pc \in {"idle", "sent"}
  <2>1. call \in [Calls -> CallState] /\ call[k] \in CallState /\ Idle.pc = "idle"
    BY DEF KeepInv, Inv, TypeOK, Idle
  <2>2. CASE call' = [call EXCEPT ![k] = Idle]
    BY <2>1, <2>2
  <2>3. CASE call' # [call EXCEPT ![k] = Idle]
    <3>1. call' = [call EXCEPT ![k].pc = "sent", ![k].snap = Restrict(local, dirty)]
      BY <1>1, <2>3 DEF ReadDirty, Refuse, LoseRequest, Fail
    <3> QED
      BY <2>1, <3>1 DEF CallState
  <2> QED
    BY <2>2, <2>3
<1> QED
  BY <1>2, <1>3 DEF KeepInv, NoAnswer, TapsAreKept

\* A page that is opened or left and a call that begins change no row; a
\* logout leaves no tap to keep.
LEMMA PageKeep ==
  ASSUME KeepInv, NEW t \in Tabs,
         \/ \E r \in Runs : OpenPage(t, r)
         \/ LeavePage(t) \/ CloseTab(t) \/ Logout(t)
         \/ \E k \in Calls : StartSync(t, k) \/ Refresh(t, k)
  PROVE  NoAnswer' /\ TapsAreKept'
<1>1. \A k \in Calls : call'[k].pc = call[k].pc \/ call'[k].pc \in {"idle", "read"}
  <2>1. Idle.pc = "idle" /\ Begin(t).pc = "read"
    BY DEF Begin, Idle
  <2>2. call \in [Calls -> CallState]
    BY DEF KeepInv, Inv, TypeOK
  <2>3. ASSUME NEW k \in Calls
        PROVE  call'[k] = call[k] \/ call'[k] = Idle \/ call'[k] = Begin(t)
    BY <2>2 DEF OpenPage, LeavePage, CloseTab, Logout, EndCalls, StartSync, Refresh
  <2> QED
    BY <2>1, <2>3
<1>2. CASE Logout(t)
  <2>1. edits' = edits /\ deleted' = Len(edits') /\ edits \in Seq(Cells)
    BY <1>2 DEF Logout, KeepInv, Inv, TypeOK
  <2>2. \A n \in 1..Len(edits') : ~(n > deleted')
    BY <2>1
  <2> QED
    BY <1>1, <2>2 DEF KeepInv, NoAnswer, TapsAreKept
<1>3. CASE ~Logout(t)
  <2>1. UNCHANGED <<local, dirty, history>>
    BY <1>3 DEF OpenPage, LeavePage, CloseTab, StartSync, Refresh
  <2> QED
    BY <1>1, <2>1 DEF KeepInv, NoAnswer, TapsAreKept
<1> QED
  BY <1>2, <1>3

\* Every step keeps what was tapped.
LEMMA StepKeep ==
  ASSUME KeepInv, ~UuidIds, [Next]_vars
  PROVE  KeepInv'
<1>1. CASE UNCHANGED vars
  BY <1>1, StutterInv DEF KeepInv, NoAnswer, TapsAreKept, vars
<1>2. CASE GoOnline \/ GoOffline \/ \E s \in late : DeliverLate(s)
  <2>1. UNCHANGED <<local, dirty, call, history>>
    BY <1>2 DEF GoOnline, GoOffline, DeliverLate
  <2>2. Inv'
    BY <1>2, NetworkInv, DeliverLateInv DEF KeepInv
  <2> QED
    BY <2>1, <2>2 DEF KeepInv, NoAnswer, TapsAreKept
<1>3. CASE Next
  BY <1>2, <1>3, StepInv, PageKeep, EditKeep, ProgressKeep DEF Next, KeepInv
<1> QED
  BY <1>1, <1>3

\* With the ids the page makes, no tap is dropped before a logout: however
\* calls overlap, fail or end with their tab, its row stays dirty in the
\* version of that tap or of a newer one.
THEOREM TapsStayToBeSent ==
  ASSUME ~UuidIds
  PROVE  Spec => []TapsAreKept
<1>1. KeepInv => TapsAreKept
  BY DEF KeepInv
<1> QED
  BY InitKeep, StepKeep, <1>1, PTL DEF Spec
=============================================================================
