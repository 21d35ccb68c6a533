----------------------------- MODULE ClientSync -----------------------------
(***************************************************************************)
(* Score entry in the browser (web/src/pages/ScoreEntryPage.tsx over the   *)
(* IndexedDB tables of web/src/lib/db.ts).                                 *)
(*                                                                         *)
(* Every tap writes the cell's row to IndexedDB, marks it dirty, and       *)
(* starts a syncScores call.  The call reads the dirty rows, posts them,   *)
(* and after the answer marks the rows it sent as clean, one by one.  All  *)
(* tabs share the rows, several calls run at once, and requests and        *)
(* answers get lost or late.                                               *)
(*                                                                         *)
(* The n-th tap of a history stands for the level it enters and for its    *)
(* time stamp: rows hold n.  The server does what schemas/run_score.py and *)
(* services/scores.py do.  The page names its rows <run>_<learner>_<item>, *)
(* which is no UUID, so the program is UuidIds = FALSE: every batch gets   *)
(* 422.  What happens past that refusal is modelled too (UuidIds = TRUE),  *)
(* on both databases (AwareTimestamps).                                    *)
(***************************************************************************)
EXTENDS Integers, Sequences, FiniteSets, Functions

CONSTANTS
  Tabs,           \* tabs of one browser that can show the score grid
  Calls,          \* bound: syncScores calls in flight at a time
  Runs,           \* run ids the page may work on, each by one mount of it
  OfflineRuns,    \* those made in the browser because POST /runs failed
  Slots,          \* (learner, item) pairs
  NoRun,          \* the tab does not show the page
  UuidIds,        \* the ids of the rows pass ScoreIn's "id: UUID"
  AwareTimestamps,  \* PostgreSQL: stored time stamps have a zone (Scores.tla)
  MaxEdits,       \* bound: taps
  MaxLosses,      \* bound: messages lost while online, server errors
  MaxLogouts      \* bound: logouts

Cells == Runs \X Slots
NoRow == 0

ASSUME ClientSyncAssumption ==
  /\ OfflineRuns \subseteq Runs /\ NoRun \notin Runs
  /\ UuidIds \in BOOLEAN /\ AwareTimestamps \in BOOLEAN
  /\ MaxEdits \in Nat /\ MaxLosses \in Nat /\ MaxLogouts \in Nat

VARIABLES
  local,   \* db.scores: the tap each row holds
  dirty,   \* rows with _dirty = 1
  run,     \* run of the page each tab shows
  used,    \* runs taken so far
  status,  \* syncStatus of the page each tab shows
  online,  \* navigator.onLine
  call,    \* the syncScores calls
  late,    \* requests given up by their callers, still on the way
  server,  \* what the server's table holds
  edits,   \* history: the cell of every tap
  deleted, \* history: the taps before the last logout
  logouts,
  losses

history == <<edits, deleted, logouts>>
vars == <<local, dirty, run, used, status, online, call, late, server, history, losses>>

Snapshots == UNION {[D -> 1..MaxEdits] : D \in SUBSET Cells}
Nothing == [c \in {} |-> NoRow]
Idle == [pc |-> "idle", tab |-> NoRun, run |-> NoRun,
         snap |-> Nothing, conf |-> Nothing, left |-> {}]
CallState == [pc : {"idle", "read", "sent", "answered", "mark"},
              tab : Tabs \cup {NoRun}, run : Runs \cup {NoRun},
              snap : Snapshots, conf : Snapshots, left : SUBSET Cells]

Init ==
  /\ local = [c \in Cells |-> NoRow]
  /\ dirty = {}
  /\ run = [t \in Tabs |-> NoRun]
  /\ used = {}
  /\ status = [t \in Tabs |-> "synced"]
  /\ online \in BOOLEAN
  /\ call = [k \in Calls |-> Idle]
  /\ late = {}
  /\ server = [c \in Cells |-> NoRow]
  /\ edits = <<>>
  /\ deleted = 0 /\ logouts = 0
  /\ losses = 0

\* setSyncStatus of a call: it reaches the page if that is still shown.
SetStatus(k, s) ==
  status' = [t \in Tabs |-> IF t = call[k].tab /\ run[t] = call[k].run THEN s ELSE status[t]]

Begin(t) == [Idle EXCEPT !.pc = "read", !.tab = t, !.run = run[t]]

\* Variants: the page is left as it is; it shows a status of its own.
Fail_stuck(k) ==
  /\ call' = [call EXCEPT ![k] = Idle]
  /\ UNCHANGED status

Fail_shown(k) ==
  /\ call' = [call EXCEPT ![k] = Idle]
  /\ SetStatus(k, "failed")

\* The catch block of syncScores.
Fail(k) ==
  /\ call' = [call EXCEPT ![k] = Idle]
  /\ SetStatus(k, "pending")

\* A fetch may fail when offline; when not, it spends one of MaxLosses.
Loss ==
  IF online THEN losses < MaxLosses /\ losses' = losses + 1
  ELSE UNCHANGED losses

-----------------------------------------------------------------------------
(* The page.                                                               *)

\* initRun: a run of the server, or one of its own if the request fails.
OpenPage(t, r) ==
  /\ run[t] = NoRun /\ r \notin used
  /\ online \/ r \in OfflineRuns
  /\ run' = [run EXCEPT ![t] = r]
  /\ used' = used \cup {r}
  /\ status' = [status EXCEPT ![t] = "synced"]
  /\ UNCHANGED <<local, dirty, online, call, late, server, history, losses>>

\* In-app navigation: calls under way go on.
LeavePage(t) ==
  /\ run[t] # NoRun
  /\ run' = [run EXCEPT ![t] = NoRun]
  /\ UNCHANGED <<local, dirty, used, status, online, call, late, server, history, losses>>

\* The calls of a tab end where they are; what they have sent stays sent.
EndCalls(t) ==
  /\ call' = [k \in Calls |-> IF call[k].tab = t THEN Idle ELSE call[k]]
  /\ late' = late \cup {call[k].snap : k \in {j \in Calls : call[j].tab = t /\ call[j].pc = "sent"}}

\* The tab is closed or reloaded.
CloseTab(t) ==
  /\ run[t] # NoRun
  /\ run' = [run EXCEPT ![t] = NoRun]
  /\ EndCalls(t)
  /\ UNCHANGED <<local, dirty, used, status, online, server, history, losses>>

\* handleScoreChange: put the row, then sync.  Whether its stale syncScores
\* returns at once or not, exactly one call starts: if it does, the effect
\* on [isOnline, syncStatus] sees "pending" and starts one.
Edit(t, m) ==
  LET c == <<run[t], m>> IN
  /\ run[t] # NoRun /\ Len(edits) < MaxEdits
  /\ edits' = Append(edits, c)
  /\ local' = [local EXCEPT ![c] = Len(edits')]
  /\ dirty' = dirty \cup {c}
  /\ status' = [status EXCEPT ![t] = IF online THEN "syncing" ELSE "pending"]
  /\ IF online
     THEN \E k \in Calls : call[k] = Idle /\ call' = [call EXCEPT ![k] = Begin(t)]
     ELSE UNCHANGED call
  /\ UNCHANGED <<run, used, online, late, server, deleted, logouts, losses>>

\* logout of auth-store.ts: db.delete() takes the rows of every run.  The
\* page of this tab is gone and its calls end, for Dexie keeps a database
\* that a tab has deleted closed in that tab until it is loaded anew.
Logout(t) ==
  /\ logouts < MaxLogouts
  /\ local' = [c \in Cells |-> NoRow]
  /\ dirty' = {}
  /\ run' = [run EXCEPT ![t] = NoRun]
  /\ EndCalls(t)
  /\ deleted' = Len(edits)
  /\ logouts' = logouts + 1
  /\ UNCHANGED <<used, status, online, server, edits, losses>>

\* The effect on [isOnline, syncStatus] and the 15 s interval.
StartSync(t, k) ==
  /\ run[t] # NoRun /\ online
  /\ status[t] = "pending" \/ (status[t] = "synced" /\ dirty # {})
  /\ call[k] = Idle
  /\ call' = [call EXCEPT ![k] = Begin(t)]
  /\ status' = [status EXCEPT ![t] = "syncing"]
  /\ UNCHANGED <<local, dirty, run, used, online, late, server, history, losses>>

\* The button that "pending" shows: it does not look at isOnline.
Refresh(t, k) ==
  /\ run[t] # NoRun /\ status[t] = "pending"
  /\ call[k] = Idle
  /\ call' = [call EXCEPT ![k] = Begin(t)]
  /\ status' = [status EXCEPT ![t] = "syncing"]
  /\ UNCHANGED <<local, dirty, run, used, online, late, server, history, losses>>

\* Variant: rows are marked clean when they are sent.
ReadDirty_optimistic(k) ==
  /\ call[k].pc = "read"
  /\ call' = [call EXCEPT ![k].pc = "sent", ![k].snap = Restrict(local, dirty)]
  /\ dirty' = {}
  /\ UNCHANGED <<local, run, used, status, online, late, server, history, losses>>

\* Rows of every run are read, not only of the page's own.
ReadDirty(k) ==
  /\ call[k].pc = "read"
  /\ IF dirty = {}
     THEN call' = [call EXCEPT ![k] = Idle] /\ SetStatus(k, "synced")
     ELSE /\ call' = [call EXCEPT ![k].pc = "sent", ![k].snap = Restrict(local, dirty)]
          /\ UNCHANGED status
  /\ UNCHANGED <<local, dirty, run, used, online, late, server, history, losses>>

-----------------------------------------------------------------------------
(* The network and the server.                                             *)

Known(c) == c[1] \notin OfflineRuns

\* upsert_scores strips the zone of the row's time stamp.  To compare that
\* with an aware one raises, and the row is listed under "rejected".
Comparable(c) == server[c] = NoRow \/ ~AwareTimestamps

\* The newer entry stays, a tie is accepted.
Stored(snap) ==
  [c \in Cells |-> IF c \in DOMAIN snap /\ Known(c) /\ Comparable(c) /\ snap[c] >= server[c]
                   THEN snap[c] ELSE server[c]]

\* conflicted_rows of the answer: the server's newer rows.  "rejected" holds
\* the rows of unknown runs and those that raised; the page only counts them.
Conflicts(snap) ==
  LET D == {c \in DOMAIN snap : Known(c) /\ Comparable(c) /\ server[c] > snap[c]}
  IN  Restrict(server, D)

Deliver(k) ==
  /\ call[k].pc = "sent" /\ online /\ UuidIds
  /\ server' = Stored(call[k].snap)
  /\ call' = [call EXCEPT ![k].pc = "answered", ![k].conf = Conflicts(call[k].snap),
                          ![k].left = DOMAIN call[k].snap]
  /\ UNCHANGED <<local, dirty, run, used, status, online, late, history, losses>>

\* 422 for the whole batch when an id is no UUID; else an error of the
\* server's own.
Refuse(k) ==
  /\ call[k].pc = "sent" /\ online
  /\ IF UuidIds THEN Loss ELSE UNCHANGED losses
  /\ Fail(k)
  /\ UNCHANGED <<local, dirty, run, used, online, late, server, history>>

LoseRequest(k) ==
  /\ call[k].pc = "sent" /\ Loss
  /\ late' = late \cup {call[k].snap}
  /\ Fail(k)
  /\ UNCHANGED <<local, dirty, run, used, online, server, history>>

LoseReply(k) ==
  /\ call[k].pc = "answered" /\ Loss
  /\ Fail(k)
  /\ UNCHANGED <<local, dirty, run, used, online, late, server, history>>

\* A request whose caller is gone reaches the server after all.
DeliverLate(snap) ==
  /\ snap \in late
  /\ server' = IF UuidIds THEN Stored(snap) ELSE server
  /\ late' = late \ {snap}
  /\ UNCHANGED <<local, dirty, run, used, status, online, call, history, losses>>

GoOnline ==
  /\ ~online /\ online' = TRUE
  /\ UNCHANGED <<local, dirty, run, used, status, call, late, server, history, losses>>

GoOffline ==
  /\ online /\ online' = FALSE
  /\ UNCHANGED <<local, dirty, run, used, status, call, late, server, history, losses>>

-----------------------------------------------------------------------------
(* The answer: syncScores after its await.                                 *)

Receive(k) ==
  /\ call[k].pc = "answered"
  /\ call' = [call EXCEPT ![k].pc = "mark"]
  /\ UNCHANGED <<local, dirty, run, used, status, online, late, server, history, losses>>

\* db.scores.update(s.id, { _dirty: 0 }), whatever the row holds by now.
MarkRow(k) ==
  /\ call[k].pc = "mark"
  /\ \E c \in call[k].left :
       /\ dirty' = dirty \ {c}
       /\ call' = [call EXCEPT ![k].left = @ \ {c}]
  /\ UNCHANGED <<local, run, used, status, online, late, server, history, losses>>

\* Variant: the row it puts is dirty.
PutConflict_dirty(k) ==
  /\ call[k].pc = "mark" /\ call[k].left = {}
  /\ \E c \in DOMAIN call[k].conf :
       LET d == <<call[k].run, c[2]>> IN
       /\ local' = [local EXCEPT ![d] = call[k].conf[c]]
       /\ dirty' = dirty \cup {d}
       /\ call' = [call EXCEPT ![k].conf = Restrict(@, DOMAIN @ \ {c})]
  /\ UNCHANGED <<run, used, status, online, late, server, history, losses>>

\* db.scores.put of a conflicted row, under the page's run id.
PutConflict(k) ==
  /\ call[k].pc = "mark" /\ call[k].left = {}
  /\ \E c \in DOMAIN call[k].conf :
       LET d == <<call[k].run, c[2]>> IN
       /\ local' = [local EXCEPT ![d] = call[k].conf[c]]
       /\ dirty' = dirty \ {d}
       /\ call' = [call EXCEPT ![k].conf = Restrict(@, DOMAIN @ \ {c})]
  /\ UNCHANGED <<run, used, status, online, late, server, history, losses>>

Finish(k) ==
  /\ call[k].pc = "mark" /\ call[k].left = {} /\ DOMAIN call[k].conf = {}
  /\ call' = [call EXCEPT ![k] = Idle]
  /\ SetStatus(k, "synced")
  /\ UNCHANGED <<local, dirty, run, used, online, late, server, history, losses>>

-----------------------------------------------------------------------------

Progress(k) ==
  \/ ReadDirty(k)
  \/ Deliver(k)
  \/ Refuse(k)
  \/ LoseRequest(k)
  \/ LoseReply(k)
  \/ Receive(k)
  \/ MarkRow(k)
  \/ PutConflict(k)
  \/ Finish(k)

Next ==
  \/ \E t \in Tabs :
       \/ \E r \in Runs : OpenPage(t, r)
       \/ LeavePage(t)
       \/ CloseTab(t)
       \/ \E m \in Slots : Edit(t, m)
       \/ Logout(t)
       \/ \E k \in Calls : StartSync(t, k) \/ Refresh(t, k)
  \/ \E k \in Calls : Progress(k)
  \/ \E snap \in late : DeliverLate(snap)
  \/ GoOnline
  \/ GoOffline

Spec == Init /\ [][Next]_vars

\* Effects and timers of an open page run, promises are resumed, and every
\* fetch ends, with an answer or without.  Nobody has to open a page, to tap,
\* to refresh, to log out or to be online; a late request may never arrive.
Fairness ==
  /\ \A t \in Tabs : WF_vars(\E k \in Calls : StartSync(t, k))
  /\ \A k \in Calls : WF_vars(Progress(k))
FairSpec == Spec /\ Fairness

-----------------------------------------------------------------------------
(* Properties.                                                             *)

\* Every variable has its type.
TypeOK ==
  /\ local \in [Cells -> 0..MaxEdits]
  /\ dirty \subseteq Cells
  /\ run \in [Tabs -> Runs \cup {NoRun}]
  /\ used \subseteq Runs
  /\ status \in [Tabs -> {"synced", "pending", "syncing"}]
  /\ online \in BOOLEAN
  /\ call \in [Calls -> CallState]
  /\ late \subseteq Snapshots
  /\ server \in [Cells -> 0..MaxEdits]
  /\ edits \in Seq(Cells)
  /\ deleted \in 0..Len(edits) /\ logouts \in 0..MaxLogouts
  /\ losses \in 0..MaxLosses

\* No tap is dropped on the way to a server that accepts none: through calls
\* that overlap, fail or end with their tab, its row holds the tap or a newer
\* one of the same cell and stays dirty, until somebody logs out.
TapsAreKept ==
  \A n \in 1..Len(edits) : n > deleted => local[edits[n]] >= n /\ edits[n] \in dirty

\* A level the server holds for a cell was tapped for this cell, in this run.
ServerHoldsOwnTaps == \A c \in Cells : server[c] # NoRow => edits[server[c]] = c

Connected == <>[](online /\ \E t \in Tabs : run[t] # NoRun)

\* The n-th tap, or a newer one of its cell, is on its way in a request.
Sending(n) ==
  \E k \in Calls : /\ online /\ call[k].pc = "sent" /\ edits[n] \in DOMAIN call[k].snap
                   /\ call[k].snap[edits[n]] >= n

\* With a page open and a network, a tap that the server refuses is sent
\* again and again until somebody logs out: however calls fail and overlap,
\* the page does not end up "syncing" for ever, nor "synced" or "pending"
\* with rows that it no longer sends.
TapsAreSent ==
  Connected => \A n \in 1..MaxEdits :
    Len(edits) >= n ~> Len(edits) >= n /\ (deleted >= n \/ Sending(n))

\* With a page open and a network, every tap reaches the server, unless a
\* newer one of the same cell does.
EditsReachServer ==
  Connected => \A c \in Cells : \A n \in 1..MaxEdits :
    (Len(edits) >= n /\ edits[n] = c) ~> server[c] >= n
=============================================================================
