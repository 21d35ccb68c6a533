------------------------------ MODULE LwwTable ------------------------------
(***************************************************************************)
(* What score entry promises: a last-write-wins register per cell          *)
(* (docs/04-functional-spec.md section 4.3, api/app/services/scores.py).   *)
(* Clients are told that entries were stored; at every moment a cell holds *)
(* the level of the newest entry acknowledged for it.                      *)
(***************************************************************************)
EXTENDS Integers

CONSTANTS Cells, Levels, Times, Nothing

VARIABLES
  reg,    \* what each cell holds
  acked   \* the entries whose senders were told they were stored

Stamp == [level : Levels, ts : Times]

Newest(S) == {e \in S : \A f \in S : f.ts <= e.ts}

\* What a cell may show when the entries S are acknowledged; several levels
\* only if different entries carry the newest time stamp.
Shown(S) == IF S = {} THEN {Nothing} ELSE {e.level : e \in Newest(S)}

Init ==
  /\ acked = [c \in Cells |-> {}]
  /\ reg = [c \in Cells |-> Nothing]

\* One batch is acknowledged: entries of any number of cells at once.
Acknowledge ==
  /\ \A c \in Cells : acked[c] \subseteq acked'[c] /\ acked'[c] \subseteq Stamp
  /\ DOMAIN acked' = Cells
  /\ DOMAIN reg' = Cells
  /\ \A c \in Cells : reg'[c] \in Shown(acked'[c])

Spec == Init /\ [][Acknowledge]_<<reg, acked>>
=============================================================================
