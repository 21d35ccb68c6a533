------------------------------ MODULE Roadmap -------------------------------
(***************************************************************************)
(* Votes for one feature request (toggle_vote of api/app/routers/admin.py):*)
(* the feature_votes rows and the count kept beside them.  A toggle reads  *)
(* the count, then the user's vote, and commits both: the count is set to  *)
(* what was read and one more or less, whatever others did meanwhile.      *)
(***************************************************************************)
EXTENDS Integers, FiniteSets

CONSTANTS
  Requests,   \* requests at work at the same time
  Users,
  MaxToggles  \* bound: toggles

RoadmapAssumption == Users # {} /\ MaxToggles \in Nat

VARIABLES
  votes,     \* users who have a vote
  count,     \* vote_count
  toggle,    \* each request: where it is, for whom, what it read
  overlaps,  \* history: commits of requests that overlapped another one
  toggles    \* toggles begun

vars == <<votes, count, toggle, overlaps, toggles>>

Idle == [at |-> "idle", user |-> CHOOSE u \in Users : TRUE, count |-> 0, voted |-> FALSE, alone |-> TRUE]

Init ==
  /\ votes = {} /\ count = 0 /\ overlaps = 0 /\ toggles = 0
  /\ toggle = [r \in Requests |-> Idle]

Busy(r) == \E q \in Requests \ {r} : toggle[q] # Idle

\* The feature is read ...
ReadCount(r, u) ==
  /\ toggle[r] = Idle /\ toggles < MaxToggles
  /\ toggles' = toggles + 1
  /\ toggle' = [q \in Requests |->
       IF q = r THEN [at |-> "vote", user |-> u, count |-> count, voted |-> FALSE, alone |-> ~Busy(r)]
       ELSE IF toggle[q] = Idle THEN Idle ELSE [toggle[q] EXCEPT !.alone = FALSE]]
  /\ UNCHANGED <<votes, count, overlaps>>

\* ... then the user's vote.
ReadVote(r) ==
  /\ toggle[r].at = "vote"
  /\ toggle' = [toggle EXCEPT ![r].at = "commit", ![r].voted = toggle[r].user \in votes]
  /\ UNCHANGED <<votes, count, overlaps, toggles>>

\* Variant: taking a vote back leaves the count.
NewCount_keeps(t) == IF t.voted THEN t.count ELSE t.count + 1
NewCount(t) == IF t.voted THEN t.count - 1 ELSE t.count + 1

\* A second vote of one user is refused by the unique constraint; deleting a
\* vote that is gone already is not an error.
Commit(r) ==
  LET t == toggle[r] IN
  /\ t.at = "commit"
  /\ toggle' = [toggle EXCEPT ![r] = Idle]
  /\ IF ~t.voted /\ t.user \in votes
     THEN UNCHANGED <<votes, count, overlaps>>
     ELSE /\ votes' = IF t.voted THEN votes \ {t.user} ELSE votes \cup {t.user}
          /\ count' = NewCount(t)
          /\ overlaps' = IF t.alone THEN overlaps ELSE overlaps + 1
  /\ UNCHANGED toggles

Next == \E r \in Requests : ReadVote(r) \/ Commit(r) \/ \E u \in Users : ReadCount(r, u)

Spec == Init /\ [][Next]_vars

-----------------------------------------------------------------------------
TypeOK ==
  /\ votes \subseteq Users /\ count \in Int /\ overlaps \in Nat /\ toggles \in 0 .. MaxToggles
  /\ toggle \in [Requests -> [at : {"idle", "vote", "commit"}, user : Users, count : Int,
                              voted : BOOLEAN, alone : BOOLEAN]]

\* The count is the number of votes, give or take one for each toggle but the
\* first that was committed while another one was at work: it drifts, even
\* below zero, and no later toggle repairs it.
CountNearVotes ==
  LET drift == IF overlaps = 0 THEN 0 ELSE overlaps - 1 IN
  count - Cardinality(votes) \in -drift .. drift
=============================================================================
