------------------------------ MODULE MCScores ------------------------------
(* Small instances of Scores for TLC.                                      *)
EXTENDS Scores, TLC

CONSTANTS s1, s2, r1, r2, m1, m2, m3

MCRunSchool == [r \in Runs |-> IF r = r2 THEN s2 ELSE s1]

\* Every entry for the first cell, two levels under one time stamp included,
\* alone or before or after an entry for the other school's run.
MCAnyBatches ==
  LET E == {e \in Entry : e.cell = <<r1, m1>>}
      other == [cell |-> <<r2, m1>>, level |-> 1, ts |-> 2]
  IN  {<<e>> : e \in E} \cup {<<e, other>> : e \in E} \cup {<<other, e>> : e \in E}

\* For the concurrent run: two stamps race for one cell, a second cell gives
\* transactions something to wait for in the other order, and a learner that
\* does not exist and a run of another school join in.
Sent(r, m, t) == [cell |-> <<r, m>>, level |-> 1 + (t % 2), ts |-> t]
MCRacingBatches ==
  LET older == Sent(r1, m1, 1)
      newer == Sent(r1, m1, 2)
      other == Sent(r1, m2, 2)
  IN  {<<older>>, <<newer>>,
       <<older, other>>, <<other, older>>, <<newer, other>>, <<other, newer>>,
       <<older, Sent(r1, m3, 2)>>, <<Sent(r2, m1, 2), newer>>}
=============================================================================
