----------------------------- MODULE MCPlatform -----------------------------
(* A small instance of each component of Platform. *)
EXTENDS Platform, TLC

\* BE or EE for the first learner, EE for the second.
MCEntered == <<{0, 4}, {3}>>

Exam(area, type, term) == [area |-> area, type |-> type, term |-> term]
MCExams == {Exam("maths", "opener", 1), Exam("maths", "endterm", 2), Exam("music", "opener", 2)}
MCMaxima == {[e \in MCExams |-> 3], [e \in MCExams |-> IF e.area = "music" THEN 3 ELSE 7]}
MCSheets ==
  {<<a, b, c>> : a \in [MCExams -> {None, 0, 1, 2}], b \in [MCExams -> {None, 1}], c \in [MCExams -> {None, 2}]}

MCFirstRows == <<[items |-> [i \in {1, 2} |-> [id |-> i, text |-> 2]], gone |-> FALSE]>>

\* Every part treats its requests alike.
Symmetry == Permutations(Requests)
=============================================================================
