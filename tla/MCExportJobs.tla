---------------------------- MODULE MCExportJobs ----------------------------
(* Small instances of ExportJobs for TLC.                                  *)
EXTENDS ExportJobs, TLC

CONSTANTS s1, s2, x1, x2, q1, q2, q3, w1, w2

\* The two assessment exports have the same payload fields.
MCFamily == [t \in Types |-> IF t \in {"assessment_pdf", "assessment_docx"}
                             THEN "assessment" ELSE t]
MCOwner == [x \in Subjects |-> IF x = x2 THEN s2 ELSE s1]

=============================================================================
