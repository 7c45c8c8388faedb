----------------------------- MODULE MCResumeLog -----------------------------
(* Instances of ResumeLog for TLC.                                          *)
EXTENDS ResumeLog

CONSTANTS c1, e1, f, g

=============================================================================
