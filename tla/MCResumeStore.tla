---------------------------- MODULE MCResumeStore ----------------------------
(* ResumeStore for small sets, which the configurations give.              *)
EXTENDS ResumeStore
=============================================================================
