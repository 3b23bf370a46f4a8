---------------------------- MODULE MCJobSeeding ----------------------------
(* A seed file of five records in batches of two; one reference repeats.   *)
EXTENDS JobSeeding

CONSTANTS x1, x2, x3, x4

MCRecords == <<x1, x2, x3, x2, x4>>
=============================================================================
