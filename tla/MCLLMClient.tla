---------------------------- MODULE MCLLMClient ----------------------------
(* LLMClient for two calls; the configurations give the sets and bounds.   *)
EXTENDS LLMClient
=============================================================================
