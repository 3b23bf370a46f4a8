--------------------------- MODULE MCAuthService ---------------------------
(* Values for the constants of AuthService, and the symmetries of the runs *)
(* that check no liveness.                                                 *)
EXTENDS AuthService, TLC

CONSTANTS alice, bob, pw, other, short

\* Two spellings of one address, and a second address.
MCAddresses == {"Alice@x", "alice@x", "bob@x"}
MCLower ==
  [a \in MCAddresses |-> IF a = "bob@x" THEN bob ELSE alice]

\* One spelling of one address.
MCOneAddress == {"alice@x"}
MCOneLower == [a \in MCOneAddress |-> alice]

WorkerAndTokenSymmetry == Permutations(Workers) \cup Permutations(Tokens)
=============================================================================
