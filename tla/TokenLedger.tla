---------------------------- MODULE TokenLedger ----------------------------
(***************************************************************************)
(* What the authentication service promises of refresh tokens, in one      *)
(* atomic step per operation: a token is granted to a user, presented by a *)
(* client while it is unspent, exchanged for a successor of the same user  *)
(* or withdrawn, and revoked.  Whoever has presented a token may exchange  *)
(* it, once; nobody presents a spent token (auth_service.py lines 14-15,   *)
(* specs/stories/E2-S1.md line 17).                                        *)
(***************************************************************************)
CONSTANTS Tokens, Users, Clients, None

VARIABLES
  owner,     \* the user a token was granted to, or None
  spent,     \* the tokens that were exchanged or revoked
  successor, \* the token a spent token was last exchanged for, or None
  presented  \* the token each client has presented, or None

ledger == <<owner, spent, successor, presented>>

Init ==
  /\ owner = [t \in Tokens |-> None]
  /\ spent = {}
  /\ successor = [t \in Tokens |-> None]
  /\ presented = [c \in Clients |-> None]

Grant(t, u) ==
  /\ owner[t] = None
  /\ owner' = [owner EXCEPT ![t] = u]
  /\ UNCHANGED <<spent, successor, presented>>

Present(c, t) ==
  /\ presented[c] = None
  /\ owner[t] # None /\ t \notin spent
  /\ presented' = [presented EXCEPT ![c] = t]
  /\ UNCHANGED <<owner, spent, successor>>

Withdraw(c) ==
  /\ presented' = [presented EXCEPT ![c] = None]
  /\ UNCHANGED <<owner, spent, successor>>

Exchange(c, n) ==
  LET t == presented[c] IN
  /\ t # None
  /\ owner[n] = None
  /\ owner' = [owner EXCEPT ![n] = owner[t]]
  /\ spent' = spent \cup {t}
  /\ successor' = [successor EXCEPT ![t] = n]
  /\ presented' = [presented EXCEPT ![c] = None]

Revoke(t) ==
  /\ owner[t] # None
  /\ spent' = spent \cup {t}
  /\ UNCHANGED <<owner, successor, presented>>

Next ==
  \/ \E t \in Tokens, u \in Users : Grant(t, u)
  \/ \E c \in Clients : (\E t \in Tokens : Present(c, t)) \/ Withdraw(c)
  \/ \E c \in Clients, n \in Tokens : Exchange(c, n)
  \/ \E t \in Tokens : Revoke(t)

Spec == Init /\ [][Next]_ledger
=============================================================================
