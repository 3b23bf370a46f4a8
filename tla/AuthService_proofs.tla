------------------------ MODULE AuthService_proofs ------------------------
(***************************************************************************)
(* Safety of AuthService for every set of workers, tokens, addresses and   *)
(* passwords, every lifetime and every bound of the clock.                 *)
(*                                                                         *)
(* RotationConsistent is not inductive: what a commit writes was decided   *)
(* in earlier steps and sits in the session.  IInv adds what an open       *)
(* transaction may rely on (SessionInv), that open transactions cannot    *)
(* collide on a token or an email (InsertsDistinct), and what the table    *)
(* alone satisfies (TableInv).                                             *)
(***************************************************************************)
EXTENDS AuthService, FiniteSetTheorems, TLAPS

USE ConstantsAssumption, NoRowAssumption

Has(s, op, steps) == s.op = op /\ s.step \in steps

\* What the open transaction s knows is still true when it commits.
SessionInv(s) ==
  /\ s.step = "issue_tokens" => s.op \in {"login", "refresh"} /\ s.new = None
  /\ s.step = "insert_user" => s.op = "register"
  /\ s.step = "commit" => s.op # "none"
  /\ s.op = "none" => s.step = "idle"
  /\ Has(s, "register", {"insert_user", "commit"}) =>
       /\ s.email \in Emails /\ s.password \in Passwords
       /\ s.new = None /\ s.presented = None
  /\ Has(s, "register", {"commit"}) => users[s.email] = NoRow
  /\ Has(s, "login", {"issue_tokens", "commit"}) =>
       s.email \in Emails /\ users[s.email] # NoRow /\ s.presented = None
  /\ Has(s, "refresh", {"issue_tokens", "commit"}) =>
       s.presented \in Tokens /\ Committed(s.presented)
  /\ Has(s, "refresh", {"commit"}) =>
       /\ s.email = refresh_tokens[s.presented].user
       /\ refresh_tokens[s.presented].expires_at <= s.expires_at
  /\ Has(s, "revoke", {"commit"}) =>
       s.new = None /\ (s.presented # None => Committed(s.presented))
  /\ s.step = "commit" /\ s.op \in {"login", "refresh"} =>
       /\ s.new \in generated /\ ~Committed(s.new)
       /\ s.expires_at <= now + Ttl
  /\ s.step # "commit" => s.new = None

InsertsDistinct ==
  \A v, w \in Workers : v # w =>
    /\ session[v].new # None => session[v].new # session[w].new
    /\ Has(session[v], "register", {"commit"}) /\ Has(session[w], "register", {"commit"})
         => session[v].email # session[w].email

TableInv ==
  \A t \in Tokens :
    /\ Committed(t) => t \in generated /\ refresh_tokens[t].expires_at <= now + Ttl
    /\ ~Committed(t) => parent[t] = None

IInv ==
  /\ TypeOK
  /\ \A w \in Workers : SessionInv(session[w])
  /\ InsertsDistinct
  /\ TableInv
  /\ RotationConsistent
  /\ DeliveredArePersisted

-----------------------------------------------------------------------------
(* Every variable keeps its type (AuthService.TypeOK).                     *)

LEMMA ClosedType == Closed \in Session
  BY DEF Closed, Session, Steps, Operations, Errors

LEMMA RaiseType ==
  ASSUME TypeOK, NEW w \in Workers, NEW op \in Operations, NEW error \in Errors,
         Raise(w, op, error)
  PROVE  session' \in [Workers -> Session]
<1> DEFINE r == [Closed EXCEPT !.step = "raised", !.op = op, !.error = error]
<1>2. r \in Session
  BY ClosedType DEF Session, Steps
<1> QED
  BY <1>2 DEF TypeOK, Raise

LEMMA CommitType ==
  ASSUME TypeOK, NEW w \in Workers, NEW answered \in BOOLEAN,
         IInv, Commit(w, answered)
  PROVE  TypeOK'
<1> DEFINE s == session[w]
<1>1. s \in Session /\ SessionInv(s)
  BY DEF TypeOK, IInv
<1>2. users' \in [Emails -> UserRow \cup {NoRow}]
  BY <1>1 DEF TypeOK, Commit, WriteUser, SessionInv, Has, UserRow, HashPassword
<1>3. refresh_tokens' \in [Tokens -> RefreshTokenRow \cup {NoRow}]
  <2> SUFFICES ASSUME NEW t \in Tokens
               PROVE  WriteToken(s, t, refresh_tokens[t]) \in RefreshTokenRow \cup {NoRow}
    BY DEF Commit
  <2>1. CASE t = s.new
    <3>1. s.op \in {"login", "refresh"} /\ s.email \in Emails
      BY <1>1, <2>1 DEF Commit, SessionInv, Has, TypeOK, Session, Operations,
         Committed, RefreshTokenRow
    <3> QED
      BY <1>1, <2>1, <3>1 DEF WriteToken, NewRow, RefreshTokenRow, Session
  <2>2. CASE t # s.new /\ t = s.presented
    <3>1. refresh_tokens[t] \in RefreshTokenRow
      BY <1>1, <2>2 DEF Commit, SessionInv, Has, TypeOK, Committed, Session, Operations
    <3> QED
      BY <1>1, <2>2, <3>1 DEF WriteToken, RefreshTokenRow, Session
  <2>3. CASE t # s.new /\ t # s.presented
    BY <2>3 DEF WriteToken, TypeOK
  <2> QED
    BY <2>1, <2>2, <2>3
<1>4. parent' \in [Tokens -> Tokens \cup {None}]
  BY <1>1 DEF TypeOK, Commit, Session
<1>5. session' \in [Workers -> Session]
  BY ClosedType DEF TypeOK, Commit, Close
<1>6. delivered' \subseteq Tokens
  BY <1>1 DEF TypeOK, Commit, Session
<1> QED
  BY <1>2, <1>3, <1>4, <1>5, <1>6 DEF TypeOK, Commit

-----------------------------------------------------------------------------
(* Steps that commit nothing leave the tables as they are, and the facts   *)
(* that the sessions of the other workers rely on.                         *)
LEMMA Frame ==
  ASSUME IInv, UNCHANGED <<database, delivered>>,
         generated \subseteq generated', now' \in 0 .. MaxTime, now <= now'
  PROVE  /\ TableInv' /\ RotationConsistent' /\ DeliveredArePersisted'
         /\ \A v \in Workers : session'[v] = session[v] => SessionInv(session[v])'
<1>1. TableInv'
  <2> SUFFICES ASSUME NEW t \in Tokens
               PROVE  /\ Committed(t)' =>
                           /\ t \in generated'
                           /\ refresh_tokens'[t].expires_at <= now' + Ttl
                      /\ ~Committed(t)' => parent'[t] = None
    BY DEF TableInv
  <2>1. Committed(t) => refresh_tokens[t].expires_at \in 0 .. MaxTime + Ttl
    BY DEF IInv, TypeOK, Committed, RefreshTokenRow
  <2> QED
    BY <2>1 DEF IInv, TypeOK, TableInv, Committed, database
<1>2. RotationConsistent' /\ DeliveredArePersisted'
  BY DEF IInv, RotationConsistent, DeliveredArePersisted, Committed, database
<1>3. ASSUME NEW v \in Workers, session'[v] = session[v]
      PROVE  SessionInv(session[v])'
  <2>1. SessionInv(session[v]) /\ session[v].expires_at \in 0 .. MaxTime + Ttl
    BY DEF IInv, TypeOK, Session
  <2>2. \A s : (s = session[v])' => SessionInv(session[v])'
    BY <1>3, <2>1 DEF IInv, TypeOK, SessionInv, Has, Committed, database
  <2> QED
    BY <2>2
<1> QED
  BY <1>1, <1>2, <1>3

(* A session that holds no inserted row collides with no other.            *)
LEMMA NoCollision ==
  ASSUME InsertsDistinct, NEW w \in Workers,
         \A v \in Workers \ {w} : session'[v] = session[v],
         session'[w].new = None,
         ~Has(session'[w], "register", {"commit"})
  PROVE  InsertsDistinct'
  BY DEF InsertsDistinct, Has

(* An exception leaves a session that the invariant asks nothing of.       *)
LEMMA RaiseInv ==
  ASSUME IInv, NEW w \in Workers,
         NEW op \in Operations \ {"none"}, NEW error \in Errors,
         Raise(w, op, error), UNCHANGED <<database, generated, delivered, now>>
  PROVE  IInv'
<1>1. TypeOK'
  BY RaiseType DEF IInv, TypeOK, database
<1>2. /\ \A v \in Workers \ {w} : session'[v] = session[v]
      /\ session'[w].step = "raised" /\ session'[w].op = op
      /\ session'[w].new = None
  BY DEF IInv, TypeOK, Raise, Closed
<1>3. SessionInv(session[w])'
  BY <1>2 DEF SessionInv, Has
<1>4. InsertsDistinct'
  BY <1>2, NoCollision DEF IInv, Has
<1> QED
  BY <1>1, <1>2, <1>3, <1>4, Frame DEF IInv, TypeOK

LEMMA CloseInv ==
  ASSUME IInv, NEW w \in Workers,
         Close(w), UNCHANGED <<database, generated, delivered, now>>
  PROVE  IInv'
<1>1. TypeOK'
  BY ClosedType DEF IInv, TypeOK, database, Close
<1>2. /\ \A v \in Workers \ {w} : session'[v] = session[v]
      /\ session'[w].step = "idle" /\ session'[w].op = "none"
      /\ session'[w].new = None
  BY DEF IInv, TypeOK, Close, Closed
<1>3. SessionInv(session[w])'
  BY <1>2 DEF SessionInv, Has
<1>4. InsertsDistinct'
  BY <1>2, NoCollision DEF IInv, Has
<1> QED
  BY <1>1, <1>2, <1>3, <1>4, Frame DEF IInv, TypeOK

-----------------------------------------------------------------------------
(* One lemma per action.                                                   *)

LEMMA RegisterInv ==
  ASSUME IInv, NEW w \in Workers, NEW a \in Addresses, NEW p \in Passwords,
         Register(w, a, p)
  PROVE  IInv'
<1> DEFINE x == [Closed EXCEPT !.step = "insert_user", !.op = "register",
                               !.email = Lower[a], !.password = p]
<1>1. CASE Raise(w, "register", "PasswordTooShortError")
  BY <1>1, RaiseInv DEF Register, Operations, Errors
<1>2. CASE session' = [session EXCEPT ![w] = x]
  <2>1. x \in Session
    BY ClosedType DEF Session, Steps, Operations
  <2>2. TypeOK'
    BY <1>2, <2>1 DEF IInv, TypeOK, Register, database
  <2>3. /\ x.step = "insert_user" /\ x.op = "register"
        /\ x.email \in Emails /\ x.password \in Passwords
        /\ x.new = None /\ x.presented = None
    BY DEF Closed
  <2>4. session'[w] = x /\ \A v \in Workers \ {w} : session'[v] = session[v]
    BY <1>2 DEF IInv, TypeOK
  <2>5. SessionInv(session[w])'
    BY <2>3, <2>4 DEF SessionInv, Has
  <2>6. InsertsDistinct'
    BY <2>3, <2>4, NoCollision DEF IInv, Has
  <2> QED
    BY <2>2, <2>4, <2>5, <2>6, Frame DEF IInv, TypeOK, Register
<1> QED
  BY <1>1, <1>2 DEF Register

LEMMA InsertUserInv ==
  ASSUME IInv, NEW w \in Workers, InsertUser(w)
  PROVE  IInv'
<1>0. session[w].step = "insert_user" /\ SessionInv(session[w])
  BY DEF InsertUser, IInv
<1>1. CASE Raise(w, "register", "DuplicateEmailError")
  BY <1>1, RaiseInv DEF InsertUser, Operations, Errors
<1>2. CASE /\ users[session[w].email] = NoRow
           /\ session' = [session EXCEPT ![w].step = "commit"]
  <2>1. TypeOK'
    BY <1>2 DEF IInv, TypeOK, InsertUser, database, Session, Steps
  <2>2. /\ session'[w].step = "commit" /\ session'[w].op = session[w].op
        /\ session'[w].email = session[w].email
        /\ session'[w].password = session[w].password
        /\ session'[w].new = session[w].new
        /\ session'[w].presented = session[w].presented
        /\ \A v \in Workers \ {w} : session'[v] = session[v]
    BY <1>2 DEF IInv, TypeOK, Session
  <2>3. session[w].op = "register" /\ session[w].new = None
    BY <1>0 DEF SessionInv, Has
  <2>4. SessionInv(session[w])'
    BY <1>0, <1>2, <2>2, <2>3 DEF SessionInv, Has, InsertUser, database
  <2>5. \A v \in Workers \ {w} :
          Has(session[v], "register", {"commit"}) => session[v].email # session[w].email
    BY DEF InsertUser, Inserting, Has
  <2>6. InsertsDistinct'
    BY <2>2, <2>3, <2>5 DEF IInv, InsertsDistinct, Has
  <2> QED
    BY <2>1, <2>2, <2>4, <2>6, Frame DEF IInv, TypeOK, InsertUser
<1> QED
  BY <1>1, <1>2 DEF InsertUser

LEMMA LoginInv ==
  ASSUME IInv, NEW w \in Workers, NEW a \in Addresses, NEW p \in Passwords,
         Login(w, a, p)
  PROVE  IInv'
<1> DEFINE x == [Closed EXCEPT !.step = "issue_tokens", !.op = "login",
                               !.email = Lower[a], !.password = p]
<1>1. CASE Raise(w, "login", "AuthError")
  BY <1>1, RaiseInv DEF Login, Operations, Errors
<1>2. CASE PasswordMatches(Lower[a], p) /\ session' = [session EXCEPT ![w] = x]
  <2>1. x \in Session
    BY ClosedType DEF Session, Steps, Operations
  <2>2. TypeOK'
    BY <1>2, <2>1 DEF IInv, TypeOK, Login, database
  <2>3. /\ x.step = "issue_tokens" /\ x.op = "login" /\ x.email = Lower[a]
        /\ x.email \in Emails /\ x.new = None /\ x.presented = None
    BY DEF Closed
  <2>4. session'[w] = x /\ \A v \in Workers \ {w} : session'[v] = session[v]
    BY <1>2 DEF IInv, TypeOK
  <2>5. SessionInv(session[w])'
    BY <1>2, <2>3, <2>4 DEF SessionInv, Has, Login, PasswordMatches, database
  <2>6. InsertsDistinct'
    BY <2>3, <2>4, NoCollision DEF IInv, Has
  <2> QED
    BY <2>2, <2>4, <2>5, <2>6, Frame DEF IInv, TypeOK, Login
<1> QED
  BY <1>1, <1>2 DEF Login

LEMMA RefreshInv ==
  ASSUME IInv, NEW w \in Workers, NEW t \in Tokens \cup {None}, Refresh(w, t)
  PROVE  IInv'
<1> DEFINE x == [Closed EXCEPT !.step = "issue_tokens", !.op = "refresh",
                               !.presented = t]
<1>1. CASE Raise(w, "refresh", "AuthError")
  BY <1>1, RaiseInv DEF Refresh, Operations, Errors
<1>2. CASE t # None /\ Valid(t) /\ session' = [session EXCEPT ![w] = x]
  <2>1. x \in Session
    BY ClosedType DEF Session, Steps, Operations
  <2>2. TypeOK'
    BY <1>2, <2>1 DEF IInv, TypeOK, Refresh, database
  <2>3. /\ x.step = "issue_tokens" /\ x.op = "refresh"
        /\ x.new = None /\ x.presented = t
    BY DEF Closed
  <2>4. session'[w] = x /\ \A v \in Workers \ {w} : session'[v] = session[v]
    BY <1>2 DEF IInv, TypeOK
  <2>5. SessionInv(session[w])'
    BY <1>2, <2>3, <2>4 DEF SessionInv, Has, Refresh, Valid, Committed, database
  <2>6. InsertsDistinct'
    BY <2>3, <2>4, NoCollision DEF IInv, Has
  <2> QED
    BY <2>2, <2>4, <2>5, <2>6, Frame DEF IInv, TypeOK, Refresh
<1> QED
  BY <1>1, <1>2 DEF Refresh

LEMMA RevokeInv ==
  ASSUME IInv, NEW w \in Workers, NEW t \in Tokens \cup {None}, Revoke(w, t)
  PROVE  IInv'
<1> DEFINE u == IF t # None /\ Committed(t) THEN t ELSE None
           x == [Closed EXCEPT !.step = "commit", !.op = "revoke", !.presented = u]
<1>1. x \in Session
  BY ClosedType DEF Session, Steps, Operations
<1>2. TypeOK'
  BY <1>1 DEF IInv, TypeOK, Revoke, database
<1>3. /\ x.step = "commit" /\ x.op = "revoke" /\ x.new = None
      /\ x.presented # None => Committed(x.presented)
  BY DEF Closed
<1>4. session'[w] = x /\ \A v \in Workers \ {w} : session'[v] = session[v]
  BY DEF IInv, TypeOK, Revoke
<1>5. SessionInv(session[w])'
  BY <1>3, <1>4 DEF SessionInv, Has, Revoke, Committed, database
<1>6. InsertsDistinct'
  BY <1>3, <1>4, NoCollision DEF IInv, Has
<1> QED
  BY <1>2, <1>4, <1>5, <1>6, Frame DEF IInv, TypeOK, Revoke

LEMMA IssueTokensInv ==
  ASSUME IInv, NEW w \in Workers, NEW t \in Tokens, IssueTokens(w, t)
  PROVE  IInv'
<1> DEFINE s == session[w]
<1>1. /\ s.step = "issue_tokens" /\ s \in Session /\ SessionInv(s)
      /\ s.op \in {"login", "refresh"} /\ s.new = None
  BY DEF IssueTokens, IInv, TypeOK, SessionInv
<1>2. Owner(s) \in Emails
  BY <1>1 DEF SessionInv, Has, Owner, Committed, IInv, TypeOK, RefreshTokenRow
<1>3. now + Ttl \in 0 .. MaxTime + Ttl
  BY DEF IInv, TypeOK
<1>4. TypeOK'
  BY <1>1, <1>2, <1>3 DEF IInv, TypeOK, IssueTokens, database, Session, Steps
<1>5. /\ session'[w].step = "commit" /\ session'[w].op = s.op
      /\ session'[w].email = Owner(s) /\ session'[w].new = t
      /\ session'[w].presented = s.presented
      /\ session'[w].expires_at = now + Ttl
      /\ \A v \in Workers \ {w} : session'[v] = session[v]
  BY <1>1 DEF IInv, TypeOK, IssueTokens, Session
<1>6. ~Committed(t)
  BY DEF IInv, TableInv, IssueTokens
<1>7. SessionInv(session[w])'
  <2>1. s.op = "refresh" =>
          /\ s.presented \in Tokens /\ Committed(s.presented)
          /\ Owner(s) = refresh_tokens[s.presented].user
          /\ refresh_tokens[s.presented].expires_at <= now + Ttl
    BY <1>1 DEF SessionInv, Has, Owner, IInv, TableInv
  <2>2. s.op = "login" =>
          Owner(s) \in Emails /\ users[Owner(s)] # NoRow /\ s.presented = None
    BY <1>1 DEF SessionInv, Has, Owner
  <2>3. users' = users /\ refresh_tokens' = refresh_tokens /\ now' = now
        /\ t \in generated'
    BY DEF IssueTokens, database
  <2>4. now + Ttl <= now + Ttl
    BY <1>3
  <2> QED
    BY <1>1, <1>5, <1>6, <2>1, <2>2, <2>3, <2>4 DEF SessionInv, Has, Committed
<1>8. InsertsDistinct'
  <2>1. \A v \in Workers : session[v].new # None => session[v].new \in generated
    BY DEF IInv, SessionInv, Has, TypeOK, Session, Operations
  <2>2. t \notin generated
    BY DEF IssueTokens
  <2> QED
    BY <1>1, <1>5, <2>1, <2>2 DEF IInv, InsertsDistinct, Has
<1> QED
  BY <1>4, <1>5, <1>7, <1>8, Frame DEF IInv, TypeOK, IssueTokens

LEMMA TickInv ==
  ASSUME IInv, Tick
  PROVE  IInv'
<1>1. TypeOK' /\ now <= now'
  BY DEF IInv, TypeOK, Tick, database
<1>2. InsertsDistinct'
  BY DEF IInv, InsertsDistinct, Has, Tick
<1> QED
  BY <1>1, <1>2, Frame DEF IInv, TypeOK, Tick

-----------------------------------------------------------------------------
(* What the transaction of a commit inserts and updates, and the rows of    *)
(* the tables afterwards.                                                  *)
LEMMA CommittedRows ==
  ASSUME IInv, NEW w \in Workers, NEW answered \in BOOLEAN, Commit(w, answered),
         NEW s, NEW old, s = session[w], old = s.presented
  PROVE
    /\ old # None => old \in Tokens /\ Committed(old) /\ old # s.new
    /\ s.new # None =>
         /\ s.new \in Tokens /\ ~Committed(s.new) /\ s.new \in generated
         /\ s.op \in {"login", "refresh"} /\ s.expires_at <= now + Ttl
         /\ s.email \in Emails /\ users[s.email] # NoRow
    /\ s.op = "refresh" =>
         /\ old # None /\ s.new # None
         /\ s.email = refresh_tokens[old].user
         /\ refresh_tokens[old].expires_at <= s.expires_at
    /\ \A t \in Tokens : t # s.new /\ t # old => refresh_tokens'[t] = refresh_tokens[t]
    /\ s.new # None =>
         /\ refresh_tokens'[s.new] # NoRow /\ refresh_tokens'[s.new].user = s.email
         /\ refresh_tokens'[s.new].expires_at = s.expires_at
         /\ refresh_tokens'[s.new].rotated_to = None
         /\ ~refresh_tokens'[s.new].revoked
    /\ old # None =>
         /\ refresh_tokens'[old] # NoRow
         /\ refresh_tokens'[old].user = refresh_tokens[old].user
         /\ refresh_tokens'[old].expires_at = refresh_tokens[old].expires_at
         /\ refresh_tokens'[old].revoked
         /\ refresh_tokens'[old].rotated_to =
              IF s.op = "refresh" THEN s.new ELSE refresh_tokens[old].rotated_to
    /\ \A t \in Tokens : refresh_tokens'[t] # NoRow <=> (Committed(t) \/ t = s.new)
<1>1. /\ s \in Session /\ SessionInv(s) /\ s.step = "commit"
      /\ s.op \in {"register", "login", "refresh", "revoke"}
  <2>1. s \in Session /\ SessionInv(s) /\ s.step = "commit"
    BY DEF IInv, TypeOK, Commit
  <2> QED
    BY <2>1 DEF SessionInv, Session, Operations
<1>t. \A t \in Tokens : refresh_tokens'[t] = WriteToken(s, t, refresh_tokens[t])
  BY DEF Commit
<1>5. old # None => old \in Tokens /\ Committed(old) /\ old # s.new
  BY <1>1 DEF SessionInv, Has, Session
<1>6. s.new # None =>
        /\ s.new \in Tokens /\ ~Committed(s.new) /\ s.new \in generated
        /\ s.op \in {"login", "refresh"} /\ s.expires_at <= now + Ttl
        /\ s.email \in Emails /\ users[s.email] # NoRow
  BY <1>1 DEF SessionInv, Has, Session, Committed, IInv, DeliveredArePersisted,
     TypeOK, RefreshTokenRow
<1>7. s.op = "refresh" =>
        /\ old # None /\ s.new # None
        /\ s.email = refresh_tokens[old].user
        /\ refresh_tokens[old].expires_at <= s.expires_at
  BY <1>1 DEF SessionInv, Has, IInv, TypeOK, TableInv
<1>8. \A t \in Tokens : t # s.new /\ t # old => refresh_tokens'[t] = refresh_tokens[t]
  BY <1>t DEF WriteToken
<1>9. s.new # None =>
        /\ refresh_tokens'[s.new] # NoRow /\ refresh_tokens'[s.new].user = s.email
        /\ refresh_tokens'[s.new].expires_at = s.expires_at
        /\ refresh_tokens'[s.new].rotated_to = None
        /\ ~refresh_tokens'[s.new].revoked
  <2> SUFFICES ASSUME s.new # None
               PROVE  /\ refresh_tokens'[s.new] # NoRow /\ refresh_tokens'[s.new].user = s.email
                      /\ refresh_tokens'[s.new].expires_at = s.expires_at
                      /\ refresh_tokens'[s.new].rotated_to = None
                      /\ ~refresh_tokens'[s.new].revoked
    OBVIOUS
  <2>1. refresh_tokens'[s.new] = NewRow(s)
    BY <1>t, <1>6 DEF WriteToken
  <2>2. NewRow(s) \in RefreshTokenRow
    BY <1>1, <1>6 DEF NewRow, RefreshTokenRow, Session
  <2> QED
    <3>1. refresh_tokens'[s.new] # NoRow
      BY <2>1, <2>2
    <3> QED
      BY <2>1, <3>1 DEF NewRow
<1>10. old # None =>
         /\ refresh_tokens'[old] # NoRow
         /\ refresh_tokens'[old].user = refresh_tokens[old].user
         /\ refresh_tokens'[old].expires_at = refresh_tokens[old].expires_at
         /\ refresh_tokens'[old].revoked
         /\ refresh_tokens'[old].rotated_to =
              IF s.op = "refresh" THEN s.new ELSE refresh_tokens[old].rotated_to
  <2> SUFFICES ASSUME old # None
               PROVE  /\ refresh_tokens'[old] # NoRow
                      /\ refresh_tokens'[old].user = refresh_tokens[old].user
                      /\ refresh_tokens'[old].expires_at = refresh_tokens[old].expires_at
                      /\ refresh_tokens'[old].revoked
                      /\ refresh_tokens'[old].rotated_to =
                           IF s.op = "refresh" THEN s.new
                                               ELSE refresh_tokens[old].rotated_to
    OBVIOUS
  <2> DEFINE r == refresh_tokens[old]
             to == IF s.op = "refresh" THEN s.new ELSE r.rotated_to
  <2>1. r \in RefreshTokenRow
    BY <1>5 DEF IInv, TypeOK, Committed
  <2>2. refresh_tokens'[old] = [r EXCEPT !.revoked = TRUE, !.rotated_to = to]
    BY <1>t, <1>5 DEF WriteToken
  <2>3. [r EXCEPT !.revoked = TRUE, !.rotated_to = to] \in RefreshTokenRow
    BY <1>1, <2>1 DEF RefreshTokenRow, Session
  <2> QED
    BY <2>1, <2>2, <2>3 DEF RefreshTokenRow, Committed
<1>11. \A t \in Tokens : refresh_tokens'[t] # NoRow <=> (Committed(t) \/ t = s.new)
  BY <1>5, <1>6, <1>8, <1>9, <1>10 DEF Committed
<1> QED
  BY <1>5, <1>6, <1>7, <1>8, <1>9, <1>10, <1>11

(* A commit is the only step that writes the tables.                       *)
LEMMA CommitInv ==
  ASSUME IInv, NEW w \in Workers, NEW answered \in BOOLEAN, Commit(w, answered)
  PROVE  IInv'
<1> DEFINE s == session[w]
           old == s.presented
<1>1. /\ s \in Session /\ SessionInv(s) /\ s.step = "commit"
      /\ s.op \in {"register", "login", "refresh", "revoke"}
  <2>1. s \in Session /\ SessionInv(s) /\ s.step = "commit"
    BY DEF IInv, TypeOK, Commit
  <2> QED
    BY <2>1 DEF SessionInv, Session, Operations
<1>2. TypeOK'
  BY CommitType DEF IInv
<1>3. now' = now /\ generated' = generated
  BY DEF Commit
<1>p. \A t \in Tokens : parent'[t] = IF t = s.new THEN old ELSE parent[t]
  BY DEF Commit
<1>u. \A e \in Emails : users'[e] = WriteUser(s, e, users[e])
  BY DEF Commit
<1>4. /\ \A v \in Workers \ {w} : session'[v] = session[v]
      /\ session'[w].step = "idle" /\ session'[w].op = "none"
      /\ session'[w].new = None
  BY DEF IInv, TypeOK, Commit, Close, Closed
<1>5. old # None => old \in Tokens /\ Committed(old) /\ old # s.new
  BY CommittedRows
<1>6. s.new # None =>
        /\ s.new \in Tokens /\ ~Committed(s.new) /\ s.new \in generated
        /\ s.op \in {"login", "refresh"} /\ s.expires_at <= now + Ttl
        /\ s.email \in Emails /\ users[s.email] # NoRow
  BY CommittedRows
<1>7. s.op = "refresh" =>
        /\ old # None /\ s.new # None
        /\ s.email = refresh_tokens[old].user
        /\ refresh_tokens[old].expires_at <= s.expires_at
  BY CommittedRows
<1>8. \A t \in Tokens : t # s.new /\ t # old => refresh_tokens'[t] = refresh_tokens[t]
  BY CommittedRows
<1>9. s.new # None =>
        /\ refresh_tokens'[s.new] # NoRow /\ refresh_tokens'[s.new].user = s.email
        /\ refresh_tokens'[s.new].expires_at = s.expires_at
        /\ refresh_tokens'[s.new].rotated_to = None
  BY CommittedRows
<1>10. old # None =>
         /\ refresh_tokens'[old] # NoRow
         /\ refresh_tokens'[old].user = refresh_tokens[old].user
         /\ refresh_tokens'[old].expires_at = refresh_tokens[old].expires_at
         /\ refresh_tokens'[old].revoked
         /\ refresh_tokens'[old].rotated_to =
              IF s.op = "refresh" THEN s.new ELSE refresh_tokens[old].rotated_to
  BY CommittedRows
<1>11. \A t \in Tokens : refresh_tokens'[t] # NoRow <=> (Committed(t) \/ t = s.new)
  BY CommittedRows
<1>12. \A e \in Emails : users[e] # NoRow => users'[e] # NoRow
  <2>1. \A e \in Emails : users'[e] = users[e] \/
          (s.op = "register" /\ e = s.email /\ users'[e] = [password_hash |-> HashPassword(s.password)])
    BY <1>u DEF WriteUser
  <2>2. s.op = "register" => [password_hash |-> HashPassword(s.password)] \in UserRow
    BY <1>1 DEF SessionInv, Has, UserRow, HashPassword
  <2> QED
    BY <2>1, <2>2
<1>13. TableInv'
  <2>1. \A t \in Tokens : refresh_tokens'[t] # NoRow =>
          t \in generated /\ refresh_tokens'[t].expires_at <= now + Ttl
    BY <1>5, <1>6, <1>8, <1>9, <1>10, <1>11 DEF IInv, TableInv
  <2>2. \A t \in Tokens : ~refresh_tokens'[t] # NoRow => parent'[t] = None
    BY <1>p, <1>11 DEF IInv, TableInv, Committed
  <2> QED
    BY <1>3, <2>1, <2>2 DEF TableInv, Committed
<1>14. RotationConsistent'
  <2> SUFFICES ASSUME NEW t \in Tokens
               PROVE
                 /\ refresh_tokens'[t] # NoRow /\ refresh_tokens'[t].rotated_to # None =>
                      /\ refresh_tokens'[t].revoked
                      /\ parent'[refresh_tokens'[t].rotated_to] = t
                      /\ refresh_tokens'[refresh_tokens'[t].rotated_to] # NoRow
                 /\ parent'[t] # None =>
                      /\ parent'[t] # t /\ refresh_tokens'[t] # NoRow /\ refresh_tokens'[parent'[t]] # NoRow
                      /\ refresh_tokens'[parent'[t]].revoked
                      /\ refresh_tokens'[parent'[t]].rotated_to # None
                      /\ refresh_tokens'[parent'[t]].user = refresh_tokens'[t].user
                      /\ refresh_tokens'[parent'[t]].expires_at
                           <= refresh_tokens'[t].expires_at
    BY DEF RotationConsistent, Committed
  <2>1. ASSUME refresh_tokens'[t] # NoRow, refresh_tokens'[t].rotated_to # None
        PROVE  /\ refresh_tokens'[t].revoked
               /\ parent'[refresh_tokens'[t].rotated_to] = t
               /\ refresh_tokens'[refresh_tokens'[t].rotated_to] # NoRow
    <3>1. CASE t = s.new
      BY <1>6, <1>9, <2>1, <3>1
    <3>2. CASE t = old /\ s.op = "refresh"
      BY <1>p, <1>5, <1>6, <1>7, <1>9, <1>10, <3>2 DEF Committed
    <3>3. CASE t # s.new /\ ~(t = old /\ s.op = "refresh")
      <4> DEFINE n == refresh_tokens[t].rotated_to
      <4>1. /\ Committed(t) /\ refresh_tokens'[t].rotated_to = n /\ n # None
            /\ refresh_tokens[t].revoked => refresh_tokens'[t].revoked
        BY <1>5, <1>8, <1>10, <1>11, <2>1, <3>3
      <4>2. n \in Tokens
        BY <4>1 DEF IInv, TypeOK, Committed, RefreshTokenRow
      <4>3. refresh_tokens[t].revoked /\ parent[n] = t /\ Committed(n)
        BY <4>1 DEF IInv, RotationConsistent
      <4>4. n # s.new
        BY <1>6, <4>2, <4>3
      <4>5. refresh_tokens'[n] # NoRow
        BY <1>11, <4>2, <4>3 DEF Committed
      <4> QED
        BY <1>p, <4>1, <4>2, <4>3, <4>4, <4>5 DEF Committed
    <3> QED
      BY <3>1, <3>2, <3>3
  <2>2. ASSUME parent'[t] # None
        PROVE  /\ parent'[t] # t /\ refresh_tokens'[t] # NoRow /\ refresh_tokens'[parent'[t]] # NoRow
               /\ refresh_tokens'[parent'[t]].revoked
               /\ refresh_tokens'[parent'[t]].rotated_to # None
               /\ refresh_tokens'[parent'[t]].user = refresh_tokens'[t].user
               /\ refresh_tokens'[parent'[t]].expires_at
                    <= refresh_tokens'[t].expires_at
    <3>1. CASE t = s.new
      <4>1. parent'[t] = old /\ old # None /\ s.op = "refresh"
        BY <1>1, <1>p, <1>6, <2>2, <3>1 DEF SessionInv, Has
      <4> QED
        BY <1>5, <1>6, <1>7, <1>9, <1>10, <3>1, <4>1 DEF Committed
    <3>2. CASE t # s.new
      <4> DEFINE q == parent[t]
      <4>1. parent'[t] = q /\ q # None /\ q \in Tokens
        BY <1>p, <2>2, <3>2 DEF IInv, TypeOK
      <4>2. /\ q # t /\ Committed(t) /\ Committed(q)
            /\ refresh_tokens[q].revoked /\ refresh_tokens[q].rotated_to # None
            /\ refresh_tokens[q].user = refresh_tokens[t].user
            /\ refresh_tokens[q].expires_at <= refresh_tokens[t].expires_at
        BY <4>1 DEF IInv, RotationConsistent
      <4>3. q # s.new
        BY <1>6, <4>1, <4>2
      <4>4. /\ refresh_tokens'[t].user = refresh_tokens[t].user
            /\ refresh_tokens'[t].expires_at = refresh_tokens[t].expires_at
            /\ refresh_tokens'[q].user = refresh_tokens[q].user
            /\ refresh_tokens'[q].expires_at = refresh_tokens[q].expires_at
            /\ refresh_tokens'[q].revoked /\ refresh_tokens'[q].rotated_to # None
        BY <1>5, <1>7, <1>8, <1>10, <3>2, <4>1, <4>2, <4>3
      <4>5. refresh_tokens'[q] # NoRow /\ refresh_tokens'[t] # NoRow
        BY <1>11, <4>1, <4>2 DEF Committed
      <4> QED
        BY <4>1, <4>2, <4>4, <4>5 DEF Committed
    <3> QED
      BY <3>1, <3>2
  <2> QED
    BY <2>1, <2>2
<1>15. DeliveredArePersisted'
  <2>1. \A t \in delivered' : t \in Tokens /\ refresh_tokens'[t] # NoRow
    <3>1. \A t \in delivered' : t \in delivered \/ (t = s.new /\ t # None)
      BY DEF Commit
    <3> QED
      BY <1>6, <1>11, <3>1 DEF IInv, TypeOK, DeliveredArePersisted
  <2>2. ASSUME NEW t \in Tokens, refresh_tokens'[t] # NoRow
        PROVE  users'[refresh_tokens'[t].user] # NoRow
    <3>1. CASE t = s.new
      BY <1>6, <1>9, <1>12, <3>1
    <3>2. CASE t # s.new
      <4>1. Committed(t) /\ refresh_tokens'[t].user = refresh_tokens[t].user
        BY <1>5, <1>8, <1>10, <1>11, <2>2, <3>2
      <4>2. refresh_tokens[t].user \in Emails
        BY <4>1 DEF IInv, TypeOK, Committed, RefreshTokenRow
      <4> QED
        BY <1>12, <4>1, <4>2 DEF IInv, DeliveredArePersisted
    <3> QED
      BY <3>1, <3>2
  <2> QED
    BY <2>1, <2>2 DEF DeliveredArePersisted, Committed
<1>16. ASSUME NEW v \in Workers \ {w}
       PROVE  SessionInv(session[v])'
  <2> DEFINE z == session[v]
  <2>1. z \in Session /\ SessionInv(z) /\ session'[v] = z
    BY <1>4 DEF IInv, TypeOK
  <2>2. z.new # None => z.new # s.new
    BY DEF IInv, InsertsDistinct
  <2>3. Has(z, "register", {"commit"}) => users'[z.email] = NoRow
    <3> SUFFICES ASSUME Has(z, "register", {"commit"})
                 PROVE  users'[z.email] = NoRow
      OBVIOUS
    <3>1. users[z.email] = NoRow /\ z.email \in Emails
      BY <2>1 DEF SessionInv, Has
    <3>2. ~(s.op = "register" /\ z.email = s.email)
      BY <1>1 DEF IInv, InsertsDistinct, Has
    <3> QED
      BY <1>u, <3>1, <3>2 DEF WriteUser
  <2>4. z.presented # None /\ Committed(z.presented) =>
          /\ refresh_tokens'[z.presented] # NoRow
          /\ refresh_tokens'[z.presented].user = refresh_tokens[z.presented].user
          /\ refresh_tokens'[z.presented].expires_at
               = refresh_tokens[z.presented].expires_at
    <3>1. z.presented # None => z.presented \in Tokens
      BY <2>1 DEF Session
    <3> QED
      BY <1>5, <1>6, <1>8, <1>10, <1>11, <3>1
  <2>5. z.step = "commit" /\ z.op \in {"login", "refresh"} =>
          refresh_tokens'[z.new] = NoRow
    BY <1>11, <2>1, <2>2 DEF SessionInv, Session, Committed, IInv, TypeOK
  <2>6. \A y : y = z /\ y = session'[v] => SessionInv(session[v])'
    BY <1>3, <1>12, <2>1, <2>3, <2>4, <2>5 DEF SessionInv, Has, Committed
  <2> QED
    BY <2>1, <2>6
<1>17. SessionInv(session[w])'
  BY <1>4 DEF SessionInv, Has
<1>18. InsertsDistinct'
  BY <1>4, NoCollision DEF IInv, Has
<1> QED
  BY <1>2, <1>13, <1>14, <1>15, <1>16, <1>17, <1>18 DEF IInv

-----------------------------------------------------------------------------
LEMMA InitInv == Init => IInv
<1> SUFFICES ASSUME Init PROVE IInv
  OBVIOUS
<1>1. TypeOK
  BY ClosedType DEF Init, TypeOK
<1>2. \A w \in Workers : SessionInv(session[w])
  BY DEF Init, Closed, SessionInv, Has
<1>3. InsertsDistinct
  BY DEF Init, Closed, InsertsDistinct, Has
<1>4. TableInv /\ RotationConsistent /\ DeliveredArePersisted
  BY DEF Init, TableInv, RotationConsistent, DeliveredArePersisted, Committed
<1> QED
  BY <1>1, <1>2, <1>3, <1>4 DEF IInv

LEMMA NextInv == IInv /\ [Next]_vars => IInv'
<1> SUFFICES ASSUME IInv, [Next]_vars PROVE IInv'
  OBVIOUS
<1>1. CASE Tick
  BY <1>1, TickInv
<1>2. ASSUME NEW w \in Workers, Request(w)
      PROVE  IInv'
  BY <1>2, RegisterInv, LoginInv, RefreshInv, RevokeInv DEF Request
<1>3. ASSUME NEW w \in Workers, Proceed(w)
      PROVE  IInv'
  <2>1. CASE InsertUser(w)
    BY <2>1, InsertUserInv
  <2>2. ASSUME NEW t \in Tokens, IssueTokens(w, t) PROVE IInv'
    BY <2>2, IssueTokensInv
  <2>3. ASSUME NEW answered \in BOOLEAN, Commit(w, answered) PROVE IInv'
    BY <2>3, CommitInv
  <2>4. CASE Rollback(w)
    BY <2>4, CloseInv DEF Rollback
  <2> QED
    BY <1>3, <2>1, <2>2, <2>3, <2>4 DEF Proceed
<1>4. ASSUME NEW w \in Workers, Fail(w)
      PROVE  IInv'
  <2>1. session[w].op \in Operations \ {"none"}
    BY <1>4 DEF Fail, IInv, TypeOK, Session, SessionInv
  <2> QED
    BY <1>4, <2>1, RaiseInv DEF Fail, Errors
<1>5. CASE UNCHANGED vars
  <2>1. InsertsDistinct' /\ TypeOK'
    BY <1>5 DEF vars, IInv, InsertsDistinct, Has, TypeOK
  <2>2. UNCHANGED <<database, session, generated, delivered, now>>
    BY <1>5 DEF vars, database
  <2> QED
    BY <2>1, <2>2, Frame DEF IInv, TypeOK
<1> QED
  BY <1>1, <1>2, <1>3, <1>4, <1>5 DEF Next

(* IInv is an invariant of the specification.                              *)
THEOREM Invariant == Spec => []IInv
  BY InitInv, NextInv, PTL DEF Spec

(* Every variable keeps its type in every reachable state.                 *)
THEOREM TypeCorrect == Spec => []TypeOK
<1>1. IInv => TypeOK
  BY DEF IInv
<1> QED
  BY <1>1, Invariant, PTL

(* However transactions interleave and fail, the rows related by a         *)
(* rotation agree (auth_service.refresh).                                  *)
THEOREM RotationsAgree == Spec => []RotationConsistent
<1>1. IInv => RotationConsistent
  BY DEF IInv
<1> QED
  BY <1>1, Invariant, PTL

(* A client is never given a token whose transaction rolled back, and no   *)
(* token is stored for a user who is not.                                  *)
THEOREM DeliveredTokensPersist == Spec => []DeliveredArePersisted
<1>1. IInv => DeliveredArePersisted
  BY DEF IInv
<1> QED
  BY <1>1, Invariant, PTL

-----------------------------------------------------------------------------
(* Action properties.  Only Commit writes the tables.                      *)
LEMMA OnlyCommitWrites ==
  ASSUME [Next]_vars,
         ~\E w \in Workers, answered \in BOOLEAN : Commit(w, answered)
  PROVE  UNCHANGED database
  BY ZenonT(60) DEF Next, Request, Proceed, Tick, Register, Login, Refresh, Revoke, InsertUser,
     IssueTokens, Rollback, Fail, vars, database

(* The first registration of an address wins (user_repository.create_user  *)
(* and the unique index on users.email).                                   *)
THEOREM RegistrationsNeverOverwrite == Spec => FirstRegistrationWins
<1>1. ASSUME IInv, [Next]_vars
      PROVE  \A e \in Emails : users[e] # NoRow => users'[e] = users[e]
  <2>1. CASE UNCHANGED database
    BY <2>1 DEF database
  <2>2. ASSUME NEW w \in Workers, NEW answered \in BOOLEAN, Commit(w, answered)
        PROVE  \A e \in Emails : users[e] # NoRow => users'[e] = users[e]
    <3> DEFINE s == session[w]
    <3>1. \A e \in Emails : users'[e] = WriteUser(s, e, users[e])
      BY <2>2 DEF Commit
    <3>2. s.op = "register" => users[s.email] = NoRow
      BY <1>1, <2>2 DEF IInv, SessionInv, Has, Commit
    <3> QED
      BY <3>1, <3>2 DEF WriteUser
  <2> QED
    BY <1>1, <2>1, <2>2, OnlyCommitWrites
<1> QED
  BY <1>1, Invariant, PTL DEF Spec, FirstRegistrationWins

(* A stored token only ages: whatever its writer had read, no transaction  *)
(* deletes it, moves it, prolongs it or un-revokes it.                     *)
THEOREM StoredTokensOnlyAge == Spec => TokensOnlyAge
<1> DEFINE Ages(t) == /\ refresh_tokens'[t] # NoRow
                      /\ refresh_tokens'[t].user = refresh_tokens[t].user
                      /\ refresh_tokens'[t].expires_at = refresh_tokens[t].expires_at
                      /\ refresh_tokens[t].revoked => refresh_tokens'[t].revoked
<1>1. ASSUME IInv, [Next]_vars, NEW t \in Tokens, Committed(t)
      PROVE  Ages(t)
  <2>1. CASE UNCHANGED database
    BY <1>1, <2>1 DEF database, Committed
  <2>2. ASSUME NEW w \in Workers, NEW answered \in BOOLEAN, Commit(w, answered)
        PROVE  Ages(t)
    <3> DEFINE s == session[w]
               r == refresh_tokens[t]
               to == IF s.op = "refresh" THEN s.new ELSE r.rotated_to
    <3>1. refresh_tokens'[t] = WriteToken(s, t, r)
      BY <2>2 DEF Commit
    <3>2. r \in RefreshTokenRow /\ s \in Session
      BY <1>1 DEF IInv, TypeOK, Committed
    <3>3. t # s.new
      BY <1>1, <2>2, <3>2 DEF IInv, SessionInv, Has, Commit, Session, Operations
    <3>4. CASE t # s.presented
      BY <1>1, <3>1, <3>3, <3>4 DEF WriteToken, Committed
    <3>5. CASE t = s.presented
      <4>1. refresh_tokens'[t] = [r EXCEPT !.revoked = TRUE, !.rotated_to = to]
        BY <3>1, <3>3, <3>5 DEF WriteToken
      <4>2. [r EXCEPT !.revoked = TRUE, !.rotated_to = to] \in RefreshTokenRow
        BY <3>2 DEF RefreshTokenRow, Session
      <4>3. refresh_tokens'[t] # NoRow
        BY <4>1, <4>2
      <4> QED
        BY <3>2, <4>1, <4>3 DEF RefreshTokenRow
    <3> QED
      BY <3>4, <3>5
  <2> QED
    BY <1>1, <2>1, <2>2, OnlyCommitWrites
<1>2. IInv /\ [Next]_vars => [\A t \in Tokens : Committed(t) =>
        /\ Committed(t)'
        /\ refresh_tokens'[t].user = refresh_tokens[t].user
        /\ refresh_tokens'[t].expires_at = refresh_tokens[t].expires_at
        /\ refresh_tokens[t].revoked => refresh_tokens'[t].revoked]_vars
  BY <1>1 DEF Committed
<1> QED
  BY <1>2, Invariant, PTL DEF Spec, TokensOnlyAge

---------------------------------------------------------------------------
(***************************************************************************)
(* AuthService implements TokenLedger: under the mapping of                *)
(* AuthService.Ledger every step of a worker is one operation of the       *)
(* ledger or changes nothing in it.  What makes Exchange and Grant atomic  *)
(* although the program checks, issues and commits in separate steps is    *)
(* IInv: the presented row is still there with its owner, and the new      *)
(* token is in no other transaction and in no row.                         *)
(*                                                                         *)
(* The same reading of a refresh bounds the children of a token.           *)
(***************************************************************************)

\* The variables of the ledger, as AuthService.Ledger maps them.
Owners == [t \in Tokens |->
             IF Committed(t) THEN refresh_tokens[t].user ELSE None]
Spent == {t \in Tokens : Committed(t) /\ refresh_tokens[t].revoked}
Successors == [t \in Tokens |->
                 IF Committed(t) THEN refresh_tokens[t].rotated_to ELSE None]
Presented == [w \in Workers |-> InFlight(session[w])]

LEMMA TablesKept ==
  ASSUME UNCHANGED database
  PROVE  UNCHANGED <<Owners, Spent, Successors>>
  BY DEF database, Owners, Spent, Successors, Committed

LEMMA SessionReplaced ==
  ASSUME IInv, NEW w \in Workers, NEW x, session' = [session EXCEPT ![w] = x]
  PROVE  Presented' = [Presented EXCEPT ![w] = InFlight(x)]
<1>1. \A v \in Workers : session'[v] = IF v = w THEN x ELSE session[v]
  BY DEF IInv, TypeOK
<1>2. \A v \in Workers : InFlight(session'[v]) =
                           IF v = w THEN InFlight(x) ELSE InFlight(session[v])
  BY <1>1
<1>3. Presented' = [v \in Workers |-> InFlight(session'[v])]
  BY DEF Presented, InFlight
<1> QED
  BY <1>2, <1>3 DEF Presented

(* A step that writes no table and leaves its worker without a presented   *)
(* token withdraws what the worker had presented, if anything.             *)
LEMMA WithdrawStep ==
  ASSUME IInv, NEW w \in Workers, NEW x, session' = [session EXCEPT ![w] = x],
         InFlight(x) = None, UNCHANGED database
  PROVE  Ledger!Next
<1>1. Presented' = [Presented EXCEPT ![w] = None]
  BY SessionReplaced
<1>2. Ledger!Withdraw(w)
  BY <1>1, TablesKept DEF Ledger!Withdraw, Owners, Spent, Successors, Presented
<1> QED
  BY <1>2 DEF Ledger!Next

LEMMA RaiseWithdraws ==
  ASSUME IInv, NEW w \in Workers, NEW op, NEW error, Raise(w, op, error),
         UNCHANGED database
  PROVE  Ledger!Next
<1> DEFINE x == [Closed EXCEPT !.step = "raised", !.op = op, !.error = error]
<1>1. x.step = "raised"
  BY DEF Closed
<1>2. InFlight(x) = None
  BY <1>1 DEF InFlight
<1> QED
  BY <1>2, WithdrawStep DEF Raise

LEMMA CloseWithdraws ==
  ASSUME IInv, NEW w \in Workers, Close(w), UNCHANGED database
  PROVE  Ledger!Next
<1>1. InFlight(Closed) = None
  BY DEF Closed, InFlight
<1> QED
  BY <1>1, WithdrawStep DEF Close

-----------------------------------------------------------------------------
(* One lemma per kind of step.                                             *)

LEMMA RefreshPresents ==
  ASSUME IInv, NEW w \in Workers, NEW t \in Tokens \cup {None}, Refresh(w, t)
  PROVE  Ledger!Next
<1> DEFINE x == [Closed EXCEPT !.step = "issue_tokens", !.op = "refresh",
                               !.presented = t]
<1>1. CASE Raise(w, "refresh", "AuthError")
  BY <1>1, RaiseWithdraws DEF Refresh
<1>2. CASE t # None /\ Valid(t) /\ session' = [session EXCEPT ![w] = x]
  <2>1. t \in Tokens /\ Committed(t) /\ ~refresh_tokens[t].revoked
    BY <1>2 DEF Valid
  <2>2. x.step = "issue_tokens" /\ x.op = "refresh" /\ x.presented = t
    BY DEF Closed
  <2>3. InFlight(x) = t
    BY <2>2 DEF InFlight
  <2>4. Presented' = [Presented EXCEPT ![w] = t]
    BY <1>2, <2>3, SessionReplaced
  <2>5. Presented[w] = None
    BY DEF Presented, InFlight, Refresh, Idle
  <2>6. Owners[t] # None
    <3>1. refresh_tokens[t].user \in Emails
      BY <2>1 DEF IInv, TypeOK, Committed, RefreshTokenRow
    <3> QED
      BY <2>1, <3>1 DEF Owners
  <2>7. t \notin Spent
    BY <2>1 DEF Spent
  <2>8. Ledger!Present(w, t)
    BY <2>4, <2>5, <2>6, <2>7, TablesKept
       DEF Ledger!Present, Refresh, Owners, Spent, Successors, Presented
  <2> QED
    BY <2>1, <2>8 DEF Ledger!Next
<1> QED
  BY <1>1, <1>2 DEF Refresh

LEMMA OtherRequests ==
  ASSUME IInv, NEW w \in Workers, NEW a \in Addresses, NEW p \in Passwords,
         Register(w, a, p) \/ Login(w, a, p)
  PROVE  Ledger!Next
<1> DEFINE x == [Closed EXCEPT !.step = "insert_user", !.op = "register",
                               !.email = Lower[a], !.password = p]
           y == [Closed EXCEPT !.step = "issue_tokens", !.op = "login",
                               !.email = Lower[a], !.password = p]
<1>1. UNCHANGED database
  BY DEF Register, Login
<1>2. x.op = "register" /\ y.op = "login"
  BY DEF Closed
<1>3. InFlight(x) = None /\ InFlight(y) = None
  BY <1>2 DEF InFlight
<1>4. CASE session' = [session EXCEPT ![w] = x]
  BY <1>1, <1>3, <1>4, WithdrawStep
<1>5. CASE session' = [session EXCEPT ![w] = y]
  BY <1>1, <1>3, <1>5, WithdrawStep
<1> QED
  BY <1>1, <1>4, <1>5, RaiseWithdraws DEF Register, Login

LEMMA RevokeRequest ==
  ASSUME IInv, NEW w \in Workers, NEW t \in Tokens \cup {None}, Revoke(w, t)
  PROVE  Ledger!Next
<1> DEFINE x == [Closed EXCEPT !.step = "commit", !.op = "revoke",
                      !.presented = IF t # None /\ Committed(t) THEN t ELSE None]
<1>1. x.op = "revoke"
  BY DEF Closed
<1>2. InFlight(x) = None
  BY <1>1 DEF InFlight
<1> QED
  BY <1>2, WithdrawStep DEF Revoke

LEMMA InsertUserStep ==
  ASSUME IInv, NEW w \in Workers, InsertUser(w)
  PROVE  Ledger!Next
<1> DEFINE x == [session[w] EXCEPT !.step = "commit"]
<1>1. CASE session' = [session EXCEPT ![w].step = "commit"]
  <2>1. session[w] \in Session /\ session[w].op = "register"
    BY DEF IInv, TypeOK, SessionInv, InsertUser
  <2>2. x.op = "register"
    BY <2>1 DEF Session
  <2>3. InFlight(x) = None
    BY <2>2 DEF InFlight
  <2> QED
    BY <1>1, <2>3, WithdrawStep DEF InsertUser
<1> QED
  BY <1>1, RaiseWithdraws DEF InsertUser

(* Issuing a token changes nothing in the ledger: its row is not committed. *)
LEMMA IssueStutters ==
  ASSUME IInv, NEW w \in Workers, NEW t \in Tokens, IssueTokens(w, t)
  PROVE  UNCHANGED <<Owners, Spent, Successors, Presented>>
<1>1. /\ session[w] \in Session /\ session[w].step = "issue_tokens"
      /\ \A v \in Workers \ {w} : session'[v] = session[v]
      /\ session'[w].step = "commit" /\ session'[w].op = session[w].op
      /\ session'[w].presented = session[w].presented
  BY DEF IInv, TypeOK, IssueTokens, Session
<1>2. \A v \in Workers : InFlight(session'[v]) = InFlight(session[v])
  BY <1>1 DEF InFlight
<1>3. Presented' = [v \in Workers |-> InFlight(session'[v])]
  BY DEF Presented, InFlight
<1> QED
  BY <1>2, <1>3, TablesKept DEF IssueTokens, Presented

LEMMA CommitStep ==
  ASSUME IInv, NEW w \in Workers, NEW answered \in BOOLEAN, Commit(w, answered)
  PROVE  Ledger!Next
<1> DEFINE s == session[w]
           old == s.presented
<1>1. /\ s \in Session /\ SessionInv(s) /\ s.step = "commit"
      /\ s.op \in {"register", "login", "refresh", "revoke"}
  <2>1. s \in Session /\ SessionInv(s) /\ s.step = "commit"
    BY DEF IInv, TypeOK, Commit
  <2> QED
    BY <2>1 DEF SessionInv, Session, Operations
<1>2. Presented' = [Presented EXCEPT ![w] = None]
  <2>1. InFlight(Closed) = None
    BY DEF Closed, InFlight
  <2> QED
    BY <2>1, SessionReplaced DEF Commit, Close
<1>3. Presented[w] = IF s.op = "refresh" THEN old ELSE None
  BY <1>1 DEF Presented, InFlight
<1>4. \A t \in Tokens : Committed(t) => refresh_tokens[t] \in RefreshTokenRow
  BY DEF IInv, TypeOK, Committed
<1>5. \A t \in Tokens :
        /\ Owners'[t] = IF refresh_tokens'[t] # NoRow THEN refresh_tokens'[t].user ELSE None
        /\ t \in Spent' <=> refresh_tokens'[t] # NoRow /\ refresh_tokens'[t].revoked
        /\ Successors'[t] =
             IF refresh_tokens'[t] # NoRow THEN refresh_tokens'[t].rotated_to ELSE None
  BY DEF Owners, Spent, Successors, Committed
<1>6. \A t \in Tokens :
        /\ Owners[t] = IF Committed(t) THEN refresh_tokens[t].user ELSE None
        /\ t \in Spent <=> Committed(t) /\ refresh_tokens[t].revoked
        /\ Successors[t] = IF Committed(t) THEN refresh_tokens[t].rotated_to ELSE None
  BY DEF Owners, Spent, Successors
<1>7. /\ Owners = [t \in Tokens |-> Owners[t]] /\ Owners' = [t \in Tokens |-> Owners'[t]]
      /\ Successors = [t \in Tokens |-> Successors[t]]
      /\ Successors' = [t \in Tokens |-> Successors'[t]]
      /\ Spent \subseteq Tokens /\ Spent' \subseteq Tokens
  BY DEF Owners, Spent, Successors
\* Row by row: the inserted one, the updated one, the others.
<1>8. \A t \in Tokens : t # s.new /\ t # old =>
        /\ Owners'[t] = Owners[t] /\ (t \in Spent' <=> t \in Spent)
        /\ Successors'[t] = Successors[t]
  BY <1>5, <1>6, CommittedRows DEF Committed
<1>9. s.new # None =>
        /\ s.new \in Tokens /\ s.op \in {"login", "refresh"} /\ s.email \in Emails
        /\ Owners[s.new] = None /\ s.new \notin Spent /\ Successors[s.new] = None
        /\ Owners'[s.new] = s.email /\ s.new \notin Spent' /\ Successors'[s.new] = None
  BY <1>5, <1>6, CommittedRows
<1>10. old # None =>
         /\ old \in Tokens /\ old # s.new
         /\ Owners[old] = refresh_tokens[old].user /\ Owners[old] # None
         /\ Owners'[old] = Owners[old] /\ old \in Spent'
         /\ Successors'[old] = IF s.op = "refresh" THEN s.new ELSE Successors[old]
  BY <1>4, <1>5, <1>6, CommittedRows DEF RefreshTokenRow
<1>11. CASE s.op = "register"
  <2>1. s.new = None /\ old = None
    BY <1>1, <1>11 DEF SessionInv, Has
  <2>2. UNCHANGED <<Owners, Spent, Successors>>
    BY <1>7, <1>8, <2>1
  <2>3. Ledger!Withdraw(w)
    BY <1>2, <2>2 DEF Ledger!Withdraw, Owners, Spent, Successors, Presented
  <2> QED
    BY <2>3 DEF Ledger!Next
<1>12. CASE s.op = "login"
  <2>1. s.new # None /\ old = None
    BY <1>1, <1>12 DEF SessionInv, Has, IInv, TypeOK
  <2>2. Owners' = [Owners EXCEPT ![s.new] = s.email]
    BY <1>7, <1>8, <1>9, <2>1
  <2>3. UNCHANGED <<Spent, Successors>>
    BY <1>7, <1>8, <1>9, <2>1
  <2>4. UNCHANGED Presented
    BY <1>2, <1>3, <1>12 DEF Presented
  <2>n. PICK n \in Tokens, u \in Emails : n = s.new /\ u = s.email
    BY <1>9, <2>1
  <2>5. Ledger!Grant(n, u)
    BY <1>9, <2>1, <2>n, <2>2, <2>3, <2>4
       DEF Ledger!Grant, Owners, Spent, Successors, Presented
  <2> QED
    BY <2>5 DEF Ledger!Next
<1>13. CASE s.op = "refresh"
  <2>1. s.new # None /\ old # None /\ s.email = refresh_tokens[old].user
    BY <1>13, CommittedRows
  <2>2. Owners' = [Owners EXCEPT ![s.new] = Owners[old]]
    BY <1>7, <1>8, <1>9, <1>10, <2>1
  <2>3. Spent' = Spent \cup {old}
    BY <1>7, <1>8, <1>9, <1>10, <2>1
  <2>4. Successors' = [Successors EXCEPT ![old] = s.new]
    BY <1>7, <1>8, <1>9, <1>10, <1>13, <2>1
  <2>5. Presented[w] = old
    BY <1>3, <1>13
  <2>n. PICK n \in Tokens : n = s.new
    BY <1>9, <2>1
  <2>6. Ledger!Exchange(w, n)
    BY <1>2, <1>9, <2>1, <2>n, <2>2, <2>3, <2>4, <2>5
       DEF Ledger!Exchange, Owners, Spent, Successors, Presented
  <2> QED
    BY <2>6 DEF Ledger!Next
<1>14. CASE s.op = "revoke"
  <2>1. s.new = None
    BY <1>1, <1>14 DEF SessionInv, Has
  <2>2. UNCHANGED <<Owners, Successors>>
    BY <1>7, <1>8, <1>10, <1>14, <2>1
  <2>3. UNCHANGED Presented
    BY <1>2, <1>3, <1>14 DEF Presented
  <2>4. CASE old = None
    <3>1. UNCHANGED Spent
      BY <1>7, <1>8, <2>1, <2>4, ZenonT(60)
    <3>2. Ledger!Withdraw(w)
      BY <1>2, <2>2, <3>1 DEF Ledger!Withdraw, Owners, Spent, Successors, Presented
    <3> QED
      BY <3>2 DEF Ledger!Next
  <2>5. CASE old # None
    <3>1. Spent' = Spent \cup {old}
      BY <1>7, <1>8, <1>10, <2>1, <2>5
    <3>t. PICK t \in Tokens : t = old
      BY <1>10, <2>5
    <3>2. Ledger!Revoke(t)
      BY <1>10, <3>t, <2>2, <2>3, <2>5, <3>1
         DEF Ledger!Revoke, Owners, Spent, Successors, Presented
    <3> QED
      BY <3>2 DEF Ledger!Next
  <2> QED
    BY <2>4, <2>5
<1> QED
  BY <1>1, <1>11, <1>12, <1>13, <1>14

-----------------------------------------------------------------------------
LEMMA InitialLedger == Init => Ledger!Init
<1> SUFFICES ASSUME Init PROVE Ledger!Init
  OBVIOUS
<1>1. \A t \in Tokens : ~Committed(t)
  BY DEF Init, Committed
<1>2. \A w \in Workers : InFlight(session[w]) = None
  BY DEF Init, Closed, InFlight
<1> QED
  BY <1>1, <1>2 DEF Ledger!Init

LEMMA StepImplementsLedger == IInv /\ [Next]_vars => [Ledger!Next]_(Ledger!ledger)
<1> SUFFICES ASSUME IInv, [Next]_vars PROVE [Ledger!Next]_(Ledger!ledger)
  OBVIOUS
<1>u. UNCHANGED <<Owners, Spent, Successors, Presented>> => UNCHANGED Ledger!ledger
  BY DEF Ledger!ledger, Owners, Spent, Successors, Presented
<1>1. CASE Tick \/ UNCHANGED vars
  <2>1. UNCHANGED <<database, session>>
    BY <1>1 DEF Tick, vars, database
  <2>2. UNCHANGED Presented
    BY <2>1 DEF Presented, InFlight
  <2> QED
    BY <1>u, <2>1, <2>2, TablesKept
<1>2. ASSUME NEW w \in Workers, Request(w)
      PROVE  Ledger!Next
  BY <1>2, OtherRequests, RefreshPresents, RevokeRequest DEF Request
<1>3. ASSUME NEW w \in Workers, Proceed(w)
      PROVE  [Ledger!Next]_(Ledger!ledger)
  <2>1. CASE InsertUser(w)
    BY <2>1, InsertUserStep
  <2>2. ASSUME NEW t \in Tokens, IssueTokens(w, t)
        PROVE  UNCHANGED Ledger!ledger
    BY <1>u, <2>2, IssueStutters
  <2>3. ASSUME NEW answered \in BOOLEAN, Commit(w, answered)
        PROVE  Ledger!Next
    BY <2>3, CommitStep
  <2>4. CASE Rollback(w)
    BY <2>4, CloseWithdraws DEF Rollback
  <2> QED
    BY <1>3, <2>1, <2>2, <2>3, <2>4 DEF Proceed
<1>4. ASSUME NEW w \in Workers, Fail(w)
      PROVE  Ledger!Next
  BY <1>4, RaiseWithdraws DEF Fail
<1> QED
  BY <1>1, <1>2, <1>3, <1>4 DEF Next

(* The service implements the ledger: a refresh is an atomic exchange of a *)
(* token that was unspent when it was presented (auth_service.refresh      *)
(* lines 188-209), although it runs in several steps among those of other  *)
(* workers.                                                                *)
THEOREM ServiceImplementsLedger == Spec => ImplementsLedger
  BY InitialLedger, StepImplementsLedger, Invariant, PTL
     DEF Spec, ImplementsLedger, Ledger!Spec

-----------------------------------------------------------------------------
(* The bound on the children of a token is not inductive: it also counts   *)
(* the refreshes that were let through and may still add a child.          *)
Flying(t) == {w \in Workers : InFlight(session[w]) = t}

SiblingsInv ==
  \A t \in Tokens :
    /\ IsFiniteSet(Children(t))
    /\ Cardinality(Children(t)) + Cardinality(Flying(t)) <= Cardinality(Workers)

LEMMA FlyingFinite ==
  ASSUME NEW t
  PROVE  /\ Flying(t) \subseteq Workers /\ IsFiniteSet(Flying(t))
         /\ Cardinality(Flying(t)) \in Nat
         /\ Cardinality(Flying(t)) <= Cardinality(Workers)
         /\ Cardinality(Workers) \in Nat
<1>1. Flying(t) \in SUBSET Workers
  BY DEF Flying
<1> QED
  BY <1>1, FS_Subset, FS_CardinalityType, WorkersAssumption

(* A step that adds no child of t and lets nobody through with t.          *)
LEMMA SiblingsKept ==
  ASSUME SiblingsInv, NEW t \in Tokens, Children(t)' = Children(t),
         Flying(t)' \subseteq Flying(t)
  PROVE  /\ IsFiniteSet(Children(t))'
         /\ (Cardinality(Children(t)) + Cardinality(Flying(t)) <= Cardinality(Workers))'
<1>1. /\ IsFiniteSet(Flying(t)') /\ Cardinality(Flying(t)') \in Nat
      /\ Cardinality(Flying(t)') <= Cardinality(Flying(t))
  BY FlyingFinite, FS_Subset, FS_CardinalityType
<1>2. IsFiniteSet(Children(t)) /\ Cardinality(Children(t)) \in Nat
  BY FS_CardinalityType DEF SiblingsInv
<1> QED
  BY <1>1, <1>2, FlyingFinite DEF SiblingsInv

(* A token that is still unspent has no child.                             *)
LEMMA UnspentChildless ==
  ASSUME IInv, NEW t \in Tokens, t \notin Spent
  PROVE  Children(t) = {}
<1>1. \A n \in Tokens : parent[n] = t => parent[n] # None /\ t \in Spent
  BY DEF IInv, RotationConsistent, Spent
<1> QED
  BY <1>1 DEF Children

(* What one step does to the children of t and to those who may add one.   *)
LEMMA SiblingsStep ==
  ASSUME IInv, [Next]_vars, NEW t \in Tokens
  PROVE  \/ Children(t)' = Children(t) /\ Flying(t)' \subseteq Flying(t)
         \/ Children(t)' = {}
         \/ \E w \in Flying(t), n \in Tokens :
              /\ Children(t)' = Children(t) \cup {n}
              /\ Flying(t)' = Flying(t) \ {w}
<1>f. Flying(t) = {v \in Workers : Presented[v] = t}
  BY DEF Flying, Presented
<1>g. Flying(t)' = {v \in Workers : Presented'[v] = t}
  BY DEF Flying, Presented
<1>1. ASSUME UNCHANGED database
      PROVE  \/ Children(t)' = Children(t) /\ Flying(t)' \subseteq Flying(t)
             \/ Children(t)' = {}
  <2>1. Children(t)' = Children(t)
    BY <1>1 DEF database, Children
  <2>2. [Ledger!Next]_(Ledger!ledger)
    BY StepImplementsLedger
  <2>3. ASSUME NEW c \in Workers, NEW u \in Tokens, Ledger!Present(c, u)
        PROVE  \/ Children(t)' = {}
               \/ Flying(t)' \subseteq Flying(t)
    <3>1. u \notin Spent /\ Presented' = [Presented EXCEPT ![c] = u]
      BY <2>3 DEF Ledger!Present, Spent, Presented
    <3>2. CASE u = t
      BY <2>1, <3>1, <3>2, UnspentChildless
    <3>3. CASE u # t
      BY <1>f, <1>g, <3>1, <3>3 DEF Presented
    <3> QED
      BY <3>2, <3>3
  <2>4. ASSUME NEW c \in Workers, Presented' = [Presented EXCEPT ![c] = None]
        PROVE  Flying(t)' \subseteq Flying(t)
    BY <1>f, <1>g, <2>4 DEF Presented
  <2>5. ASSUME NEW c \in Workers, Ledger!Withdraw(c)
        PROVE  Flying(t)' \subseteq Flying(t)
    BY <2>4, <2>5 DEF Ledger!Withdraw, Presented
  <2>6. ASSUME NEW c \in Workers, NEW n \in Tokens, Ledger!Exchange(c, n)
        PROVE  Flying(t)' \subseteq Flying(t)
    BY <2>4, <2>6 DEF Ledger!Exchange, Presented
  <2>7. Presented' = Presented => Flying(t)' \subseteq Flying(t)
    BY <1>f, <1>g
  <2>8. ASSUME NEW n \in Tokens, NEW u \in Emails, Ledger!Grant(n, u)
        PROVE  Flying(t)' \subseteq Flying(t)
    BY <2>7, <2>8 DEF Ledger!Grant, Presented
  <2>9. ASSUME NEW n \in Tokens, Ledger!Revoke(n)
        PROVE  Flying(t)' \subseteq Flying(t)
    BY <2>7, <2>9 DEF Ledger!Revoke, Presented
  <2>10. UNCHANGED Ledger!ledger => Flying(t)' \subseteq Flying(t)
    BY <2>7 DEF Ledger!ledger, Presented
  <2>11. Children(t)' = {} \/ Flying(t)' \subseteq Flying(t)
    BY <2>2, <2>3, <2>5, <2>6, <2>8, <2>9, <2>10 DEF Ledger!Next
  <2> QED
    BY <2>1, <2>11
<1>2. ASSUME NEW w \in Workers, NEW answered \in BOOLEAN, Commit(w, answered)
      PROVE  \/ Children(t)' = Children(t) /\ Flying(t)' \subseteq Flying(t)
             \/ \E v \in Flying(t), n \in Tokens :
                  /\ Children(t)' = Children(t) \cup {n}
                  /\ Flying(t)' = Flying(t) \ {v}
  <2> DEFINE s == session[w]
             old == s.presented
  <2>1. s \in Session /\ SessionInv(s) /\ s.step = "commit"
    BY <1>2 DEF IInv, TypeOK, Commit
  <2>2. Presented' = [Presented EXCEPT ![w] = None]
    <3>1. InFlight(Closed) = None
      BY DEF Closed, InFlight
    <3> QED
      BY <1>2, <3>1, SessionReplaced DEF Commit, Close
  <2>3. Flying(t)' = Flying(t) \ {w}
    BY <1>f, <1>g, <2>2 DEF Presented
  <2>4. \A n \in Tokens : parent'[n] = IF n = s.new THEN old ELSE parent[n]
    BY <1>2 DEF Commit
  <2>5. CASE s.op = "refresh" /\ old = t
    <3>1. w \in Flying(t)
      BY <2>1, <2>5 DEF Flying, InFlight
    <3>2. PICK n \in Tokens : n = s.new
      BY <1>2, <2>5, CommittedRows
    <3>3. Children(t)' = Children(t) \cup {n}
      BY <2>4, <2>5, <3>2 DEF Children
    <3> QED
      BY <2>3, <3>1, <3>3
  <2>6. CASE ~(s.op = "refresh" /\ old = t)
    <3>1. s.new # None => s.new \in Tokens /\ parent[s.new] = None /\ old # t
      <4>1. s.new # None => s.new \in Tokens /\ ~Committed(s.new) /\ s.op \in {"login", "refresh"}
        BY <1>2, CommittedRows
      <4>2. s.op = "login" => old = None
        BY <2>1 DEF SessionInv, Has
      <4> QED
        BY <2>6, <4>1, <4>2 DEF IInv, TableInv
    <3>2. Children(t)' = Children(t)
      BY <2>4, <3>1 DEF Children
    <3> QED
      BY <2>3, <3>2
  <2> QED
    BY <2>5, <2>6
<1> QED
  BY <1>1, <1>2, OnlyCommitWrites

LEMMA SiblingsInductive == IInv /\ SiblingsInv /\ [Next]_vars => SiblingsInv'
<1> SUFFICES ASSUME IInv, SiblingsInv, [Next]_vars, NEW t \in Tokens
             PROVE  /\ IsFiniteSet(Children(t)')
                    /\ Cardinality(Children(t)') + Cardinality(Flying(t)')
                         <= Cardinality(Workers)
  BY DEF SiblingsInv
<1>1. /\ IsFiniteSet(Children(t)) /\ Cardinality(Children(t)) \in Nat
      /\ Cardinality(Children(t)) + Cardinality(Flying(t)) <= Cardinality(Workers)
  BY FS_CardinalityType DEF SiblingsInv
<1>2. CASE Children(t)' = Children(t) /\ Flying(t)' \subseteq Flying(t)
  BY <1>2, SiblingsKept
<1>3. CASE Children(t)' = {}
  <2>1. Flying(t)' \in SUBSET Workers
    BY DEF Flying
  <2> QED
    BY <1>3, <2>1, WorkersAssumption, FS_EmptySet, FS_Subset, FS_CardinalityType
<1>4. ASSUME NEW w \in Flying(t), NEW n \in Tokens,
             Children(t)' = Children(t) \cup {n}, Flying(t)' = Flying(t) \ {w}
      PROVE  /\ IsFiniteSet(Children(t)')
             /\ Cardinality(Children(t)') + Cardinality(Flying(t)')
                  <= Cardinality(Workers)
  <2>1. /\ IsFiniteSet(Children(t)')
        /\ Cardinality(Children(t)') \in Nat
        /\ Cardinality(Children(t)') <= Cardinality(Children(t)) + 1
    <3>1. /\ IsFiniteSet(Children(t) \cup {n})
          /\ Cardinality(Children(t) \cup {n}) <= Cardinality(Children(t)) + 1
      BY <1>1, FS_AddElement, SMTT(60)
    <3> QED
      BY <1>4, <3>1, FS_CardinalityType
  <2>2. Cardinality(Flying(t)') = Cardinality(Flying(t)) - 1
    BY <1>4, FlyingFinite, FS_RemoveElement
  <2> QED
    BY <1>1, <2>1, <2>2, FlyingFinite
<1> QED
  BY <1>2, <1>3, <1>4, SiblingsStep

(* A refresh token is exchanged at most once per worker                    *)
(* (auth_service.refresh lines 188-209), however many workers there are.   *)
THEOREM ChildrenBoundedByWorkers == Spec => []SiblingsBounded
<1>1. Init => SiblingsInv
  <2> SUFFICES ASSUME Init, NEW t \in Tokens
               PROVE  /\ IsFiniteSet(Children(t))
                      /\ Cardinality(Children(t)) + Cardinality(Flying(t))
                           <= Cardinality(Workers)
    BY DEF SiblingsInv
  <2>1. Children(t) = {}
    BY DEF Init, Children
  <2> QED
    BY <2>1, FlyingFinite, FS_EmptySet
<1>2. SiblingsInv => SiblingsBounded
  <2> SUFFICES ASSUME SiblingsInv, NEW t \in Tokens
               PROVE  Cardinality(Children(t)) <= Cardinality(Workers)
    BY DEF SiblingsBounded
  <2>1. Cardinality(Children(t)) \in Nat
    BY FS_CardinalityType DEF SiblingsInv
  <2> QED
    BY <2>1, FlyingFinite DEF SiblingsInv
<1> QED
  BY <1>1, <1>2, SiblingsInductive, Invariant, PTL DEF Spec
=============================================================================
