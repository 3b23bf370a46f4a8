---------------------------- MODULE AuthService ----------------------------
(***************************************************************************)
(* The three authentication flows of services/auth_service.py (register,   *)
(* login, refresh) and refresh_token_repository.revoke_refresh_token, each *)
(* run by a worker inside a transaction of its own (db/session.py          *)
(* get_session: commit on success, roll back on an exception, then close). *)
(*                                                                         *)
(* PostgreSQL runs the transactions at its default level READ COMMITTED:   *)
(* every query sees the rows committed when the query starts, a row that   *)
(* was read is not locked, and an INSERT that meets another transaction's  *)
(* uncommitted row in a unique index waits for that transaction to end.    *)
(* The sessions are created with autoflush=False, so the assignments       *)
(* refresh makes to the old row reach the database when get_session        *)
(* commits and not before.                                                 *)
(***************************************************************************)
EXTENDS Integers, FiniteSets

CONSTANTS
  Workers,        \* the threads that serve requests, one session each
  Addresses,      \* e-mail addresses as clients write them
  Emails,         \* lower-cased addresses, the values of users.email
  Lower,          \* str.lower() on Addresses
  Passwords,      \* plaintext passwords
  ShortPasswords, \* those shorter than MIN_PASSWORD_LENGTH
  Tokens,         \* raw refresh tokens that token_urlsafe may return (bound)
  Ttl,            \* jwt_refresh_ttl_seconds, in ticks of the clock
  MaxTime,        \* bound: the clock stops here
  NoRow,          \* no row with this key
  None            \* NULL

ASSUME ConstantsAssumption ==
  /\ Lower \in [Addresses -> Emails]
  /\ ShortPasswords \subseteq Passwords
  /\ Ttl \in Nat
  /\ MaxTime \in Nat
  /\ None \notin Tokens
  /\ None \notin Emails

ASSUME WorkersAssumption == IsFiniteSet(Workers)

(***************************************************************************)
(* Argon2 and SHA-256 are injective as far as the program can tell: a      *)
(* stored hash verifies exactly the password it was made from, and a row   *)
(* of refresh_tokens is found by exactly one raw token.  The table is      *)
(* therefore indexed by raw tokens, and a password hash is the password    *)
(* wrapped in its scheme, which no plaintext equals.                       *)
(***************************************************************************)
HashPassword(p) == [argon2id |-> p]
VerifyPassword(p, hash) == hash = HashPassword(p)

UserRow == [password_hash : [argon2id : Passwords]]

RefreshTokenRow ==
  [user : Emails, expires_at : 0 .. MaxTime + Ttl, revoked : BOOLEAN,
   rotated_to : Tokens \cup {None}]

ASSUME NoRowAssumption ==
  /\ NoRow \notin UserRow
  /\ NoRow \notin RefreshTokenRow

VARIABLES
  users,          \* committed rows of users, by email
  refresh_tokens, \* committed rows of refresh_tokens, by token
  session,        \* what each worker's request and open transaction hold
  generated,      \* every raw token generated so far, committed or not
  delivered,      \* the raw tokens that reached a client
  now,            \* the clock
  parent          \* history: the token each token was refreshed from

vars == <<users, refresh_tokens, session, generated, delivered, now, parent>>
database == <<users, refresh_tokens, parent>>

Steps == {"idle", "insert_user", "issue_tokens", "commit", "raised"}
Operations == {"none", "register", "login", "refresh", "revoke"}
Errors == {"none", "PasswordTooShortError", "DuplicateEmailError", "AuthError",
           "DatabaseError"}

Session ==
  [step : Steps, op : Operations, error : Errors,
   email : Emails \cup {None},            \* of the user the request is about
   password : Passwords \cup {None},
   presented : Tokens \cup {None},        \* the raw token of the request
   new : Tokens \cup {None},              \* the row this transaction inserted
   expires_at : 0 .. MaxTime + Ttl]

Closed ==
  [step |-> "idle", op |-> "none", error |-> "none", email |-> None,
   password |-> None, presented |-> None, new |-> None, expires_at |-> 0]

TypeOK ==
  /\ users \in [Emails -> UserRow \cup {NoRow}]
  /\ refresh_tokens \in [Tokens -> RefreshTokenRow \cup {NoRow}]
  /\ session \in [Workers -> Session]
  /\ generated \subseteq Tokens
  /\ delivered \subseteq Tokens
  /\ now \in 0 .. MaxTime
  /\ parent \in [Tokens -> Tokens \cup {None}]

Init ==
  /\ users = [e \in Emails |-> NoRow]
  /\ refresh_tokens = [t \in Tokens |-> NoRow]
  /\ session = [w \in Workers |-> Closed]
  /\ generated = {}
  /\ delivered = {}
  /\ now = 0
  /\ parent = [t \in Tokens |-> None]

Idle(w) == session[w].step = "idle"

\* A transaction is over: the session is closed, its objects forgotten.
Close(w) == session' = [session EXCEPT ![w] = Closed]

\* An exception leaves the flow; get_session will roll the transaction back.
Raise(w, op, error) ==
  session' = [session EXCEPT ![w] =
                [Closed EXCEPT !.step = "raised", !.op = op, !.error = error]]

Committed(t) == refresh_tokens[t] # NoRow

\* Mutant: the revoked column is not looked at.
ValidByExpiryOnly(t) ==
  Committed(t) /\ refresh_tokens[t].expires_at > now

\* refresh_token_repository.is_refresh_token_valid
Valid(t) ==
  /\ Committed(t)
  /\ ~refresh_tokens[t].revoked
  /\ refresh_tokens[t].expires_at > now

\* Bound: no request starts that could need a token when Tokens is used up.
TokensLeft ==
  Cardinality(Tokens \ generated)
    > Cardinality({w \in Workers : session[w].step = "issue_tokens"})

-----------------------------------------------------------------------------
(* register: the length is checked before the hash and before any query.   *)

Register(w, address, p) ==
  /\ Idle(w)
  /\ \/ /\ p \in ShortPasswords
        /\ Raise(w, "register", "PasswordTooShortError")
     \/ /\ p \notin ShortPasswords
        /\ session' = [session EXCEPT ![w] =
             [Closed EXCEPT !.step = "insert_user", !.op = "register",
                            !.email = Lower[address], !.password = p]]
  /\ UNCHANGED <<database, generated, delivered, now>>

\* Mutant: users.email is not unique, so no INSERT waits.
InsertingUnindexed(email) == {}

\* Mutant: an INSERT also waits for those that are still waiting.
InsertingOrWaiting(email) ==
  {w \in Workers : /\ session[w].op = "register"
                   /\ session[w].step \in {"insert_user", "commit"}
                   /\ session[w].email = email}

\* The transactions that inserted a user row which is not committed yet.
Inserting(email) ==
  {w \in Workers : /\ session[w].op = "register"
                   /\ session[w].step = "commit"
                   /\ session[w].email = email}

\* create_user: the flush waits while another transaction holds the email in
\* the unique index, then inserts or fails with IntegrityError.
InsertUser(w) ==
  LET email == session[w].email IN
  /\ session[w].step = "insert_user"
  /\ Inserting(email) = {}
  /\ \/ /\ users[email] = NoRow
        /\ session' = [session EXCEPT ![w].step = "commit"]
     \/ /\ users[email] # NoRow
        /\ Raise(w, "register", "DuplicateEmailError")
  /\ UNCHANGED <<database, generated, delivered, now>>

-----------------------------------------------------------------------------
(* login: unknown address and wrong password raise the same AuthError.     *)

PasswordMatches(email, p) ==
  users[email] # NoRow /\ VerifyPassword(p, users[email].password_hash)

Login(w, address, p) ==
  LET email == Lower[address] IN
  /\ Idle(w)
  /\ TokensLeft
  /\ \/ /\ PasswordMatches(email, p)
        /\ session' = [session EXCEPT ![w] =
             [Closed EXCEPT !.step = "issue_tokens", !.op = "login",
                            !.email = email, !.password = p]]
     \/ /\ ~PasswordMatches(email, p)
        /\ Raise(w, "login", "AuthError")
  /\ UNCHANGED <<database, generated, delivered, now>>

-----------------------------------------------------------------------------
(* refresh: a client presents a token it was given, or one nobody was      *)
(* given (None stands for any text whose digest is not in the table).      *)

Refresh(w, t) ==
  /\ Idle(w)
  /\ TokensLeft
  /\ t \in delivered \cup {None}
  /\ \/ /\ t # None /\ Valid(t)
        /\ session' = [session EXCEPT ![w] =
             [Closed EXCEPT !.step = "issue_tokens", !.op = "refresh",
                            !.presented = t]]
     \/ /\ ~(t # None /\ Valid(t))
        /\ Raise(w, "refresh", "AuthError")
  /\ UNCHANGED <<database, generated, delivered, now>>

\* Mutant: the owner is not read from the presented row.
OwnerFromRequest(s) == s.email

\* The owner of the new token: login found it by email, refresh loads the
\* presented row a second time and reads user_id (and nothing else) from it.
Owner(s) ==
  IF s.op = "refresh" THEN refresh_tokens[s.presented].user ELSE s.email

\* Mutant: the token is answered before the transaction is committed.
IssueTokensEarly(w, t) ==
  /\ session[w].step = "issue_tokens"
  /\ t \notin generated
  /\ generated' = generated \cup {t}
  /\ delivered' = delivered \cup {t}
  /\ session' = [session EXCEPT ![w].step = "commit",
                                ![w].email = Owner(session[w]),
                                ![w].new = t,
                                ![w].expires_at = now + Ttl]
  /\ UNCHANGED <<database, now>>

\* _issue_tokens: a fresh random token, its row inserted by a flush.
IssueTokens(w, t) ==
  /\ session[w].step = "issue_tokens"
  /\ t \notin generated
  /\ generated' = generated \cup {t}
  /\ session' = [session EXCEPT ![w].step = "commit",
                                ![w].email = Owner(session[w]),
                                ![w].new = t,
                                ![w].expires_at = now + Ttl]
  /\ UNCHANGED <<database, delivered, now>>

-----------------------------------------------------------------------------
(* revoke_refresh_token: an unknown token is no error.                     *)

Revoke(w, t) ==
  /\ Idle(w)
  /\ t \in delivered \cup {None}
  /\ session' = [session EXCEPT ![w] =
       [Closed EXCEPT !.step = "commit", !.op = "revoke",
                      !.presented = IF t # None /\ Committed(t) THEN t ELSE None]]
  /\ UNCHANGED <<database, generated, delivered, now>>

-----------------------------------------------------------------------------
(* get_session: the flush of the dirty rows and COMMIT.  The UPDATE takes  *)
(* the row lock, writes only the assigned columns and is followed by       *)
(* COMMIT at once, so the two are one step.                                *)

NewRow(s) ==
  [user |-> s.email, expires_at |-> s.expires_at, revoked |-> FALSE,
   rotated_to |-> None]

\* Mutants: the presented row is linked but not revoked; revoked but not
\* linked; given the lifetime of its successor.
WriteTokenUnrevoked(s, t, r) ==
  IF t = s.new THEN NewRow(s)
  ELSE IF t = s.presented /\ s.op = "refresh" THEN [r EXCEPT !.rotated_to = s.new]
  ELSE r

WriteTokenUnlinked(s, t, r) ==
  IF t = s.new THEN NewRow(s)
  ELSE IF t = s.presented THEN [r EXCEPT !.revoked = TRUE]
  ELSE r

WriteTokenSliding(s, t, r) ==
  IF t = s.new THEN NewRow(s)
  ELSE IF t = s.presented
    THEN [r EXCEPT !.revoked = TRUE,
                   !.expires_at = IF s.op = "refresh" THEN s.expires_at ELSE @,
                   !.rotated_to = IF s.op = "refresh" THEN s.new ELSE @]
  ELSE r

\* What transaction s makes of the row of token t, which is r when it commits.
WriteToken(s, t, r) ==
  IF t = s.new THEN NewRow(s)
  ELSE IF t = s.presented
    THEN [r EXCEPT !.revoked = TRUE,
                   !.rotated_to = IF s.op = "refresh" THEN s.new ELSE @]
  ELSE r

WriteUser(s, e, r) ==
  IF s.op = "register" /\ e = s.email
    THEN [password_hash |-> HashPassword(s.password)]
    ELSE r

\* The answer may be lost on its way after COMMIT: then answered is FALSE.
Commit(w, answered) ==
  LET s == session[w] IN
  /\ s.step = "commit"
  /\ users' = [e \in Emails |-> WriteUser(s, e, users[e])]
  /\ refresh_tokens' = [t \in Tokens |-> WriteToken(s, t, refresh_tokens[t])]
  /\ delivered' = IF answered THEN delivered \cup ({s.new} \ {None}) ELSE delivered
  /\ parent' = [t \in Tokens |-> IF t = s.new THEN s.presented ELSE parent[t]]
  /\ Close(w)
  /\ UNCHANGED <<generated, now>>

\* An exception rolled the transaction back and is answered to the client.
Rollback(w) ==
  /\ session[w].step = "raised"
  /\ Close(w)
  /\ UNCHANGED <<database, generated, delivered, now>>

\* A statement or COMMIT fails, or the process dies: what was not committed
\* is gone (a crash is this step in every open session).
Fail(w) ==
  /\ session[w].step \in {"insert_user", "issue_tokens", "commit"}
  /\ Raise(w, session[w].op, "DatabaseError")
  /\ UNCHANGED <<database, generated, delivered, now>>

Tick ==
  /\ now < MaxTime
  /\ now' = now + 1
  /\ UNCHANGED <<database, session, generated, delivered>>

-----------------------------------------------------------------------------
Request(w) ==
  \/ \E a \in Addresses, p \in Passwords : Register(w, a, p) \/ Login(w, a, p)
  \/ \E t \in Tokens \cup {None} : Refresh(w, t) \/ Revoke(w, t)

Proceed(w) ==
  \/ InsertUser(w)
  \/ \E t \in Tokens : IssueTokens(w, t)
  \/ \E answered \in BOOLEAN : Commit(w, answered)
  \/ Rollback(w)

Next == Tick \/ \E w \in Workers : Request(w) \/ Proceed(w) \/ Fail(w)

Spec == Init /\ [][Next]_vars

\* A worker that has begun a request is scheduled until the request ends, and
\* a waiter of the unique index is not overtaken for ever: PostgreSQL wakes it
\* when the transaction it waits for ends.
FairSpec ==
  /\ Spec
  /\ \A w \in Workers : WF_vars(Proceed(w)) /\ SF_vars(InsertUser(w))

-----------------------------------------------------------------------------
(* Rows that are related by a rotation stay consistent however refreshes,  *)
(* revocations, failures and the clock interleave: a row that names a      *)
(* replacement is revoked, the replacement is a committed row of the same  *)
(* user that came from it and that expires no earlier; and every row that  *)
(* came from another was inserted in a transaction that revoked that other *)
(* row and linked it (auth_service.refresh lines 199-209).                 *)
RotationConsistent ==
  \A t \in Tokens :
    /\ Committed(t) /\ refresh_tokens[t].rotated_to # None =>
         LET next == refresh_tokens[t].rotated_to IN
         /\ refresh_tokens[t].revoked
         /\ parent[next] = t
         /\ Committed(next)
    /\ parent[t] # None =>
         LET old == refresh_tokens[parent[t]] IN
         /\ parent[t] # t
         /\ Committed(t) /\ Committed(parent[t])
         /\ old.revoked /\ old.rotated_to # None
         /\ old.user = refresh_tokens[t].user
         /\ old.expires_at <= refresh_tokens[t].expires_at

(* A raw token that reached a client is in the table, under an owner that  *)
(* is in users: nothing is handed out from a transaction that rolled back, *)
(* and only registered users get tokens.                                   *)
DeliveredArePersisted ==
  /\ \A t \in delivered : Committed(t)
  /\ \A t \in Tokens : Committed(t) => users[refresh_tokens[t].user] # NoRow

Children(t) == {n \in Tokens : parent[n] = t}

(* A refresh token is exchanged at most once per worker: a refresh that    *)
(* starts after another one has committed is refused, so only requests     *)
(* that had already been let through can still use the token.  With one    *)
(* worker this is the single use auth_service.py promises.                 *)
SiblingsBounded ==
  \A t \in Tokens : Cardinality(Children(t)) <= Cardinality(Workers)

(* "Refresh tokens are single-use" (auth_service.py:14).                   *)
SingleUse == \A t \in Tokens : Cardinality(Children(t)) <= 1

\* The token a refresh under way was let through with.
InFlight(s) ==
  IF s.op = "refresh" /\ s.step \in {"issue_tokens", "commit"} THEN s.presented ELSE None

(* The transactions of the workers implement the ledger of TokenLedger, in *)
(* which each operation is one atomic step: the check of a refresh maps to *)
(* Present, a commit to Grant, Exchange or Revoke, a failure of a refresh  *)
(* to Withdraw and every other step to a stutter.                          *)
Ledger == INSTANCE TokenLedger WITH
  Users <- Emails,
  Clients <- Workers,
  owner <- [t \in Tokens |->
              IF Committed(t) THEN refresh_tokens[t].user ELSE None],
  spent <- {t \in Tokens : Committed(t) /\ refresh_tokens[t].revoked},
  successor <- [t \in Tokens |->
                  IF Committed(t) THEN refresh_tokens[t].rotated_to ELSE None],
  presented <- [w \in Workers |-> InFlight(session[w])]

ImplementsLedger == Ledger!Spec

(* No transaction brings a token back: a row is never deleted, handed to   *)
(* another user, given more time or un-revoked, whatever it was when the   *)
(* transaction that writes it had read it.                                 *)
TokensOnlyAge ==
  [][\A t \in Tokens : Committed(t) =>
       /\ Committed(t)'
       /\ refresh_tokens'[t].user = refresh_tokens[t].user
       /\ refresh_tokens'[t].expires_at = refresh_tokens[t].expires_at
       /\ refresh_tokens[t].revoked => refresh_tokens'[t].revoked]_vars

(* The first registration of an address wins: two registrations that race, *)
(* in any spelling of the address, never overwrite each other's password.  *)
FirstRegistrationWins ==
  [][\A e \in Emails : users[e] # NoRow => users'[e] = users[e]]_vars

(* Every request ends, also those that wait for another transaction to     *)
(* leave the unique index on users.email.                                  *)
RequestsEnd == \A w \in Workers : ~Idle(w) ~> Idle(w)
=============================================================================
