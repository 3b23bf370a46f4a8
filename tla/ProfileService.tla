-------------------------- MODULE ProfileService --------------------------
(***************************************************************************)
(* services/profile_service.py and repositories/profile_repository.py: a   *)
(* user's profile is created blank on first access, and an update writes   *)
(* its seven sections and the completion percentage.                       *)
(*                                                                         *)
(* Each request is a transaction of its own at READ COMMITTED.  The ORM    *)
(* compares every assigned attribute with the value it loaded and puts     *)
(* only the changed columns into the UPDATE; the UPDATE locks the row      *)
(* until the transaction ends, the SELECT before it locks nothing.         *)
(***************************************************************************)
EXTENDS ProfileRules

CONSTANTS
  Workers,  \* the threads that serve requests, one session each
  Users,    \* owners of profiles, and requesters
  Asked,    \* bound: the users whose profiles are asked for
  Active,   \* bound: the sections requests fill (they omit the others)
  Contents, \* non-empty values of a section
  Blank,    \* a skills list whose entries are all blank
  TooLong,  \* a text above its maximum length
  NoRow     \* no profile yet

ASSUME ConstantsAssumption ==
  /\ Active \subseteq Sections /\ Asked \subseteq Users
  /\ {None, Empty, Blank, TooLong} \cap Contents = {}
  /\ None # Empty /\ Blank \notin {None, Empty} /\ TooLong \notin {None, Empty, Blank}

Stored == {None, Empty} \cup Contents

Profile == [sections : [Sections -> Stored], completion_percentage : 0 .. 100]

ASSUME NoRowAssumption == NoRow \notin Profile

\* ProfileUpdateRequest: a section that is not Active is omitted (None).
Given(s) ==
  Stored \cup (IF s = "skills" THEN {Blank} ELSE {})
         \cup (IF s \in Texts THEN {TooLong} ELSE {})

Requests ==
  {d \in [Sections -> Stored \cup {Blank, TooLong}] :
     \A s \in Sections : IF s \in Active THEN d[s] \in Given(s) ELSE d[s] = None}

VARIABLES
  profiles,  \* committed rows of profiles, by user_id
  session,   \* what each worker's request and open transaction hold
  overlapped \* history: profiles updated over a row the update had not read

vars == <<profiles, session, overlapped>>

Session ==
  [step : {"idle", "flush", "commit", "raised"},
   op : {"none", "get", "update"},
   error : {"none", "ProfileAuthorizationError", "ProfileValidationError",
            "IntegrityError", "DatabaseError"},
   requester : Users \cup {None},
   user : Users \cup {None},
   loaded : Profile \cup {NoRow},  \* the row as the SELECT returned it
   target : Profile \cup {NoRow},  \* the row object after the assignments
   dirty : SUBSET Columns]         \* columns of the flushed statement

Closed ==
  [step |-> "idle", op |-> "none", error |-> "none", requester |-> None,
   user |-> None, loaded |-> NoRow, target |-> NoRow, dirty |-> {}]

TypeOK ==
  /\ profiles \in [Users -> Profile \cup {NoRow}]
  /\ session \in [Workers -> Session]
  /\ overlapped \subseteq Users

Init ==
  /\ profiles = [u \in Users |-> NoRow]
  /\ session = [w \in Workers |-> Closed]
  /\ overlapped = {}

Idle(w) == session[w].step = "idle"

Raise(w, op, error) ==
  session' = [session EXCEPT ![w] =
                [Closed EXCEPT !.step = "raised", !.op = op, !.error = error]]

-----------------------------------------------------------------------------
BlankProfile ==
  [sections |-> [s \in Sections |-> IF s \in Texts THEN None ELSE Empty],
   completion_percentage |-> 0]

\* get_profile: ownership, then the SELECT, then the INSERT of a blank row.
Get(w, requester, owner) ==
  /\ Idle(w)
  /\ \/ requester # owner /\ Raise(w, "get", "ProfileAuthorizationError")
     \/ /\ requester = owner
        /\ session' = [session EXCEPT ![w] =
             [step |-> IF profiles[owner] = NoRow THEN "flush" ELSE "commit",
              op |-> "get", error |-> "none", requester |-> requester, user |-> owner,
              loaded |-> profiles[owner],
              target |-> IF profiles[owner] = NoRow THEN BlankProfile
                                                    ELSE profiles[owner],
              dirty |-> {}]]
  /\ UNCHANGED <<profiles, overlapped>>

\* Mutant: only the list itself is tested, not what normalisation leaves of it.
AcceptedUnnormalized(d) ==
  /\ \A s \in Texts : d[s] # TooLong
  /\ d["skills"] # Empty

\* The checks of update_profile, all made before any query.  full_name, which is
\* checked like headline and then dropped, is no text of the model: a refusal for
\* its length is the same as for that of another text.
Accepted(d) ==
  /\ \A s \in Texts : d[s] # TooLong
  /\ d["skills"] \notin {Empty, Blank}

\* ProfileUpdateData: an omitted list is replaced by an empty one.
Applied(d) == [s \in Sections |-> IF s \notin Texts /\ d[s] = None THEN Empty ELSE d[s]]

\* update_profile: the SELECT and the assignments to the row object.
Update(w, requester, owner, d) ==
  /\ Idle(w)
  /\ \/ requester # owner /\ Raise(w, "update", "ProfileAuthorizationError")
     \/ /\ requester = owner /\ ~Accepted(d)
        /\ Raise(w, "update", "ProfileValidationError")
     \/ /\ requester = owner /\ Accepted(d)
        /\ session' = [session EXCEPT ![w] =
             [step |-> "flush", op |-> "update", error |-> "none",
              requester |-> requester, user |-> owner,
              loaded |-> profiles[owner],
              target |-> [sections |-> Applied(d),
                          completion_percentage |-> CompletionPercentage(Applied(d))],
              dirty |-> {}]]
  /\ UNCHANGED <<profiles, overlapped>>

\* Mutant: the percentage is not written when only the sections change.
ChangedSections(s) ==
  IF s.loaded = NoRow THEN Columns
  ELSE {c \in Sections : s.target.sections[c] # s.loaded.sections[c]}

\* The columns the ORM finds changed; an INSERT writes them all.
Changed(s) ==
  IF s.loaded = NoRow THEN Columns
  ELSE {c \in Sections : s.target.sections[c] # s.loaded.sections[c]}
       \cup (IF s.target.completion_percentage # s.loaded.completion_percentage
               THEN {"completion_percentage"} ELSE {})

\* Mutant: a statement waits for every transaction that wants the row.
HoldingOrWaiting(u) ==
  {w \in Workers : session[w].user = u /\ session[w].step \in {"flush", "commit"}}

\* The transactions that hold the row of user u, or its key in the index.
Holding(u) ==
  {w \in Workers : session[w].user = u /\ session[w].step = "commit"
                   /\ session[w].dirty # {}}

\* Mutant: INSERT ... ON CONFLICT DO UPDATE.
FlushOverwriting(w) ==
  LET s == session[w] IN
  /\ s.step = "flush"
  /\ Changed(s) # {} => Holding(s.user) = {}
  /\ session' = [session EXCEPT ![w].step = "commit", ![w].dirty = Changed(s)]
  /\ UNCHANGED <<profiles, overlapped>>

\* flush: waits for the row, then INSERT or UPDATE.  An INSERT that finds the
\* user_id taken raises IntegrityError, which nothing handles.
Flush(w) ==
  LET s == session[w] IN
  /\ s.step = "flush"
  /\ Changed(s) # {} => Holding(s.user) = {}
  /\ \/ /\ s.loaded = NoRow /\ profiles[s.user] # NoRow
        /\ Raise(w, s.op, "IntegrityError")
     \/ /\ ~(s.loaded = NoRow /\ profiles[s.user] # NoRow)
        /\ session' = [session EXCEPT ![w].step = "commit", ![w].dirty = Changed(s)]
  /\ UNCHANGED <<profiles, overlapped>>

\* The row after the statement of s: its columns over the row that is there.
Written(s, row) ==
  IF s.loaded = NoRow THEN s.target
  ELSE [sections |-> [c \in Sections |-> IF c \in s.dirty THEN s.target.sections[c]
                                                          ELSE row.sections[c]],
        completion_percentage |->
          IF "completion_percentage" \in s.dirty THEN s.target.completion_percentage
                                                 ELSE row.completion_percentage]

Commit(w) ==
  LET s == session[w] IN
  /\ s.step = "commit"
  /\ IF s.dirty = {} THEN UNCHANGED <<profiles, overlapped>>
     ELSE /\ profiles' = [profiles EXCEPT ![s.user] = Written(s, @)]
          /\ overlapped' = IF profiles[s.user] = s.loaded THEN overlapped
                                                          ELSE overlapped \cup {s.user}
  /\ session' = [session EXCEPT ![w] = Closed]

Rollback(w) ==
  /\ session[w].step = "raised"
  /\ session' = [session EXCEPT ![w] = Closed]
  /\ UNCHANGED <<profiles, overlapped>>

\* A statement or COMMIT fails, or the process dies.
Fail(w) ==
  /\ session[w].step \in {"flush", "commit"}
  /\ Raise(w, session[w].op, "DatabaseError")
  /\ UNCHANGED <<profiles, overlapped>>

-----------------------------------------------------------------------------
Request(w) ==
  \E requester \in Users, owner \in Asked :
    \/ Get(w, requester, owner)
    \/ \E d \in Requests : Update(w, requester, owner, d)

Proceed(w) == Flush(w) \/ Commit(w) \/ Rollback(w)

Next == \E w \in Workers : Request(w) \/ Proceed(w) \/ Fail(w)

Spec == Init /\ [][Next]_vars

\* Threads are scheduled, and PostgreSQL wakes the waiters of a row lock when
\* its holder ends, so no waiter is overtaken for ever.
FairSpec ==
  /\ Spec
  /\ \A w \in Workers : WF_vars(Proceed(w)) /\ SF_vars(Flush(w))

-----------------------------------------------------------------------------
Matches(p) == p.completion_percentage = CompletionPercentage(p.sections)

(* The stored percentage is that of the stored sections for every profile  *)
(* whose updates each wrote over the row they had read, in whatever order  *)
(* they were made and whichever of them failed.                            *)
MatchesUnlessOverlapped ==
  \A u \in Users : profiles[u] # NoRow /\ u \notin overlapped => Matches(profiles[u])

(* A stored profile changes only by an update that its owner asked for     *)
(* ("never touches another user's row", profile_repository.py:145).  A     *)
(* first access never costs data: the blank row a get inserts never        *)
(* replaces a row another request created after the get had looked.        *)
OnlyOwnUpdatesOverwrite ==
  [][\A u \in Users : profiles[u] # NoRow /\ profiles'[u] # profiles[u] =>
       \E w \in Workers : /\ session[w].step = "commit" /\ session'[w].step = "idle"
                          /\ session[w].op = "update" /\ session[w].requester = u]_vars

(* Two updates of one profile never block each other for good.             *)
RequestsEnd == \A w \in Workers : ~Idle(w) ~> Idle(w)

-----------------------------------------------------------------------------
(* What the texts of the repository say, and the code does not do.         *)

(* completion_percentage is "recomputed on every update as a deterministic *)
(* function of populated sections" (specs/stories/E3-S1.md:16).            *)
CompletionMatches == \A u \in Users : profiles[u] # NoRow => Matches(profiles[u])
=============================================================================
