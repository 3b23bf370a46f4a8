---------------------------- MODULE ResumeStore ----------------------------
(***************************************************************************)
(* repositories/resume_repository.py over storage/local_storage.py: a      *)
(* resume is a row of resumes and a file in a local volume.  The row       *)
(* belongs to the transaction of the request (db/session.py get_session),  *)
(* the file to nobody: what is done to it stays done when the transaction  *)
(* rolls back or the process dies.                                         *)
(*                                                                         *)
(* Each save draws two random UUIDs, the row's id and the storage key.     *)
(* They are unique together, so one key of Keys stands for both.           *)
(***************************************************************************)
EXTENDS Integers, FiniteSets

CONSTANTS
  Workers,  \* the threads that serve requests, one session each
  Users,    \* owners of resumes, and requesters
  Keys,     \* UUIDs that uuid4 may return (bound on the number of saves)
  Contents, \* file contents; SHA-256 tells them apart
  Rejected, \* contents that are too large or come with a disallowed MIME type
  NoBytes,  \* the empty file
  NoRow, NoFile, Partial, None

ASSUME ConstantsAssumption ==
  /\ Rejected \subseteq Contents /\ NoBytes \in Contents \ Rejected
  /\ {NoFile, Partial} \cap Contents = {} /\ NoFile # Partial
  /\ None \notin Users \cup Keys \cup Contents

Row == [user : Users, content : Contents]

ASSUME NoRowAssumption == NoRow \notin Row

VARIABLES
  resumes,  \* committed rows of resumes, by key
  files,    \* what the storage volume holds under each key
  session,  \* what each worker's request and open transaction hold
  drawn,    \* keys that were generated so far
  saved,    \* history: keys whose row was ever committed
  unlinked  \* history: keys whose file a delete removed

vars == <<resumes, files, session, drawn, saved, unlinked>>

Steps == {"idle", "write", "insert", "exists", "unlink", "delete_row", "commit", "raised"}

Errors == {"none", "InvalidUpload", "IntegrityError", "FileNotFoundError", "OSError",
           "DatabaseError"}

Session ==
  [step : Steps, op : {"none", "save", "delete"}, error : Errors,
   user : Users \cup {None}, key : Keys \cup {None}, content : Contents \cup {None}]

Closed ==
  [step |-> "idle", op |-> "none", error |-> "none", user |-> None, key |-> None,
   content |-> None]

TypeOK ==
  /\ resumes \in [Keys -> Row \cup {NoRow}]
  /\ files \in [Keys -> Contents \cup {NoFile, Partial}]
  /\ session \in [Workers -> Session]
  /\ drawn \subseteq Keys
  /\ saved \subseteq Keys
  /\ unlinked \subseteq Keys

Init ==
  /\ resumes = [k \in Keys |-> NoRow]
  /\ files = [k \in Keys |-> NoFile]
  /\ session = [w \in Workers |-> Closed]
  /\ drawn = {}
  /\ saved = {}
  /\ unlinked = {}

Idle(w) == session[w].step = "idle"

Raise(w, op, error) ==
  session' = [session EXCEPT ![w] =
                [Closed EXCEPT !.step = "raised", !.op = op, !.error = error]]

GoTo(w, step) == session' = [session EXCEPT ![w].step = step]

\* Mutant: statements also wait for those that are still waiting.
HoldersOrWaiting ==
  {w \in Workers : session[w].step \in {"insert", "delete_row", "commit"}
                   /\ session[w].key # None}

\* Transactions with an uncommitted insert of a row, or delete of one that is there.
Holders ==
  {w \in Workers : /\ session[w].step = "commit" /\ session[w].key # None
                   /\ session[w].op = "delete" => resumes[session[w].key] # NoRow}

-----------------------------------------------------------------------------
(* save_resume: validation, then the file, then the row.                   *)

Save(w, u, c) ==
  /\ Idle(w)
  /\ \/ /\ c \in Rejected
        /\ Raise(w, "save", "InvalidUpload")
        /\ UNCHANGED drawn
     \/ /\ c \notin Rejected
        /\ \E k \in Keys \ drawn :
             /\ drawn' = drawn \cup {k}
             /\ session' = [session EXCEPT ![w] =
                  [step |-> "write", op |-> "save", error |-> "none", user |-> u,
                   key |-> k, content |-> c]]
  /\ UNCHANGED <<resumes, files, saved, unlinked>>

StoreFile(w) ==
  LET s == session[w] IN
  /\ s.step = "write"
  /\ files' = [files EXCEPT ![s.key] = s.content]
  /\ GoTo(w, "insert")
  /\ UNCHANGED <<resumes, drawn, saved, unlinked>>

\* Mutant: a failed write is logged and swallowed.
StoreFailsSilently(w) ==
  LET s == session[w] IN
  /\ s.step = "write"
  /\ \E left \in {NoFile, Partial} : files' = [files EXCEPT ![s.key] = left]
  /\ GoTo(w, "insert")
  /\ UNCHANGED <<resumes, drawn, saved, unlinked>>

\* write_bytes truncates, then writes: an error or a crash may come in between.
StoreFails(w) ==
  LET s == session[w] IN
  /\ s.step = "write"
  /\ \E left \in {NoFile, Partial} : files' = [files EXCEPT ![s.key] = left]
  /\ Raise(w, "save", "OSError")
  /\ UNCHANGED <<resumes, drawn, saved, unlinked>>

Insertable(s) ==
  /\ s.content # NoBytes  \* CHECK (size_bytes >= 1)
  /\ \A k \in Keys : resumes[k] # [user |-> s.user, content |-> s.content]

\* Mutant: a SELECT for the hash takes the place of the unique index.
InsertRowUnindexed(w) ==
  LET s == session[w] IN
  /\ s.step = "insert"
  /\ IF Insertable(s) THEN GoTo(w, "commit") ELSE Raise(w, "save", "IntegrityError")
  /\ UNCHANGED <<resumes, files, drawn, saved, unlinked>>

\* flush: the INSERT waits for the transactions that hold its entry of the
\* unique index on (user_id, file_hash).
InsertRow(w) ==
  LET s == session[w] IN
  /\ s.step = "insert"
  /\ \A v \in Holders : session[v].user # s.user \/ session[v].content # s.content
  /\ IF Insertable(s) THEN GoTo(w, "commit") ELSE Raise(w, "save", "IntegrityError")
  /\ UNCHANGED <<resumes, files, drawn, saved, unlinked>>

-----------------------------------------------------------------------------
(* delete_resume: an unknown resume, or another user's, is no error.       *)

\* The rows the SELECT of user u for key k matches.
Found(u, k) == resumes[k] # NoRow /\ resumes[k].user = u

\* Mutant: the file is left to a clean-up that does not exist.
DeleteRowOnly(w, u, k) ==
  /\ Idle(w)
  /\ session' = [session EXCEPT ![w] =
       IF Found(u, k)
         THEN [step |-> "delete_row", op |-> "delete", error |-> "none", user |-> u,
               key |-> k, content |-> resumes[k].content]
         ELSE [Closed EXCEPT !.step = "commit", !.op = "delete"]]
  /\ UNCHANGED <<resumes, files, drawn, saved, unlinked>>

Delete(w, u, k) ==
  /\ Idle(w)
  /\ session' = [session EXCEPT ![w] =
       IF Found(u, k)
         THEN [step |-> "exists", op |-> "delete", error |-> "none", user |-> u,
               key |-> k, content |-> resumes[k].content]
         ELSE [Closed EXCEPT !.step = "commit", !.op = "delete"]]
  /\ UNCHANGED <<resumes, files, drawn, saved, unlinked>>

\* LocalStorage.delete: path.exists(), then path.unlink().
FileExists(w) ==
  LET s == session[w] IN
  /\ s.step = "exists"
  /\ GoTo(w, IF files[s.key] = NoFile THEN "delete_row" ELSE "unlink")
  /\ UNCHANGED <<resumes, files, drawn, saved, unlinked>>

Unlink(w) ==
  LET s == session[w] IN
  /\ s.step = "unlink"
  /\ IF files[s.key] = NoFile
       THEN Raise(w, "delete", "FileNotFoundError") /\ UNCHANGED <<files, unlinked>>
       ELSE /\ files' = [files EXCEPT ![s.key] = NoFile]
            /\ unlinked' = unlinked \cup {s.key}
            /\ GoTo(w, "delete_row")
  /\ UNCHANGED <<resumes, drawn, saved>>

\* flush: the DELETE waits for the row; that it finds none is only warned of.
DeleteRow(w) ==
  LET s == session[w] IN
  /\ s.step = "delete_row"
  /\ \A v \in Holders : session[v].key # s.key
  /\ GoTo(w, "commit")
  /\ UNCHANGED <<resumes, files, drawn, saved, unlinked>>

-----------------------------------------------------------------------------
\* Mutant: a delete blanks the row and leaves it.
WrittenSoft(s, k) ==
  IF k # s.key THEN resumes[k]
  ELSE IF s.op = "save" THEN [user |-> s.user, content |-> s.content]
  ELSE [user |-> s.user, content |-> None]

\* What the transaction s makes of the row of key k.
Written(s, k) ==
  IF k # s.key THEN resumes[k]
  ELSE IF s.op = "save" THEN [user |-> s.user, content |-> s.content]
  ELSE NoRow

Commit(w) ==
  LET s == session[w] IN
  /\ s.step = "commit"
  /\ resumes' = [k \in Keys |-> Written(s, k)]
  /\ saved' = IF s.op = "save" THEN saved \cup {s.key} ELSE saved
  /\ session' = [session EXCEPT ![w] = Closed]
  /\ UNCHANGED <<files, drawn, unlinked>>

Rollback(w) ==
  /\ session[w].step = "raised"
  /\ session' = [session EXCEPT ![w] = Closed]
  /\ UNCHANGED <<resumes, files, drawn, saved, unlinked>>

\* A statement, COMMIT or a system call fails before it took effect, or the
\* process dies; a crash is this step in every open session.
Fail(w) ==
  /\ session[w].step \in {"insert", "exists", "unlink", "delete_row", "commit"}
  /\ Raise(w, session[w].op, "DatabaseError")
  /\ UNCHANGED <<resumes, files, drawn, saved, unlinked>>

-----------------------------------------------------------------------------
Request(w) ==
  \E u \in Users : (\E c \in Contents : Save(w, u, c)) \/ (\E k \in Keys : Delete(w, u, k))

Proceed(w) ==
  \/ StoreFile(w) \/ StoreFails(w) \/ InsertRow(w)
  \/ FileExists(w) \/ Unlink(w) \/ DeleteRow(w)
  \/ Commit(w) \/ Rollback(w)

Next == \E w \in Workers : Request(w) \/ Proceed(w) \/ Fail(w)

Spec == Init /\ [][Next]_vars

\* Threads are scheduled, and PostgreSQL wakes the waiters of a lock when its
\* holder ends, so no waiter is overtaken for ever.
FairSpec ==
  /\ Spec
  /\ \A w \in Workers :
       WF_vars(Proceed(w)) /\ SF_vars(InsertRow(w)) /\ SF_vars(DeleteRow(w))

-----------------------------------------------------------------------------
(* A user never has two resumes with the same content, however uploads and *)
(* deletes of it race: get_resume_by_hash finds the one there is.          *)
StoredOnce ==
  \A j, k \in Keys : resumes[j] # NoRow /\ resumes[j] = resumes[k] => j = k

(* Saving orders the two writes so that a row is visible only when its     *)
(* whole file is: the file behind a committed row is complete until a      *)
(* delete of that resume gets past storage.delete.                         *)
RowsAreReadable ==
  \A k \in Keys : resumes[k] # NoRow /\ k \notin unlinked => files[k] = resumes[k].content

(* Deleting orders them so that a file never outlives a row that was       *)
(* there: once the row of a saved resume is gone, its file is, for good.   *)
DeletedIsGone ==
  \A k \in saved : resumes[k] = NoRow => files[k] = NoFile

\* What can be read under a key: a row of which no delete has taken the file.
Readable(k) ==
  IF resumes[k] # NoRow /\ k \notin unlinked
    THEN [user |-> resumes[k].user, content |-> files[k]] ELSE NoRow

\* What the transaction s is still to do.
Pending(s) ==
  IF s.op = "save" /\ s.step \in {"write", "insert", "commit"}
    THEN [op |-> "add", user |-> s.user, key |-> s.key, content |-> s.content]
  ELSE IF s.step \in {"exists", "unlink"}
    THEN [op |-> "remove", user |-> s.user, key |-> s.key]
  ELSE [op |-> "none"]

(* Rows and files together implement the library of ResumeLibrary: the     *)
(* COMMIT of save_resume puts the whole file that was uploaded within      *)
(* reach, storage.delete takes it away for the owner of the row, wherever  *)
(* other requests, failures and crashes come in between, and nothing else  *)
(* changes what a user can read.                                           *)
Library == INSTANCE ResumeLibrary WITH
  Clients <- Workers,
  NoResume <- NoRow,
  shelf <- [k \in Keys |-> Readable(k)],
  used <- saved,
  request <- [w \in Workers |-> Pending(session[w])]

ImplementsLibrary == Library!Spec

(* Every request ends: uploads and deletes that wait for each other's rows *)
(* never wait for ever.                                                    *)
RequestsEnd == \A w \in Workers : ~Idle(w) ~> Idle(w)

-----------------------------------------------------------------------------
(* What the texts of the repository say, and the code does not do.         *)

Working(k) == \E w \in Workers : session[w].key = k

(* "file removal via the storage interface is sequenced so the DB row and  *)
(* file stay consistent" (backend-architecture.md:391-392): when nobody    *)
(* works on a resume, a row has its file.                                  *)
RowsHaveFiles == \A k \in Keys : ~Working(k) /\ resumes[k] # NoRow => files[k] # NoFile

(* "No-op if already deleted" (local_storage.py:34).                       *)
DeleteIsNoOpWhenGone == \A w \in Workers : session[w].error # "FileNotFoundError"
=============================================================================
