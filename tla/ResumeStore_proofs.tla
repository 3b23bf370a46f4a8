------------------------- MODULE ResumeStore_proofs -------------------------
(***************************************************************************)
(* Safety of ResumeStore for every set of workers, users, keys and         *)
(* contents, and the proof that it implements ResumeLibrary.               *)
(*                                                                         *)
(* None of the three properties is inductive: what a commit does to the    *)
(* rows was prepared in earlier steps, in the open transaction and in the  *)
(* volume.  SaveInv and DeleteInv say what a request has done so far and   *)
(* what it found that is still true, SavesDistinct that two uploads in     *)
(* progress never meet in a key or, once their rows are inserted, in an    *)
(* entry of the unique index.                                              *)
(***************************************************************************)
EXTENDS ResumeStore, TLAPS

USE ConstantsAssumption, NoRowAssumption

Doing(w, op, steps) == session[w].op = op /\ session[w].step \in steps

\* A save in progress: its key is fresh, and before its row is inserted its
\* file is complete.
SaveInv(w) ==
  LET s == session[w] IN
  /\ s.step \in {"write", "insert"} => s.op = "save"
  /\ Doing(w, "save", {"write", "insert", "commit"}) =>
       /\ s.key \in drawn \ saved
       /\ s.user \in Users /\ s.content \in Contents
  /\ Doing(w, "save", {"insert", "commit"}) => files[s.key] = s.content
  /\ Doing(w, "save", {"commit"}) =>
       \A k \in Keys : resumes[k] # [user |-> s.user, content |-> s.content]

\* A delete in progress: the row it found is still that one, or gone, and
\* before it deletes the row the file is gone.
DeleteInv(w) ==
  LET s == session[w] IN
  /\ s.step \in {"exists", "unlink", "delete_row"} => s.op = "delete" /\ s.key # None
  /\ s.step = "commit" => s.op \in {"save", "delete"}
  /\ Doing(w, "delete", {"exists", "unlink", "delete_row", "commit"}) /\ s.key # None =>
       /\ s.key \in saved
       /\ resumes[s.key] \in {NoRow, [user |-> s.user, content |-> s.content]}
  /\ Doing(w, "delete", {"delete_row", "commit"}) /\ s.key # None => files[s.key] = NoFile

SavesDistinct ==
  \A v, w \in Workers : v # w =>
    /\ Doing(v, "save", {"write", "insert", "commit"}) /\
       Doing(w, "save", {"write", "insert", "commit"}) => session[v].key # session[w].key
    /\ Doing(v, "save", {"commit"}) /\ Doing(w, "save", {"commit"}) =>
         \/ session[v].user # session[w].user
         \/ session[v].content # session[w].content

TableInv ==
  /\ saved \subseteq drawn /\ unlinked \subseteq saved
  /\ \A k \in Keys : resumes[k] # NoRow => k \in saved

IInv ==
  /\ TypeOK
  /\ \A w \in Workers : SaveInv(w) /\ DeleteInv(w)
  /\ SavesDistinct
  /\ TableInv
  /\ StoredOnce
  /\ RowsAreReadable
  /\ DeletedIsGone

-----------------------------------------------------------------------------
LEMMA ClosedType == Closed \in Session
BY DEF Closed, Session, Steps, Errors

(* The steps that write neither a row nor a file: they change the session  *)
(* of one worker to s, which satisfies the invariants of a session.        *)
LEMMA FrameStep ==
  ASSUME IInv, NEW w \in Workers, NEW s \in Session, session' = [session EXCEPT ![w] = s],
         UNCHANGED <<resumes, files, saved, unlinked>>,
         drawn \subseteq drawn', drawn' \subseteq Keys,
         SaveInv(w)', DeleteInv(w)',
         \A v \in Workers \ {w} :
           /\ Doing(v, "save", {"write", "insert", "commit"}) /\
              Doing(w, "save", {"write", "insert", "commit"})' => session[v].key # s.key
           /\ Doing(v, "save", {"commit"}) /\ Doing(w, "save", {"commit"})' =>
                session[v].user # s.user \/ session[v].content # s.content
  PROVE  IInv'
<1>1. session'[w] = s /\ \A v \in Workers \ {w} : session'[v] = session[v]
  BY DEF IInv, TypeOK
<1>2. TypeOK'
  BY DEF IInv, TypeOK
<1>3. ASSUME NEW v \in Workers PROVE SaveInv(v)' /\ DeleteInv(v)'
  <2>1. CASE v = w
    BY <2>1
  <2>2. CASE v # w
    BY <1>1, <2>2 DEF IInv, SaveInv, DeleteInv, Doing
  <2> QED
    BY <2>1, <2>2
<1>4. SavesDistinct'
  BY <1>1 DEF IInv, SavesDistinct, Doing
<1>5. TableInv' /\ StoredOnce' /\ RowsAreReadable' /\ DeletedIsGone'
  BY DEF IInv, TableInv, StoredOnce, RowsAreReadable, DeletedIsGone
<1> QED
  BY <1>2, <1>3, <1>4, <1>5 DEF IInv

(* A session between requests, or one that raised, promises nothing.       *)
LEMMA RestStep ==
  ASSUME IInv, NEW w \in Workers, NEW s \in Session, session' = [session EXCEPT ![w] = s],
         s.step \in {"idle", "raised"},
         UNCHANGED <<resumes, files, drawn, saved, unlinked>>
  PROVE  IInv'
<1>1. session'[w] = s
  BY DEF IInv, TypeOK
<1>2. SaveInv(w)' /\ DeleteInv(w)' /\ ~Doing(w, "save", {"write", "insert", "commit"})'
      /\ ~Doing(w, "save", {"commit"})'
  BY <1>1 DEF SaveInv, DeleteInv, Doing
<1> QED
  BY <1>2, FrameStep DEF IInv, TypeOK

LEMMA RaiseStep ==
  ASSUME IInv, NEW w \in Workers, NEW op \in {"none", "save", "delete"}, NEW error \in Errors,
         Raise(w, op, error), UNCHANGED <<resumes, files, drawn, saved, unlinked>>
  PROVE  IInv'
<1> DEFINE s == [Closed EXCEPT !.step = "raised", !.op = op, !.error = error]
<1>1. s \in Session /\ s.step = "raised"
  BY ClosedType DEF Session, Closed, Steps
<1> QED
  BY <1>1, RestStep DEF Raise

LEMMA InitIInv == Init => IInv
<1> SUFFICES ASSUME Init PROVE IInv
  OBVIOUS
<1>1. TypeOK
  BY ClosedType DEF Init, TypeOK
<1>2. \A w \in Workers : SaveInv(w) /\ DeleteInv(w)
  BY DEF Init, SaveInv, DeleteInv, Doing, Closed
<1>3. SavesDistinct
  BY DEF Init, SavesDistinct, Doing, Closed
<1>4. TableInv /\ StoredOnce /\ RowsAreReadable /\ DeletedIsGone
  BY DEF Init, TableInv, StoredOnce, RowsAreReadable, DeletedIsGone
<1> QED
  BY <1>1, <1>2, <1>3, <1>4 DEF IInv

-----------------------------------------------------------------------------
(* save_resume: the key, the file, the row.                                *)

LEMMA SaveStep ==
  ASSUME IInv, NEW w \in Workers, NEW u \in Users, NEW c \in Contents, Save(w, u, c)
  PROVE  IInv'
<1>1. CASE c \in Rejected
  BY <1>1, RaiseStep DEF Save, Errors
<1>2. ASSUME c \notin Rejected, NEW k \in Keys \ drawn, drawn' = drawn \cup {k},
             session' = [session EXCEPT ![w] =
               [step |-> "write", op |-> "save", error |-> "none", user |-> u,
                key |-> k, content |-> c]]
      PROVE  IInv'
  <2> DEFINE s == [step |-> "write", op |-> "save", error |-> "none", user |-> u,
                   key |-> k, content |-> c]
  <2>1. s \in Session
    BY DEF Session, Steps, Errors
  <2>2. session'[w] = s
    BY <1>2 DEF IInv, TypeOK
  <2>3. k \notin saved
    BY <1>2 DEF IInv, TableInv
  <2>4. SaveInv(w)' /\ DeleteInv(w)' /\ ~Doing(w, "save", {"commit"})'
    BY <1>2, <2>2, <2>3 DEF SaveInv, DeleteInv, Doing, Save
  <2>5. \A v \in Workers :
          Doing(v, "save", {"write", "insert", "commit"}) => session[v].key # s.key
    BY <1>2, ZenonT(60) DEF IInv, SaveInv
  <2>6. drawn \subseteq drawn' /\ drawn' \subseteq Keys
    BY <1>2 DEF IInv, TypeOK
  <2> QED
    BY <1>2, <2>1, <2>4, <2>5, <2>6, FrameStep DEF Save
<1> QED
  BY <1>1, <1>2 DEF Save

(* What an upload does to its file, whether the write succeeds or not,     *)
(* concerns no row and no other request.                                   *)
LEMMA WriteStep ==
  ASSUME IInv, NEW w \in Workers, session[w].step = "write",
         NEW x \in Contents \cup {NoFile, Partial}, files' = [files EXCEPT ![session[w].key] = x],
         NEW s \in Session, session' = [session EXCEPT ![w] = s],
         \/ s.step = "raised"
         \/ s = [session[w] EXCEPT !.step = "insert"] /\ x = session[w].content,
         UNCHANGED <<resumes, drawn, saved, unlinked>>
  PROVE  IInv'
<1> DEFINE k == session[w].key
<1>1. /\ session[w] \in Session /\ SaveInv(w)
      /\ Doing(w, "save", {"write", "insert", "commit"})
  BY DEF IInv, TypeOK, SaveInv, Doing
<1>2. /\ k \in drawn \ saved /\ k \in Keys /\ resumes[k] = NoRow
      /\ session[w].user \in Users /\ session[w].content \in Contents
  BY <1>1 DEF SaveInv, IInv, TypeOK, TableInv
<1>3. files'[k] = x /\ \A j \in Keys \ {k} : files'[j] = files[j]
  BY <1>2 DEF IInv, TypeOK
<1>4. session'[w] = s /\ \A v \in Workers \ {w} : session'[v] = session[v]
  BY DEF IInv, TypeOK
<1>5. TypeOK'
  BY DEF IInv, TypeOK
<1>6. s.step # "raised" =>
        /\ s.step = "insert" /\ s.op = "save" /\ s.key = k
        /\ s.user = session[w].user /\ s.content = session[w].content
  BY <1>1 DEF Session, Doing
<1>7. ASSUME NEW v \in Workers PROVE SaveInv(v)' /\ DeleteInv(v)'
  <2>1. CASE v = w
    <3>1. CASE s.step = "raised"
      BY <1>4, <2>1, <3>1 DEF SaveInv, DeleteInv, Doing
    <3>2. CASE s.step # "raised"
      BY <1>2, <1>3, <1>4, <1>6, <2>1, <3>2 DEF SaveInv, DeleteInv, Doing
    <3> QED
      BY <3>1, <3>2
  <2>2. CASE v # w
    <3>1. SaveInv(v) /\ DeleteInv(v) /\ session'[v] = session[v] /\ session[v] \in Session
      BY <1>4, <2>2 DEF IInv, TypeOK
    <3>2. Doing(v, "save", {"write", "insert", "commit"}) =>
            session[v].key \in Keys /\ session[v].key # k
      BY <1>1, <2>2, <3>1 DEF IInv, SavesDistinct, SaveInv, TypeOK
    <3>3. SaveInv(v)'
      BY <1>3, <3>1, <3>2 DEF SaveInv, Doing
    <3>4. session[v].key \in saved => session[v].key \in Keys /\ session[v].key # k
      BY <1>2 DEF IInv, TypeOK
    <3>5. DeleteInv(v)'
      BY <1>3, <3>1, <3>4 DEF DeleteInv, Doing
    <3> QED
      BY <3>3, <3>5
  <2> QED
    BY <2>1, <2>2
<1>8. SavesDistinct'
  BY <1>1, <1>4, <1>6 DEF IInv, SavesDistinct, Doing
<1>9. TableInv' /\ StoredOnce'
  BY DEF IInv, TableInv, StoredOnce
<1>10. RowsAreReadable' /\ DeletedIsGone'
  BY <1>2, <1>3 DEF IInv, TypeOK, RowsAreReadable, DeletedIsGone
<1> QED
  BY <1>5, <1>7, <1>8, <1>9, <1>10 DEF IInv

LEMMA StoreFileStep ==
  ASSUME IInv, NEW w \in Workers, StoreFile(w)
  PROVE  IInv'
<1> DEFINE s == [session[w] EXCEPT !.step = "insert"]
<1>1. session[w] \in Session /\ session[w].content \in Contents
  BY DEF IInv, TypeOK, SaveInv, Doing, StoreFile
<1>2. s \in Session
  BY <1>1 DEF Session, Steps
<1> QED
  BY <1>1, <1>2, WriteStep DEF StoreFile, GoTo

LEMMA StoreFailsStep ==
  ASSUME IInv, NEW w \in Workers, StoreFails(w)
  PROVE  IInv'
<1> DEFINE s == [Closed EXCEPT !.step = "raised", !.op = "save", !.error = "OSError"]
<1>1. s \in Session /\ s.step = "raised"
  BY ClosedType DEF Session, Closed, Steps, Errors
<1> QED
  BY <1>1, WriteStep DEF StoreFails, Raise

LEMMA InsertRowStep ==
  ASSUME IInv, NEW w \in Workers, InsertRow(w)
  PROVE  IInv'
<1> DEFINE s == [session[w] EXCEPT !.step = "commit"]
<1>1. /\ session[w] \in Session /\ SaveInv(w) /\ DeleteInv(w)
      /\ session[w].op = "save" /\ session[w].step = "insert"
  BY DEF IInv, TypeOK, SaveInv, InsertRow
<1>2. CASE ~Insertable(session[w])
  BY <1>2, RaiseStep DEF InsertRow, Errors
<1>3. CASE Insertable(session[w])
  <2>1. /\ s \in Session /\ s.step = "commit" /\ s.op = "save" /\ s.key = session[w].key
        /\ s.user = session[w].user /\ s.content = session[w].content
    BY <1>1 DEF Session, Steps
  <2>2. session' = [session EXCEPT ![w] = s] /\ session'[w] = s
    BY <1>3 DEF InsertRow, GoTo, IInv, TypeOK
  <2>3. SaveInv(w)' /\ DeleteInv(w)'
    BY <1>1, <1>3, <2>1, <2>2 DEF SaveInv, DeleteInv, Doing, InsertRow, Insertable
  <2>4. Doing(w, "save", {"write", "insert", "commit"})
    BY <1>1 DEF Doing
  <2>5. \A v \in Workers \ {w} :
          Doing(v, "save", {"write", "insert", "commit"}) => session[v].key # s.key
    BY <2>1, <2>4 DEF IInv, SavesDistinct
  <2>6. \A v \in Workers \ {w} : Doing(v, "save", {"commit"}) =>
          session[v].user # s.user \/ session[v].content # s.content
    <3> SUFFICES ASSUME NEW v \in Workers \ {w}, Doing(v, "save", {"commit"})
                 PROVE  v \in Holders
      BY <2>1 DEF InsertRow
    <3>1. session[v].key \in Keys
      BY DEF IInv, TypeOK, SaveInv, Doing
    <3> QED
      BY <3>1 DEF Holders, Doing
  <2> QED
    BY <2>1, <2>2, <2>3, <2>5, <2>6, FrameStep, ZenonT(60) DEF InsertRow, IInv, TypeOK
<1> QED
  BY <1>2, <1>3

-----------------------------------------------------------------------------
(* delete_resume: the row, the file, the row again.                        *)

LEMMA DeleteStep ==
  ASSUME IInv, NEW w \in Workers, NEW u \in Users, NEW k \in Keys, Delete(w, u, k)
  PROVE  IInv'
<1> DEFINE s == IF Found(u, k)
                  THEN [step |-> "exists", op |-> "delete", error |-> "none", user |-> u,
                        key |-> k, content |-> resumes[k].content]
                  ELSE [Closed EXCEPT !.step = "commit", !.op = "delete"]
<1>1. Found(u, k) => resumes[k] \in Row /\ k \in saved
                     /\ resumes[k] = [user |-> u, content |-> resumes[k].content]
  BY DEF IInv, TypeOK, TableInv, Found, Row
<1>2. /\ s \in Session /\ s.op = "delete"
      /\ \/ s.step = "exists" /\ s.key = k /\ s.key \in saved
            /\ resumes[k] = [user |-> s.user, content |-> s.content]
         \/ s.step = "commit" /\ s.key = None
  BY <1>1, ClosedType DEF Session, Steps, Errors, Row, Closed
<1>3. session' = [session EXCEPT ![w] = s] /\ session'[w] = s
  BY DEF Delete, IInv, TypeOK
<1> HIDE DEF s
<1>4. SaveInv(w)' /\ DeleteInv(w)' /\ ~Doing(w, "save", {"write", "insert", "commit"})'
      /\ ~Doing(w, "save", {"commit"})'
  BY <1>2, <1>3 DEF SaveInv, DeleteInv, Doing, Delete
<1> QED
  BY <1>2, <1>3, <1>4, FrameStep DEF Delete, IInv, TypeOK

(* The steps of a delete that only move it on.                             *)
LEMMA DeleteGoesOn ==
  ASSUME IInv, NEW w \in Workers, session[w].step \in {"exists", "delete_row"},
         NEW step \in {"unlink", "delete_row", "commit"}, GoTo(w, step),
         step # "unlink" => files[session[w].key] = NoFile,
         UNCHANGED <<resumes, files, drawn, saved, unlinked>>
  PROVE  IInv'
<1> DEFINE s == [session[w] EXCEPT !.step = step]
<1>1. session[w] \in Session /\ DeleteInv(w)
  BY DEF IInv, TypeOK
<1>2. /\ s \in Session /\ s.step = step /\ s.op = "delete" /\ s.key = session[w].key
      /\ s.user = session[w].user /\ s.content = session[w].content /\ s.key # None
  BY <1>1 DEF Session, Steps, DeleteInv
<1>3. session' = [session EXCEPT ![w] = s] /\ session'[w] = s
  BY DEF GoTo, IInv, TypeOK
<1> HIDE DEF s
<1>4. SaveInv(w)' /\ DeleteInv(w)' /\ ~Doing(w, "save", {"write", "insert", "commit"})'
      /\ ~Doing(w, "save", {"commit"})'
  BY <1>1, <1>2, <1>3 DEF SaveInv, DeleteInv, Doing
<1> QED
  BY <1>2, <1>3, <1>4, FrameStep DEF IInv, TypeOK

LEMMA FileExistsStep ==
  ASSUME IInv, NEW w \in Workers, FileExists(w)
  PROVE  IInv'
BY DeleteGoesOn DEF FileExists

LEMMA DeleteRowStep ==
  ASSUME IInv, NEW w \in Workers, DeleteRow(w)
  PROVE  IInv'
<1>1. files[session[w].key] = NoFile
  BY DEF IInv, DeleteInv, Doing, DeleteRow
<1> QED
  BY <1>1, DeleteGoesOn DEF DeleteRow

LEMMA UnlinkStep ==
  ASSUME IInv, NEW w \in Workers, Unlink(w)
  PROVE  IInv'
<1> DEFINE k == session[w].key
           s == [session[w] EXCEPT !.step = "delete_row"]
<1>1. session[w] \in Session /\ DeleteInv(w) /\ session[w].step = "unlink"
  BY DEF IInv, TypeOK, Unlink
<1>2. /\ session[w].op = "delete" /\ k \in saved /\ k \in Keys
      /\ resumes[k] \in {NoRow, [user |-> session[w].user, content |-> session[w].content]}
  BY <1>1 DEF DeleteInv, Doing, IInv, TypeOK
<1>3. CASE files[k] = NoFile
  BY <1>3, RaiseStep DEF Unlink, Errors
<1>4. CASE files[k] # NoFile
  <2>1. /\ s \in Session /\ s.step = "delete_row" /\ s.op = "delete" /\ s.key = k
        /\ s.user = session[w].user /\ s.content = session[w].content
    BY <1>1, <1>2 DEF Session, Steps
  <2>2. /\ session' = [session EXCEPT ![w] = s] /\ session'[w] = s
        /\ \A v \in Workers \ {w} : session'[v] = session[v]
    BY <1>4 DEF Unlink, GoTo, IInv, TypeOK
  <2>3. /\ files' = [files EXCEPT ![k] = NoFile] /\ files'[k] = NoFile
        /\ \A j \in Keys \ {k} : files'[j] = files[j]
        /\ unlinked' = unlinked \cup {k}
        /\ UNCHANGED <<resumes, drawn, saved>>
    BY <1>2, <1>4 DEF Unlink, IInv, TypeOK
  <2> HIDE DEF s
  <2>4. TypeOK'
    BY <1>2, <2>1, <2>2, <2>3 DEF IInv, TypeOK
  <2>5. ASSUME NEW v \in Workers PROVE SaveInv(v)' /\ DeleteInv(v)'
    <3>1. CASE v = w
      BY <1>2, <2>1, <2>2, <2>3, <3>1 DEF SaveInv, DeleteInv, Doing
    <3>2. CASE v # w
      <4>1. SaveInv(v) /\ DeleteInv(v) /\ session'[v] = session[v]
        BY <2>2, <3>2 DEF IInv
      <4>2. Doing(v, "save", {"write", "insert", "commit"}) =>
              session[v].key \in Keys /\ session[v].key # k
        BY <1>2, <4>1 DEF SaveInv, IInv, TypeOK
      <4>3. SaveInv(v)'
        BY <2>3, <4>1, <4>2 DEF SaveInv, Doing
      <4>4. session[v].key \in saved => session[v].key \in Keys
        BY DEF IInv, TypeOK
      <4>5. DeleteInv(v)'
        BY <2>3, <4>1, <4>4 DEF DeleteInv, Doing
      <4> QED
        BY <4>3, <4>5
    <3> QED
      BY <3>1, <3>2
  <2>6. SavesDistinct'
    BY <1>2, <2>1, <2>2 DEF IInv, SavesDistinct, Doing
  <2>7. TableInv' /\ StoredOnce'
    BY <1>2, <2>3 DEF IInv, TableInv, StoredOnce
  <2>8. RowsAreReadable' /\ DeletedIsGone'
    BY <2>3 DEF IInv, TypeOK, RowsAreReadable, DeletedIsGone
  <2> QED
    BY <2>4, <2>5, <2>6, <2>7, <2>8 DEF IInv
<1> QED
  BY <1>3, <1>4

-----------------------------------------------------------------------------
(* COMMIT makes the row of a save visible, or takes that of a delete away. *)

LEMMA CommitSaves ==
  ASSUME IInv, NEW w \in Workers, Commit(w), session[w].op = "save"
  PROVE  IInv'
<1> DEFINE k == session[w].key
           row == [user |-> session[w].user, content |-> session[w].content]
<1>1. session[w] \in Session /\ SaveInv(w) /\ Doing(w, "save", {"commit"})
      /\ Doing(w, "save", {"write", "insert", "commit"})
  BY DEF IInv, TypeOK, Commit, Doing
<1>2. /\ k \in drawn \ saved /\ k \in Keys /\ row \in Row /\ files[k] = session[w].content
      /\ \A j \in Keys : resumes[j] # row
  BY <1>1 DEF SaveInv, Doing, IInv, TypeOK, Row
<1>3. /\ resumes' = [j \in Keys |-> IF j = k THEN row ELSE resumes[j]]
      /\ saved' = saved \cup {k} /\ UNCHANGED <<files, drawn, unlinked>>
  BY DEF Commit, Written
<1>4. session'[w] = Closed /\ \A v \in Workers \ {w} : session'[v] = session[v]
  BY DEF Commit, IInv, TypeOK
<1>5. TypeOK'
  BY <1>2, <1>3, ClosedType DEF IInv, TypeOK, Commit
<1>6. ASSUME NEW v \in Workers PROVE SaveInv(v)' /\ DeleteInv(v)'
  <2>1. CASE v = w
    BY <1>4, <2>1 DEF SaveInv, DeleteInv, Doing, Closed
  <2>2. CASE v # w
    <3>1. SaveInv(v) /\ DeleteInv(v) /\ session'[v] = session[v]
      BY <1>4, <2>2 DEF IInv
    <3>2. Doing(v, "save", {"write", "insert", "commit"}) => session[v].key # k
      BY <1>1, <2>2 DEF IInv, SavesDistinct
    <3>3. Doing(v, "save", {"commit"}) =>
            session[v].user # row.user \/ session[v].content # row.content
      BY <1>1, <2>2 DEF IInv, SavesDistinct
    <3>4. SaveInv(v)'
      BY <1>3, <3>1, <3>2, <3>3 DEF SaveInv, Doing
    <3>5. session[v].key \in saved => session[v].key \in Keys /\ session[v].key # k
      BY <1>2 DEF IInv, TypeOK
    <3>6. DeleteInv(v)'
      BY <1>3, <3>1, <3>5 DEF DeleteInv, Doing
    <3> QED
      BY <3>4, <3>6
  <2> QED
    BY <2>1, <2>2
<1>7. SavesDistinct'
  BY <1>4 DEF IInv, SavesDistinct, Doing, Closed
<1>8. TableInv'
  BY <1>2, <1>3 DEF IInv, TableInv
<1>9. StoredOnce'
  BY <1>2, <1>3 DEF IInv, StoredOnce
<1>10. RowsAreReadable' /\ DeletedIsGone'
  BY <1>2, <1>3 DEF IInv, TypeOK, RowsAreReadable, DeletedIsGone, Row
<1> QED
  BY <1>5, <1>6, <1>7, <1>8, <1>9, <1>10 DEF IInv

LEMMA CommitDeletes ==
  ASSUME IInv, NEW w \in Workers, Commit(w), session[w].op # "save"
  PROVE  IInv'
<1> DEFINE k == session[w].key
<1>1. session[w] \in Session /\ DeleteInv(w) /\ Doing(w, "delete", {"commit"})
  BY DEF IInv, TypeOK, Commit, Doing, DeleteInv
<1>2. k \in Keys => files[k] = NoFile
  BY <1>1 DEF DeleteInv, Doing
<1>3. /\ resumes' = [j \in Keys |-> IF j = k THEN NoRow ELSE resumes[j]]
      /\ UNCHANGED <<files, saved, drawn, unlinked>>
  BY DEF Commit, Written
<1>4. session'[w] = Closed /\ \A v \in Workers \ {w} : session'[v] = session[v]
  BY DEF Commit, IInv, TypeOK
<1>5. TypeOK'
  BY <1>3, ClosedType DEF IInv, TypeOK, Commit
<1>6. ASSUME NEW v \in Workers PROVE SaveInv(v)' /\ DeleteInv(v)'
  <2>1. CASE v = w
    BY <1>4, <2>1 DEF SaveInv, DeleteInv, Doing, Closed
  <2>2. CASE v # w
    <3>1. SaveInv(v) /\ DeleteInv(v) /\ session'[v] = session[v]
      BY <1>4, <2>2 DEF IInv
    <3>2. SaveInv(v)'
      BY <1>3, <3>1 DEF SaveInv, Doing, Row
    <3>3. session[v].key \in saved => session[v].key \in Keys
      BY DEF IInv, TypeOK
    <3>4. DeleteInv(v)'
      BY <1>3, <3>1, <3>3 DEF DeleteInv, Doing
    <3> QED
      BY <3>2, <3>4
  <2> QED
    BY <2>1, <2>2
<1>7. SavesDistinct'
  BY <1>4 DEF IInv, SavesDistinct, Doing, Closed
<1>8. TableInv' /\ StoredOnce'
  BY <1>3 DEF IInv, TableInv, StoredOnce
<1>9. RowsAreReadable' /\ DeletedIsGone'
  BY <1>2, <1>3 DEF IInv, TypeOK, RowsAreReadable, DeletedIsGone
<1> QED
  BY <1>5, <1>6, <1>7, <1>8, <1>9 DEF IInv

-----------------------------------------------------------------------------
LEMMA NextIInv == IInv /\ [Next]_vars => IInv'
<1> SUFFICES ASSUME IInv, [Next]_vars PROVE IInv'
  OBVIOUS
<1>1. ASSUME NEW w \in Workers, Request(w) PROVE IInv'
  BY <1>1, SaveStep, DeleteStep DEF Request
<1>2. ASSUME NEW w \in Workers, Proceed(w) PROVE IInv'
  <2>1. CASE Rollback(w)
    BY <2>1, ClosedType, RestStep DEF Rollback, Closed
  <2> QED
    BY <1>2, <2>1, StoreFileStep, StoreFailsStep, InsertRowStep, FileExistsStep, UnlinkStep,
       DeleteRowStep, CommitSaves, CommitDeletes DEF Proceed
<1>3. ASSUME NEW w \in Workers, Fail(w) PROVE IInv'
  <2>1. session[w].op \in {"none", "save", "delete"}
    BY DEF IInv, TypeOK, Session
  <2> QED
    BY <1>3, <2>1, RaiseStep DEF Fail, Errors
<1>4. CASE UNCHANGED vars
  BY <1>4 DEF vars, IInv, TypeOK, SaveInv, DeleteInv, Doing, SavesDistinct, TableInv,
              StoredOnce, RowsAreReadable, DeletedIsGone
<1> QED
  BY <1>1, <1>2, <1>3, <1>4 DEF Next

(* The inductive invariant holds in every reachable state, whatever order  *)
(* the requests take their steps in and wherever one fails.                *)
THEOREM SpecIInv == Spec => []IInv
<1> QED
  BY InitIInv, NextIInv, PTL DEF Spec

-----------------------------------------------------------------------------
(* Every variable keeps its type, for every set of workers and contents.   *)
THEOREM TypeCorrect == Spec => []TypeOK
<1>1. IInv => TypeOK
  BY DEF IInv
<1> QED
  BY SpecIInv, <1>1, PTL

(* A user never has two resumes with the same content, however many        *)
(* uploads and deletes of it race (save_resume, uq_resumes_user_file_hash). *)
THEOREM UploadsAreStoredOnce == Spec => []StoredOnce
<1>1. IInv => StoredOnce
  BY DEF IInv
<1> QED
  BY SpecIInv, <1>1, PTL

(* A committed row has its whole file until a delete of that resume has    *)
(* removed it, whichever write, statement or process fails (save_resume,   *)
(* delete_resume).                                                         *)
THEOREM CommittedRowsAreReadable == Spec => []RowsAreReadable
<1>1. IInv => RowsAreReadable
  BY DEF IInv
<1> QED
  BY SpecIInv, <1>1, PTL

(* Once the row of a saved resume is gone, so is its file (delete_resume). *)
THEOREM FilesDoNotOutliveRows == Spec => []DeletedIsGone
<1>1. IInv => DeletedIsGone
  BY DEF IInv
<1> QED
  BY SpecIInv, <1>1, PTL
-----------------------------------------------------------------------------
(* ResumeStore implements ResumeLibrary.  What makes Add and Remove atomic *)
(* is IInv: the file of an upload is complete and its key is nobody        *)
(* else's when its row is committed, and the row a delete has found is     *)
(* still its owner's, or gone, when its file is removed.                   *)

\* The variables of the library, as ResumeStore.Library maps them.
Shelf == [k \in Keys |-> Readable(k)]
Requests == [w \in Workers |-> Pending(session[w])]

LEMMA SessionReplaced ==
  ASSUME IInv, NEW w \in Workers, NEW x, session' = [session EXCEPT ![w] = x]
  PROVE  Requests' = [Requests EXCEPT ![w] = Pending(x)]
<1>1. \A v \in Workers : session'[v] = IF v = w THEN x ELSE session[v]
  BY DEF IInv, TypeOK
<1>2. \A v \in Workers : Pending(session'[v]) =
                           IF v = w THEN Pending(x) ELSE Pending(session[v])
  BY <1>1
<1>3. Requests' = [v \in Workers |-> Pending(session'[v])]
  BY DEF Requests, Pending
<1> QED
  BY <1>2, <1>3 DEF Requests

LEMMA ShelfKept ==
  ASSUME UNCHANGED <<resumes, files, unlinked>>
  PROVE  UNCHANGED Shelf
  BY DEF Shelf, Readable

(* A step after which a worker has nothing left to do, and which leaves    *)
(* the shelf alone, drops the worker's request, if there is one.           *)
LEMMA DropStep ==
  ASSUME IInv, NEW w \in Workers, NEW x, session' = [session EXCEPT ![w] = x],
         Pending(x) = [op |-> "none"], UNCHANGED <<Shelf, saved>>
  PROVE  Library!Next
<1>1. Requests' = [Requests EXCEPT ![w] = [op |-> "none"]]
  BY SessionReplaced
<1>2. Library!Drop(w)
  BY <1>1 DEF Library!Drop, Library!Nothing, Shelf, Requests
<1> QED
  BY <1>2 DEF Library!Next

LEMMA RaiseDrops ==
  ASSUME IInv, NEW w \in Workers, NEW op, NEW error, Raise(w, op, error),
         UNCHANGED <<Shelf, saved>>
  PROVE  Library!Next
<1> DEFINE x == [Closed EXCEPT !.step = "raised", !.op = op, !.error = error]
<1>1. x.step = "raised"
  BY DEF Closed
<1>2. Pending(x) = [op |-> "none"]
  BY <1>1 DEF Pending
<1> QED
  BY <1>2, DropStep DEF Raise

LEMMA ClosedPends == Pending(Closed) = [op |-> "none"]
  BY DEF Pending, Closed

(* A step that moves a worker on and leaves its request open is no step of *)
(* the library.                                                            *)
LEMMA GoesOnStutters ==
  ASSUME IInv, NEW w \in Workers, NEW x, session' = [session EXCEPT ![w] = x],
         Pending(x) = Pending(session[w]), UNCHANGED <<Shelf, saved>>
  PROVE  UNCHANGED Library!library
<1>1. Requests' = [Requests EXCEPT ![w] = Requests[w]]
  BY SessionReplaced DEF Requests
<1>2. Requests' = Requests
  BY <1>1 DEF Requests
<1> QED
  BY <1>2 DEF Library!library, Shelf, Requests

LEMMA OpenStep ==
  ASSUME IInv, NEW w \in Workers, Idle(w), NEW x, session' = [session EXCEPT ![w] = x],
         Pending(x) \in Library!Request, UNCHANGED <<Shelf, saved>>
  PROVE  Library!Next
<1>1. Requests[w] = [op |-> "none"]
  BY DEF Requests, Pending, Idle
<1>2. Requests' = [Requests EXCEPT ![w] = Pending(x)]
  BY SessionReplaced
<1>3. PICK r \in Library!Request : r = Pending(x)
  OBVIOUS
<1>4. Library!Open(w, r)
  BY <1>1, <1>2, <1>3 DEF Library!Open, Library!Nothing, Shelf, Requests
<1> QED
  BY <1>4 DEF Library!Next

-----------------------------------------------------------------------------
(* One lemma per step.                                                     *)

LEMMA SaveOpens ==
  ASSUME IInv, NEW w \in Workers, NEW u \in Users, NEW c \in Contents, Save(w, u, c)
  PROVE  Library!Next
<1>1. UNCHANGED <<Shelf, saved>> /\ Idle(w)
  BY ShelfKept DEF Save
<1>2. ASSUME NEW k \in Keys,
             session' = [session EXCEPT ![w] =
               [step |-> "write", op |-> "save", error |-> "none", user |-> u,
                key |-> k, content |-> c]]
      PROVE  Library!Next
  <2> DEFINE x == [step |-> "write", op |-> "save", error |-> "none", user |-> u,
                   key |-> k, content |-> c]
  <2>1. Pending(x) = [op |-> "add", user |-> u, key |-> k, content |-> c]
    BY DEF Pending
  <2>2. Pending(x) \in Library!Request
    BY <2>1 DEF Library!Request
  <2> QED
    BY <1>1, <1>2, <2>2, OpenStep
<1> QED
  BY <1>1, <1>2, RaiseDrops DEF Save

LEMMA DeleteOpens ==
  ASSUME IInv, NEW w \in Workers, NEW u \in Users, NEW k \in Keys, Delete(w, u, k)
  PROVE  Library!Next
<1> DEFINE x == [step |-> "exists", op |-> "delete", error |-> "none", user |-> u,
                 key |-> k, content |-> resumes[k].content]
           y == [Closed EXCEPT !.step = "commit", !.op = "delete"]
<1>1. UNCHANGED <<Shelf, saved>> /\ Idle(w)
  BY ShelfKept DEF Delete
<1>2. Pending(x) \in Library!Request
  <2>1. Pending(x) = [op |-> "remove", user |-> u, key |-> k]
    BY DEF Pending
  <2> QED
    BY <2>1 DEF Library!Request
<1>3. Pending(y) = [op |-> "none"]
  BY DEF Pending, Closed
<1>4. CASE session' = [session EXCEPT ![w] = x]
  BY <1>1, <1>2, <1>4, OpenStep
<1>5. CASE session' = [session EXCEPT ![w] = y]
  BY <1>1, <1>3, <1>5, DropStep
<1> QED
  BY <1>4, <1>5 DEF Delete

(* The file that an upload writes, whole or not, is under no committed row. *)
LEMMA UploadKeepsShelf ==
  ASSUME IInv, NEW w \in Workers, session[w].step = "write",
         NEW x, files' = [files EXCEPT ![session[w].key] = x],
         UNCHANGED <<resumes, unlinked>>
  PROVE  UNCHANGED Shelf
<1> DEFINE k == session[w].key
<1>1. k \in drawn \ saved
  BY DEF IInv, SaveInv, Doing
<1>2. k \in Keys /\ resumes[k] = NoRow
  BY <1>1 DEF IInv, TypeOK, TableInv
<1>3. \A j \in Keys : j # k => files'[j] = files[j]
  BY <1>2 DEF IInv, TypeOK
<1>4. \A j \in Keys : Readable(j)' = Readable(j)
  BY <1>2, <1>3 DEF Readable
<1> QED
  BY <1>4 DEF Shelf

LEMMA StoreFileStutters ==
  ASSUME IInv, NEW w \in Workers, StoreFile(w)
  PROVE  UNCHANGED Library!library
<1> DEFINE x == [session[w] EXCEPT !.step = "insert"]
<1>1. session[w] \in Session /\ session[w].op = "save" /\ session[w].step = "write"
  BY DEF IInv, TypeOK, SaveInv, StoreFile
<1>2. /\ x.step = "insert" /\ x.op = "save" /\ x.user = session[w].user
      /\ x.key = session[w].key /\ x.content = session[w].content
  BY <1>1 DEF Session
<1>3. Pending(x) = Pending(session[w])
  BY <1>1, <1>2 DEF Pending
<1>4. UNCHANGED <<Shelf, saved>>
  BY UploadKeepsShelf DEF StoreFile
<1> QED
  BY <1>3, <1>4, GoesOnStutters DEF StoreFile, GoTo

LEMMA StoreFailsDrops ==
  ASSUME IInv, NEW w \in Workers, StoreFails(w)
  PROVE  Library!Next
<1>1. UNCHANGED <<Shelf, saved>>
  BY UploadKeepsShelf DEF StoreFails
<1> QED
  BY <1>1, RaiseDrops DEF StoreFails

LEMMA InsertRowKeeps ==
  ASSUME IInv, NEW w \in Workers, InsertRow(w)
  PROVE  [Library!Next]_(Library!library)
<1> DEFINE x == [session[w] EXCEPT !.step = "commit"]
<1>1. session[w] \in Session /\ session[w].op = "save" /\ session[w].step = "insert"
  BY DEF IInv, TypeOK, SaveInv, InsertRow
<1>2. /\ x.step = "commit" /\ x.op = "save" /\ x.user = session[w].user
      /\ x.key = session[w].key /\ x.content = session[w].content
  BY <1>1 DEF Session
<1>3. Pending(x) = Pending(session[w])
  BY <1>1, <1>2 DEF Pending
<1>4. UNCHANGED <<Shelf, saved>>
  BY ShelfKept DEF InsertRow
<1>5. CASE GoTo(w, "commit")
  BY <1>3, <1>4, <1>5, GoesOnStutters DEF GoTo
<1> QED
  BY <1>4, <1>5, RaiseDrops DEF InsertRow

LEMMA FileExistsKeeps ==
  ASSUME IInv, NEW w \in Workers, FileExists(w)
  PROVE  [Library!Next]_(Library!library)
<1> DEFINE x == [session[w] EXCEPT !.step = "unlink"]
           y == [session[w] EXCEPT !.step = "delete_row"]
<1>1. session[w] \in Session /\ session[w].step = "exists" /\ session[w].op = "delete"
  BY DEF IInv, TypeOK, DeleteInv, FileExists
<1>2. /\ x.step = "unlink" /\ x.op = "delete" /\ x.user = session[w].user
      /\ x.key = session[w].key
      /\ y.step = "delete_row" /\ y.op = "delete"
  BY <1>1 DEF Session
<1>3. Pending(x) = Pending(session[w]) /\ Pending(y) = [op |-> "none"]
  BY <1>1, <1>2 DEF Pending
<1>4. UNCHANGED <<Shelf, saved>>
  BY ShelfKept DEF FileExists
<1>5. CASE session' = [session EXCEPT ![w] = x]
  BY <1>3, <1>4, <1>5, GoesOnStutters
<1>6. CASE session' = [session EXCEPT ![w] = y]
  BY <1>3, <1>4, <1>6, DropStep
<1> QED
  BY <1>5, <1>6 DEF FileExists, GoTo

(* The step at which a resume leaves the shelf.                            *)
LEMMA UnlinkRemoves ==
  ASSUME IInv, NEW w \in Workers, Unlink(w)
  PROVE  Library!Next
<1> DEFINE s == session[w]
           k == s.key
           x == [s EXCEPT !.step = "delete_row"]
<1>1. s \in Session /\ s.step = "unlink" /\ s.op = "delete"
  BY DEF IInv, TypeOK, DeleteInv, Unlink
<1>2. /\ k \in saved /\ k \in Keys
      /\ resumes[k] \in {NoRow, [user |-> s.user, content |-> s.content]}
  BY <1>1 DEF IInv, TypeOK, DeleteInv, Doing
<1>3. CASE files[k] = NoFile
  <2>1. UNCHANGED <<Shelf, saved>>
    BY <1>3, ShelfKept DEF Unlink
  <2> QED
    BY <1>3, <2>1, RaiseDrops DEF Unlink
<1>4. CASE files[k] # NoFile
  <2>1. x.step = "delete_row" /\ x.op = "delete"
    BY <1>1 DEF Session
  <2>2. Pending(x) = [op |-> "none"]
    BY <2>1 DEF Pending
  <2>3. /\ session' = [session EXCEPT ![w] = x]
        /\ files' = [files EXCEPT ![k] = NoFile] /\ unlinked' = unlinked \cup {k}
        /\ UNCHANGED <<resumes, saved>>
    BY <1>4 DEF Unlink, GoTo
  <2>4. Requests' = [Requests EXCEPT ![w] = [op |-> "none"]]
    BY <2>2, <2>3, SessionReplaced
  <2>5. Requests[w] = [op |-> "remove", user |-> s.user, key |-> k]
    BY <1>1 DEF Requests, Pending
  <2>6. \A j \in Keys : Readable(j)' = IF j = k THEN NoRow ELSE Readable(j)
    BY <1>2, <2>3 DEF Readable, IInv, TypeOK
  <2>7. Shelf' = [Shelf EXCEPT ![k] = NoRow]
    BY <2>6 DEF Shelf
  <2>8. CASE k \in unlinked
    <3>1. Readable(k) = NoRow
      BY <2>8 DEF Readable
    <3>2. UNCHANGED <<Shelf, saved>>
      BY <1>2, <2>3, <2>7, <3>1 DEF Shelf
    <3> QED
      BY <2>2, <2>3, <3>2, DropStep
  <2>9. CASE k \notin unlinked
    <3>1. resumes[k] # NoRow
      BY <1>2, <1>4 DEF IInv, DeletedIsGone
    <3>2. /\ resumes[k] \in Row /\ resumes[k].user = s.user
          /\ files[k] = resumes[k].content
      BY <1>2, <2>9, <3>1 DEF IInv, TypeOK, RowsAreReadable
    <3>3. /\ Shelf[k] = [user |-> s.user, content |-> files[k]]
          /\ files[k] \in Contents /\ s.user \in Users
      BY <1>2, <2>9, <3>1, <3>2 DEF Shelf, Readable, Row
    <3>4. Shelf[k] # NoRow /\ Shelf[k].user = s.user
      BY <3>3 DEF Row
    <3>5. Library!Remove(w)
      BY <2>3, <2>4, <2>5, <2>7, <3>4
         DEF Library!Remove, Library!Nothing, Shelf, Requests
    <3> QED
      BY <3>5 DEF Library!Next
  <2> QED
    BY <2>8, <2>9
<1> QED
  BY <1>3, <1>4

LEMMA DeleteRowDrops ==
  ASSUME IInv, NEW w \in Workers, DeleteRow(w)
  PROVE  Library!Next
<1> DEFINE x == [session[w] EXCEPT !.step = "commit"]
<1>1. session[w] \in Session /\ session[w].op = "delete"
  BY DEF IInv, TypeOK, DeleteInv, DeleteRow
<1>2. x.step = "commit" /\ x.op = "delete"
  BY <1>1 DEF Session
<1>3. Pending(x) = [op |-> "none"]
  BY <1>2 DEF Pending
<1>4. UNCHANGED <<Shelf, saved>>
  BY ShelfKept DEF DeleteRow
<1> QED
  BY <1>3, <1>4, DropStep DEF DeleteRow, GoTo

(* The step at which a resume comes onto the shelf.                        *)
LEMMA CommitAdds ==
  ASSUME IInv, NEW w \in Workers, Commit(w), session[w].op = "save"
  PROVE  Library!Next
<1> DEFINE s == session[w]
           k == s.key
           resume == [user |-> s.user, content |-> s.content]
<1>1. s \in Session /\ s.step = "commit" /\ s.op = "save"
  BY DEF IInv, TypeOK, Commit
<1>2. /\ k \in Keys /\ k \in drawn \ saved /\ files[k] = s.content /\ resume \in Row
      /\ \A j \in Keys : resumes[j] # resume
  BY <1>1 DEF IInv, TypeOK, SaveInv, Doing, Row
<1>3. /\ session' = [session EXCEPT ![w] = Closed] /\ saved' = saved \cup {k}
      /\ resumes' = [j \in Keys |-> IF j = k THEN resume ELSE resumes[j]]
      /\ UNCHANGED <<files, unlinked>>
  BY <1>1 DEF Commit, Written
<1>4. Requests' = [Requests EXCEPT ![w] = [op |-> "none"]]
  BY <1>3, SessionReplaced, ClosedPends
<1>5. Requests[w] = [op |-> "add", user |-> s.user, key |-> k, content |-> s.content]
  BY <1>1 DEF Requests, Pending
<1>6. k \notin unlinked
  BY <1>2 DEF IInv, TableInv
<1>7. Shelf' = [Shelf EXCEPT ![k] = resume]
  <2>1. \A j \in Keys : Readable(j)' = IF j = k THEN resume ELSE Readable(j)
    BY <1>2, <1>3, <1>6 DEF Readable
  <2> QED
    BY <2>1 DEF Shelf
<1>8. \A j \in Keys : Shelf[j] # resume
  <2> SUFFICES ASSUME NEW j \in Keys PROVE Readable(j) # resume
    BY DEF Shelf
  <2>1. CASE resumes[j] # NoRow /\ j \notin unlinked
    <3>1. resumes[j] \in Row /\ files[j] = resumes[j].content
      BY <2>1 DEF IInv, TypeOK, RowsAreReadable
    <3>2. Readable(j) = resumes[j]
      BY <2>1, <3>1 DEF Readable, Row
    <3> QED
      BY <1>2, <3>2
  <2>2. CASE ~(resumes[j] # NoRow /\ j \notin unlinked)
    BY <1>2, <2>2 DEF Readable
  <2> QED
    BY <2>1, <2>2
<1>9. Library!Add(w)
  <2>1. /\ Requests[w].op = "add" /\ Requests[w].key = k
        /\ Requests[w].user = s.user /\ Requests[w].content = s.content
    BY <1>5
  <2>2. [user |-> Requests[w].user, content |-> Requests[w].content] = resume
    BY <2>1
  <2>3. /\ Requests[w].key \notin saved /\ saved' = saved \cup {Requests[w].key}
        /\ Shelf' = [Shelf EXCEPT ![Requests[w].key] = resume]
    BY <1>2, <1>3, <1>7, <2>1
  <2> HIDE DEF s, k, resume
  <2> QED
    BY <1>4, <1>8, <2>1, <2>2, <2>3
     DEF Library!Add, Library!Nothing, Shelf, Requests
<1> QED
  BY <1>9 DEF Library!Next

(* The COMMIT of a delete takes a row whose file has left already.         *)
LEMMA CommitOfDeleteDrops ==
  ASSUME IInv, NEW w \in Workers, Commit(w), session[w].op # "save"
  PROVE  Library!Next
<1> DEFINE k == session[w].key
<1>1. session[w] \in Session /\ DeleteInv(w) /\ Doing(w, "delete", {"commit"})
  BY DEF IInv, TypeOK, Commit, Doing, DeleteInv
<1>2. k \in Keys => files[k] = NoFile
  BY <1>1 DEF DeleteInv, Doing
<1>3. /\ resumes' = [j \in Keys |-> IF j = k THEN NoRow ELSE resumes[j]]
      /\ UNCHANGED <<files, saved, unlinked>>
  BY DEF Commit, Written
<1>4. \A j \in Keys : Readable(j)' = Readable(j)
  <2> SUFFICES ASSUME NEW j \in Keys, j = k PROVE Readable(j) = NoRow
    BY <1>3 DEF Readable
  <2>1. resumes[j] # NoRow /\ j \notin unlinked => files[j] \in Contents
    BY DEF IInv, TypeOK, RowsAreReadable, Row
  <2> QED
    BY <1>2, <2>1 DEF Readable
<1>5. UNCHANGED <<Shelf, saved>>
  BY <1>3, <1>4 DEF Shelf
<1> QED
  BY <1>5, ClosedPends, DropStep DEF Commit

LEMMA EndDrops ==
  ASSUME IInv, NEW w \in Workers, Rollback(w) \/ Fail(w)
  PROVE  Library!Next
<1>1. UNCHANGED <<Shelf, saved>>
  BY ShelfKept DEF Rollback, Fail
<1> QED
  BY <1>1, ClosedPends, DropStep, RaiseDrops DEF Rollback, Fail

-----------------------------------------------------------------------------
LEMMA InitialLibrary == Init => Library!Init
<1> SUFFICES ASSUME Init PROVE Library!Init
  OBVIOUS
<1>1. \A k \in Keys : Readable(k) = NoRow
  BY DEF Init, Readable
<1>2. \A w \in Workers : Pending(session[w]) = [op |-> "none"]
  BY ClosedPends DEF Init
<1> QED
  BY <1>1, <1>2 DEF Library!Init, Library!Nothing, Init

LEMMA StepImplementsLibrary == IInv /\ [Next]_vars => [Library!Next]_(Library!library)
<1> SUFFICES ASSUME IInv, [Next]_vars PROVE [Library!Next]_(Library!library)
  OBVIOUS
<1>1. ASSUME NEW w \in Workers, Request(w) PROVE Library!Next
  BY <1>1, SaveOpens, DeleteOpens DEF Request
<1>2. ASSUME NEW w \in Workers, Proceed(w) PROVE [Library!Next]_(Library!library)
  BY <1>2, StoreFileStutters, StoreFailsDrops, InsertRowKeeps, FileExistsKeeps,
     UnlinkRemoves, DeleteRowDrops, CommitAdds, CommitOfDeleteDrops, EndDrops DEF Proceed
<1>3. ASSUME NEW w \in Workers, Fail(w) PROVE Library!Next
  BY <1>3, EndDrops
<1>4. CASE UNCHANGED vars
  <2>1. UNCHANGED <<Shelf, saved>> /\ UNCHANGED Requests
    BY <1>4, ShelfKept DEF vars, Requests, Pending
  <2> QED
    BY <2>1 DEF Library!library, Shelf, Requests
<1> QED
  BY <1>1, <1>2, <1>3, <1>4 DEF Next

(* Rows and files together implement the library: a resume comes within    *)
(* reach whole and at once, leaves it at once and for its owner only, and  *)
(* is not touched in between (save_resume, delete_resume, LocalStorage),   *)
(* however requests overlap and wherever a step fails or a process dies.   *)
THEOREM StoreImplementsLibrary == Spec => ImplementsLibrary
  BY InitialLibrary, StepImplementsLibrary, SpecIInv, PTL
     DEF Spec, ImplementsLibrary, Library!Spec
=============================================================================
