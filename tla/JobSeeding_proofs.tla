------------------------- MODULE JobSeeding_proofs -------------------------
(***************************************************************************)
(* Safety of JobSeeding for every number of runs, every seed file and      *)
(* every size of the batches.                                              *)
(*                                                                         *)
(* SeededAtOnce is not inductive: that a commit completes the table was    *)
(* decided record by record.  RunInv says what an open run has done so     *)
(* far, InsertsDistinct that its rows are nobody else's.                   *)
(***************************************************************************)
EXTENDS JobSeeding, TLAPS

USE ConstantsAssumption

Open == {"embed", "select", "insert", "commit"}

\* Every record r has passed is in the table or among its own rows.
Covered(r) == \A i \in 1 .. run[r].at : Taken(Records[i]) \/ Records[i] \in run[r].mine

RunInv(r) ==
  /\ run[r].step \notin Open => run[r].mine = {}
  /\ run[r].step = "new" => run[r].at = 0 /\ run[r].error = "none"
  /\ run[r].step \in Open => Covered(r)
  /\ run[r].step \in {"select", "insert"} => run[r].at < run[r].embedded
  /\ run[r].step = "commit" => run[r].at = Len(Records)
  /\ run[r].step = "insert" => Records[run[r].at + 1] \notin run[r].known
  /\ \A x \in run[r].mine : x \in ToSet(Records) /\ ~Taken(x)
  /\ \A x \in run[r].known : Taken(x)

InsertsDistinct ==
  \A q, r \in Runs : q # r => run[q].mine \cap run[r].mine = {}

IInv ==
  /\ TypeOK
  /\ SeededAtOnce
  /\ \A r \in Runs : RunInv(r)
  /\ InsertsDistinct
  /\ RefusedOnlyByOverlap

-----------------------------------------------------------------------------
LEMMA RecordIsRef ==
  ASSUME NEW i \in 1 .. Len(Records)
  PROVE  Records[i] \in Refs /\ Records[i] \in ToSet(Records)
BY DEF ToSet

(* The steps that write no table: they change the frame of one run to s,   *)
(* which keeps the rows of the run and satisfies its invariant.            *)
LEMMA FrameStep ==
  ASSUME IInv, NEW r \in Runs, NEW s \in Run, run' = [run EXCEPT ![r] = s],
         UNCHANGED jobs, RunInv(r)',
         s.stored = run[r].stored,
         \A q \in Runs \ {r} : s.mine \cap run[q].mine = {},
         s.error = "IntegrityError" =>
           \E x \in Refs : Taken(x) /\ x \notin s.known
  PROVE  IInv'
<1>1. /\ run'[r] = s
      /\ \A q \in Runs \ {r} : run'[q] = run[q]
  BY DEF IInv, TypeOK
<1>2. TypeOK'
  BY DEF IInv, TypeOK
<1>3. SeededAtOnce'
  <2>1. \A q \in Runs : run'[q].stored = run[q].stored
    BY <1>1
  <2> QED
    BY <2>1 DEF IInv, SeededAtOnce
<1>4. ASSUME NEW q \in Runs PROVE RunInv(q)'
  <2>1. CASE q = r
    BY <2>1
  <2>2. CASE q # r
    BY <2>2, <1>1 DEF IInv, RunInv, Covered, Taken
  <2> QED
    BY <2>1, <2>2
<1>5. InsertsDistinct'
  BY <1>1 DEF IInv, InsertsDistinct
<1>6. RefusedOnlyByOverlap'
  BY <1>1 DEF IInv, RefusedOnlyByOverlap, Taken
<1> QED
  BY <1>2, <1>3, <1>4, <1>5, <1>6 DEF IInv

-----------------------------------------------------------------------------
LEMMA InitIInv == Init => IInv
<1> SUFFICES ASSUME Init PROVE IInv
  OBVIOUS
<1>1. TypeOK
  BY DEF Init, TypeOK, Run, NewRun, Steps
<1>2. \A r \in Runs : run[r] = NewRun
  BY DEF Init
<1>3. SeededAtOnce
  BY <1>2 DEF Init, SeededAtOnce, NewRun
<1>4. \A r \in Runs : RunInv(r)
  BY <1>2 DEF RunInv, NewRun, Open
<1>5. InsertsDistinct /\ RefusedOnlyByOverlap
  BY <1>2 DEF InsertsDistinct, RefusedOnlyByOverlap, NewRun
<1> QED
  BY <1>1, <1>3, <1>4, <1>5 DEF IInv

LEMMA StartStep ==
  ASSUME IInv, NEW r \in Runs, Start(r)
  PROVE  IInv'
<1> DEFINE s == [run[r] EXCEPT !.step = "embed", !.known = {x \in Refs : Taken(x)}]
<1>1. run[r] \in Run /\ RunInv(r) /\ run[r].step = "new"
  BY DEF IInv, TypeOK, Start, At
<1>2. /\ s \in Run /\ s.mine = {} /\ s.at = 0 /\ s.step = "embed" /\ s.error = "none"
      /\ s.stored = run[r].stored
      /\ \A x \in s.known : Taken(x)
  BY <1>1 DEF Run, Steps, RunInv, Open
<1>3. run' = [run EXCEPT ![r] = s] /\ run'[r] = s /\ UNCHANGED jobs
  BY DEF Start, IInv, TypeOK
<1>4. RunInv(r)'
  <2> HIDE DEF s
  <2>1. Covered(r)'
    BY <1>2, <1>3 DEF Covered
  <2>2. \A x \in s.known : Taken(x)'
    BY <1>2, <1>3 DEF Taken
  <2> QED
    BY <1>2, <1>3, <2>1, <2>2 DEF RunInv, Open
<1> QED
  BY <1>1, <1>2, <1>3, <1>4, FrameStep

\* The steps below keep what a run knew when it began.
LEMMA RefusalKept ==
  ASSUME IInv, NEW r \in Runs, NEW s \in Run,
         s.error = run[r].error, s.known = run[r].known
  PROVE  s.error = "IntegrityError" => \E x \in Refs : Taken(x) /\ x \notin s.known
BY DEF IInv, RefusedOnlyByOverlap

LEMMA EmbedBatchStep ==
  ASSUME IInv, NEW r \in Runs, EmbedBatch(r)
  PROVE  IInv'
<1> DEFINE upTo == IF run[r].at + Batch < Len(Records) THEN run[r].at + Batch ELSE Len(Records)
           s == IF run[r].at = Len(Records) THEN [run[r] EXCEPT !.step = "commit"]
                ELSE [run[r] EXCEPT !.step = "select", !.embedded = upTo]
<1>1. run[r] \in Run /\ RunInv(r) /\ run[r].step = "embed" /\ Len(Records) \in Nat
  BY DEF IInv, TypeOK, EmbedBatch
<1>2. upTo \in 0 .. Len(Records) /\ (run[r].at # Len(Records) => run[r].at < upTo)
  BY <1>1 DEF Run
<1>3. /\ s \in Run /\ s.mine = run[r].mine /\ s.at = run[r].at
      /\ s.error = run[r].error /\ s.known = run[r].known /\ s.stored = run[r].stored
      /\ \/ s.step = "commit" /\ s.at = Len(Records)
         \/ s.step = "select" /\ s.at < s.embedded
  BY <1>1, <1>2 DEF Run, Steps
<1>4. run' = [run EXCEPT ![r] = s] /\ run'[r] = s /\ UNCHANGED jobs
  BY DEF EmbedBatch, IInv, TypeOK
<1>5. RunInv(r)'
  BY <1>1, <1>3, <1>4 DEF RunInv, Covered, Open, Taken
<1>6. \A q \in Runs \ {r} : s.mine \cap run[q].mine = {}
  BY <1>3 DEF IInv, InsertsDistinct
<1> QED
  BY <1>1, <1>3, <1>4, <1>5, <1>6, FrameStep, RefusalKept

(* A record is done: the run goes on with its own rows mine.               *)
LEMMA AdvanceStep ==
  ASSUME IInv, NEW r \in Runs, run[r].step \in {"select", "insert"},
         NEW mine \in SUBSET Refs,
         run' = [run EXCEPT ![r] = [Advance(run[r]) EXCEPT !.mine = mine]],
         UNCHANGED jobs,
         run[r].mine \subseteq mine,
         Taken(Records[run[r].at + 1]) \/ Records[run[r].at + 1] \in mine,
         \A x \in mine : x \in ToSet(Records) /\ ~Taken(x),
         \A q \in Runs \ {r} : mine \cap run[q].mine = {}
  PROVE  IInv'
<1> DEFINE s == [Advance(run[r]) EXCEPT !.mine = mine]
<1>1. run[r] \in Run /\ RunInv(r) /\ Len(Records) \in Nat
  BY DEF IInv, TypeOK
<1>2. run[r].at < run[r].embedded /\ run[r].at \in 0 .. Len(Records)
      /\ run[r].embedded \in 0 .. Len(Records)
  BY <1>1 DEF RunInv, Run
<1>3. /\ s \in Run /\ s.mine = mine /\ s.at = run[r].at + 1
      /\ s.error = run[r].error /\ s.known = run[r].known /\ s.stored = run[r].stored
      /\ s.step = "embed" \/ (s.step = "select" /\ s.at < s.embedded)
  <2> DEFINE next == IF run[r].at + 1 = run[r].embedded THEN "embed" ELSE "select"
  <2>1. s = [run[r] EXCEPT !.at = run[r].at + 1, !.step = next, !.mine = mine]
    BY <1>1 DEF Run, Advance
  <2>2. next \in Steps /\ run[r].at + 1 \in 0 .. Len(Records)
    BY <1>1, <1>2 DEF Steps
  <2>3. /\ s \in Run /\ s.mine = mine /\ s.at = run[r].at + 1 /\ s.step = next
        /\ s.error = run[r].error /\ s.known = run[r].known /\ s.embedded = run[r].embedded
        /\ s.stored = run[r].stored
    <3> HIDE DEF next, s
    <3> QED
      BY <1>1, <2>1, <2>2 DEF Run
  <2> QED
    BY <1>1, <1>2, <2>3
<1>4. run'[r] = s
  BY DEF IInv, TypeOK
<1>5. RunInv(r)'
  <2>1. Covered(r)'
    <3> SUFFICES ASSUME NEW i \in 1 .. run[r].at + 1
                 PROVE  Taken(Records[i]) \/ Records[i] \in mine
      BY <1>3, <1>4 DEF Covered, Taken
    <3>1. CASE i = run[r].at + 1
      BY <3>1
    <3>2. CASE i \in 1 .. run[r].at
      BY <1>1, <3>2 DEF RunInv, Covered, Open
    <3> QED
      BY <1>2, <3>1, <3>2
  <2> QED
    BY <1>1, <1>3, <1>4, <2>1 DEF RunInv, Open, Taken
<1> QED
  BY <1>1, <1>3, <1>4, <1>5, FrameStep, RefusalKept, ZenonT(60)

LEMMA SelectStep ==
  ASSUME IInv, NEW r \in Runs, Select(r)
  PROVE  IInv'
<1> DEFINE ref == Records[run[r].at + 1]
<1>1. run[r] \in Run /\ RunInv(r) /\ run[r].step = "select" /\ UNCHANGED jobs
  BY DEF IInv, TypeOK, Select, At
<1>2. \A q \in Runs \ {r} : run[r].mine \cap run[q].mine = {}
  BY DEF IInv, InsertsDistinct
<1>3. CASE Taken(ref) \/ ref \in run[r].mine
  <2>1. run[r].mine \in SUBSET Refs
    BY <1>1 DEF Run
  <2>2. Advance(run[r]) = [Advance(run[r]) EXCEPT !.mine = run[r].mine]
    BY <1>1 DEF Advance, Run
  <2>3. run' = [run EXCEPT ![r] = Advance(run[r])]
    BY <1>3 DEF Select
  <2> QED
    BY <1>1, <1>2, <1>3, <2>1, <2>2, <2>3, AdvanceStep DEF RunInv
<1>4. CASE ~(Taken(ref) \/ ref \in run[r].mine)
  <2> DEFINE s == [run[r] EXCEPT !.step = "insert"]
  <2>1. /\ s \in Run /\ s.mine = run[r].mine /\ s.at = run[r].at /\ s.step = "insert"
        /\ s.error = run[r].error /\ s.known = run[r].known /\ s.embedded = run[r].embedded
        /\ s.stored = run[r].stored
    BY <1>1 DEF Run, Steps
  <2>2. run' = [run EXCEPT ![r] = s] /\ run'[r] = s
    BY <1>4 DEF Select, IInv, TypeOK
  <2>3. RunInv(r)'
    BY <1>1, <1>4, <2>1, <2>2 DEF RunInv, Covered, Open, Taken
  <2> QED
    BY <1>1, <1>2, <2>1, <2>2, <2>3, FrameStep, RefusalKept
<1> QED
  BY <1>3, <1>4

\* The end of a run that does not commit, or fails after its commit.
LEMMA ExitStep ==
  ASSUME IInv, NEW r \in Runs, run[r].step \in Open \cup {"count"},
         NEW error \in {"IntegrityError", "other"}, Exit(r, error), UNCHANGED jobs,
         error = "IntegrityError" => \E x \in Refs : Taken(x) /\ x \notin run[r].known
  PROVE  IInv'
<1> DEFINE s == [run[r] EXCEPT !.step = "exited", !.mine = {}, !.error = error]
<1>1. run[r] \in Run /\ RunInv(r)
  BY DEF IInv, TypeOK
<1>2. s \in Run /\ s.step = "exited" /\ s.mine = {} /\ s.error = error /\ s.known = run[r].known
      /\ s.stored = run[r].stored
  BY <1>1 DEF Run, Steps
<1>3. run' = [run EXCEPT ![r] = s] /\ run'[r] = s
  BY DEF Exit, IInv, TypeOK
<1>4. RunInv(r)'
  BY <1>1, <1>2, <1>3 DEF RunInv, Open, Taken
<1> QED
  BY <1>1, <1>2, <1>3, <1>4, FrameStep, ZenonT(60)

LEMMA InsertStep ==
  ASSUME IInv, NEW r \in Runs, Insert(r)
  PROVE  IInv'
<1> DEFINE ref == Records[run[r].at + 1]
<1>1. run[r] \in Run /\ RunInv(r) /\ run[r].step = "insert" /\ UNCHANGED jobs
  BY DEF IInv, TypeOK, Insert, At
<1>2. ref \in Refs /\ ref \in ToSet(Records)
  BY <1>1, RecordIsRef DEF RunInv, Run
<1>3. CASE Taken(ref)
  BY <1>1, <1>2, <1>3, ExitStep DEF Insert, RunInv, Open
<1>4. CASE ~Taken(ref)
  <2> DEFINE mine == run[r].mine \cup {ref}
  <2>1. mine \in SUBSET Refs
    BY <1>1, <1>2 DEF Run
  <2>2. Advance(run[r]).mine = run[r].mine
    BY <1>1 DEF Advance, Run
  <2>3. run' = [run EXCEPT ![r] = [Advance(run[r]) EXCEPT !.mine = mine]]
    BY <1>1, <1>4, <2>2 DEF Insert, Advance, Run
  <2>4. \A q \in Runs \ {r} : mine \cap run[q].mine = {}
    BY DEF IInv, InsertsDistinct, Insert
  <2>5. run[r].mine \subseteq mine /\ ref \in mine
    OBVIOUS
  <2>6. \A x \in mine : x \in ToSet(Records) /\ ~Taken(x)
    BY <1>1, <1>2, <1>4 DEF RunInv
  <2>7. run[r].step \in {"select", "insert"} /\ UNCHANGED jobs
    BY <1>1
  <2> HIDE DEF mine
  <2> QED
    BY <2>1, <2>3, <2>4, <2>5, <2>6, <2>7, AdvanceStep
<1> QED
  BY <1>3, <1>4

(* The commit of a run that has passed every record completes the table;   *)
(* nobody else then holds a row: it would be a reference that is neither   *)
(* stored nor the committing run's.                                        *)
LEMMA CommitStep ==
  ASSUME IInv, NEW r \in Runs, Commit(r)
  PROVE  IInv'
<1> DEFINE s == [run[r] EXCEPT !.step = "count", !.mine = {}, !.stored = TRUE]
<1>1. run[r] \in Run /\ RunInv(r) /\ run[r].step = "commit"
  BY DEF IInv, TypeOK, Commit, At
<1>2. s \in Run /\ s.step = "count" /\ s.mine = {} /\ s.error = run[r].error
      /\ s.known = run[r].known /\ s.stored = TRUE
  BY <1>1 DEF Run, Steps
<1>3. /\ run' = [run EXCEPT ![r] = s] /\ run'[r] = s
      /\ \A q \in Runs \ {r} : run'[q] = run[q]
  BY DEF Commit, IInv, TypeOK
<1>4. \A x \in ToSet(Records) : x \in Refs /\ (Taken(x) \/ x \in run[r].mine)
  <2> SUFFICES ASSUME NEW i \in 1 .. Len(Records)
               PROVE  Records[i] \in Refs /\ (Taken(Records[i]) \/ Records[i] \in run[r].mine)
    BY DEF ToSet
  <2> QED
    BY <1>1, RecordIsRef DEF RunInv, Covered, Open
<1>5. \A x \in Refs : jobs[x] = IF Taken(x) THEN 1 ELSE 0
  BY DEF IInv, SeededAtOnce, Taken
<1>6. \A x \in Refs : Taken(x) => x \in ToSet(Records)
  BY DEF IInv, SeededAtOnce, Taken
<1>7. jobs' = [x \in Refs |-> IF x \in ToSet(Records) THEN 1 ELSE 0]
  <2> SUFFICES ASSUME NEW x \in Refs
               PROVE  jobs[x] + (IF x \in run[r].mine THEN 1 ELSE 0)
                        = IF x \in ToSet(Records) THEN 1 ELSE 0
    BY DEF Commit
  <2>1. x \in run[r].mine => x \in ToSet(Records) /\ ~Taken(x)
    BY <1>1 DEF RunInv
  <2> QED
    BY <2>1, <1>4, <1>5, <1>6
<1>8. \A x \in Refs : Taken(x)' <=> x \in ToSet(Records)
  BY <1>7 DEF Taken
<1>9. \A q \in Runs \ {r} : run[q].mine = {}
  <2> SUFFICES ASSUME NEW q \in Runs \ {r}, NEW x \in run[q].mine PROVE FALSE
    OBVIOUS
  <2>1. x \in ToSet(Records) /\ ~Taken(x) /\ x \notin run[r].mine
    BY DEF IInv, RunInv, InsertsDistinct
  <2> QED
    BY <2>1, <1>4
<1>10. TypeOK'
  <2>1. run' \in [Runs -> Run]
    BY <1>2, <1>3 DEF IInv, TypeOK
  <2> QED
    BY <2>1, <1>7 DEF TypeOK
<1>11. SeededAtOnce'
  BY <1>2, <1>3, <1>7, ZenonT(60) DEF SeededAtOnce
<1>12. ASSUME NEW q \in Runs PROVE RunInv(q)'
  <2>1. CASE q = r
    <3>1. \A x \in run[r].known : x \in Refs /\ Taken(x)
      BY <1>1 DEF RunInv, Run
    <3> QED
      BY <2>1, <1>2, <1>3, <1>6, <1>8, <3>1 DEF RunInv, Open
  <2>2. CASE q # r
    <3>1. run[q] \in Run /\ RunInv(q) /\ run'[q] = run[q] /\ run[q].mine = {}
      BY <2>2, <1>3, <1>9 DEF IInv, TypeOK
    <3>2. \A x \in Refs : Taken(x) => Taken(x)'
      BY <1>6, <1>8
    <3>3. \A x \in run[q].known : Taken(x)'
      BY <3>1, <3>2 DEF RunInv, Run
    <3>4. run[q].step \in Open => Covered(q)'
      <4> SUFFICES ASSUME run[q].step \in Open, NEW i \in 1 .. run[q].at
                   PROVE  Taken(Records[i])'
        BY <3>1 DEF Covered
      <4>1. i \in 1 .. Len(Records)
        BY <3>1 DEF Run
      <4> QED
        BY <1>8, <4>1, RecordIsRef
    <3> QED
      BY <3>1, <3>3, <3>4 DEF RunInv
  <2> QED
    BY <2>1, <2>2
<1>13. InsertsDistinct'
  BY <1>2, <1>3, <1>9 DEF InsertsDistinct
<1>14. RefusedOnlyByOverlap'
  <2>1. \A q \in Runs : run'[q].error = run[q].error /\ run'[q].known = run[q].known
    BY <1>2, <1>3
  <2>2. \A x \in Refs : Taken(x) => Taken(x)'
    BY <1>6, <1>8
  <2> QED
    BY <2>1, <2>2 DEF IInv, RefusedOnlyByOverlap
<1> QED
  BY <1>10, <1>11, <1>12, <1>13, <1>14 DEF IInv

LEMMA CountStep ==
  ASSUME IInv, NEW r \in Runs, Count(r)
  PROVE  IInv'
<1> DEFINE s == [run[r] EXCEPT !.step = "done"]
<1>1. run[r] \in Run /\ RunInv(r) /\ run[r].step = "count" /\ run[r].mine = {}
  BY DEF IInv, TypeOK, Count, At, RunInv, Open
<1>2. s \in Run /\ s.step = "done" /\ s.mine = {} /\ s.error = run[r].error
      /\ s.known = run[r].known /\ s.stored = run[r].stored
  BY <1>1 DEF Run, Steps
<1>3. run' = [run EXCEPT ![r] = s] /\ run'[r] = s /\ UNCHANGED jobs
  BY DEF Count, IInv, TypeOK
<1>4. RunInv(r)'
  BY <1>1, <1>2, <1>3 DEF RunInv, Open, Taken
<1> QED
  BY <1>1, <1>2, <1>3, <1>4, FrameStep, RefusalKept, ZenonT(60)

LEMMA NextIInv == IInv /\ [Next]_vars => IInv'
<1> SUFFICES ASSUME IInv, [Next]_vars PROVE IInv'
  OBVIOUS
<1>1. ASSUME NEW r \in Runs, Proceed(r) PROVE IInv'
  BY <1>1, StartStep, EmbedBatchStep, SelectStep, InsertStep, CommitStep, CountStep DEF Proceed
<1>2. ASSUME NEW r \in Runs, Fail(r) PROVE IInv'
  BY <1>2, ExitStep DEF Fail, Open
<1>3. CASE UNCHANGED vars
  BY <1>3 DEF vars, IInv, TypeOK, SeededAtOnce, RunInv, Covered, Taken,
              InsertsDistinct, RefusedOnlyByOverlap
<1> QED
  BY <1>1, <1>2, <1>3 DEF Next

(* The inductive invariant holds in every reachable state, whatever order  *)
(* the runs take their steps in and wherever one fails.                    *)
THEOREM SpecIInv == Spec => []IInv
<1> QED
  BY InitIInv, NextIInv, PTL DEF Spec

-----------------------------------------------------------------------------
(* Every variable keeps its type, for every seed file and batch size.      *)
THEOREM TypeCorrect == Spec => []TypeOK
<1>1. IInv => TypeOK
  BY DEF IInv
<1> QED
  BY SpecIInv, <1>1, PTL

(* However many runs overlap and fail, the table is empty or holds every   *)
(* reference of the seed file exactly once (upsert_job, main of            *)
(* seed_jobs.py).                                                          *)
THEOREM SeedIsAtomic == Spec => []SeededAtOnce
<1>1. IInv => SeededAtOnce
  BY DEF IInv
<1> QED
  BY SpecIInv, <1>1, PTL

(* A run is refused a record only if another run has committed since it    *)
(* began (upsert_job).                                                     *)
THEOREM RefusalNeedsOverlap == Spec => []RefusedOnlyByOverlap
<1>1. IInv => RefusedOnlyByOverlap
  BY DEF IInv
<1> QED
  BY SpecIInv, <1>1, PTL
=============================================================================
