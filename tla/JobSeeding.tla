----------------------------- MODULE JobSeeding -----------------------------
(***************************************************************************)
(* scripts/seed_jobs.py over repositories/job_repository.py upsert_job: a  *)
(* run inserts the records of the seed file that are not in jobs yet, all  *)
(* in one transaction.  Each record is looked up by external_ref and then  *)
(* inserted; the unique index on external_ref makes an INSERT wait for a   *)
(* transaction that inserted the same reference and is not over yet, and   *)
(* fail if the reference is there.                                         *)
(*                                                                         *)
(* Every record has a reference: upsert_job would insert a record whose    *)
(* external_ref is None without looking for it (job_repository.py:75), and *)
(* the column is nullable, but JobRecord types the field str and each of   *)
(* the records of the seed file, the only ones upserted, has one.          *)
(***************************************************************************)
EXTENDS Integers, SequencesExt

CONSTANTS
  Runs,    \* executions of the script
  Refs,    \* external references
  Records, \* the seed file: a sequence of references
  Batch    \* EMBED_BATCH_SIZE

ASSUME ConstantsAssumption ==
  /\ Records \in Seq(Refs)
  /\ Batch \in Nat \ {0}

VARIABLES
  jobs,  \* committed rows of jobs: how many there are with each reference
  run    \* the frame and the open transaction of each run

vars == <<jobs, run>>

Steps == {"new", "embed", "select", "insert", "commit", "count", "done", "exited"}

Run ==
  [step : Steps,
   at : 0 .. Len(Records),        \* records processed
   embedded : 0 .. Len(Records),  \* records whose embeddings have been computed
   mine : SUBSET Refs,            \* references of the uncommitted rows
   known : SUBSET Refs,           \* history: committed when the run began
   stored : BOOLEAN,              \* history: its transaction has committed
   error : {"none", "IntegrityError", "other"}]

NewRun ==
  [step |-> "new", at |-> 0, embedded |-> 0, mine |-> {}, known |-> {},
   stored |-> FALSE, error |-> "none"]

TypeOK ==
  /\ jobs \in [Refs -> Nat]
  /\ run \in [Runs -> Run]

Init ==
  /\ jobs = [x \in Refs |-> 0]
  /\ run = [r \in Runs |-> NewRun]

At(r, step) == run[r].step = step

\* The unique index on external_ref has a committed entry.
Taken(ref) == jobs[ref] > 0

\* Mutant: the session is not rolled back.
ExitHolding(r, error) ==
  run' = [run EXCEPT ![r].step = "exited", ![r].error = error]

\* main catches any exception, rolls back and exits with 1; a crash is the same.
Exit(r, error) ==
  run' = [run EXCEPT ![r].step = "exited", ![r].mine = {}, ![r].error = error]

Start(r) ==
  /\ At(r, "new")
  /\ run' = [run EXCEPT ![r].step = "embed", ![r].known = {x \in Refs : Taken(x)}]
  /\ UNCHANGED jobs

\* Mutant: the last batch is taken for a full one.
EmbedBatchUnclipped(r) ==
  LET s == run[r] IN
  /\ s.step = "embed"
  /\ run' = IF s.at = Len(Records) THEN [run EXCEPT ![r].step = "commit"]
            ELSE [run EXCEPT ![r].step = "select", ![r].embedded = s.at + Batch]
  /\ UNCHANGED jobs

\* The next batch, the last of which may be short; without one, the commit.
EmbedBatch(r) ==
  LET s == run[r]
      upTo == IF s.at + Batch < Len(Records) THEN s.at + Batch ELSE Len(Records)
  IN  /\ s.step = "embed"
      /\ run' = IF s.at = Len(Records) THEN [run EXCEPT ![r].step = "commit"]
                ELSE [run EXCEPT ![r].step = "select", ![r].embedded = upTo]
      /\ UNCHANGED jobs

\* One more record is done: the next of the batch, or the next batch.
Advance(s) ==
  [s EXCEPT !.at = @ + 1, !.step = IF s.at + 1 = s.embedded THEN "embed" ELSE "select"]

\* Mutant: only the run's own rows are looked for.
SelectMine(r) ==
  LET s == run[r]
      ref == Records[s.at + 1]
  IN  /\ At(r, "select")
      /\ run' = [run EXCEPT ![r] = IF ref \in s.mine
                                     THEN Advance(s) ELSE [s EXCEPT !.step = "insert"]]
      /\ UNCHANGED jobs

\* upsert_job: the SELECT sees committed rows and the run's own.
Select(r) ==
  LET s == run[r]
      ref == Records[s.at + 1]
  IN  /\ At(r, "select")
      /\ run' = [run EXCEPT ![r] = IF Taken(ref) \/ ref \in s.mine
                                     THEN Advance(s) ELSE [s EXCEPT !.step = "insert"]]
      /\ UNCHANGED jobs

\* Mutant: a run that loses the race takes the row for its own work.
InsertTolerant(r) ==
  LET ref == Records[run[r].at + 1] IN
  /\ At(r, "insert")
  /\ run' = [run EXCEPT ![r] =
       IF Taken(ref) \/ (\E q \in Runs : ref \in run[q].mine) THEN Advance(run[r])
       ELSE [Advance(run[r]) EXCEPT !.mine = @ \cup {ref}]]
  /\ UNCHANGED jobs

\* upsert_job: the INSERT, flushed at once.
Insert(r) ==
  LET ref == Records[run[r].at + 1] IN
  /\ At(r, "insert")
  /\ \A q \in Runs : ref \notin run[q].mine
  /\ IF Taken(ref) THEN Exit(r, "IntegrityError")
     ELSE run' = [run EXCEPT ![r] = [Advance(run[r]) EXCEPT !.mine = @ \cup {ref}]]
  /\ UNCHANGED jobs

Commit(r) ==
  /\ At(r, "commit")
  /\ jobs' = [x \in Refs |-> jobs[x] + (IF x \in run[r].mine THEN 1 ELSE 0)]
  /\ run' = [run EXCEPT ![r].step = "count", ![r].mine = {}, ![r].stored = TRUE]

\* get_job_count, after the COMMIT but in the same try.
Count(r) ==
  /\ At(r, "count")
  /\ run' = [run EXCEPT ![r].step = "done"]
  /\ UNCHANGED jobs

\* A call fails.  In "count" this is the count, or the answer of a COMMIT that
\* is lost: the run exits with 1 although its rows are stored.
Fail(r) ==
  /\ run[r].step \in {"embed", "select", "insert", "commit", "count"}
  /\ Exit(r, "other")
  /\ UNCHANGED jobs

-----------------------------------------------------------------------------
Proceed(r) ==
  Start(r) \/ EmbedBatch(r) \/ Select(r) \/ Insert(r) \/ Commit(r) \/ Count(r)

Next == \E r \in Runs : Proceed(r) \/ Fail(r)

Spec == Init /\ [][Next]_vars

\* The script runs; Insert waits only for a run that ends.
FairSpec == Spec /\ \A r \in Runs : WF_vars(Proceed(r))

-----------------------------------------------------------------------------
(* All or nothing, and once: the table is empty until a run commits, and   *)
(* then it holds every reference of the seed file in exactly one row       *)
(* ("Re-seeding is idempotent - no duplicates created", seed_jobs.py:88),  *)
(* however runs overlap, in whichever batch one fails, although the file   *)
(* repeats a reference, and although a run whose count fails says "rolling *)
(* back" (seed_jobs.py:81) of rows that stay.                              *)
SeededAtOnce ==
  jobs = [x \in Refs |-> IF x \in ToSet(Records) /\ \E r \in Runs : run[r].stored
                          THEN 1 ELSE 0]

(* Every run ends: inserting in the order of the file, runs never wait for *)
(* each other in a circle.                                                 *)
RunsEnd == \A r \in Runs : <>(run[r].step \in {"done", "exited"})

(* "Insert or skip a job record (idempotent on external_ref)"              *)
(* (job_repository.py:72), as far as it goes: a run is refused a record    *)
(* only if another run has committed rows since it began; a reference that *)
(* was there before, or that the file repeats, is skipped.                 *)
RefusedOnlyByOverlap ==
  \A r \in Runs : run[r].error = "IntegrityError" =>
    \E x \in Refs : Taken(x) /\ x \notin run[r].known
=============================================================================
