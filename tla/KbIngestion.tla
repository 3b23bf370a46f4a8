---------------------------- MODULE KbIngestion ----------------------------
(***************************************************************************)
(* scripts/ingest_kb.py and services/ai/kb_ingestion.py over               *)
(* repositories/knowledge_repository.py: a run reads the knowledge base    *)
(* file by file, inserts the chunks that are not stored yet and commits    *)
(* once, at the end.  Deployments may start several runs, and the files    *)
(* may be edited in the meantime.                                          *)
(*                                                                         *)
(* A file is the sequence of chunks ChunkRules makes of it.  SHA-256 is    *)
(* injective as far as the program can tell, so the table is indexed by    *)
(* the chunk itself, and two files or two places may hold the same chunk.  *)
(* INSERT ... ON CONFLICT DO NOTHING waits for a transaction that has      *)
(* inserted the same content_hash and is not over yet; PostgreSQL aborts a *)
(* transaction that waits in a cycle.                                      *)
(***************************************************************************)
EXTENDS Integers, SequencesExt

CONSTANTS
  Runs,     \* executions of the script
  Files,    \* a sequence: the names of FILENAME_TO_CATEGORY, sorted
  Chunks,   \* texts of chunks
  Editions, \* bound: the contents a file may have, sequences of chunks
  MaxEdits, \* bound: edits of the knowledge base
  NoRow, Missing, None

Names == ToSet(Files)

ASSUME ConstantsAssumption ==
  /\ Editions \subseteq Seq(Chunks) /\ Missing \notin Editions
  /\ MaxEdits \in Nat

\* Each name once.
ASSUME FilesAssumption == Files \in Seq(Names) /\ IsInjective(Files)

Place == [file : Names, index : Nat]

ASSUME NoRowAssumption == NoRow \notin Place

VARIABLES
  kb,     \* the files on disk, as chunks, or Missing
  stored, \* committed rows of knowledge_chunks: the place of each chunk
  run,    \* the frame and the open transaction of each run
  edits   \* edits made so far

vars == <<kb, stored, run, edits>>

Run ==
  [step : {"new", "file", "check", "insert", "commit", "done", "exited"},
   left : SUBSET Names,                       \* files still to come
   file : Names \cup {None},
   checked : Nat,                             \* chunks chunk_exists was asked for
   fresh : Seq(Place),                        \* new_chunks
   inserted : Nat,
   results : [Names -> Nat \cup {None}],
   read : [Names -> Editions \cup {Missing}], \* history: the files as read
   mine : [Chunks -> Place \cup {NoRow}]]     \* uncommitted rows

NewRun ==
  [step |-> "new", left |-> Names, file |-> None, checked |-> 0, fresh |-> <<>>,
   inserted |-> 0, results |-> [f \in Names |-> None],
   read |-> [f \in Names |-> Missing],
   mine |-> [c \in Chunks |-> NoRow]]

TypeOK ==
  /\ kb \in [Names -> Editions \cup {Missing}]
  /\ stored \in [Chunks -> Place \cup {NoRow}]
  /\ run \in [Runs -> Run]
  /\ edits \in 0 .. MaxEdits
  /\ \A r \in Runs : run[r].inserted + Len(run[r].fresh) <= run[r].checked

Init ==
  /\ kb \in [Names -> Editions \cup {Missing}]
  /\ stored = [c \in Chunks |-> NoRow]
  /\ run = [r \in Runs |-> NewRun]
  /\ edits = 0

At(r, step) == run[r].step = step

\* The text of the chunk at a place of the file that is being processed.
TextAt(r, place) == run[r].read[place.file][place.index]

-----------------------------------------------------------------------------
Start(r) ==
  /\ At(r, "new")
  /\ run' = [run EXCEPT ![r].step = "file"]
  /\ UNCHANGED <<kb, stored, edits>>

\* Mutant: the files are taken in the order of the directory.
IsNextUnsorted(f, left) == f \in left

\* sorted(FILENAME_TO_CATEGORY.keys())
IsNext(f, left) ==
  LET rank(g) == CHOOSE i \in DOMAIN Files : Files[i] = g IN
  f \in left /\ \A g \in left : rank(f) <= rank(g)

\* Mutant: what was counted for one file is not reset for the next.
ReadFileCumulative(r, f) ==
  /\ At(r, "file")
  /\ IsNext(f, run[r].left)
  /\ run' = IF kb[f] = Missing
              THEN [run EXCEPT ![r].left = @ \ {f}]
              ELSE [run EXCEPT ![r].step = "check", ![r].left = @ \ {f}, ![r].file = f,
                               ![r].read[f] = kb[f], ![r].checked = 0]
  /\ UNCHANGED <<kb, stored, edits>>

\* ingest_kb: a file that does not exist gets no entry in the results.
ReadFile(r, f) ==
  /\ At(r, "file")
  /\ IsNext(f, run[r].left)
  /\ run' = IF kb[f] = Missing
              THEN [run EXCEPT ![r].left = @ \ {f}]
              ELSE [run EXCEPT ![r].step = "check", ![r].left = @ \ {f}, ![r].file = f,
                               ![r].read[f] = kb[f], ![r].checked = 0,
                               ![r].fresh = <<>>, ![r].inserted = 0]
  /\ UNCHANGED <<kb, stored, edits>>

\* What the queries of r see: committed rows and its own.
Visible(r, c) == stored[c] # NoRow \/ run[r].mine[c] # NoRow

\* chunk_exists for the next chunk of the file (places count from 1 here).
CheckChunk(r) ==
  LET s == run[r]
      i == s.checked + 1
  IN  /\ s.step = "check" /\ i <= Len(s.read[s.file])
      /\ run' = [run EXCEPT ![r].checked = i,
                            ![r].fresh = IF Visible(r, s.read[s.file][i]) THEN @
                                         ELSE Append(@, [file |-> s.file, index |-> i])]
      /\ UNCHANGED <<kb, stored, edits>>

\* The list is complete: without new chunks the file is done.
Embed(r) ==
  LET s == run[r] IN
  /\ s.step = "check" /\ s.checked = Len(s.read[s.file])
  /\ run' = IF s.fresh = <<>>
              THEN [run EXCEPT ![r].step = "file", ![r].results[s.file] = 0]
              ELSE [run EXCEPT ![r].step = "insert"]
  /\ UNCHANGED <<kb, stored, edits>>

\* The transactions that hold the index entry of chunk c.
Holding(c) == {r \in Runs : run[r].mine[c] # NoRow}

\* The chunk r is about to insert, if it waits for another run to end.
WaitsFor(r, q) ==
  /\ q # r /\ At(r, "insert") /\ run[r].fresh # <<>>
  /\ q \in Holding(TextAt(r, Head(run[r].fresh)))

\* Mutant: a conflict with an uncommitted row counts as one with a stored row.
InsertChunkSkipping(r) ==
  LET s == run[r]
      place == Head(s.fresh)
      c == TextAt(r, place)
  IN  /\ s.step = "insert" /\ s.fresh # <<>>
      /\ run' = [run EXCEPT ![r].fresh = Tail(@), ![r].inserted = @ + 1,
                            ![r].mine[c] = IF stored[c] # NoRow \/ Holding(c) # {}
                                             THEN @ ELSE place]
      /\ UNCHANGED <<kb, stored, edits>>

\* Mutant: chunk_index is the position among the new chunks.
InsertChunkRenumbered(r) ==
  LET s == run[r]
      place == [Head(s.fresh) EXCEPT !.index = s.inserted + 1]
      c == TextAt(r, Head(s.fresh))
  IN  /\ s.step = "insert" /\ s.fresh # <<>>
      /\ \A q \in Runs : ~WaitsFor(r, q)
      /\ run' = [run EXCEPT ![r].fresh = Tail(@), ![r].inserted = @ + 1,
                            ![r].mine[c] = IF Visible(r, c) THEN @ ELSE place]
      /\ UNCHANGED <<kb, stored, edits>>

\* upsert_chunk: counts the chunk whether or not a row was inserted.
InsertChunk(r) ==
  LET s == run[r]
      place == Head(s.fresh)
      c == TextAt(r, place)
  IN  /\ s.step = "insert" /\ s.fresh # <<>>
      /\ \A q \in Runs : ~WaitsFor(r, q)
      /\ run' = [run EXCEPT ![r].fresh = Tail(@), ![r].inserted = @ + 1,
                            ![r].mine[c] = IF Visible(r, c) THEN @ ELSE place]
      /\ UNCHANGED <<kb, stored, edits>>

FinishFile(r) ==
  LET s == run[r] IN
  /\ s.step = "insert" /\ s.fresh = <<>>
  /\ run' = [run EXCEPT ![r].step = "file", ![r].results[s.file] = s.inserted]
  /\ UNCHANGED <<kb, stored, edits>>

FinishFiles(r) ==
  /\ At(r, "file") /\ run[r].left = {}
  /\ run' = [run EXCEPT ![r].step = "commit"]
  /\ UNCHANGED <<kb, stored, edits>>

Commit(r) ==
  /\ At(r, "commit")
  /\ stored' = [c \in Chunks |-> IF run[r].mine[c] # NoRow THEN run[r].mine[c] ELSE stored[c]]
  /\ run' = [run EXCEPT ![r].step = "done", ![r].mine = NewRun.mine]
  /\ UNCHANGED <<kb, edits>>

\* Mutant: the session is not rolled back.
ExitHolding(r) ==
  run' = [run EXCEPT ![r] = [NewRun EXCEPT !.step = "exited", !.mine = run[r].mine]]

\* main catches any exception, rolls back and exits with 1; a crash is the same.
Exit(r) == run' = [run EXCEPT ![r] = [NewRun EXCEPT !.step = "exited"]]

Fail(r) ==
  /\ run[r].step \in {"file", "check", "insert", "commit"}
  /\ Exit(r)
  /\ UNCHANGED <<kb, stored, edits>>

\* One run at most holds a chunk, so these wait for each other all around.
Cycle(S) ==
  S # {} /\ \A r \in S : (\E q \in S : WaitsFor(r, q)) /\ (\E q \in S : WaitsFor(q, r))

DeadlockDetected(r) ==
  /\ \E S \in SUBSET Runs : r \in S /\ Cycle(S)
  /\ Exit(r)
  /\ UNCHANGED <<kb, stored, edits>>

\* Somebody edits, adds or removes a file.
Edit(f, to) ==
  /\ edits < MaxEdits
  /\ kb[f] # to
  /\ kb' = [kb EXCEPT ![f] = to]
  /\ edits' = edits + 1
  /\ UNCHANGED <<stored, run>>

-----------------------------------------------------------------------------
Proceed(r) ==
  \/ Start(r) \/ (\E f \in Names : ReadFile(r, f)) \/ CheckChunk(r) \/ Embed(r)
  \/ InsertChunk(r) \/ FinishFile(r) \/ FinishFiles(r) \/ Commit(r)

Next ==
  \/ \E r \in Runs : Proceed(r) \/ Fail(r) \/ DeadlockDetected(r)
  \/ \E f \in Names, to \in Editions \cup {Missing} : Edit(f, to)

Spec == Init /\ [][Next]_vars

\* The script runs, and PostgreSQL looks for deadlocks.
FairSpec ==
  /\ Spec
  /\ \A r \in Runs : WF_vars(Proceed(r)) /\ WF_vars(DeadlockDetected(r))

-----------------------------------------------------------------------------
(* The runs implement the abstract knowledge base: a commit makes visible  *)
(* exactly what its run read and nothing else ever changes the table.  So  *)
(* a committed run left nothing out, also not a chunk another run held in  *)
(* a transaction that then failed, and the row of a chunk cites the first  *)
(* place at which the run that stored it read it (ingest_kb, upsert_chunk).*)
Base == INSTANCE KnowledgeBase WITH
  table <- stored,
  ingested <- {run[r].read : r \in {q \in Runs : At(q, "done")}},
  Readings <- [Names -> Editions \cup {Missing}]

ImplementsKnowledgeBase == Base!Spec

(* Runs over the same texts never deadlock, whatever each of them finds    *)
(* stored, because all insert in the same order: in any cycle one run      *)
(* waits for another that read a different text of a file both got to.     *)
DeadlockNeedsEdit ==
  \A S \in SUBSET Runs : Cycle(S) =>
    \E r, q \in S :
      /\ WaitsFor(r, q)
      /\ \E f \in Names \ (run[r].left \cup run[q].left) : run[r].read[f] # run[q].read[f]

(* Every run ends, committed or not, also when edits made two of them      *)
(* insert the same chunks in different orders.                             *)
RunsEnd == \A r \in Runs : <>(run[r].step \in {"done", "exited"})
=============================================================================
