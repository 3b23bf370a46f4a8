--------------------------- MODULE KnowledgeBase ---------------------------
(***************************************************************************)
(* What ingestion promises of the table knowledge_chunks, whatever runs of *)
(* scripts/ingest_kb.py overlap or fail and whenever files are edited: a   *)
(* run that commits puts all it has read into the table in one step.  A    *)
(* chunk that is stored keeps its row for ever; a new one is cited by the  *)
(* first place it has in the files as that run read them.  KbIngestion     *)
(* implements this specification, RagRetrieval reads its table.            *)
(***************************************************************************)
EXTENDS Integers, SequencesExt

CONSTANTS
  Files,    \* a sequence: the names of FILENAME_TO_CATEGORY, sorted
  Chunks,   \* texts of chunks
  Readings, \* what a run may read: of each file its chunks, or Missing
  NoRow, Missing

Names == ToSet(Files)
Place == [file : Names, index : Nat]

VARIABLES
  table,   \* the rows: the place of each stored chunk
  ingested \* history: the readings of the runs that committed

Init ==
  /\ table = [c \in Chunks |-> NoRow]
  /\ ingested = {}

\* The position of a file in the sorted list.
Rank(f) == CHOOSE i \in DOMAIN Files : Files[i] = f

Places(reading, c) ==
  UNION {{[file |-> f, index |-> i] : i \in {j \in DOMAIN reading[f] : reading[f][j] = c}} :
         f \in {g \in Names : reading[g] # Missing}}

Before(p, q) == \/ Rank(p.file) < Rank(q.file)
                \/ p.file = q.file /\ p.index < q.index

FirstPlace(reading, c) ==
  CHOOSE p \in Places(reading, c) : \A q \in Places(reading, c) \ {p} : Before(p, q)

Ingest(reading) ==
  /\ table' = [c \in Chunks |->
                 IF table[c] = NoRow /\ Places(reading, c) # {}
                   THEN FirstPlace(reading, c) ELSE table[c]]
  /\ ingested' = ingested \cup {reading}

Next == \E reading \in Readings : Ingest(reading)

Spec == Init /\ [][Next]_<<table, ingested>>
=============================================================================
