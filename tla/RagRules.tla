------------------------------ MODULE RagRules ------------------------------
(***************************************************************************)
(* The pure part of services/ai/rag_retrieval.py over                      *)
(* KnowledgeRepository.top_k: which of the stored chunks answer a query,   *)
(* and how they are cited.  Similarity is a number for each chunk, the     *)
(* same for the database, which orders by it, and for the service, which   *)
(* compares it with the floor (embeddings are normalised, so never 0).     *)
(*                                                                         *)
(* knowledge_chunks.embedding has an HNSW index                            *)
(* (migrations/versions/0001_initial_schema.py:413-417).  With it          *)
(* PostgreSQL may answer the query of top_k from the index, which is       *)
(* approximate: the scan can miss any row and yields at most               *)
(* hnsw.ef_search of them, a setting the code leaves at its default.       *)
(***************************************************************************)
EXTENDS Integers, FiniteSets, SequencesExt

CONSTANTS
  Category, \* FILENAME_TO_CATEGORY
  Lead,     \* the first 200 characters of each chunk
  EfSearch  \* hnsw.ef_search of pgvector

\* What a scan of the rows may yield: all, or what the index has found.
Scans(rows) == {rows} \cup {found \in SUBSET rows : Cardinality(found) <= EfSearch}

\* ORDER BY embedding <=> query LIMIT k over what the scan has found: equally
\* similar rows in any order.
Nearest(found, similarity, k) ==
  {SubSeq(order, 1, IF k < Len(order) THEN k ELSE Len(order)) :
     order \in {s \in SetToSeqs(found) :
                  \A i, j \in DOMAIN s : i < j => similarity[s[i]] >= similarity[s[j]]}}

TopK(rows, similarity, k) ==
  UNION {Nearest(found, similarity, k) : found \in Scans(rows)}

\* The chunks that reach the floor, in their order.
Reaching(chunks, similarity, floor) ==
  LET kept[n \in 0 .. Len(chunks)] ==
        IF n = 0 THEN <<>>
        ELSE IF similarity[chunks[n]] >= floor THEN Append(kept[n - 1], chunks[n])
        ELSE kept[n - 1]
  IN  kept[Len(chunks)]

\* Mutant: a chunk at the floor is dropped.
AboveFloorStrictly(chunks, similarity, floor) ==
  IF floor > 0 THEN Reaching(chunks, similarity, floor + 1) ELSE chunks

\* The floor is applied to what LIMIT has left, and only if it is positive.
AboveFloor(chunks, similarity, floor) ==
  IF floor > 0 THEN Reaching(chunks, similarity, floor) ELSE chunks

Retrievals(rows, similarity, k, floor) ==
  {AboveFloor(chunks, similarity, floor) : chunks \in TopK(rows, similarity, k)}

\* Mutant: the position within the file is left out.
SourceIdCategory(place) == [category |-> Category[place.file], index |-> 1]

SourceId(place) == [category |-> Category[place.file], index |-> place.index]

\* _to_citation, for a chunk stored with a place.
Citation(chunk, place) ==
  [source_id |-> SourceId(place), source_file |-> place.file, snippet |-> Lead[chunk]]
=============================================================================
