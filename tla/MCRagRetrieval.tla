--------------------------- MODULE MCRagRetrieval ---------------------------
(***************************************************************************)
(* RagRetrieval over two files that are read before and after an edit, and *)
(* its rules for every table of chunks from Chunks, every similarity in    *)
(* Grades, every k up to one more than there are chunks and every floor    *)
(* in the same range.                                                      *)
(***************************************************************************)
EXTENDS RagRetrieval

CONSTANTS c1, c2, c3

MCFiles == <<"ats_best_practices.md", "resume_writing.md">>
MCCategory == [f \in ToSet(MCFiles) |-> IF f = "resume_writing.md" THEN "resume" ELSE "ats"]

Read(ats, resume) ==
  [f \in ToSet(MCFiles) |-> IF f = "resume_writing.md" THEN resume ELSE ats]

\* Of the first file a chunk is replaced, which moves to the second one.
MCReadings == {Read(<<c1, c2>>, Missing), Read(<<c3, c2>>, <<c1>>)}

\* c1 and c2 begin alike.
MCLead == [x \in {c1, c2, c3} |-> IF x = c3 THEN "other" ELSE "same"]

MCSimilarities == {[x \in {c1, c2, c3} |-> IF x = far THEN 1 ELSE 2] : far \in {c1, c2, c3}}

Grades == -1 .. 2 \* bound: of the similarities and the floors

-----------------------------------------------------------------------------
(* Applying the floor after LIMIT loses nothing that was there: whatever   *)
(* the scan has found, the answer holds at most k different stored chunks  *)
(* that reach the floor, the nearest first, and a stored chunk that        *)
(* reaches it is left out only if the scan has missed it or the k that are *)
(* given are all as near (retrieve, top_k).  An exact scan misses none, so *)
(* then these are the nearest.  Ties, k = 0, k beyond the table, fewer     *)
(* rows found than asked for, and a floor that is not positive, which      *)
(* admits every chunk, included.                                           *)
(* It does not depend on the state: TLC evaluates it in the initial one.   *)
NearestAboveFloor ==
  Init =>
    \A rows \in SUBSET Chunks, k \in 0 .. Cardinality(Chunks) + 1,
       floor \in Grades, similarity \in [Chunks -> Grades] :
      \A found \in Scans(rows) : \A chunks \in Nearest(found, similarity, k) :
        LET answers == AboveFloor(chunks, similarity, floor)
            eligible == {x \in rows : floor > 0 => similarity[x] >= floor}
            given == ToSet(answers)
            missed == rows \ found
        IN  /\ IsInjective(answers) /\ given \subseteq eligible /\ Len(answers) <= k
            /\ \A i, j \in DOMAIN answers :
                 i < j => similarity[answers[i]] >= similarity[answers[j]]
            /\ \A y \in eligible \ (given \cup missed) :
                 Len(answers) = k /\ \A x \in given : similarity[x] >= similarity[y]
=============================================================================
