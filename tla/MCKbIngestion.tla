--------------------------- MODULE MCKbIngestion ---------------------------
(***************************************************************************)
(* Values for the constants of KbIngestion: two files whose editions share *)
(* chunks, in the same order or not, and repeat one.  And the rules that   *)
(* make chunks of a file, for every file of at most MaxLines lines.        *)
(***************************************************************************)
EXTENDS KbIngestion, ChunkRules

CONSTANTS
  c1, c2,
  Lengths, TitleLengths, \* of the lines of text and of the headings
  MaxChars,              \* max_chars
  MaxLines               \* bound: lines of a file

ASSUME BoundsAssumption ==
  /\ Lengths \subseteq Nat /\ TitleLengths \subseteq Nat
  /\ MaxChars \in Nat /\ MaxLines \in Nat

MCFiles == <<"ats_best_practices.md", "resume_writing.md">>
MCEditions == {<<c1>>, <<c1, c2>>, <<c2, c1>>, <<c1, c2, c1>>}

Lines == [heading : {FALSE}, len : Lengths] \cup [heading : {TRUE}, len : TitleLengths]

-----------------------------------------------------------------------------
\* The length of the text of a chunk: its paragraphs and the blank lines.
TextLen(chunk) ==
  Total([i \in DOMAIN chunk |-> ParagraphLen(chunk[i])]) + SeparatorLen * (Len(chunk) - 1)

Bounded(chunk) == TextLen(chunk) <= MaxChars \/ Len(chunk) = 1

\* Some way to cut paragraphs into fewer than n bounded chunks.
FewerThan(n, paras) ==
  \E cuts \in SUBSET (1 .. Len(paras) - 1) :
    /\ Cardinality(cuts) + 1 < n
    /\ \A i \in {0} \cup cuts, k \in cuts \cup {Len(paras)} :
         i < k /\ (i + 1) .. (k - 1) \cap cuts = {} => Bounded(SubSeq(paras, i + 1, k))

TextsOf(lines) == [i \in DOMAIN lines |-> lines[i].len]

TextLines(lines) ==
  FlattenSeq([i \in DOMAIN lines |-> IF lines[i].len > 0 THEN <<lines[i]>> ELSE <<>>])

Partitions(file) ==
  LET chunks == ChunkMarkdown(file, MaxChars)
      sections == SplitIntoSections(file)
  IN  /\ TextsOf(FlattenSeq(FlattenSeq(chunks)))
           = TextsOf(TextLines(file))
      /\ \A c \in ToSet(chunks) :
           /\ \A i \in 2 .. Len(FlattenSeq(c)) : ~FlattenSeq(c)[i].heading
           /\ Bounded(c)
      /\ \A i \in DOMAIN sections :
           LET paras == SplitOnParagraphs(sections[i]) IN
           ~FewerThan(Len(MergeParagraphs(paras, MaxChars)), paras)

(* Chunking loses, repeats and reorders no line of text and never joins    *)
(* two sections (a heading is the first line of its chunk); the joined     *)
(* text of a chunk, prefixes and separators included, exceeds max_chars    *)
(* only if the chunk is a single paragraph; and no division of a section   *)
(* into such chunks has fewer of them (chunk_markdown,                     *)
(* _merge_paragraphs_into_chunks, kb_ingestion.py:105-110 and 147-151).    *)
(* This is what the code does and not what the design asks for:            *)
(* rag-pipeline.md:83-84 wants neighbouring chunks to overlap by about 15% *)
(* and, as kb_ingestion.py:10 does, a hard ceiling of about 1000 tokens;   *)
(* the code has no overlap and no ceiling for a single paragraph.          *)
(* It does not depend on the state: TLC evaluates it in the initial ones.  *)
ChunksPartition ==
  Init => \A file \in BoundedSeq(Lines, MaxLines) : Partitions(file)
=============================================================================
