----------------------------- MODULE ChunkRules -----------------------------
(***************************************************************************)
(* The chunking of a markdown file, services/ai/kb_ingestion.py: the lines *)
(* are divided into sections at "## " headings and sections into           *)
(* paragraphs at blank lines, and the paragraphs of a section are packed   *)
(* greedily into chunks of at most max_chars.  Of a line only two things   *)
(* matter: whether it is a heading, and how long its text is (the title,   *)
(* without "## "); a line of length 0 is blank, or a heading without title.*)
(***************************************************************************)
EXTENDS Integers, SequencesExt

HeadingLen == 3   \* len("## ")
NewlineLen == 1   \* between the lines of a paragraph
SeparatorLen == 2 \* len("\n\n"), between the paragraphs of a chunk

HasText(lines) == \E i \in DOMAIN lines : lines[i].len > 0

\* re.split of the lines, a new part at each of the lines in D.
Extend(parts, line) == [parts EXCEPT ![Len(parts)] = Append(@, line)]

Cut(lines, D) ==
  LET parts[i \in 0 .. Len(lines)] ==
        IF i = 0 THEN << <<>> >>
        ELSE IF i \in D THEN Append(parts[i - 1], <<lines[i]>>)
        ELSE Extend(parts[i - 1], lines[i])
  IN  parts[Len(lines)]

\* part.strip(), with the prefix the split consumed put back in front: after
\* a heading without title that is in front of the first line of text.
StripPart(part) ==
  LET texts == {i \in DOMAIN part : part[i].len > 0}
      first == CHOOSE i \in texts : \A j \in texts : i <= j
      last  == CHOOSE i \in texts : \A j \in texts : i >= j
  IN  [SubSeq(part, first, last) EXCEPT ![1].heading = part[1].heading]

\* Parts that are all white space are dropped.
Stripped(parts) ==
  FlattenSeq([i \in DOMAIN parts |->
                IF HasText(parts[i]) THEN <<StripPart(parts[i])>> ELSE <<>>])

SplitIntoSections(lines) == Stripped(Cut(lines, {i \in DOMAIN lines : lines[i].heading}))

SplitOnParagraphs(section) ==
  Stripped(Cut(section, {i \in DOMAIN section : section[i].len = 0}))

-----------------------------------------------------------------------------
Total(numbers) ==
  LET sum[i \in 0 .. Len(numbers)] == IF i = 0 THEN 0 ELSE sum[i - 1] + numbers[i]
  IN  sum[Len(numbers)]

LineLen(line) == line.len + (IF line.heading THEN HeadingLen ELSE 0)

ParagraphLen(para) ==
  Total([i \in DOMAIN para |-> LineLen(para[i])]) + NewlineLen * (Len(para) - 1)

\* Mutant: the separators are not counted.
PackUnseparated(acc, para, max_chars) ==
  LET len == ParagraphLen(para) IN
  IF acc.parts # <<>> /\ acc.len + len > max_chars
    THEN [chunks |-> Append(acc.chunks, acc.parts), parts |-> <<para>>, len |-> len]
    ELSE [acc EXCEPT !.parts = Append(@, para), !.len = @ + len]

\* One turn of the loop of _merge_paragraphs_into_chunks.
Pack(acc, para, max_chars) ==
  LET len == ParagraphLen(para)
      separator == IF acc.parts = <<>> THEN 0 ELSE SeparatorLen
  IN  IF acc.parts # <<>> /\ acc.len + separator + len > max_chars
        THEN [chunks |-> Append(acc.chunks, acc.parts), parts |-> <<para>>, len |-> len]
        ELSE [acc EXCEPT !.parts = Append(@, para), !.len = @ + separator + len]

MergeParagraphs(paragraphs, max_chars) ==
  LET acc[i \in 0 .. Len(paragraphs)] ==
        IF i = 0 THEN [chunks |-> <<>>, parts |-> <<>>, len |-> 0]
        ELSE Pack(acc[i - 1], paragraphs[i], max_chars)
      last == acc[Len(paragraphs)]
  IN  IF last.parts = <<>> THEN last.chunks ELSE Append(last.chunks, last.parts)

\* chunk_markdown: chunk_index is the position in the result.
ChunkMarkdown(lines, max_chars) ==
  LET sections == SplitIntoSections(lines) IN
  FlattenSeq([i \in DOMAIN sections |->
                MergeParagraphs(SplitOnParagraphs(sections[i]), max_chars)])
=============================================================================
