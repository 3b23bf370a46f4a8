---------------------------- MODULE ProfileRules ----------------------------
(***************************************************************************)
(* The pure rules of a profile: which sections count as populated, the     *)
(* completion percentage (repositories/profile_repository.py), the list of *)
(* incomplete sections and the normalisation of skills                     *)
(* (services/profile_service.py).                                          *)
(*                                                                         *)
(* A section holds None (NULL), Empty ("" or []) or some content.          *)
(***************************************************************************)
EXTENDS Integers, FiniteSets, SequencesExt

CONSTANTS
  None,   \* NULL; for a list section of a request: omitted
  Empty   \* the empty string or the empty list

\* headline and summary are texts, the other five are lists.
Texts == {"headline", "summary"}
Lists == {"skills", "education", "experience", "certifications", "projects"}
Sections == Texts \cup Lists
Columns == Sections \cup {"completion_percentage"}

Populated(sections) == {s \in Sections : sections[s] \notin {None, Empty}}

\* round(100 * n / 7): the quotient is never half way between two integers.
Rounded(n) == (200 * n + 7) \div 14

CompletionPercentage(sections) == Rounded(Cardinality(Populated(sections)))

\* Mutant: an empty text counts as filled in.
IncompleteSectionsNullOnly(sections) ==
  {s \in Texts : sections[s] = None} \cup {s \in Lists : sections[s] = Empty}

\* _incomplete_sections tests each section on its own account.
IncompleteSections(sections) ==
  {s \in Texts : sections[s] = None \/ sections[s] = Empty}
    \cup {s \in Lists : sections[s] = Empty}

-----------------------------------------------------------------------------
\* A skill as the client writes it: a text, with or without white space
\* around it.  The text Empty is what is left of one that is all white space.
Strip(raw) == raw.text

\* Mutant: blank skills are looked for before they are stripped.
KeepSkillUnstripped(kept, raw) ==
  IF (Strip(raw) = Empty /\ ~raw.padded) \/ Contains(kept, Strip(raw)) THEN kept
  ELSE Append(kept, Strip(raw))

\* One turn of the loop of _normalize_skills.
KeepSkill(kept, raw) ==
  IF Strip(raw) = Empty \/ Contains(kept, Strip(raw)) THEN kept
  ELSE Append(kept, Strip(raw))

NormalizeSkills(raws) ==
  LET kept[i \in 0 .. Len(raws)] ==
        IF i = 0 THEN <<>> ELSE KeepSkill(kept[i - 1], raws[i])
  IN  kept[Len(raws)]
=============================================================================
