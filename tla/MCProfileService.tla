-------------------------- MODULE MCProfileService --------------------------
(***************************************************************************)
(* ProfileService for small sets of workers, users, sections and contents, *)
(* given in the configurations, and its pure rules for every assignment of *)
(* the seven sections and every list of at most MaxSkills skills.          *)
(***************************************************************************)
EXTENDS ProfileService

CONSTANTS
  Content,          \* of a section that is filled in
  Words, MaxSkills  \* bounds: the texts and the number of skills of a list

ASSUME BoundsAssumption == MaxSkills \in Nat

\* A list section of a stored profile is never NULL.
Profiles ==
  {p \in [Sections -> {None, Empty, Content}] : \A s \in Lists : p[s] # None}

(* compute_completion_percentage and _incomplete_sections, which test the  *)
(* sections each in its own way, agree: a profile is at 100 exactly when   *)
(* nothing is listed as incomplete, and the percentage is the integer      *)
(* nearest to the share of the sections that are not listed.  It does not  *)
(* depend on the state: TLC evaluates it in the initial one.               *)
CompletionAgrees ==
  Init => \A profile \in Profiles :
    LET pct == CompletionPercentage(profile)
        missing == Cardinality(IncompleteSections(profile))
    IN  /\ pct = 100 <=> missing = 0
        /\ 2 * (7 * pct - 100 * (7 - missing)) \in -7 .. 7

RawSkills == [text : Words \cup {Empty}, padded : BOOLEAN]

FirstIndex(skills, t) ==
  CHOOSE i \in DOMAIN skills :
    Strip(skills[i]) = t /\ \A j \in 1 .. i - 1 : Strip(skills[j]) # t

Normalizes(skills) ==
  LET kept == NormalizeSkills(skills)
      again == NormalizeSkills([i \in DOMAIN kept |-> [text |-> kept[i], padded |-> FALSE]])
      first(i) == FirstIndex(skills, kept[i])
  IN  /\ ToSet(kept) = {Strip(skills[i]) : i \in DOMAIN skills} \ {Empty}
      /\ \A i, j \in DOMAIN kept : i < j => first(i) < first(j)
      /\ again = kept

(* _normalize_skills keeps exactly the non-blank stripped texts, each one  *)
(* once, ordered by their first occurrence; and normalising the result     *)
(* again changes nothing, so a round trip through the client is stable.    *)
NormalizedOnce ==
  Init => \A skills \in BoundedSeq(RawSkills, MaxSkills) : Normalizes(skills)
=============================================================================
