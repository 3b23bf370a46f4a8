----------------------- MODULE ProfileService_proofs -----------------------
(***************************************************************************)
(* Safety of ProfileService for every set of workers, users and contents,  *)
(* and the agreement of its two ways to tell a complete profile.           *)
(*                                                                         *)
(* What a commit writes was computed from a row read two steps earlier.    *)
(* SessionInv says what is still true of it, HoldersDistinct that only one *)
(* open transaction at a time has a statement on the row of a user.  The   *)
(* module extends the one that states CompletionAgrees and NormalizedOnce. *)
(***************************************************************************)
EXTENDS MCProfileService, FiniteSetTheorems, SequenceTheorems, Loops

USE ConstantsAssumption, NoRowAssumption

Holds(w) == session[w].step = "commit" /\ session[w].dirty # {}

SessionInv(w) ==
  LET s == session[w] IN
  /\ s.step \in {"flush", "commit"} =>
       /\ s.op \in {"get", "update"}
       /\ s.user \in Users /\ s.requester = s.user
       /\ s.target \in Profile
       /\ s.op = "update" \/ s.loaded = NoRow => Matches(s.target)
       /\ s.loaded # NoRow => profiles[s.user] # NoRow
  /\ s.step = "flush" /\ s.op = "get" => s.loaded = NoRow
  /\ Holds(w) =>
       /\ s.dirty = Changed(s)
       /\ s.op = "get" => s.loaded = NoRow
       /\ s.loaded = NoRow => profiles[s.user] = NoRow

HoldersDistinct ==
  \A v, w \in Workers : v # w /\ Holds(v) /\ Holds(w) => session[v].user # session[w].user

IInv ==
  /\ TypeOK
  /\ \A w \in Workers : SessionInv(w)
  /\ HoldersDistinct
  /\ MatchesUnlessOverlapped

-----------------------------------------------------------------------------
(* The rules of ProfileRules.                                              *)

LEMMA AddNew ==
  ASSUME NEW S, NEW n \in Nat, IsFiniteSet(S), Cardinality(S) = n, NEW x, x \notin S
  PROVE  IsFiniteSet(S \cup {x}) /\ Cardinality(S \cup {x}) = n + 1
BY FS_AddElement

LEMMA SevenSections == IsFiniteSet(Sections) /\ Cardinality(Sections) = 7
<1> DEFINE s2 == {"headline", "summary"}
           s4 == {"headline", "summary", "skills", "education"}
           s6 == {"headline", "summary", "skills", "education", "experience",
                  "certifications"}
<1>1. IsFiniteSet(s2) /\ Cardinality(s2) = 2
  <2>1. IsFiniteSet({"headline"}) /\ Cardinality({"headline"}) = 1
    BY FS_Singleton
  <2>2. {"headline"} \cup {"summary"} = s2 /\ "summary" \notin {"headline"}
    OBVIOUS
  <2> QED
    BY <2>1, <2>2, AddNew
<1>2. IsFiniteSet(s4) /\ Cardinality(s4) = 4
  <2>1. IsFiniteSet(s2 \cup {"skills"}) /\ Cardinality(s2 \cup {"skills"}) = 3
    BY <1>1, AddNew
  <2>2. (s2 \cup {"skills"}) \cup {"education"} = s4 /\ "education" \notin s2 \cup {"skills"}
    OBVIOUS
  <2> QED
    BY <2>1, <2>2, AddNew
<1>3. IsFiniteSet(s6) /\ Cardinality(s6) = 6
  <2>1. IsFiniteSet(s4 \cup {"experience"}) /\ Cardinality(s4 \cup {"experience"}) = 5
    <3>1. "experience" \notin s4
      OBVIOUS
    <3> QED
      BY <1>2, <3>1, AddNew
  <2>2. /\ (s4 \cup {"experience"}) \cup {"certifications"} = s6
        /\ "certifications" \notin s4 \cup {"experience"}
    OBVIOUS
  <2> QED
    BY <2>1, <2>2, AddNew
<1>4. Sections = s6 \cup {"projects"} /\ "projects" \notin s6
  BY DEF Sections, Texts, Lists
<1> HIDE DEF s6
<1> QED
  BY <1>3, <1>4, AddNew

LEMMA PopulatedBound ==
  ASSUME NEW sections
  PROVE  IsFiniteSet(Populated(sections)) /\ Cardinality(Populated(sections)) \in 0 .. 7
<1>1. Populated(sections) \in SUBSET Sections
  BY DEF Populated
<1>2. /\ IsFiniteSet(Populated(sections))
      /\ Cardinality(Populated(sections)) <= Cardinality(Sections)
  BY <1>1, SevenSections, FS_Subset
<1> QED
  BY <1>2, SevenSections, FS_CardinalityType

LEMMA PercentageBound ==
  ASSUME NEW sections
  PROVE  CompletionPercentage(sections) \in 0 .. 100
<1> DEFINE n == Cardinality(Populated(sections))
<1>1. n \in 0 .. 7
  BY PopulatedBound
<1> HIDE DEF n
<1>2. (200 * n + 7) \div 14 \in 0 .. 100
  BY <1>1
<1> QED
  BY <1>2 DEF CompletionPercentage, Rounded, n

(* The percentage of the populated sections and the list of the incomplete *)
(* ones agree for every profile, whatever its sections hold                *)
(* (compute_completion_percentage, _incomplete_sections).                  *)
THEOREM PercentageAndListAgree == CompletionAgrees
<1> SUFFICES ASSUME NEW profile \in Profiles
             PROVE  LET pct == CompletionPercentage(profile)
                        missing == Cardinality(IncompleteSections(profile))
                    IN  /\ pct = 100 <=> missing = 0
                        /\ 2 * (7 * pct - 100 * (7 - missing)) \in -7 .. 7
  BY DEF CompletionAgrees
<1> DEFINE n == Cardinality(Populated(profile))
           m == Cardinality(IncompleteSections(profile))
           pct == (200 * n + 7) \div 14
<1>1. IncompleteSections(profile) = Sections \ Populated(profile)
  BY DEF Profiles, IncompleteSections, Populated, Sections, Texts, Lists
<1>2. Sections \cap Populated(profile) = Populated(profile)
  BY DEF Populated
<1>3. m = 7 - n
  BY <1>1, <1>2, SevenSections, FS_Difference
<1>4. n \in 0 .. 7
  BY PopulatedBound
<1> HIDE DEF n, m
<1>5. n = 0 \/ n = 1 \/ n = 2 \/ n = 3 \/ n = 4 \/ n = 5 \/ n = 6 \/ n = 7
  BY <1>4
<1>6. /\ pct = 100 <=> 7 - n = 0
      /\ 2 * (7 * pct - 100 * (7 - (7 - n))) \in -7 .. 7
  BY <1>5
<1> QED
  BY <1>3, <1>6 DEF CompletionPercentage, Rounded, n, m

-----------------------------------------------------------------------------
(* The normalisation of skills.                                            *)

\* The function NormalizeSkills is defined with.
IsSkillsLoop(raws, kept) ==
  kept = [i \in 0 .. Len(raws) |-> IF i = 0 THEN <<>> ELSE KeepSkill(kept[i - 1], raws[i])]

\* kept[i] is what the loop has kept after i turns.
RunsTo(raws, T, kept, result) ==
  /\ kept \in [0 .. Len(raws) -> Seq(T)] /\ kept[0] = <<>>
  /\ \A i \in 1 .. Len(raws) : kept[i] = KeepSkill(kept[i - 1], raws[i])
  /\ result = kept[Len(raws)]

Raws(T) == [text : T, padded : BOOLEAN]

LEMMA SkillsLoop ==
  ASSUME NEW T, NEW raws \in Seq(Raws(T))
  PROVE  \E kept : RunsTo(raws, T, kept, NormalizeSkills(raws))
<1> DEFINE n == Len(raws)
           S == Seq(T)
           base == <<>>
           turn == [x \in S \X (1 .. n) |-> KeepSkill(x[1], raws[x[2]])]
           kept == CHOOSE f : IsSkillsLoop(raws, f)
<1>1. n \in Nat /\ \A i \in 1 .. n : raws[i].text \in T
  <2>1. \A i \in 1 .. n : raws[i] \in [text : T, padded : BOOLEAN]
    BY ElementOfSeq DEF Raws
  <2> QED
    BY <2>1, LenProperties
<1>2. base \in S /\ \A s \in S, i \in 1 .. n : KeepSkill(s, raws[i]) \in S
  BY <1>1 DEF KeepSkill, Strip
<1>3. /\ turn \in [S \X (1 .. n) -> S]
      /\ \A s \in S, k \in 1 .. n : turn[<<s, k>>] = KeepSkill(s, raws[k])
  BY <1>2
<1> HIDE DEF S, n, turn, base
<1>4. PICK f : IsLoop(f, n, S, base, turn)
  BY <1>1, <1>2, <1>3, LoopRuns
<1>5. f \in [0 .. n -> S] /\ f[0] = base /\ \A i \in 1 .. n : f[i] = turn[<<f[i - 1], i>>]
  BY <1>4 DEF IsLoop
<1>6. \A i \in 0 .. n : f[i] = IF i = 0 THEN base ELSE KeepSkill(f[i - 1], raws[i])
  <2> SUFFICES ASSUME NEW i \in 1 .. n PROVE f[i] = KeepSkill(f[i - 1], raws[i])
    BY <1>1, <1>5
  <2>1. i - 1 \in 0 .. n
    BY <1>1
  <2> QED
    BY <1>3, <1>5, <2>1
<1>7. IsSkillsLoop(raws, f)
  <2>1. f = [i \in 0 .. n |-> f[i]]
    BY <1>5
  <2> QED
    BY <1>6, <2>1, Zenon DEF IsSkillsLoop, n, base
<1>8. IsSkillsLoop(raws, kept)
  BY <1>7
<1>9. NormalizeSkills(raws) = kept[n]
  BY DEF NormalizeSkills, IsSkillsLoop, n
<1> HIDE DEF kept
<1>10. kept = [i \in 0 .. n |-> IF i = 0 THEN base ELSE KeepSkill(kept[i - 1], raws[i])]
  BY <1>8 DEF IsSkillsLoop, n, base
<1>11. kept[0] = base /\ \A i \in 1 .. n : kept[i] = KeepSkill(kept[i - 1], raws[i])
  BY <1>1, <1>10
<1> DEFINE P == {i \in 0 .. n : kept[i] \in S}
<1>12. \A i \in 0 .. n : i \in P
  <2>1. 0 \in P
    BY <1>1, <1>2, <1>11
  <2>2. ASSUME NEW i \in 1 .. n, i - 1 \in P PROVE i \in P
    BY <1>1, <1>2, <1>11, <2>2
  <2> HIDE DEF P
  <2> QED
    BY <1>1, <2>1, <2>2, Induction
<1>13. kept \in [0 .. n -> S]
  BY <1>10, <1>12
<1>14. RunsTo(raws, T, kept, NormalizeSkills(raws))
  BY <1>9, <1>11, <1>13 DEF RunsTo, n, S, base
<1> QED
  BY <1>14

\* After i turns: the texts read so far, each once, in the order they came in.
KeptInv(raws, s, i) ==
  /\ \A j \in 1 .. Len(s) : s[j] # Empty /\ \E p \in 1 .. i : Strip(raws[p]) = s[j]
  /\ \A p \in 1 .. i : Strip(raws[p]) # Empty => \E j \in 1 .. Len(s) : s[j] = Strip(raws[p])
  /\ \A j, k \in 1 .. Len(s) : j < k =>
       \E p \in 1 .. i : Strip(raws[p]) = s[j] /\ \A q \in 1 .. p : Strip(raws[q]) # s[k]

LEMMA KeepSkillInv ==
  ASSUME NEW T, NEW raws \in Seq(Raws(T)), NEW i \in 1 .. Len(raws),
         NEW s \in Seq(T), KeptInv(raws, s, i - 1)
  PROVE  KeptInv(raws, KeepSkill(s, raws[i]), i)
<1> DEFINE t == Strip(raws[i])
<1>1. i \in Nat /\ i - 1 \in Nat /\ Len(s) \in Nat /\ i \in 1 .. i
      /\ \A p \in 1 .. i : p = i \/ p \in 1 .. i - 1
  BY LenProperties
<1>2. \A p \in 1 .. i - 1 : p \in 1 .. i /\ \A q \in 1 .. p : q \in 1 .. i - 1
  BY <1>1
<1>3. CASE t = Empty \/ Contains(s, t)
  <2>1. KeepSkill(s, raws[i]) = s
    BY <1>3 DEF KeepSkill
  <2>2. t # Empty => \E j \in 1 .. Len(s) : s[j] = t
    BY <1>3 DEF Contains
  <2> HIDE DEF t
  <2>3. \A j \in 1 .. Len(s) : s[j] # Empty /\ \E p \in 1 .. i : Strip(raws[p]) = s[j]
    BY <1>2 DEF KeptInv
  <2>4. ASSUME NEW p \in 1 .. i, Strip(raws[p]) # Empty
        PROVE  \E j \in 1 .. Len(s) : s[j] = Strip(raws[p])
    <3>1. CASE p = i
      BY <2>2, <2>4, <3>1 DEF t
    <3>2. CASE p \in 1 .. i - 1
      BY <2>4, <3>2 DEF KeptInv
    <3> QED
      BY <1>1, <3>1, <3>2
  <2>5. \A j, k \in 1 .. Len(s) : j < k =>
          \E p \in 1 .. i : Strip(raws[p]) = s[j] /\ \A q \in 1 .. p : Strip(raws[q]) # s[k]
    BY <1>2 DEF KeptInv
  <2> QED
    BY <2>1, <2>3, <2>4, <2>5 DEF KeptInv
<1>4. CASE ~(t = Empty \/ Contains(s, t))
  <2> DEFINE r == Append(s, t)
  <2>1. KeepSkill(s, raws[i]) = r
    BY <1>4 DEF KeepSkill
  <2>2. t \in T
    <3>1. raws[i] \in Raws(T)
      BY ElementOfSeq
    <3> QED
      BY <3>1 DEF Raws, Strip
  <2>3. /\ Len(r) = Len(s) + 1 /\ r[Len(s) + 1] = t
        /\ \A j \in 1 .. Len(s) : r[j] = s[j]
    BY <2>2, AppendProperties
  <2>4. /\ \A j \in 1 .. Len(r) : j = Len(s) + 1 \/ j \in 1 .. Len(s)
        /\ Len(s) + 1 \in 1 .. Len(r)
        /\ \A j \in 1 .. Len(s) : j \in 1 .. Len(r) /\ j < Len(s) + 1
        /\ \A k \in 1 .. Len(r) : ~(Len(s) + 1 < k)
    BY <1>1, <2>3
  <2>5. t # Empty /\ \A j \in 1 .. Len(s) : s[j] # t
    BY <1>4 DEF Contains
  <2>6. \A q \in 1 .. i - 1 : Strip(raws[q]) # t
    BY <2>5 DEF KeptInv
  <2> HIDE DEF r, t
  <2>7. \A j \in 1 .. Len(r) : r[j] # Empty /\ \E p \in 1 .. i : Strip(raws[p]) = r[j]
    BY <1>1, <1>2, <2>3, <2>4, <2>5 DEF KeptInv, t
  <2>8. ASSUME NEW p \in 1 .. i, Strip(raws[p]) # Empty
        PROVE  \E j \in 1 .. Len(r) : r[j] = Strip(raws[p])
    BY <1>1, <2>3, <2>4, <2>8 DEF KeptInv, t
  <2>9. ASSUME NEW j \in 1 .. Len(r), NEW k \in 1 .. Len(r), j < k
        PROVE  \E p \in 1 .. i : Strip(raws[p]) = r[j] /\ \A q \in 1 .. p : Strip(raws[q]) # r[k]
    <3>1. j \in 1 .. Len(s) /\ r[j] = s[j]
      BY <2>3, <2>4, <2>9
    <3>2. CASE k \in 1 .. Len(s)
      <4>1. r[k] = s[k]
        BY <2>3, <3>2
      <4>2. PICK p \in 1 .. i - 1 : Strip(raws[p]) = s[j] /\ \A q \in 1 .. p : Strip(raws[q]) # s[k]
        BY <2>9, <3>1, <3>2 DEF KeptInv
      <4> QED
        BY <1>2, <3>1, <4>1, <4>2
    <3>3. CASE k = Len(s) + 1
      <4>1. PICK p \in 1 .. i - 1 : Strip(raws[p]) = s[j]
        BY <3>1 DEF KeptInv
      <4> QED
        BY <1>2, <2>3, <2>6, <3>1, <3>3, <4>1
    <3> QED
      BY <2>4, <3>2, <3>3
  <2> QED
    BY <2>1, <2>7, <2>8, <2>9 DEF KeptInv
<1> QED
  BY <1>3, <1>4

LEMMA NormalizedInv ==
  ASSUME NEW T, NEW raws \in Seq(Raws(T))
  PROVE  NormalizeSkills(raws) \in Seq(T) /\ KeptInv(raws, NormalizeSkills(raws), Len(raws))
<1> DEFINE n == Len(raws)
<1>1. n \in Nat
  BY LenProperties
<1>2. PICK kept : RunsTo(raws, T, kept, NormalizeSkills(raws))
  BY SkillsLoop
<1>3. \A i \in 0 .. n : kept[i] \in Seq(T)
  BY <1>2 DEF RunsTo
<1> DEFINE P == {i \in 0 .. n : KeptInv(raws, kept[i], i)}
<1>4. 0 \in P
  <2>1. kept[0] = <<>> /\ Len(<<>>) = 0
    BY <1>2 DEF RunsTo
  <2> QED
    BY <1>1, <2>1 DEF KeptInv
<1>5. ASSUME NEW i \in 1 .. n, i - 1 \in P PROVE i \in P
  <2>1. kept[i] = KeepSkill(kept[i - 1], raws[i]) /\ kept[i - 1] \in Seq(T)
    BY <1>1, <1>2, <1>3 DEF RunsTo
  <2> QED
    BY <1>1, <1>5, <2>1, KeepSkillInv
<1>6. n \in P
  <2> HIDE DEF P, n
  <2>1. \A i \in 0 .. n : i \in P
    BY <1>1, <1>4, <1>5, Induction
  <2> QED
    BY <1>1, <2>1
<1> QED
  BY <1>1, <1>2, <1>3, <1>6 DEF RunsTo

LEMMA FirstOccurrence ==
  ASSUME NEW T, NEW raws \in Seq(Raws(T)), NEW p \in 1 .. Len(raws)
  PROVE  /\ FirstIndex(raws, Strip(raws[p])) \in 1 .. p
         /\ Strip(raws[FirstIndex(raws, Strip(raws[p]))]) = Strip(raws[p])
<1> DEFINE t == Strip(raws[p])
           P == {q \in 1 .. p : Strip(raws[q]) = t}
           IsFirst(i) == i \in DOMAIN raws /\ Strip(raws[i]) = t
                         /\ \A j \in 1 .. i - 1 : Strip(raws[j]) # t
<1>1. Len(raws) \in Nat /\ DOMAIN raws = 1 .. Len(raws) /\ p \in Nat /\ p \in 1 .. p
  BY LenProperties
<1>2. P \in SUBSET Nat /\ p \in P
  BY <1>1
<1>3. PICK m \in P : \A q \in P : m <= q
  <2> HIDE DEF P
  <2> QED
    BY <1>2, LeastNumber
<1>4. m \in 1 .. p /\ m \in DOMAIN raws /\ Strip(raws[m]) = t
  BY <1>1, <1>3
<1>5. ASSUME NEW j \in 1 .. m - 1 PROVE Strip(raws[j]) # t
  <2>1. j \in 1 .. p /\ ~(m <= j)
    BY <1>1, <1>4
  <2> QED
    BY <1>3, <2>1
<1>6. IsFirst(m)
  BY <1>4, <1>5
<1> DEFINE i == FirstIndex(raws, t)
<1>7. i = CHOOSE k : IsFirst(k)
  BY DEF FirstIndex
<1>8. IsFirst(i)
  BY <1>6, <1>7
<1>9. i \in 1 .. p
  <2>1. CASE i > m
    <3>1. m \in 1 .. i - 1
      BY <1>1, <1>4, <1>8, <2>1
    <3> QED
      BY <1>4, <1>8, <3>1
  <2>2. CASE ~(i > m)
    BY <1>1, <1>4, <1>8, <2>2
  <2> QED
    BY <2>1, <2>2
<1> QED
  BY <1>8, <1>9

\* Texts that are not blank and not repeated are kept as they are.
LEMMA NothingToNormalize ==
  ASSUME NEW T, NEW s \in Seq(T), NEW raws \in Seq(Raws(T)), Len(raws) = Len(s),
         \A i \in 1 .. Len(s) : Strip(raws[i]) = s[i] /\ s[i] # Empty,
         \A i, j \in 1 .. Len(s) : i < j => s[i] # s[j]
  PROVE  NormalizeSkills(raws) = s
<1> DEFINE n == Len(s)
<1>1. n \in Nat
  BY LenProperties
<1>2. PICK kept : RunsTo(raws, T, kept, NormalizeSkills(raws))
  BY SkillsLoop
<1>3. /\ kept[0] = <<>> /\ NormalizeSkills(raws) = kept[n]
      /\ \A i \in 1 .. n : kept[i] = KeepSkill(kept[i - 1], raws[i])
  BY <1>2 DEF RunsTo
<1> DEFINE P == {i \in 0 .. n : kept[i] = SubSeq(s, 1, i)}
<1>4. 0 \in P
  <2>1. 1 \in Int /\ 0 \in Int /\ 0 < 1
    OBVIOUS
  <2>2. SubSeq(s, 1, 0) = <<>>
    BY <2>1, SubSeqEmpty
  <2>3. 0 \in 0 .. n /\ kept[0] = SubSeq(s, 1, 0)
    BY <1>1, <1>3, <2>2
  <2> QED
    BY <2>3
<1>5. ASSUME NEW i \in 1 .. n, i - 1 \in P PROVE i \in P
  <2> DEFINE u == SubSeq(s, 1, i - 1)
  <2>1. /\ i \in Nat /\ i - 1 \in Nat /\ s[i] \in T
        /\ \A j \in 1 .. i - 1 : s[j] \in T /\ j \in 1 .. n /\ j < i
    <3>1. i \in Nat /\ i - 1 \in Nat /\ \A j \in 1 .. i - 1 : j \in 1 .. n /\ j < i
      BY <1>1
    <3> QED
      BY <3>1, ElementOfSeq
  <2>2. u \in Seq(T) /\ Len(u) = i - 1 /\ \A j \in 1 .. i - 1 : u[j] = s[j]
    <3>1. /\ u \in Seq(T) /\ Len(u) = IF 1 <= i - 1 THEN i - 1 - 1 + 1 ELSE 0
          /\ \A j \in 1 .. i - 1 - 1 + 1 : u[j] = s[1 + j - 1]
      BY <2>1, SubSeqProperties
    <3>2. /\ i - 1 - 1 + 1 = i - 1 /\ (~(1 <= i - 1) => i - 1 = 0)
          /\ \A j \in 1 .. i - 1 : 1 + j - 1 = j
      BY <2>1
    <3> QED
      BY <3>1, <3>2
  <2>3. ~Contains(u, s[i])
    BY <2>1, <2>2 DEF Contains
  <2>4. kept[i] = Append(u, s[i])
    BY <1>3, <1>5, <2>3 DEF KeepSkill
  <2>5. SubSeq(s, 1, i) = Append(u, s[i])
    <3>1. 1 \in 1 .. Len(s) /\ i \in 1 .. Len(s)
      BY <1>1
    <3>2. SubSeq(s, 1, i) = u \o <<s[i]>>
      BY <3>1, SubSeqRecursiveSecond
    <3> QED
      BY <2>1, <2>2, <3>2, AppendIsConcat
  <2>6. i \in 0 .. n /\ kept[i] = SubSeq(s, 1, i)
    BY <1>1, <2>4, <2>5
  <2> QED
    BY <2>6
<1>6. n \in P
  <2> HIDE DEF P, n
  <2>1. \A i \in 0 .. n : i \in P
    BY <1>1, <1>4, <1>5, Induction
  <2> QED
    BY <1>1, <2>1
<1>7. kept[n] = SubSeq(s, 1, Len(s))
  BY <1>6
<1>8. SubSeq(s, 1, Len(s)) = s
  BY SubSeqFull
<1> QED
  BY <1>3, <1>7, <1>8

(* Whatever the texts of the skills and however many there are, the list   *)
(* that is kept is normal (_normalize_skills).                             *)
THEOREM EveryListIsNormalized ==
  ASSUME NEW T, NEW skills \in Seq(Raws(T))
  PROVE  Normalizes(skills)
<1> DEFINE kept == NormalizeSkills(skills)
           n == Len(skills)
           m == Len(kept)
           again == [i \in DOMAIN kept |-> [text |-> kept[i], padded |-> FALSE]]
           first(i) == FirstIndex(skills, kept[i])
<1>1. kept \in Seq(T) /\ KeptInv(skills, kept, n)
  BY NormalizedInv
<1> HIDE DEF kept
<1>2. /\ n \in Nat /\ DOMAIN skills = 1 .. n /\ m \in Nat /\ DOMAIN kept = 1 .. m
      /\ \A i \in 1 .. m : kept[i] \in T
  <2>1. n \in Nat /\ DOMAIN skills = 1 .. n /\ m \in Nat /\ DOMAIN kept = 1 .. m
    BY <1>1, LenProperties
  <2> QED
    BY <1>1, <2>1, ElementOfSeq
<1>3. ToSet(kept) = {Strip(skills[i]) : i \in DOMAIN skills} \ {Empty}
  <2>1. ToSet(kept) = {kept[i] : i \in 1 .. m}
    BY <1>2 DEF ToSet
  <2>2. \A i \in 1 .. m : kept[i] # Empty /\ \E p \in 1 .. n : Strip(skills[p]) = kept[i]
    BY <1>1 DEF KeptInv
  <2>3. \A p \in 1 .. n : Strip(skills[p]) # Empty => \E i \in 1 .. m : kept[i] = Strip(skills[p])
    BY <1>1 DEF KeptInv
  <2> QED
    BY <1>2, <2>1, <2>2, <2>3
<1>4. ASSUME NEW i \in 1 .. m, NEW j \in 1 .. m, i < j
      PROVE  first(i) < first(j) /\ kept[i] # kept[j]
  <2>1. PICK p \in 1 .. n : Strip(skills[p]) = kept[i]
                            /\ \A q \in 1 .. p : Strip(skills[q]) # kept[j]
    BY <1>1, <1>4 DEF KeptInv
  <2>2. PICK q \in 1 .. n : Strip(skills[q]) = kept[j]
    BY <1>1 DEF KeptInv
  <2>3. first(i) \in 1 .. p
    BY <2>1, FirstOccurrence
  <2>4. first(j) \in 1 .. q /\ Strip(skills[first(j)]) = kept[j]
    BY <2>2, FirstOccurrence
  <2>5. first(j) \notin 1 .. p /\ kept[i] # kept[j]
    <3>1. p \in 1 .. p
      BY <1>2
    <3> QED
      BY <2>1, <2>4, <3>1
  <2> HIDE DEF first
  <2> QED
    BY <1>2, <2>3, <2>4, <2>5
<1>5. NormalizeSkills(again) = kept
  <2>1. \A i \in 1 .. m : again[i] \in Raws(T) /\ Strip(again[i]) = kept[i]
    BY <1>2 DEF Raws, Strip
  <2>2. again \in [1 .. m -> Raws(T)]
    BY <1>2, <2>1
  <2>3. again \in Seq(Raws(T))
    BY <1>2, <2>2, SeqDef
  <2>4. Len(again) = m
    BY <1>2, <2>2, <2>3, LenProperties
  <2>5. \A i \in 1 .. m : kept[i] # Empty
    BY <1>1 DEF KeptInv
  <2> HIDE DEF again, m
  <2> QED
    BY <1>1, <1>4, <2>1, <2>3, <2>4, <2>5, NothingToNormalize DEF m
<1> QED
  BY <1>2, <1>3, <1>4, <1>5 DEF Normalizes, kept

(* NormalizedOnce, for any texts and any bound on the number of skills.    *)
THEOREM SkillsAreNormalized == NormalizedOnce
<1> SUFFICES ASSUME NEW skills \in BoundedSeq(RawSkills, MaxSkills)
             PROVE  Normalizes(skills)
  BY DEF NormalizedOnce
<1>1. RawSkills = Raws(Words \cup {Empty})
  BY DEF RawSkills, Raws
<1>2. skills \in Seq(RawSkills)
  <2>1. PICK k \in 0 .. MaxSkills : skills \in [1 .. k -> RawSkills]
    BY DEF BoundedSeq, SeqOf
  <2>2. k \in Nat
    BY BoundsAssumption
  <2> QED
    BY <2>1, <2>2, SeqDef
<1> QED
  BY <1>1, <1>2, EveryListIsNormalized

-----------------------------------------------------------------------------
(* The state machine.                                                      *)

LEMMA BlankMatches == BlankProfile \in Profile /\ Matches(BlankProfile)
<1>1. BlankProfile.sections \in [Sections -> Stored]
  BY DEF BlankProfile, Stored
<1>2. BlankProfile \in Profile
  BY <1>1 DEF BlankProfile, Profile
<1>3. Populated(BlankProfile.sections) = {}
  BY DEF Populated, BlankProfile
<1>4. CompletionPercentage(BlankProfile.sections) = (200 * 0 + 7) \div 14
  BY <1>3, FS_EmptySet DEF CompletionPercentage, Rounded
<1>5. (200 * 0 + 7) \div 14 = 0
  OBVIOUS
<1> QED
  BY <1>2, <1>4, <1>5 DEF Matches, BlankProfile

\* What update_profile assigns to the row object is a profile that matches.
LEMMA AppliedType ==
  ASSUME NEW d \in Requests, Accepted(d)
  PROVE  Applied(d) \in [Sections -> Stored]
<1> SUFFICES ASSUME NEW s \in Sections PROVE Applied(d)[s] \in Stored
  BY DEF Applied
<1>1. d[s] \in Stored
  BY DEF Requests, Accepted, Given, Stored, Sections, Texts, Lists
<1> QED
  BY <1>1 DEF Applied, Stored

\* An update over the row it has read leaves exactly what it meant to write.
LEMMA WrittenOverLoaded ==
  ASSUME NEW s, s.loaded \in Profile \cup {NoRow}, s.target \in Profile, s.dirty = Changed(s)
  PROVE  Written(s, s.loaded) = s.target
<1>1. CASE s.loaded = NoRow
  BY <1>1 DEF Written
<1>2. CASE s.loaded \in Profile /\ s.loaded # NoRow
  <2> DEFINE row == s.loaded
             new == [c \in Sections |-> IF c \in s.dirty THEN s.target.sections[c]
                                                         ELSE row.sections[c]]
  <2>1. \A c \in Sections : c \notin s.dirty => s.target.sections[c] = row.sections[c]
    BY <1>2 DEF Changed
  <2>2. s.target.sections \in [Sections -> Stored]
    BY DEF Profile
  <2>3. new = s.target.sections
    BY <2>1, <2>2
  <2>4. "completion_percentage" \notin s.dirty =>
          s.target.completion_percentage = row.completion_percentage
    BY <1>2 DEF Changed
  <2>5. Written(s, row) = [sections |-> new, completion_percentage |->
                             s.target.completion_percentage]
    BY <1>2, <2>4 DEF Written
  <2> QED
    BY <2>3, <2>5 DEF Profile
<1> QED
  BY <1>1, <1>2

\* Whatever the row is, an update leaves a profile.
LEMMA WrittenType ==
  ASSUME NEW s, s.target \in Profile, NEW row \in Profile \cup {NoRow},
         row = NoRow => s.loaded = NoRow
  PROVE  Written(s, row) \in Profile
<1>1. CASE s.loaded = NoRow
  BY <1>1 DEF Written
<1>2. CASE s.loaded # NoRow
  BY <1>2 DEF Written, Profile
<1> QED
  BY <1>1, <1>2

-----------------------------------------------------------------------------
(* The steps of a request, and its commit.                                 *)

LEMMA ClosedType == Closed \in Session
BY DEF Closed, Session

LEMMA InitIInv == Init => IInv
<1> SUFFICES ASSUME Init PROVE IInv
  OBVIOUS
<1>1. TypeOK
  BY ClosedType DEF Init, TypeOK
<1>2. \A w \in Workers : SessionInv(w) /\ ~Holds(w)
  BY DEF Init, SessionInv, Holds, Closed
<1> QED
  BY <1>1, <1>2 DEF IInv, HoldersDistinct, MatchesUnlessOverlapped, Init

\* The steps that write no row change the session of one worker to s.
LEMMA FrameStep ==
  ASSUME IInv, NEW w \in Workers, NEW s \in Session, session' = [session EXCEPT ![w] = s],
         UNCHANGED <<profiles, overlapped>>,
         SessionInv(w)',
         Holds(w)' => \A v \in Workers \ {w} : Holds(v) => session[v].user # s.user
  PROVE  IInv'
<1>1. session'[w] = s /\ \A v \in Workers \ {w} : session'[v] = session[v]
  BY DEF IInv, TypeOK
<1>2. TypeOK'
  BY DEF IInv, TypeOK
<1>3. ASSUME NEW v \in Workers PROVE SessionInv(v)'
  <2>1. CASE v # w
    BY <1>1, <2>1 DEF IInv, SessionInv, Holds
  <2> QED
    BY <2>1
<1>4. HoldersDistinct'
  BY <1>1 DEF IInv, HoldersDistinct, Holds
<1>5. MatchesUnlessOverlapped'
  BY DEF IInv, MatchesUnlessOverlapped
<1> QED
  BY <1>2, <1>3, <1>4, <1>5 DEF IInv

\* A session between requests, or one that raised, promises nothing.
LEMMA RestStep ==
  ASSUME IInv, NEW w \in Workers, NEW s \in Session, session' = [session EXCEPT ![w] = s],
         s.step \in {"idle", "raised"}, UNCHANGED <<profiles, overlapped>>
  PROVE  IInv'
<1>1. session'[w] = s
  BY DEF IInv, TypeOK
<1>2. SessionInv(w)' /\ ~Holds(w)'
  BY <1>1 DEF SessionInv, Holds
<1> QED
  BY <1>2, FrameStep

LEMMA RaiseStep ==
  ASSUME IInv, NEW w \in Workers, NEW op \in {"none", "get", "update"},
         NEW error \in {"none", "ProfileAuthorizationError", "ProfileValidationError",
                        "IntegrityError", "DatabaseError"},
         Raise(w, op, error), UNCHANGED <<profiles, overlapped>>
  PROVE  IInv'
<1> DEFINE s == [Closed EXCEPT !.step = "raised", !.op = op, !.error = error]
<1>1. s \in Session /\ s.step = "raised"
  BY ClosedType DEF Session, Closed
<1> QED
  BY <1>1, RestStep DEF Raise

LEMMA GetStep ==
  ASSUME IInv, NEW w \in Workers, NEW requester \in Users, NEW owner \in Users,
         Get(w, requester, owner)
  PROVE  IInv'
<1> DEFINE s == [step |-> IF profiles[owner] = NoRow THEN "flush" ELSE "commit",
                 op |-> "get", error |-> "none", requester |-> requester, user |-> owner,
                 loaded |-> profiles[owner],
                 target |-> IF profiles[owner] = NoRow THEN BlankProfile
                                                       ELSE profiles[owner],
                 dirty |-> {}]
<1>1. CASE requester # owner
  BY <1>1, RaiseStep DEF Get
<1>2. CASE requester = owner
  <2>1. profiles[owner] \in Profile \cup {NoRow}
    BY DEF IInv, TypeOK
  <2>2. s \in Session
    BY <2>1, BlankMatches DEF Session
  <2>3. session' = [session EXCEPT ![w] = s] /\ session'[w] = s
    BY <1>2 DEF Get, IInv, TypeOK
  <2>4. /\ s.step \in {"flush", "commit"} /\ s.op = "get" /\ s.user = owner
        /\ s.requester = owner /\ s.dirty = {} /\ s.target \in Profile
        /\ s.loaded = profiles[owner]
        /\ s.loaded = NoRow => Matches(s.target)
        /\ s.step = "flush" => s.loaded = NoRow
    BY <1>2, <2>1, BlankMatches
  <2> HIDE DEF s
  <2>5. SessionInv(w)' /\ ~Holds(w)'
    BY <2>3, <2>4 DEF SessionInv, Holds, Get
  <2> QED
    BY <2>2, <2>3, <2>5, FrameStep DEF Get
<1> QED
  BY <1>1, <1>2

LEMMA UpdateStep ==
  ASSUME IInv, NEW w \in Workers, NEW requester \in Users, NEW owner \in Users,
         NEW d \in Requests, Update(w, requester, owner, d)
  PROVE  IInv'
<1> DEFINE s == [step |-> "flush", op |-> "update", error |-> "none",
                 requester |-> requester, user |-> owner, loaded |-> profiles[owner],
                 target |-> [sections |-> Applied(d),
                             completion_percentage |-> CompletionPercentage(Applied(d))],
                 dirty |-> {}]
<1>1. CASE requester # owner \/ ~Accepted(d)
  BY <1>1, RaiseStep DEF Update
<1>2. CASE requester = owner /\ Accepted(d)
  <2>1. profiles[owner] \in Profile \cup {NoRow}
    BY DEF IInv, TypeOK
  <2>2. s.target \in Profile /\ Matches(s.target)
    BY <1>2, AppliedType, PercentageBound DEF Profile, Matches
  <2>3. /\ s.step = "flush" /\ s.op = "update" /\ s.user = owner /\ s.error = "none"
        /\ s.requester = owner /\ s.dirty = {} /\ s.loaded = profiles[owner]
    BY <1>2
  <2>4. s \in Session
    BY <2>1, <2>2 DEF Session
  <2>5. session' = [session EXCEPT ![w] = s] /\ session'[w] = s
    BY <1>2 DEF Update, IInv, TypeOK
  <2> HIDE DEF s
  <2>6. SessionInv(w)' /\ ~Holds(w)'
    BY <2>2, <2>3, <2>5 DEF SessionInv, Holds, Update
  <2> QED
    BY <2>4, <2>5, <2>6, FrameStep DEF Update
<1> QED
  BY <1>1, <1>2

(* A statement that has columns to write goes through only when no other   *)
(* transaction holds the row, and an INSERT only if there is no row.       *)
LEMMA FlushStep ==
  ASSUME IInv, NEW w \in Workers, Flush(w)
  PROVE  IInv'
<1> DEFINE old == session[w]
           s == [old EXCEPT !.step = "commit", !.dirty = Changed(old)]
<1>1. old \in Session /\ SessionInv(w) /\ old.step = "flush"
  BY DEF IInv, TypeOK, Flush
<1>2. CASE old.loaded = NoRow /\ profiles[old.user] # NoRow
  BY <1>1, <1>2, RaiseStep DEF Flush, Session
<1>3. CASE ~(old.loaded = NoRow /\ profiles[old.user] # NoRow)
  <2>1. Changed(old) \in SUBSET Columns
    BY DEF Changed, Columns
  <2>2. /\ s \in Session /\ s.step = "commit" /\ s.dirty = Changed(old) /\ s.op = old.op
        /\ s.user = old.user /\ s.requester = old.requester /\ s.loaded = old.loaded
        /\ s.target = old.target
    BY <1>1, <2>1 DEF Session
  <2>3. session' = [session EXCEPT ![w] = s] /\ session'[w] = s
    BY <1>3 DEF Flush, IInv, TypeOK
  <2>4. Changed(s) = Changed(old)
    BY <2>2 DEF Changed
  <2> HIDE DEF s
  <2>5. SessionInv(w)'
    BY <1>1, <1>3, <2>2, <2>3, <2>4 DEF SessionInv, Holds, Flush
  <2>6. Holds(w)' => \A v \in Workers \ {w} : Holds(v) => session[v].user # s.user
    BY <2>2, <2>3 DEF Flush, Holding, Holds
  <2> QED
    BY <2>2, <2>3, <2>5, <2>6, FrameStep DEF Flush
<1> QED
  BY <1>2, <1>3

LEMMA CommitStep ==
  ASSUME IInv, NEW w \in Workers, Commit(w)
  PROVE  IInv'
<1> DEFINE s == session[w]
<1>1. s \in Session /\ SessionInv(w) /\ s.step = "commit"
  BY DEF IInv, TypeOK, Commit
<1>2. session' = [session EXCEPT ![w] = Closed]
  BY DEF Commit
<1>3. CASE s.dirty = {}
  BY <1>2, <1>3, ClosedType, RestStep DEF Commit, Closed
<1>4. CASE s.dirty # {}
  <2> DEFINE u == s.user
             new == Written(s, profiles[u])
  <2>1. Holds(w)
    BY <1>1, <1>4 DEF Holds
  <2>2. /\ u \in Users /\ s.target \in Profile /\ s.dirty = Changed(s)
        /\ s.op = "update" \/ s.loaded = NoRow => Matches(s.target)
        /\ s.op \in {"get", "update"} /\ (s.op = "get" => s.loaded = NoRow)
        /\ s.loaded = NoRow <=> profiles[u] = NoRow
        /\ s.loaded \in Profile \cup {NoRow} /\ profiles[u] \in Profile \cup {NoRow}
    BY <1>1, <2>1 DEF SessionInv, IInv, TypeOK, Session
  <2>3. new \in Profile /\ (profiles[u] = s.loaded => new = s.target)
    BY <2>2, WrittenType, WrittenOverLoaded
  <2>4. /\ profiles' = [profiles EXCEPT ![u] = new]
        /\ overlapped' = IF profiles[u] = s.loaded THEN overlapped ELSE overlapped \cup {u}
    BY <1>4 DEF Commit
  <2> HIDE DEF new
  <2>5. /\ profiles'[u] = new /\ \A x \in Users \ {u} : profiles'[x] = profiles[x]
        /\ session'[w] = Closed /\ \A v \in Workers \ {w} : session'[v] = session[v]
    BY <1>2, <2>2, <2>4 DEF IInv, TypeOK
  <2>6. TypeOK'
    BY <1>2, <2>2, <2>3, <2>4, ClosedType DEF IInv, TypeOK
  <2>7. ASSUME NEW v \in Workers PROVE SessionInv(v)'
    <3>1. CASE v = w
      BY <2>5, <3>1 DEF SessionInv, Holds, Closed
    <3>2. CASE v # w
      <4>1. SessionInv(v) /\ session'[v] = session[v] /\ session[v] \in Session
        BY <2>5, <3>2 DEF IInv, TypeOK
      <4>2. Holds(v) => session[v].user # u
        BY <2>1, <3>2 DEF IInv, HoldersDistinct
      <4>3. new # NoRow
        BY <2>3
      <4> QED
        BY <2>5, <4>1, <4>2, <4>3 DEF SessionInv, Holds
    <3> QED
      BY <3>1, <3>2
  <2>8. HoldersDistinct'
    BY <2>5 DEF IInv, HoldersDistinct, Holds, Closed
  <2>9. MatchesUnlessOverlapped'
    <3> SUFFICES ASSUME NEW x \in Users, profiles'[x] # NoRow, x \notin overlapped'
                 PROVE  Matches(profiles'[x])
      BY DEF MatchesUnlessOverlapped, Matches
    <3>1. CASE x = u
      BY <2>2, <2>3, <2>4, <2>5, <3>1
    <3>2. CASE x # u
      BY <2>4, <2>5, <3>2 DEF IInv, MatchesUnlessOverlapped
    <3> QED
      BY <3>1, <3>2
  <2> QED
    BY <2>6, <2>7, <2>8, <2>9 DEF IInv
<1> QED
  BY <1>3, <1>4

LEMMA NextIInv == IInv /\ [Next]_vars => IInv'
<1> SUFFICES ASSUME IInv, [Next]_vars PROVE IInv'
  OBVIOUS
<1>1. ASSUME NEW w \in Workers, Request(w) PROVE IInv'
  BY <1>1, GetStep, UpdateStep DEF Request
<1>2. ASSUME NEW w \in Workers, Proceed(w) PROVE IInv'
  <2>1. CASE Rollback(w)
    BY <2>1, ClosedType, RestStep DEF Rollback, Closed
  <2> QED
    BY <1>2, <2>1, FlushStep, CommitStep DEF Proceed
<1>3. ASSUME NEW w \in Workers, Fail(w) PROVE IInv'
  <2>1. session[w].op \in {"none", "get", "update"}
    BY DEF IInv, TypeOK, Session
  <2> QED
    BY <1>3, <2>1, RaiseStep DEF Fail
<1>4. CASE UNCHANGED vars
  BY <1>4 DEF vars, IInv, TypeOK, SessionInv, Holds, HoldersDistinct,
              MatchesUnlessOverlapped
<1> QED
  BY <1>1, <1>2, <1>3, <1>4 DEF Next

(* The inductive invariant holds in every reachable state, however         *)
(* requests for one profile overlap and wherever one fails.                *)
THEOREM SpecIInv == Spec => []IInv
<1> QED
  BY InitIInv, NextIInv, PTL DEF Spec

-----------------------------------------------------------------------------
(* Every variable keeps its type; a percentage is never above 100.         *)
THEOREM TypeCorrect == Spec => []TypeOK
<1>1. IInv => TypeOK
  BY DEF IInv
<1> QED
  BY SpecIInv, <1>1, PTL

(* The stored percentage is that of the stored sections for every profile  *)
(* whose updates each wrote over the row they had read                     *)
(* (update_profile, compute_completion_percentage).                        *)
THEOREM PercentageMatchesUnlessOverlapped == Spec => []MatchesUnlessOverlapped
<1>1. IInv => MatchesUnlessOverlapped
  BY DEF IInv
<1> QED
  BY SpecIInv, <1>1, PTL

(* A stored profile changes only by an update its owner asked for, however *)
(* many first accesses race with it (get_profile, update_profile).         *)
THEOREM OnlyOwnersOverwrite == Spec => OnlyOwnUpdatesOverwrite
<1> DEFINE Overwrites ==
             \A u \in Users : profiles[u] # NoRow /\ profiles'[u] # profiles[u] =>
               \E w \in Workers : /\ session[w].step = "commit" /\ session'[w].step = "idle"
                                  /\ session[w].op = "update" /\ session[w].requester = u
<1>1. IInv /\ [Next]_vars => [Overwrites]_vars
  <2> SUFFICES ASSUME IInv, Next, NEW u \in Users, profiles[u] # NoRow,
                      profiles'[u] # profiles[u]
               PROVE  \E w \in Workers : /\ session[w].step = "commit"
                                         /\ session'[w].step = "idle"
                                         /\ session[w].op = "update"
                                         /\ session[w].requester = u
    OBVIOUS
  <2>1. PICK w \in Workers : Commit(w)
    BY DEF Next, Request, Proceed, Get, Update, Flush, Rollback, Fail
  <2>2. session[w].step = "commit" /\ session'[w].step = "idle"
    BY <2>1 DEF Commit, Closed, IInv, TypeOK
  <2>3. session[w].dirty # {} /\ session[w].user = u
    BY <2>1 DEF Commit, IInv, TypeOK
  <2>4. SessionInv(w) /\ Holds(w)
    BY <2>2, <2>3 DEF IInv, Holds
  <2> QED
    BY <2>2, <2>3, <2>4 DEF SessionInv
<1> QED
  BY <1>1, SpecIInv, PTL DEF Spec, OnlyOwnUpdatesOverwrite
=============================================================================
