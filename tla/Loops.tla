------------------------------- MODULE Loops -------------------------------
(***************************************************************************)
(* What the proofs about recursive definitions rest on.  A loop of the     *)
(* code is a recursive function of the number of turns,                    *)
(*   f[i \in 0 .. n] == IF i = 0 THEN base ELSE ... f[i - 1] ...           *)
(* and its turn is given here as a function, so that the lemmas need no    *)
(* operator as a parameter.                                                *)
(***************************************************************************)
EXTENDS Integers, SequenceTheorems, WellFoundedInduction, TLAPS

LEMMA LeastNumber ==
  ASSUME NEW P \in SUBSET Nat, P # {}
  PROVE  \E m \in P : \A n \in P : m <= n
<1> DEFINE R == {ss \in Nat \X Nat : ss[1] < ss[2]}
<1>1. IsWellFoundedOn(R, Nat)
  BY NatLessThanWellFounded DEF OpToRel
<1>2. PICK m \in P : \A n \in P : ~(<<n, m>> \in R)
  BY <1>1, WFMin
<1>3. ASSUME NEW n \in P PROVE m <= n
  <2>1. m \in Nat /\ n \in Nat
    OBVIOUS
  <2>2. ~(n < m)
    BY <1>2, <2>1
  <2> QED
    BY <2>1, <2>2
<1> QED
  BY <1>3

LEMMA GreatestNumber ==
  ASSUME NEW n \in Nat, NEW P \in SUBSET (0 .. n), P # {}
  PROVE  \E m \in P : \A k \in P : k <= m
<1> DEFINE Q == {i \in 0 .. n : n - i \in P}
<1>1. Q \in SUBSET Nat /\ Q # {}
  <2>1. PICK p : p \in P
    OBVIOUS
  <2>2. p \in 0 .. n
    BY <2>1
  <2>3. n - p \in 0 .. n /\ n - (n - p) = p
    BY <2>2
  <2>4. n - p \in Q
    BY <2>1, <2>3
  <2> QED
    BY <2>4
<1>2. PICK q \in Q : \A i \in Q : q <= i
  <2> HIDE DEF Q
  <2> QED
    BY <1>1, LeastNumber
<1>3. ASSUME NEW k \in P PROVE k <= n - q
  <2>1. k \in 0 .. n /\ n - k \in 0 .. n /\ n - (n - k) = k
    OBVIOUS
  <2>2. n - k \in Q
    BY <2>1
  <2>3. q <= n - k
    BY <1>2, <2>2
  <2> QED
    BY <1>2, <2>1, <2>3
<1> QED
  BY <1>2, <1>3

LEMMA Induction ==
  ASSUME NEW n \in Nat, NEW P, 0 \in P, \A i \in 1 .. n : i - 1 \in P => i \in P
  PROVE  \A i \in 0 .. n : i \in P
<1> DEFINE Q == {i \in 0 .. n : i \notin P}
<1> SUFFICES ASSUME Q # {} PROVE FALSE
  OBVIOUS
<1>1. PICK m \in Q : \A i \in Q : m <= i
  <2>1. Q \in SUBSET Nat
    OBVIOUS
  <2> HIDE DEF Q
  <2> QED
    BY <2>1, LeastNumber
<1>2. m \in 1 .. n /\ m - 1 \in 0 .. n /\ ~(m <= m - 1)
  BY <1>1
<1>3. m - 1 \in P
  BY <1>1, <1>2
<1> QED
  BY <1>1, <1>2, <1>3

\* f[i] is what a loop over n elements that starts from base holds after i turns.
IsLoop(f, n, S, base, turn) ==
  /\ f \in [0 .. n -> S] /\ f[0] = base
  /\ \A i \in 1 .. n : f[i] = turn[<<f[i - 1], i>>]

LEMMA LoopRuns ==
  ASSUME NEW n \in Nat, NEW S, NEW base \in S, NEW turn \in [S \X (1 .. n) -> S]
  PROVE  \E f : IsLoop(f, n, S, base, turn)
<1> DEFINE P == {m \in 0 .. n : \E f : IsLoop(f, m, S, base, turn)}
<1>1. 0 \in P
  <2> DEFINE f == [i \in 0 .. 0 |-> base]
  <2>1. IsLoop(f, 0, S, base, turn) /\ 0 \in 0 .. n
    BY DEF IsLoop
  <2> HIDE DEF f
  <2> QED
    BY <2>1
<1>2. ASSUME NEW m \in 1 .. n, m - 1 \in P PROVE m \in P
  <2>1. PICK f : IsLoop(f, m - 1, S, base, turn)
    BY <1>2
  <2>2. /\ f \in [0 .. m - 1 -> S] /\ f[0] = base
        /\ \A i \in 1 .. m - 1 : f[i] = turn[<<f[i - 1], i>>]
    BY <2>1 DEF IsLoop
  <2>3. m - 1 \in 0 .. m - 1 /\ m \in 1 .. n /\ m \notin 0 .. m - 1
    OBVIOUS
  <2> DEFINE g == [i \in 0 .. m |-> IF i = m THEN turn[<<f[m - 1], m>>] ELSE f[i]]
  <2>4. f[m - 1] \in S /\ turn[<<f[m - 1], m>>] \in S
    BY <2>2, <2>3
  <2>5. \A i \in 0 .. m : i # m => i \in 0 .. m - 1 /\ g[i] = f[i]
    OBVIOUS
  <2>6. g \in [0 .. m -> S] /\ g[0] = base
    BY <2>2, <2>4, <2>5
  <2>7. ASSUME NEW i \in 1 .. m PROVE g[i] = turn[<<g[i - 1], i>>]
    <3>1. i - 1 \in 0 .. m - 1 /\ i - 1 \in 0 .. m /\ i - 1 # m /\ g[i - 1] = f[i - 1]
      OBVIOUS
    <3>2. CASE i = m
      BY <3>1, <3>2
    <3>3. CASE i # m
      <4>1. i \in 1 .. m - 1
        BY <3>3
      <4> QED
        BY <2>2, <2>5, <3>1, <4>1
    <3> QED
      BY <3>2, <3>3
  <2>8. IsLoop(g, m, S, base, turn)
    BY <2>6, <2>7 DEF IsLoop
  <2> HIDE DEF g
  <2> QED
    BY <2>8
<1> HIDE DEF P
<1>3. n \in P
  BY <1>1, <1>2, Induction
<1> QED
  BY <1>3 DEF P

SameTurns(m, S, turn, other) ==
  \A s \in S, i \in 1 .. m : turn[<<s, i>>] = other[<<s, i>>]

\* Loops that take the same turns hold the same.
LEMMA LoopsAgree ==
  ASSUME NEW n \in Nat, NEW m \in 0 .. n, NEW S, NEW base, NEW turn, NEW other,
         NEW f, IsLoop(f, m, S, base, turn), NEW g, IsLoop(g, n, S, base, other),
         SameTurns(m, S, turn, other)
  PROVE  f[m] = g[m]
<1>1. /\ f \in [0 .. m -> S] /\ f[0] = base /\ \A i \in 1 .. m : f[i] = turn[<<f[i - 1], i>>]
      /\ g[0] = base /\ \A i \in 1 .. n : g[i] = other[<<g[i - 1], i>>]
  BY DEF IsLoop
<1> DEFINE P == {i \in 0 .. m : f[i] = g[i]}
<1>2. m \in Nat /\ 0 \in P
  BY <1>1
<1>3. ASSUME NEW i \in 1 .. m, i - 1 \in P PROVE i \in P
  <2>1. i \in 1 .. n /\ i \in 0 .. m /\ i - 1 \in 0 .. m /\ f[i - 1] \in S /\ f[i - 1] = g[i - 1]
    BY <1>1, <1>3
  <2>2. turn[<<f[i - 1], i>>] = other[<<f[i - 1], i>>]
    BY <2>1 DEF SameTurns
  <2> QED
    BY <1>1, <2>1, <2>2
<1> HIDE DEF P
<1>4. m \in P
  BY <1>2, <1>3, Induction
<1> QED
  BY <1>4 DEF P

LEMMA SeqInduction ==
  ASSUME NEW S, NEW P, <<>> \in P,
         \A s \in Seq(S), e \in S : s \in P => Append(s, e) \in P
  PROVE  \A s \in Seq(S) : s \in P
<1> SUFFICES ASSUME NEW s \in Seq(S) PROVE s \in P
  OBVIOUS
<1> DEFINE n == Len(s)
           Q == {i \in 0 .. n : SubSeq(s, 1, i) \in P}
<1>1. n \in Nat /\ SubSeq(s, 1, n) = s
  BY LenProperties, SubSeqFull
<1>2. 0 \in Q
  <2>1. SubSeq(s, 1, 0) = <<>>
    BY SubSeqEmpty
  <2>2. SubSeq(s, 1, 0) \in P
    BY <2>1, Zenon
  <2> QED
    BY <1>1, <2>2
<1>3. ASSUME NEW i \in 1 .. n, i - 1 \in Q PROVE i \in Q
  <2>1. i \in Int /\ 1 <= i /\ i \in 0 .. n /\ i - 1 \in Int
    BY <1>1
  <2>2. \A j \in 1 .. i - 1 : s[j] \in S
    BY <1>1, <2>1, ElementOfSeq
  <2>3. SubSeq(s, 1, i - 1) \in Seq(S) /\ s[i] \in S
    BY <2>1, <2>2, ElementOfSeq, SubSeqProperties
  <2>4. SubSeq(s, 1, i) = SubSeq(s, 1, i - 1) \o <<s[i]>>
    <3>1. 1 \in 1 .. Len(s) /\ i \in 1 .. Len(s)
      BY <1>1
    <3> QED
      BY <3>1, SubSeqRecursiveSecond
  <2>5. SubSeq(s, 1, i) = Append(SubSeq(s, 1, i - 1), s[i])
    BY <2>3, <2>4, AppendIsConcat
  <2> QED
    BY <1>3, <2>1, <2>3, <2>5
<1> HIDE DEF Q, n
<1>4. n \in Q
  BY <1>1, <1>2, <1>3, Induction
<1> QED
  BY <1>1, <1>4 DEF Q, n

LEMMA ConcatAppend ==
  ASSUME NEW S, NEW s \in Seq(S), NEW t \in Seq(S), NEW e \in S
  PROVE  /\ s \o t \in Seq(S) /\ Append(t, e) \in Seq(S)
         /\ s \o Append(t, e) = Append(s \o t, e)
<1>1. Append(t, e) = t \o <<e>> /\ Append(t, e) \in Seq(S) /\ <<e>> \in Seq(S)
  BY AppendIsConcat, AppendProperties
<1>2. s \o t \in Seq(S)
  BY ConcatProperties
<1>3. (s \o t) \o <<e>> = s \o (t \o <<e>>)
  BY <1>1, ConcatAssociative
<1>4. Append(s \o t, e) = (s \o t) \o <<e>>
  BY <1>2, AppendIsConcat
<1> QED
  BY <1>1, <1>2, <1>3, <1>4
=============================================================================
