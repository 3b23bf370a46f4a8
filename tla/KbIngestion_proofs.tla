------------------------- MODULE KbIngestion_proofs -------------------------
(***************************************************************************)
(* KbIngestion implements KnowledgeBase for any number of runs, any files  *)
(* and any edits, and its runs only deadlock over files that were edited.  *)
(*                                                                         *)
(* A run is an ordinary program over its own frame, so its invariant is    *)
(* one of a frame s and the committed table; what the runs have to do with *)
(* each other is that no two of them hold the same chunk.                  *)
(*                                                                         *)
(* The first sections are about the chunks themselves (ChunkRules): what   *)
(* the rules make of any file, whatever the number of its lines.           *)
(***************************************************************************)
EXTENDS MCKbIngestion, SequenceTheorems, FiniteSetTheorems, Loops, TLAPS

-----------------------------------------------------------------------------
(* The chunks of a file (ChunkRules): a promise about every file of any    *)
(* length, so the proofs go over the lines, the paragraphs and the         *)
(* sections of one. First what Total and FlattenSeq are of a sequence with *)
(* one more element.                                                       *)

AddTurn(numbers) == [x \in Nat \X (1 .. Len(numbers)) |-> x[1] + numbers[x[2]]]

IsSum(numbers, f) ==
  f = [i \in 0 .. Len(numbers) |-> IF i = 0 THEN 0 ELSE f[i - 1] + numbers[i]]

LEMMA TotalLoop ==
  ASSUME NEW numbers \in Seq(Nat)
  PROVE  \E f : /\ IsLoop(f, Len(numbers), Nat, 0, AddTurn(numbers))
                /\ Total(numbers) = f[Len(numbers)]
<1> DEFINE n == Len(numbers)
           S == Nat
           base == 0
           turn == AddTurn(numbers)
           sum == CHOOSE f : IsSum(numbers, f)
<1>1. n \in Nat /\ base \in S /\ \A i \in 1 .. n : numbers[i] \in Nat
  BY ElementOfSeq, LenProperties
<1>2. /\ turn \in [S \X (1 .. n) -> S]
      /\ \A s \in S, i \in 1 .. n : turn[<<s, i>>] = s + numbers[i]
  BY <1>1 DEF AddTurn
<1> HIDE DEF turn, n, S, base
<1>3. PICK f : IsLoop(f, n, S, base, turn)
  BY <1>1, <1>2, LoopRuns
<1>4. f \in [0 .. n -> S] /\ f[0] = base /\ \A i \in 1 .. n : f[i] = turn[<<f[i - 1], i>>]
  BY <1>3 DEF IsLoop
<1>5. ASSUME NEW i \in 1 .. n PROVE i - 1 \in 0 .. n /\ f[i] = f[i - 1] + numbers[i]
  <2>1. i - 1 \in 0 .. n
    BY <1>1
  <2> QED
    BY <1>2, <1>4, <2>1
<1>6. f = [i \in 0 .. n |-> f[i]] /\ \A i \in 0 .. n : i = 0 \/ i \in 1 .. n
  BY <1>1, <1>4
<1>7. \A i \in 0 .. n : f[i] = IF i = 0 THEN base ELSE f[i - 1] + numbers[i]
  BY <1>4, <1>5, <1>6
<1>8. IsSum(numbers, f)
  BY <1>6, <1>7, Zenon DEF IsSum, n, base
<1>9. IsSum(numbers, sum) /\ Total(numbers) = sum[n]
  BY <1>8 DEF Total, IsSum, n
<1> HIDE DEF sum
<1>10. sum = [i \in 0 .. n |-> IF i = 0 THEN base ELSE sum[i - 1] + numbers[i]]
  BY <1>9 DEF IsSum, n, base
<1>11. sum[0] = base /\ \A i \in 1 .. n : sum[i] = sum[i - 1] + numbers[i]
  BY <1>1, <1>10
<1> DEFINE P == {i \in 0 .. n : sum[i] = f[i]}
<1>12. 0 \in P
  BY <1>1, <1>4, <1>11
<1>13. ASSUME NEW i \in 1 .. n, i - 1 \in P PROVE i \in P
  BY <1>1, <1>5, <1>11, <1>13
<1> HIDE DEF P
<1>14. n \in P
  <2>1. \A i \in 0 .. n : i \in P
    BY <1>1, <1>12, <1>13, Induction
  <2> QED
    BY <1>1, <2>1
<1> QED
  BY <1>3, <1>9, <1>14 DEF P, n, turn, S, base

LEMMA TotalEmpty == Total(<<>>) = 0
<1>1. <<>> \in Seq(Nat) /\ Len(<<>>) = 0
  BY EmptySeq
<1>2. PICK f : IsLoop(f, 0, Nat, 0, AddTurn(<<>>)) /\ Total(<<>>) = f[0]
  BY <1>1, TotalLoop
<1> QED
  BY <1>2 DEF IsLoop

LEMMA TotalAppend ==
  ASSUME NEW s \in Seq(Nat), NEW e \in Nat
  PROVE  Total(s) \in Nat /\ Total(Append(s, e)) = Total(s) + e
<1> DEFINE r == Append(s, e)
           m == Len(s)
<1>1. /\ r \in Seq(Nat) /\ Len(r) = m + 1 /\ r[m + 1] = e
      /\ \A i \in 1 .. m : r[i] = s[i]
  BY AppendProperties
<1>2. m \in Nat
  BY LenProperties
<1> HIDE DEF r, m
<1>3. PICK f : IsLoop(f, m, Nat, 0, AddTurn(s)) /\ Total(s) = f[m]
  BY TotalLoop DEF m
<1>4. PICK g : IsLoop(g, m + 1, Nat, 0, AddTurn(r)) /\ Total(r) = g[m + 1]
  BY <1>1, TotalLoop
<1>5. ASSUME NEW k \in Nat, NEW i \in 1 .. m PROVE AddTurn(s)[<<k, i>>] = AddTurn(r)[<<k, i>>]
  <2>1. i \in 1 .. m + 1 /\ r[i] = s[i]
    BY <1>1, <1>2
  <2>2. AddTurn(s)[<<k, i>>] = k + s[i]
    BY DEF AddTurn, m
  <2>3. AddTurn(r)[<<k, i>>] = k + r[i]
    BY <1>1, <2>1 DEF AddTurn
  <2> QED
    BY <2>1, <2>2, <2>3
<1>6. f[m] = g[m]
  <2> DEFINE n == m + 1
             S == Nat
             base == 0
             turn == AddTurn(s)
             other == AddTurn(r)
  <2>1. n \in Nat /\ m \in 0 .. n
    BY <1>2
  <2>2. IsLoop(f, m, S, base, turn) /\ IsLoop(g, n, S, base, other)
    BY <1>3, <1>4
  <2>3. SameTurns(m, S, turn, other)
    BY <1>5 DEF SameTurns
  <2> HIDE DEF n, S, base, turn, other
  <2> QED
    BY <2>1, <2>2, <2>3, LoopsAgree
<1>7. g[m] \in Nat /\ g[m + 1] = AddTurn(r)[<<g[m], m + 1>>]
  BY <1>2, <1>4 DEF IsLoop
<1>8. AddTurn(r)[<<g[m], m + 1>>] = g[m] + e
  BY <1>1, <1>2, <1>7 DEF AddTurn
<1> QED
  BY <1>3, <1>4, <1>6, <1>7, <1>8 DEF r

JoinTurn(S, ss) == [x \in Seq(S) \X (1 .. Len(ss)) |-> x[1] \o ss[x[2]]]

IsFlat(ss, f) ==
  f = [i \in 1 .. Len(ss) |-> IF i = 1 THEN ss[i] ELSE f[i - 1] \o ss[i]]

LEMMA FlatLoop ==
  ASSUME NEW S, NEW ss \in Seq(Seq(S))
  PROVE  \E f : /\ IsLoop(f, Len(ss), Seq(S), <<>>, JoinTurn(S, ss))
                /\ FlattenSeq(ss) = f[Len(ss)]
<1> DEFINE n == Len(ss)
           T == Seq(S)
           base == <<>>
           turn == JoinTurn(S, ss)
           flat == CHOOSE f : IsFlat(ss, f)
<1>1. n \in Nat /\ base \in T /\ \A i \in 1 .. n : ss[i] \in T
  BY ElementOfSeq, LenProperties, EmptySeq
<1>2. /\ turn \in [T \X (1 .. n) -> T]
      /\ \A s \in T, i \in 1 .. n : turn[<<s, i>>] = s \o ss[i]
  BY <1>1, ConcatProperties DEF JoinTurn
<1>3. \A i \in 1 .. n : base \o ss[i] = ss[i]
  BY <1>1, ConcatEmptySeq
<1> HIDE DEF turn, n, T, base
<1>4. PICK f : IsLoop(f, n, T, base, turn)
  BY <1>1, <1>2, LoopRuns
<1>5. f \in [0 .. n -> T] /\ f[0] = base /\ \A i \in 1 .. n : f[i] = turn[<<f[i - 1], i>>]
  BY <1>4 DEF IsLoop
<1>6. ASSUME NEW i \in 1 .. n PROVE i - 1 \in 0 .. n /\ f[i] = f[i - 1] \o ss[i]
  <2>1. i - 1 \in 0 .. n
    BY <1>1
  <2> QED
    BY <1>2, <1>5, <2>1
<1>7. ASSUME NEW i \in 1 .. n, i = 1 PROVE f[i] = ss[i]
  <2>1. i - 1 = 0 /\ f[i - 1] = base
    BY <1>5, <1>7
  <2> QED
    BY <1>3, <1>6, <2>1
<1>8. CASE n = 0
  <2>1. ss = <<>>
    BY <1>8, EmptySeq DEF n
  <2>2. FlattenSeq(ss) = ss
    BY <1>8 DEF FlattenSeq, n
  <2> QED
    BY <1>4, <1>5, <1>8, <2>1, <2>2 DEF n, T, base, turn
<1>9. CASE n # 0
  <2> DEFINE g == [i \in 1 .. n |-> f[i]]
  <2>1. \A i \in 1 .. n : g[i] = IF i = 1 THEN ss[i] ELSE g[i - 1] \o ss[i]
    <3> SUFFICES ASSUME NEW i \in 1 .. n
                 PROVE  f[i] = IF i = 1 THEN ss[i] ELSE g[i - 1] \o ss[i]
      OBVIOUS
    <3>1. CASE i = 1
      BY <1>7, <3>1
    <3>2. CASE i # 1
      <4>1. i - 1 \in 1 .. n /\ g[i - 1] = f[i - 1]
        BY <1>1, <3>2
      <4> QED
        BY <1>6, <3>2, <4>1
    <3> QED
      BY <3>1, <3>2
  <2>2. g = [i \in 1 .. n |-> g[i]]
    OBVIOUS
  <2> HIDE DEF g
  <2>3. IsFlat(ss, g)
    BY <2>1, <2>2, Zenon DEF IsFlat, n
  <2>4. IsFlat(ss, flat) /\ FlattenSeq(ss) = flat[n]
    BY <1>9, <2>3 DEF FlattenSeq, IsFlat, n
  <2> HIDE DEF flat
  <2>5. flat = [i \in 1 .. n |-> IF i = 1 THEN ss[i] ELSE flat[i - 1] \o ss[i]]
    BY <2>4 DEF IsFlat, n
  <2>6. \A i \in 1 .. n : flat[i] = IF i = 1 THEN ss[i] ELSE flat[i - 1] \o ss[i]
    BY <2>5
  <2> DEFINE P == {i \in 0 .. n : i = 0 \/ flat[i] = f[i]}
  <2>7. 0 \in P
    BY <1>1
  <2>8. ASSUME NEW i \in 1 .. n, i - 1 \in P PROVE i \in P
    <3>1. CASE i = 1
      <4>1. flat[i] = ss[i] /\ i \in 0 .. n
        BY <2>6, <3>1
      <4> QED
        BY <1>7, <3>1, <4>1
    <3>2. CASE i # 1
      <4>1. flat[i - 1] = f[i - 1] /\ i \in 0 .. n
        BY <1>1, <2>8, <3>2
      <4> QED
        BY <1>6, <2>6, <3>2, <4>1
    <3> QED
      BY <3>1, <3>2
  <2> HIDE DEF P
  <2>9. n \in P
    <3>1. \A i \in 0 .. n : i \in P
      BY <1>1, <2>7, <2>8, Induction
    <3> QED
      BY <1>1, <3>1
  <2> QED
    BY <1>4, <1>9, <2>4, <2>9 DEF P, n, turn, T, base
<1> QED
  BY <1>8, <1>9

LEMMA FlatEmpty == FlattenSeq(<<>>) = <<>>
  BY EmptySeq DEF FlattenSeq

LEMMA FlatAppend ==
  ASSUME NEW S, NEW ss \in Seq(Seq(S)), NEW s \in Seq(S)
  PROVE  FlattenSeq(ss) \in Seq(S) /\ FlattenSeq(Append(ss, s)) = FlattenSeq(ss) \o s
<1> DEFINE r == Append(ss, s)
           T == Seq(S)
           base == <<>>
           m == Len(ss)
           n == m + 1
           turn == JoinTurn(S, ss)
           other == JoinTurn(S, r)
<1>1. /\ r \in Seq(Seq(S)) /\ Len(r) = n /\ r[n] = s
      /\ \A i \in 1 .. m : r[i] = ss[i]
  BY AppendProperties
<1>2. m \in Nat
  BY LenProperties
<1> HIDE DEF r, m
<1>3. PICK f : IsLoop(f, m, T, base, turn) /\ FlattenSeq(ss) = f[m]
  BY FlatLoop DEF m
<1>4. PICK g : IsLoop(g, n, T, base, other) /\ FlattenSeq(r) = g[n]
  BY <1>1, FlatLoop
<1>5. SameTurns(m, T, turn, other)
  <2> SUFFICES ASSUME NEW x \in T, NEW i \in 1 .. m
               PROVE  turn[<<x, i>>] = other[<<x, i>>]
    BY DEF SameTurns
  <2>1. m = Len(ss) /\ i \in 1 .. n /\ r[i] = ss[i]
    BY <1>1, <1>2 DEF m
  <2>2. turn[<<x, i>>] = x \o ss[i] /\ other[<<x, i>>] = x \o r[i]
    BY <1>1, <2>1 DEF JoinTurn
  <2> QED
    BY <2>1, <2>2
<1>6. n \in Nat /\ m \in 0 .. n /\ n \in 1 .. n /\ n - 1 = m
  BY <1>2
<1>7. \A k \in T : other[<<k, n>>] = k \o s
  BY <1>1, <1>6 DEF JoinTurn
<1> HIDE DEF n, T, base, turn, other
<1>8. f[m] = g[m]
  BY <1>3, <1>4, <1>5, <1>6, LoopsAgree
<1>9. g[m] \in T /\ g[n] = other[<<g[m], n>>]
  BY <1>4, <1>6 DEF IsLoop
<1> QED
  BY <1>3, <1>4, <1>7, <1>8, <1>9 DEF r, T

LEMMA FlatConcat ==
  ASSUME NEW S, NEW ss \in Seq(Seq(S)), NEW tt \in Seq(Seq(S))
  PROVE  FlattenSeq(ss \o tt) = FlattenSeq(ss) \o FlattenSeq(tt)
<1> DEFINE T == Seq(S)
           P == {u \in Seq(T) : FlattenSeq(ss \o u) = FlattenSeq(ss) \o FlattenSeq(u)}
<1>1. <<>> \in P
  <2>1. ss \o <<>> = ss /\ <<>> \in Seq(T)
    BY ConcatEmptySeq, EmptySeq
  <2>2. FlattenSeq(ss) \in Seq(S) /\ <<>> \in Seq(S)
    BY FlatAppend, EmptySeq
  <2>3. FlattenSeq(ss) \o <<>> = FlattenSeq(ss)
    BY <2>2, ConcatEmptySeq
  <2> QED
    BY <2>1, <2>3, FlatEmpty
<1>2. ASSUME NEW u \in Seq(T), NEW e \in T, u \in P PROVE Append(u, e) \in P
  <2>1. Append(u, e) \in Seq(T)
    BY AppendProperties
  <2>2. ss \o u \in Seq(T) /\ ss \o Append(u, e) = Append(ss \o u, e)
    <3> HIDE DEF T
    <3>1. ss \in Seq(T)
      BY DEF T
    <3> QED
      BY <3>1, ConcatAppend
  <2>5. /\ FlattenSeq(Append(ss \o u, e)) = FlattenSeq(ss \o u) \o e
        /\ FlattenSeq(Append(u, e)) = FlattenSeq(u) \o e
    BY <2>2, FlatAppend
  <2>6. FlattenSeq(ss) \in Seq(S) /\ FlattenSeq(u) \in Seq(S)
    BY FlatAppend
  <2>7. (FlattenSeq(ss) \o FlattenSeq(u)) \o e = FlattenSeq(ss) \o (FlattenSeq(u) \o e)
    <3> DEFINE v == FlattenSeq(ss)
               x == FlattenSeq(u)
    <3>1. v \in Seq(S) /\ x \in Seq(S) /\ e \in Seq(S)
      BY <2>6
    <3> HIDE DEF v, x
    <3>2. (v \o x) \o e = v \o (x \o e)
      BY <3>1, ConcatAssociative
    <3> QED
      BY <3>2 DEF v, x
  <2>8. FlattenSeq(ss \o Append(u, e)) = FlattenSeq(ss) \o FlattenSeq(Append(u, e))
    BY <1>2, <2>2, <2>5, <2>7
  <2> QED
    BY <2>1, <2>8
<1> HIDE DEF P
<1>3. tt \in P
  <2> HIDE DEF T
  <2>1. \A u \in Seq(T) : u \in P
    BY <1>1, <1>2, SeqInduction
  <2> QED
    BY <2>1 DEF T
<1> QED
  BY <1>3 DEF P

LEMMA TotalConcat ==
  ASSUME NEW s \in Seq(Nat), NEW t \in Seq(Nat)
  PROVE  Total(s \o t) = Total(s) + Total(t)
<1> DEFINE T == Nat
           P == {u \in Seq(T) : Total(s \o u) = Total(s) + Total(u)}
<1>1. <<>> \in P
  <2>1. s \o <<>> = s /\ <<>> \in Seq(T)
    BY ConcatEmptySeq, EmptySeq
  <2>2. Total(s) \in Nat
    BY TotalAppend
  <2> QED
    BY <2>1, <2>2, TotalEmpty
<1>2. ASSUME NEW u \in Seq(T), NEW e \in T, u \in P PROVE Append(u, e) \in P
  <2>1. Append(u, e) \in Seq(T)
    BY AppendProperties
  <2>2. s \o u \in Seq(T) /\ s \o Append(u, e) = Append(s \o u, e)
    <3> HIDE DEF T
    <3>1. s \in Seq(T)
      BY DEF T
    <3> QED
      BY <3>1, ConcatAppend
  <2>5. /\ Total(Append(s \o u, e)) = Total(s \o u) + e
        /\ Total(Append(u, e)) = Total(u) + e
        /\ Total(s) \in Nat /\ Total(u) \in Nat
    BY <2>2, TotalAppend
  <2>6. Total(s \o u) = Total(s) + Total(u)
    BY <1>2
  <2>7. Total(s \o Append(u, e)) = Total(s) + Total(Append(u, e))
    BY <2>2, <2>5, <2>6
  <2> QED
    BY <2>1, <2>7
<1> HIDE DEF P
<1>3. t \in P
  <2> HIDE DEF T
  <2>1. \A u \in Seq(T) : u \in P
    BY <1>1, <1>2, SeqInduction
  <2> QED
    BY <2>1 DEF T
<1> QED
  BY <1>3 DEF P

-----------------------------------------------------------------------------
(* The parts of a split (Cut): together they are the lines, in order, and  *)
(* a line a part does not begin with is none of those to cut at.           *)

Some(T) == Seq(T) \ {<<>>}

LEMMA ExtendIsAppend ==
  ASSUME NEW T, NEW q \in Seq(Seq(T)), NEW x \in Seq(T), NEW e \in T
  PROVE  Extend(Append(q, x), e) = Append(q, Append(x, e))
<1> DEFINE p == Append(q, x)
           y == Append(x, e)
           r == Append(q, y)
           n == Len(q) + 1
<1>1. y \in Seq(T) /\ Len(q) \in Nat
  BY AppendProperties, LenProperties
<1>2. /\ p \in Seq(Seq(T)) /\ Len(p) = n /\ p[n] = x
      /\ \A i \in 1 .. Len(q) : p[i] = q[i]
  BY AppendProperties
<1>3. /\ r \in Seq(Seq(T)) /\ Len(r) = n /\ r[n] = y
      /\ \A i \in 1 .. Len(q) : r[i] = q[i]
  BY <1>1, AppendProperties
<1> HIDE DEF p, r, y
<1>4. Extend(p, e) = [p EXCEPT ![n] = y]
  BY <1>2 DEF Extend, y
<1>5. n \in 1 .. Len(p)
  BY <1>1, <1>2
<1>6. /\ [p EXCEPT ![n] = y] \in Seq(Seq(T)) /\ Len([p EXCEPT ![n] = y]) = n
      /\ \A j \in 1 .. n : [p EXCEPT ![n] = y][j] = IF j = n THEN y ELSE p[j]
  <2> HIDE DEF n
  <2> QED
    BY <1>1, <1>2, <1>5, ExceptSeq
<1>7. \A j \in 1 .. n : j = n \/ j \in 1 .. Len(q)
  BY <1>1
<1>8. \A j \in 1 .. n : [p EXCEPT ![n] = y][j] = r[j]
  BY <1>2, <1>3, <1>6, <1>7
<1>9. [p EXCEPT ![n] = y] = r
  <2> DEFINE s == [p EXCEPT ![n] = y]
  <2>1. s \in Seq(Seq(T)) /\ Len(s) = Len(r) /\ \A j \in 1 .. Len(s) : s[j] = r[j]
    BY <1>3, <1>6, <1>8
  <2> HIDE DEF s
  <2>2. s = r
    BY <1>3, <2>1, SeqEqual
  <2> QED
    BY <2>2 DEF s
<1> QED
  BY <1>4, <1>9 DEF p, r, y

\* What one more line does to the parts: the last one grows, or a new one begins.
CutTurn(parts, line, begins) ==
  IF begins THEN Append(parts, <<line>>) ELSE Extend(parts, line)

LEMMA CutTurnType ==
  ASSUME NEW T, NEW parts \in Some(Seq(T)), NEW line \in T, NEW begins
  PROVE  /\ CutTurn(parts, line, begins) \in Some(Seq(T))
         /\ FlattenSeq(CutTurn(parts, line, begins)) = Append(FlattenSeq(parts), line)
<1>1. parts \in Seq(Seq(T)) /\ parts # <<>>
  BY DEF Some
<1>2. <<line>> \in Seq(T) /\ FlattenSeq(parts) \in Seq(T)
      /\ Append(FlattenSeq(parts), line) = FlattenSeq(parts) \o <<line>>
  <2>1. FlattenSeq(parts) \in Seq(T)
    BY <1>1, FlatAppend, EmptySeq
  <2> QED
    BY <2>1, AppendIsConcat
<1>3. CASE begins
  <2>1. CutTurn(parts, line, begins) = Append(parts, <<line>>)
    BY <1>3 DEF CutTurn
  <2>2. Append(parts, <<line>>) \in Some(Seq(T))
    BY <1>1, <1>2, AppendProperties DEF Some
  <2>3. FlattenSeq(Append(parts, <<line>>)) = FlattenSeq(parts) \o <<line>>
    BY <1>1, <1>2, FlatAppend
  <2> QED
    BY <1>2, <2>1, <2>2, <2>3
<1>4. CASE ~begins
  <2> DEFINE U == Seq(T)
  <2>1. PICK q \in Seq(U), x \in U : parts = Append(q, x)
    <3> HIDE DEF U
    <3>1. parts \in Seq(U) /\ parts # <<>>
      BY <1>1 DEF U
    <3> QED
      BY <3>1, SequenceEmptyOrAppend
  <2>2. CutTurn(parts, line, begins) = Append(q, Append(x, line))
    BY <1>4, <2>1, ExtendIsAppend DEF CutTurn
  <2>3. Append(x, line) \in Seq(T) /\ Append(x, line) = x \o <<line>>
    BY <2>1, AppendProperties, AppendIsConcat
  <2>4. Append(q, Append(x, line)) \in Some(Seq(T))
    BY <2>1, <2>3, AppendProperties DEF Some
  <2>5. /\ FlattenSeq(q) \in Seq(T) /\ FlattenSeq(parts) = FlattenSeq(q) \o x
        /\ FlattenSeq(Append(q, Append(x, line))) = FlattenSeq(q) \o Append(x, line)
    BY <2>1, <2>3, FlatAppend
  <2>6. FlattenSeq(q) \o Append(x, line) = Append(FlattenSeq(q) \o x, line)
    <3> DEFINE f == FlattenSeq(q)
    <3>1. f \in Seq(T) /\ x \in Seq(T)
      BY <2>1, <2>5
    <3> HIDE DEF f
    <3>2. f \o Append(x, line) = Append(f \o x, line)
      BY <3>1, ConcatAppend
    <3> QED
      BY <3>2 DEF f
  <2> QED
    BY <1>2, <2>2, <2>3, <2>4, <2>5, <2>6
<1> QED
  BY <1>3, <1>4

CutsTo(T, lines, D, parts) ==
  /\ parts \in [0 .. Len(lines) -> Some(Seq(T))] /\ parts[0] = << <<>> >>
  /\ \A i \in 1 .. Len(lines) : parts[i] = CutTurn(parts[i - 1], lines[i], i \in D)
  /\ Cut(lines, D) = parts[Len(lines)]

IsCut(lines, D, parts) ==
  parts = [i \in 0 .. Len(lines) |->
             IF i = 0 THEN << <<>> >>
             ELSE IF i \in D THEN Append(parts[i - 1], <<lines[i]>>)
             ELSE Extend(parts[i - 1], lines[i])]

LEMMA CutLoop ==
  ASSUME NEW T, NEW lines \in Seq(T), NEW D
  PROVE  \E parts : CutsTo(T, lines, D, parts)
<1> DEFINE n == Len(lines)
           S == Some(Seq(T))
           base == << <<>> >>
           turn == [x \in S \X (1 .. n) |-> CutTurn(x[1], lines[x[2]], x[2] \in D)]
           parts == CHOOSE f : IsCut(lines, D, f)
<1>1. n \in Nat /\ \A i \in 1 .. n : lines[i] \in T
  BY ElementOfSeq, LenProperties
<1>2. base \in S /\ \A s \in S, i \in 1 .. n : CutTurn(s, lines[i], i \in D) \in S
  <2>1. base \in Seq(Seq(T)) /\ base # <<>>
    BY EmptySeq
  <2> QED
    BY <1>1, <2>1, CutTurnType DEF Some
<1>3. /\ turn \in [S \X (1 .. n) -> S]
      /\ \A s \in S, k \in 1 .. n : turn[<<s, k>>] = CutTurn(s, lines[k], k \in D)
  BY <1>2
<1> HIDE DEF S, n, turn, base
<1>4. PICK f : IsLoop(f, n, S, base, turn)
  BY <1>1, <1>2, <1>3, LoopRuns
<1>5. f \in [0 .. n -> S] /\ f[0] = base /\ \A i \in 1 .. n : f[i] = turn[<<f[i - 1], i>>]
  BY <1>4 DEF IsLoop
<1>6. \A i \in 0 .. n : f[i] = IF i = 0 THEN base ELSE CutTurn(f[i - 1], lines[i], i \in D)
  <2> SUFFICES ASSUME NEW i \in 1 .. n PROVE f[i] = CutTurn(f[i - 1], lines[i], i \in D)
    BY <1>1, <1>5
  <2>1. i - 1 \in 0 .. n
    BY <1>1
  <2> QED
    BY <1>3, <1>5, <2>1
<1>7. IsCut(lines, D, f)
  <2>1. f = [i \in 0 .. n |-> f[i]]
    BY <1>5
  <2> QED
    BY <1>6, <2>1, Zenon DEF IsCut, CutTurn, n, base
<1>8. IsCut(lines, D, parts)
  BY <1>7
<1>9. Cut(lines, D) = parts[n]
  BY DEF Cut, IsCut, n
<1> HIDE DEF parts
<1>10. parts = [i \in 0 .. n |-> IF i = 0 THEN base ELSE CutTurn(parts[i - 1], lines[i], i \in D)]
  BY <1>8, Zenon DEF IsCut, CutTurn, n, base
<1>11. parts[0] = base /\ \A i \in 1 .. n : parts[i] = CutTurn(parts[i - 1], lines[i], i \in D)
  BY <1>1, <1>10
<1> DEFINE P == {i \in 0 .. n : parts[i] \in S}
<1>12. \A i \in 0 .. n : i \in P
  <2>1. 0 \in P
    BY <1>1, <1>2, <1>11
  <2>2. ASSUME NEW i \in 1 .. n, i - 1 \in P PROVE i \in P
    BY <1>1, <1>2, <1>11, <2>2
  <2> HIDE DEF P
  <2> QED
    BY <1>1, <2>1, <2>2, Induction
<1>13. parts \in [0 .. n -> S]
  BY <1>10, <1>12
<1>14. CutsTo(T, lines, D, parts)
  BY <1>9, <1>11, <1>13 DEF CutsTo, n, S, base
<1> QED
  BY <1>14

\* Line j of part k is line p of the file.
From(lines, D, k, j, p) ==
  /\ j >= 2 => p \notin D
  /\ 1 \notin D /\ (k >= 2 \/ j >= 2) => p >= 2

CutInv(lines, D, parts, i) ==
  /\ i = 0 => parts = << <<>> >>
  /\ FlattenSeq(parts) = SubSeq(lines, 1, i)
  /\ \A k \in 1 .. Len(parts) : \A j \in 1 .. Len(parts[k]) :
       \E p \in 1 .. i : parts[k][j] = lines[p] /\ From(lines, D, k, j, p)

LEMMA CutTurnInv ==
  ASSUME NEW T, NEW lines \in Seq(T), NEW D, NEW i \in 1 .. Len(lines),
         NEW parts \in Some(Seq(T)), CutInv(lines, D, parts, i - 1)
  PROVE  CutInv(lines, D, CutTurn(parts, lines[i], i \in D), i)
<1> DEFINE line == lines[i]
           r == CutTurn(parts, line, i \in D)
           U == Seq(T)
<1>1. i \in Nat /\ i # 0 /\ i \in 1 .. i /\ line \in T /\ \A p \in 1 .. i - 1 : p \in 1 .. i
  BY ElementOfSeq
<1>2. FlattenSeq(r) = SubSeq(lines, 1, i)
  <2>1. FlattenSeq(r) = Append(SubSeq(lines, 1, i - 1), line)
    BY <1>1, CutTurnType DEF CutInv
  <2>2. SubSeq(lines, 1, i - 1) \in Seq(T)
    <3>1. \A j \in 1 .. i - 1 : lines[j] \in T
      BY <1>1, ElementOfSeq
    <3> QED
      BY <1>1, <3>1, SubSeqProperties
  <2>3. SubSeq(lines, 1, i) = SubSeq(lines, 1, i - 1) \o <<line>>
    <3>1. 1 \in 1 .. Len(lines) /\ i \in 1 .. Len(lines)
      BY <1>1
    <3> QED
      BY <3>1, SubSeqRecursiveSecond
  <2> QED
    BY <1>1, <2>1, <2>2, <2>3, AppendIsConcat
<1>3. PICK q \in Seq(U), x \in U : parts = Append(q, x)
  <2> HIDE DEF U
  <2>1. parts \in Seq(U) /\ parts # <<>>
    BY DEF U, Some
  <2> QED
    BY <2>1, SequenceEmptyOrAppend
<1>4. /\ parts \in Seq(U) /\ Len(q) \in Nat /\ Len(x) \in Nat /\ Len(parts) = Len(q) + 1
      /\ parts[Len(q) + 1] = x /\ \A k \in 1 .. Len(q) : parts[k] = q[k]
  BY <1>3, AppendProperties, LenProperties
<1>5. ASSUME NEW k \in 1 .. Len(parts), NEW j \in 1 .. Len(parts[k])
      PROVE  \E p \in 1 .. i : parts[k][j] = lines[p] /\ From(lines, D, k, j, p)
  BY <1>1 DEF CutInv
<1>6. ASSUME NEW k \in 1 .. Len(r), NEW j \in 1 .. Len(r[k])
      PROVE  \E p \in 1 .. i : r[k][j] = lines[p] /\ From(lines, D, k, j, p)
  <2>1. CASE i \in D
    <3>1. r = Append(parts, <<line>>) /\ <<line>> \in U
      BY <1>1, <2>1 DEF CutTurn
    <3>2. /\ Len(r) = Len(parts) + 1 /\ r[Len(parts) + 1] = <<line>>
          /\ \A m \in 1 .. Len(parts) : r[m] = parts[m]
      <4> HIDE DEF U, r
      <4> QED
        BY <1>4, <3>1, AppendProperties
    <3>3. CASE k \in 1 .. Len(parts)
      BY <1>5, <3>2, <3>3
    <3>4. CASE k = Len(parts) + 1
      <4>1. r[k] = <<line>> /\ j = 1 /\ r[k][j] = line
        <5> HIDE DEF r, line
        <5>1. r[k] = <<line>>
          BY <3>2, <3>4
        <5>2. j \in 1 .. Len(<<line>>)
          BY <5>1
        <5> QED
          BY <5>1, <5>2
      <4>2. From(lines, D, k, j, i)
        BY <1>1, <2>1, <4>1 DEF From
      <4> QED
        BY <1>1, <4>1, <4>2
    <3> QED
      BY <1>4, <3>2, <3>3, <3>4
  <2>2. CASE i \notin D
    <3> DEFINE y == Append(x, line)
    <3>1. r = Append(q, y)
      BY <1>1, <1>3, <2>2, ExtendIsAppend DEF CutTurn
    <3>2. /\ y \in U /\ Len(y) = Len(x) + 1 /\ y[Len(x) + 1] = line
          /\ \A m \in 1 .. Len(x) : y[m] = x[m]
      BY <1>1, <1>3, AppendProperties
    <3> HIDE DEF y, U, r
    <3>3. /\ Len(r) = Len(q) + 1 /\ r[Len(q) + 1] = y
          /\ \A m \in 1 .. Len(q) : r[m] = q[m]
      BY <1>3, <3>1, <3>2, AppendProperties
    <3>4. CASE k \in 1 .. Len(q)
      BY <1>4, <1>5, <3>3, <3>4
    <3>5. CASE k = Len(q) + 1 /\ j \in 1 .. Len(x)
      BY <1>4, <1>5, <3>2, <3>3, <3>5
    <3>6. CASE k = Len(q) + 1 /\ j = Len(x) + 1
      <4>1. r[k][j] = lines[i]
        BY <3>2, <3>3, <3>6 DEF line
      <4>2. k >= 2 \/ j >= 2 => i >= 2
        <5> SUFFICES ASSUME i = 1 PROVE k = 1 /\ j = 1
          BY <1>1, <1>4, <3>6
        <5>1. parts = << <<>> >>
          BY DEF CutInv
        <5>2. Len(parts) = 1 /\ Len(q) = 0 /\ x = <<>>
          BY <1>4, <5>1
        <5> QED
          BY <3>6, <5>2, EmptySeq
      <4>3. From(lines, D, k, j, i)
        BY <2>2, <4>2 DEF From
      <4> QED
        BY <1>1, <4>1, <4>3
    <3> QED
      BY <1>4, <3>2, <3>3, <3>4, <3>5, <3>6
  <2> QED
    BY <2>1, <2>2
<1> HIDE DEF r
<1> QED
  BY <1>1, <1>2, <1>6 DEF CutInv, r

LEMMA CutParts ==
  ASSUME NEW T, NEW lines \in Seq(T), NEW D
  PROVE  /\ Cut(lines, D) \in Some(Seq(T))
         /\ FlattenSeq(Cut(lines, D)) = lines
         /\ CutInv(lines, D, Cut(lines, D), Len(lines))
<1> DEFINE n == Len(lines)
<1>1. n \in Nat /\ SubSeq(lines, 1, n) = lines
  BY LenProperties, SubSeqFull
<1>2. PICK parts : CutsTo(T, lines, D, parts)
  BY CutLoop
<1>3. \A i \in 0 .. n : parts[i] \in Some(Seq(T))
  BY <1>2 DEF CutsTo
<1> DEFINE P == {i \in 0 .. n : CutInv(lines, D, parts[i], i)}
<1>4. 0 \in P
  <2>1. parts[0] = << <<>> >>
    BY <1>2 DEF CutsTo
  <2>2. FlattenSeq(parts[0]) = <<>>
    <3>1. <<>> \in Seq(T) /\ <<>> \in Seq(Seq(T)) /\ << <<>> >> = Append(<<>>, <<>>)
      BY EmptySeq
    <3>2. FlattenSeq(Append(<<>>, <<>>)) = FlattenSeq(<<>>) \o <<>>
      BY <3>1, FlatAppend
    <3> QED
      BY <2>1, <3>1, <3>2, FlatEmpty, ConcatEmptySeq
  <2>3. SubSeq(lines, 1, 0) = <<>>
    BY SubSeqEmpty
  <2>4. \A k \in 1 .. Len(parts[0]) : 1 .. Len(parts[0][k]) = {}
    BY <2>1
  <2>5. CutInv(lines, D, parts[0], 0)
    BY <2>1, <2>2, <2>3, <2>4, Zenon DEF CutInv
  <2> QED
    BY <1>1, <2>5
<1>5. ASSUME NEW i \in 1 .. n, i - 1 \in P PROVE i \in P
  <2>1. parts[i] = CutTurn(parts[i - 1], lines[i], i \in D) /\ parts[i - 1] \in Some(Seq(T))
    BY <1>1, <1>2, <1>3 DEF CutsTo
  <2>2. CutInv(lines, D, parts[i], i)
    BY <1>5, <2>1, CutTurnInv
  <2> QED
    BY <1>1, <2>2
<1>6. n \in P
  <2> HIDE DEF P, n
  <2>1. \A i \in 0 .. n : i \in P
    BY <1>1, <1>4, <1>5, Induction
  <2> QED
    BY <1>1, <2>1
<1> HIDE DEF P
<1>7. Cut(lines, D) = parts[n] /\ CutInv(lines, D, parts[n], n) /\ parts[n] \in Some(Seq(T))
  BY <1>1, <1>2, <1>3, <1>6 DEF CutsTo, P
<1> QED
  BY <1>1, <1>7 DEF CutInv

-----------------------------------------------------------------------------
(* The texts of some lines, and what StripPart and Stripped leave of them. *)

Line == [heading : BOOLEAN, len : Nat]

Mapped(h, s) == [i \in DOMAIN s |-> h[s[i]]]

LEMMA MapEmpty == \A h : Mapped(h, <<>>) = <<>>
<1> TAKE h
<1>1. Mapped(h, <<>>) \in [1 .. 0 -> {}]
  BY DEF Mapped
<1>2. Mapped(h, <<>>) \in Seq({})
  BY <1>1, SeqDef
<1> QED
  BY <1>1, <1>2, LenProperties, EmptySeq

IsMap(h, S, T) == h \in [S -> T]

LEMMA MapAppend ==
  ASSUME NEW S, NEW T, NEW h, IsMap(h, S, T), NEW s \in Seq(S), NEW e \in S
  PROVE  Mapped(h, s) \in Seq(T) /\ Mapped(h, Append(s, e)) = Append(Mapped(h, s), h[e])
<1> DEFINE n == Len(s)
           r == Append(s, e)
           m == Mapped(h, s)
           x == Mapped(h, r)
           y == Append(m, h[e])
<1>1. n \in Nat /\ DOMAIN s = 1 .. n /\ \A i \in 1 .. n : s[i] \in S
  BY LenProperties, ElementOfSeq
<1>2. m \in [1 .. n -> T] /\ \A i \in 1 .. n : m[i] = h[s[i]]
  BY <1>1 DEF Mapped, IsMap
<1>3. m \in Seq(T) /\ Len(m) = n
  <2> HIDE DEF m
  <2>1. m \in Seq(T)
    BY <1>1, <1>2, SeqDef
  <2>2. DOMAIN m = 1 .. n /\ DOMAIN m = 1 .. Len(m) /\ Len(m) \in Nat
    BY <1>2, <2>1, LenProperties
  <2> QED
    BY <1>1, <2>1, <2>2
<1>4. /\ r \in Seq(S) /\ Len(r) = n + 1 /\ r[n + 1] = e /\ DOMAIN r = 1 .. n + 1
      /\ \A i \in 1 .. n : r[i] = s[i]
  BY AppendProperties, LenProperties
<1>5. /\ y \in Seq(T) /\ Len(y) = n + 1 /\ y[n + 1] = h[e] /\ DOMAIN y = 1 .. n + 1
      /\ \A i \in 1 .. n : y[i] = m[i]
  <2>1. h[e] \in T
    BY DEF IsMap
  <2> HIDE DEF m
  <2> QED
    BY <1>3, <2>1, AppendProperties, LenProperties
<1> HIDE DEF r, m, y
<1>6. x = [i \in 1 .. n + 1 |-> h[r[i]]]
  BY <1>4 DEF Mapped
<1>7. \A i \in 1 .. n + 1 : h[r[i]] = y[i]
  <2> SUFFICES ASSUME NEW i \in 1 .. n + 1 PROVE h[r[i]] = y[i]
    OBVIOUS
  <2>1. CASE i \in 1 .. n
    BY <1>2, <1>4, <1>5, <2>1
  <2>2. CASE i = n + 1
    BY <1>4, <1>5, <2>2
  <2> QED
    BY <1>1, <2>1, <2>2
<1>8. y = [i \in 1 .. n + 1 |-> y[i]]
  <2> HIDE DEF y
  <2> QED
    BY <1>5, LenProperties
<1>9. x = y
  <2> HIDE DEF y, x
  <2> QED
    BY <1>6, <1>7, <1>8
<1> QED
  BY <1>3, <1>9 DEF r, m, y

\* The lengths of the texts of some lines, the blank ones left out.
Texts(lines) == TextsOf(TextLines(lines))

LEMMA TextsOfAppend ==
  /\ TextsOf(<<>>) = <<>>
  /\ \A s \in Seq(Line), x \in Line :
       TextsOf(s) \in Seq(Nat) /\ TextsOf(Append(s, x)) = Append(TextsOf(s), x.len)
<1> DEFINE h == [x \in Line |-> x.len]
<1>1. IsMap(h, Line, Nat) /\ \A x \in Line : h[x] = x.len
  BY DEF Line, IsMap
<1>2. ASSUME NEW s \in Seq(Line) PROVE TextsOf(s) = Mapped(h, s)
  <2>1. \A i \in DOMAIN s : s[i] \in Line
    BY ElementOfSeq, LenProperties
  <2>2. \A i \in DOMAIN s : s[i].len = h[s[i]]
    BY <1>1, <2>1
  <2> HIDE DEF h
  <2> QED
    BY <2>2 DEF TextsOf, Mapped
<1>3. TextsOf(<<>>) = <<>>
  BY <1>2, EmptySeq, MapEmpty
<1> HIDE DEF h
<1>4. ASSUME NEW s \in Seq(Line), NEW x \in Line
      PROVE  TextsOf(s) \in Seq(Nat) /\ TextsOf(Append(s, x)) = Append(TextsOf(s), x.len)
  <2>1. Mapped(h, s) \in Seq(Nat) /\ Mapped(h, Append(s, x)) = Append(Mapped(h, s), h[x])
    BY <1>1, MapAppend
  <2>2. Append(s, x) \in Seq(Line)
    BY AppendProperties
  <2> QED
    BY <1>1, <1>2, <2>1, <2>2
<1> QED
  BY <1>3, <1>4

LEMMA TextLinesAppend ==
  /\ TextLines(<<>>) = <<>>
  /\ \A s \in Seq(Line), x \in Line :
       /\ TextLines(s) \in Seq(Line)
       /\ TextLines(Append(s, x)) =
            IF x.len > 0 THEN Append(TextLines(s), x) ELSE TextLines(s)
<1> DEFINE h == [x \in Line |-> IF x.len > 0 THEN <<x>> ELSE <<>>]
           T == Seq(Line)
<1>1. IsMap(h, Line, T) /\ \A x \in Line : h[x] = IF x.len > 0 THEN <<x>> ELSE <<>>
  BY EmptySeq DEF IsMap
<1>2. ASSUME NEW s \in Seq(Line) PROVE TextLines(s) = FlattenSeq(Mapped(h, s))
  <2>1. \A i \in DOMAIN s : s[i] \in Line
    BY ElementOfSeq, LenProperties
  <2>2. \A i \in DOMAIN s : (IF s[i].len > 0 THEN <<s[i]>> ELSE <<>>) = h[s[i]]
    BY <1>1, <2>1
  <2> HIDE DEF h
  <2>3. [i \in DOMAIN s |-> IF s[i].len > 0 THEN <<s[i]>> ELSE <<>>] = Mapped(h, s)
    BY <2>2, Zenon DEF Mapped
  <2> QED
    BY <2>3 DEF TextLines
<1>3. TextLines(<<>>) = <<>>
  BY <1>2, EmptySeq, MapEmpty, FlatEmpty
<1> HIDE DEF h
<1>4. ASSUME NEW s \in Seq(Line), NEW x \in Line
      PROVE  /\ TextLines(s) \in Seq(Line)
             /\ TextLines(Append(s, x)) =
                  IF x.len > 0 THEN Append(TextLines(s), x) ELSE TextLines(s)
  <2>1. /\ Mapped(h, s) \in Seq(T)
        /\ Mapped(h, Append(s, x)) = Append(Mapped(h, s), h[x])
    <3> HIDE DEF T
    <3> QED
      BY <1>1, MapAppend
  <2>2. Append(s, x) \in Seq(Line)
    BY AppendProperties
  <2>3. h[x] \in Seq(Line) /\ Mapped(h, s) \in Seq(Seq(Line))
    <3>1. h[x] \in T
      BY <1>1, Zenon DEF IsMap
    <3> QED
      BY <2>1, <3>1
  <2> HIDE DEF T
  <2>4. /\ TextLines(s) \in Seq(Line)
        /\ TextLines(Append(s, x)) = TextLines(s) \o h[x]
    BY <1>2, <2>1, <2>2, <2>3, FlatAppend
  <2>5. CASE x.len > 0
    BY <1>1, <2>4, <2>5, AppendIsConcat
  <2>6. CASE ~(x.len > 0)
    BY <1>1, <2>4, <2>6, ConcatEmptySeq
  <2> QED
    BY <2>4, <2>5, <2>6
<1> QED
  BY <1>3, <1>4

LEMMA TextsAppend ==
  /\ Texts(<<>>) = <<>>
  /\ \A s \in Seq(Line), x \in Line :
       /\ Texts(s) \in Seq(Nat)
       /\ Texts(Append(s, x)) = IF x.len > 0 THEN Append(Texts(s), x.len) ELSE Texts(s)
  BY TextsOfAppend, TextLinesAppend DEF Texts

LEMMA TextsConcat ==
  ASSUME NEW s \in Seq(Line), NEW t \in Seq(Line)
  PROVE  Texts(s \o t) = Texts(s) \o Texts(t)
<1> DEFINE P == {u \in Seq(Line) : Texts(s \o u) = Texts(s) \o Texts(u)}
<1>1. <<>> \in P
  <2>1. s \o <<>> = s /\ <<>> \in Seq(Line)
    BY ConcatEmptySeq, EmptySeq
  <2>2. Texts(s) \in Seq(Nat)
    <3>1. [heading |-> FALSE, len |-> 0] \in Line
      BY DEF Line
    <3> QED
      BY <3>1, TextsAppend
  <2>3. Texts(s) \o <<>> = Texts(s)
    BY <2>2, ConcatEmptySeq
  <2> QED
    BY <2>1, <2>3, TextsAppend
<1>2. ASSUME NEW u \in Seq(Line), NEW e \in Line, u \in P PROVE Append(u, e) \in P
  <2>1. Append(u, e) \in Seq(Line)
    BY AppendProperties
  <2>2. s \o u \in Seq(Line) /\ s \o Append(u, e) = Append(s \o u, e)
    BY ConcatAppend
  <2>5. Texts(s) \in Seq(Nat) /\ Texts(u) \in Seq(Nat) /\ Texts(s \o u) = Texts(s) \o Texts(u)
    BY <1>2, TextsAppend
  <2>6. CASE e.len > 0
    <3>1. /\ Texts(Append(s \o u, e)) = Append(Texts(s) \o Texts(u), e.len)
          /\ Texts(Append(u, e)) = Append(Texts(u), e.len)
          /\ e.len \in Nat
      BY <2>2, <2>5, <2>6, TextsAppend DEF Line
    <3>2. Texts(s) \o Append(Texts(u), e.len) = Append(Texts(s) \o Texts(u), e.len)
      <4> DEFINE N == Nat
                 v == Texts(s)
                 x == Texts(u)
                 l == e.len
      <4>1. v \in Seq(N) /\ x \in Seq(N) /\ l \in N
        BY <2>5, <3>1
      <4> HIDE DEF N, v, x, l
      <4>2. v \o Append(x, l) = Append(v \o x, l)
        BY <4>1, ConcatAppend
      <4> QED
        BY <4>2 DEF v, x, l
    <3>3. Texts(s \o Append(u, e)) = Texts(s) \o Texts(Append(u, e))
      BY <2>2, <3>1, <3>2
    <3> QED
      BY <2>1, <3>3
  <2>7. CASE ~(e.len > 0)
    <3>1. Texts(s \o Append(u, e)) = Texts(s) \o Texts(Append(u, e))
      BY <2>2, <2>5, <2>7, TextsAppend
    <3> QED
      BY <2>1, <3>1
  <2> QED
    BY <2>6, <2>7
<1> HIDE DEF P
<1>3. \A u \in Seq(Line) : u \in P
  BY <1>1, <1>2, SeqInduction
<1> QED
  BY <1>3 DEF P

LEMMA BlankTexts ==
  ASSUME NEW s \in Seq(Line), \A i \in 1 .. Len(s) : s[i].len = 0
  PROVE  Texts(s) = <<>>
<1> DEFINE Blank(u) == \A i \in 1 .. Len(u) : u[i].len = 0
           P == {u \in Seq(Line) : Blank(u) => Texts(u) = <<>>}
<1>1. <<>> \in P
  BY EmptySeq, TextsAppend
<1>2. ASSUME NEW u \in Seq(Line), NEW e \in Line, u \in P PROVE Append(u, e) \in P
  <2>1. /\ Append(u, e) \in Seq(Line) /\ Len(Append(u, e)) = Len(u) + 1 /\ Len(u) \in Nat
        /\ Append(u, e)[Len(u) + 1] = e /\ \A i \in 1 .. Len(u) : Append(u, e)[i] = u[i]
    BY AppendProperties, LenProperties
  <2>2. ASSUME Blank(Append(u, e)) PROVE Texts(Append(u, e)) = <<>>
    <3>1. Blank(u) /\ e.len = 0
      BY <2>1, <2>2
    <3> QED
      BY <1>2, <3>1, TextsAppend
  <2> QED
    BY <2>1, <2>2
<1> HIDE DEF P
<1>3. \A u \in Seq(Line) : u \in P
  BY <1>1, <1>2, SeqInduction
<1> QED
  BY <1>3 DEF P

LEMMA AllTexts ==
  ASSUME NEW s \in Seq(Line), \A i \in 1 .. Len(s) : s[i].len > 0
  PROVE  TextsOf(s) = Texts(s)
<1> DEFINE Full(u) == \A i \in 1 .. Len(u) : u[i].len > 0
           P == {u \in Seq(Line) : Full(u) => TextsOf(u) = Texts(u)}
<1>1. <<>> \in P
  BY EmptySeq, TextsAppend, TextsOfAppend
<1>2. ASSUME NEW u \in Seq(Line), NEW e \in Line, u \in P PROVE Append(u, e) \in P
  <2>1. /\ Append(u, e) \in Seq(Line) /\ Len(Append(u, e)) = Len(u) + 1 /\ Len(u) \in Nat
        /\ Append(u, e)[Len(u) + 1] = e /\ \A i \in 1 .. Len(u) : Append(u, e)[i] = u[i]
    BY AppendProperties, LenProperties
  <2>2. ASSUME Full(Append(u, e)) PROVE TextsOf(Append(u, e)) = Texts(Append(u, e))
    <3>1. Full(u) /\ e.len > 0
      BY <2>1, <2>2
    <3>2. Texts(Append(u, e)) = Append(Texts(u), e.len)
      BY <3>1, TextsAppend
    <3>3. TextsOf(Append(u, e)) = Append(TextsOf(u), e.len)
      BY TextsOfAppend
    <3> QED
      BY <1>2, <3>1, <3>2, <3>3
  <2> QED
    BY <2>1, <2>2
<1> HIDE DEF P
<1>3. \A u \in Seq(Line) : u \in P
  BY <1>1, <1>2, SeqInduction
<1> QED
  BY <1>3 DEF P

\* r is the stripped part, of whose first line the heading is kept.
Strips(part, r) ==
  /\ r[1].len > 0 /\ r[1].heading = part[1].heading
  /\ \A j \in 2 .. Len(r) : \E m \in 2 .. Len(part) : r[j] = part[m]

LEMMA StripPartKeeps ==
  ASSUME NEW part \in Seq(Line), HasText(part)
  PROVE  /\ StripPart(part) \in Some(Line)
         /\ Texts(StripPart(part)) = Texts(part)
         /\ Strips(part, StripPart(part))
<1> DEFINE n == Len(part)
           texts == {i \in DOMAIN part : part[i].len > 0}
           first == CHOOSE i \in texts : \A j \in texts : i <= j
           last  == CHOOSE i \in texts : \A j \in texts : i >= j
           a == SubSeq(part, 1, first - 1)
           b == SubSeq(part, first, last)
           c == SubSeq(part, last + 1, n)
           head == part[1].heading
           r == [b EXCEPT ![1].heading = head]
<1>1. n \in Nat /\ DOMAIN part = 1 .. n /\ \A i \in 1 .. n : part[i] \in Line
  BY LenProperties, ElementOfSeq
<1>2. texts \in SUBSET Nat /\ texts \in SUBSET (0 .. n) /\ texts # {}
  BY <1>1 DEF HasText
<1>3. first \in texts /\ \A j \in texts : first <= j
  <2> HIDE DEF texts
  <2>1. \E i \in texts : \A j \in texts : i <= j
    BY <1>2, LeastNumber
  <2> QED
    BY <2>1
<1>4. last \in texts /\ \A j \in texts : last >= j
  <2> HIDE DEF texts
  <2>1. PICK i \in texts : \A j \in texts : j <= i
    BY <1>1, <1>2, GreatestNumber
  <2>2. \A j \in texts : i >= j
    BY <1>2, <2>1
  <2> QED
    BY <2>1, <2>2
<1>5. /\ first \in 1 .. n /\ last \in 1 .. n /\ first <= last
      /\ part[first].len > 0 /\ \A i \in 1 .. n : i < first \/ i > last => ~(part[i].len > 0)
  <2> HIDE DEF first, last, n
  <2>1. first \in 1 .. n /\ part[first].len > 0 /\ last \in 1 .. n
    BY <1>1, <1>3, <1>4
  <2>2. first <= last
    BY <1>3, <1>4
  <2>3. ASSUME NEW i \in 1 .. n, part[i].len > 0 PROVE ~(i < first \/ i > last)
    <3>1. i \in texts
      BY <1>1, <2>3
    <3>2. first <= i /\ last >= i
      BY <1>3, <1>4, <3>1
    <3> QED
      BY <2>1, <3>2
  <2> QED
    BY <2>1, <2>2, <2>3
<1> HIDE DEF texts, first, last, n
<1>6. StripPart(part) = r
  BY DEF StripPart, r, b, first, last, texts, head
<1>7. /\ b \in Seq(Line) /\ Len(b) = last - first + 1
      /\ \A i \in 1 .. last - first + 1 : b[i] = part[first + i - 1]
  BY <1>1, <1>5, SubSeqProperties
<1>8. /\ a \in Seq(Line) /\ Len(a) = first - 1
      /\ \A i \in 1 .. first - 1 : a[i] = part[i]
  <2>1. \A i \in 1 .. first - 1 : part[i] \in Line /\ 1 + i - 1 = i
    BY <1>1, <1>5
  <2>2. 1 \in Int /\ first - 1 \in Int /\ first - 1 - 1 + 1 = first - 1
    BY <1>5
  <2> QED
    BY <1>5, <2>1, <2>2, SubSeqProperties
<1>9. /\ c \in Seq(Line)
      /\ \A i \in 1 .. Len(c) : last + i \in last + 1 .. n /\ c[i] = part[last + i]
  <2>1. \A i \in last + 1 .. n : part[i] \in Line
    BY <1>1, <1>5
  <2>2. last + 1 \in Int /\ n \in Int
    BY <1>1, <1>5
  <2>3. /\ c \in Seq(Line) /\ Len(c) = IF last + 1 <= n THEN n - (last + 1) + 1 ELSE 0
        /\ \A i \in 1 .. n - (last + 1) + 1 : c[i] = part[(last + 1) + i - 1]
    BY <2>1, <2>2, SubSeqProperties
  <2>4. ASSUME NEW i \in 1 .. Len(c) PROVE last + i \in last + 1 .. n /\ c[i] = part[last + i]
    <3>1. i \in 1 .. n - (last + 1) + 1 /\ (last + 1) + i - 1 = last + i
      BY <1>1, <1>5, <2>3
    <3> QED
      BY <1>1, <1>5, <2>3, <3>1
  <2> QED
    BY <2>3, <2>4
<1>10. Texts(a) = <<>> /\ Texts(c) = <<>>
  <2>1. ASSUME NEW i \in 1 .. Len(a) PROVE a[i].len = 0
    <3>1. i \in 1 .. n /\ i < first /\ a[i] = part[i]
      BY <1>1, <1>5, <1>8
    <3> QED
      BY <1>1, <1>5, <3>1 DEF Line
  <2>2. ASSUME NEW i \in 1 .. Len(c) PROVE c[i].len = 0
    <3>1. last + i \in 1 .. n /\ last + i > last /\ c[i] = part[last + i]
      BY <1>1, <1>5, <1>9
    <3> QED
      BY <1>1, <1>5, <3>1 DEF Line
  <2> QED
    BY <1>8, <1>9, <2>1, <2>2, BlankTexts
<1>11. part = (a \o b) \o c
  <2>1. a \o b = SubSeq(part, 1, last)
    <3>1. 1 \in 1 .. Len(part) + 1 /\ first - 1 \in 0 .. Len(part)
          /\ last \in first - 1 .. Len(part) /\ 1 - 1 = 0 /\ (first - 1) + 1 = first
      BY <1>1, <1>5 DEF n
    <3> QED
      BY <3>1, ConcatAdjacentSubSeq
  <2>2. SubSeq(part, 1, last) \o c = SubSeq(part, 1, n)
    <3>1. 1 \in 1 .. Len(part) + 1 /\ last \in 0 .. Len(part)
          /\ n \in last .. Len(part) /\ 1 - 1 = 0
      BY <1>1, <1>5 DEF n
    <3> QED
      BY <3>1, ConcatAdjacentSubSeq
  <2> QED
    BY <2>1, <2>2, SubSeqFull DEF n
<1> HIDE DEF a, c
<1>12. Texts(part) = Texts(b)
  <2>1. /\ Texts((a \o b) \o c) = Texts(a \o b) \o Texts(c)
        /\ Texts(a \o b) = Texts(a) \o Texts(b)
    BY <1>7, <1>8, <1>9, ConcatProperties, TextsConcat
  <2>2. Texts(b) \in Seq(Nat)
    BY <1>1, <1>5, <1>7, TextsAppend
  <2>3. <<>> \o Texts(b) = Texts(b) /\ Texts(b) \o <<>> = Texts(b)
    BY <2>2, ConcatEmptySeq
  <2> QED
    BY <1>10, <1>11, <2>1, <2>3
<1> HIDE DEF b
<1>13. 1 \in 1 .. Len(b) /\ b[1] = part[first] /\ head \in BOOLEAN /\ b[1] \in Line
  <2>1. 1 \in 1 .. n /\ first + 1 - 1 = first
    BY <1>1, <1>5
  <2> QED
    BY <1>1, <1>5, <1>7, <2>1 DEF Line
<1> DEFINE x == [b[1] EXCEPT !.heading = head]
<1>14. x \in Line /\ x.heading = head /\ x.len = b[1].len
  BY <1>13 DEF Line
<1>15. r = [b EXCEPT ![1] = x]
  OBVIOUS
<1> HIDE DEF head, x
<1>16. /\ r \in Seq(Line) /\ Len(r) = Len(b)
       /\ \A j \in 1 .. Len(b) : r[j] = IF j = 1 THEN x ELSE b[j]
  <2>1. 1 \in 1 .. Len(b)
    BY <1>13
  <2> QED
    BY <1>7, <1>14, <1>15, <2>1, ExceptSeq
<1> HIDE DEF r
<1>17. r \in Some(Line)
  BY <1>13, <1>16, EmptySeq DEF Some
<1>18. Strips(part, r)
  <2>1. r[1].len > 0 /\ r[1].heading = part[1].heading
    BY <1>5, <1>13, <1>14, <1>16 DEF head
  <2>2. ASSUME NEW j \in 2 .. Len(r) PROVE \E m \in 2 .. Len(part) : r[j] = part[m]
    <3>1. j \in 1 .. Len(b) /\ j # 1 /\ first + j - 1 \in 2 .. n
      BY <1>1, <1>5, <1>7, <1>16
    <3> QED
      BY <1>7, <1>16, <3>1 DEF n
  <2> QED
    BY <2>1, <2>2 DEF Strips
<1>19. Texts(r) = Texts(b)
  <2> DEFINE m == Len(b)
             t == SubSeq(b, 2, m)
  <2>1. m \in Nat /\ m >= 1 /\ 1 \in 1 .. m /\ m \in 1 .. m /\ Len(r) = m
    BY <1>5, <1>7, <1>16
  <2>2. ASSUME NEW i \in 2 .. m PROVE i \in 1 .. m /\ r[i] = b[i] /\ b[i] \in Line
    <3>1. i \in 1 .. Len(b) /\ i # 1
      BY <2>1
    <3> QED
      BY <1>7, <1>16, <3>1, ElementOfSeq
  <2> HIDE DEF m
  <2>3. b = <<b[1]>> \o t /\ r = <<x>> \o SubSeq(r, 2, m)
    <3>1. SubSeq(b, 1, m) = <<b[1]>> \o SubSeq(b, 1 + 1, m)
      BY <1>7, <2>1, SubSeqRecursiveFirst DEF m
    <3>2. SubSeq(r, 1, m) = <<r[1]>> \o SubSeq(r, 1 + 1, m)
      BY <1>16, <2>1, SubSeqRecursiveFirst
    <3>3. SubSeq(b, 1, m) = b /\ SubSeq(r, 1, m) = r
      BY <1>7, <1>16, <2>1, SubSeqFull DEF m
    <3>4. r[1] = x /\ 1 + 1 = 2
      BY <1>16, <2>1 DEF m
    <3> QED
      BY <3>1, <3>2, <3>3, <3>4
  <2>4. t \in Seq(Line) /\ SubSeq(r, 2, m) = t
    <3>1. /\ t \in Seq(Line) /\ Len(t) = IF 2 <= m THEN m - 2 + 1 ELSE 0
          /\ \A i \in 1 .. m - 2 + 1 : t[i] = b[2 + i - 1]
      BY <2>1, <2>2, SubSeqProperties
    <3>2. /\ SubSeq(r, 2, m) \in Seq(Line) /\ Len(SubSeq(r, 2, m)) = IF 2 <= m THEN m - 2 + 1 ELSE 0
          /\ \A i \in 1 .. m - 2 + 1 : SubSeq(r, 2, m)[i] = r[2 + i - 1]
      BY <2>1, <2>2, SubSeqProperties
    <3>3. ASSUME NEW i \in 1 .. Len(t) PROVE SubSeq(r, 2, m)[i] = t[i]
      <4>1. i \in 1 .. m - 2 + 1 /\ 2 + i - 1 \in 2 .. m
        BY <2>1, <3>1
      <4> QED
        BY <2>2, <3>1, <3>2, <4>1
    <3> HIDE DEF t
    <3> QED
      BY <3>1, <3>2, <3>3, SeqEqual
  <2> HIDE DEF t
  <2>5. ASSUME NEW y \in Line, y.len > 0 PROVE Texts(<<y>>) = <<y.len>>
    <3>1. <<y>> = Append(<<>>, y) /\ <<>> \in Seq(Line)
      BY EmptySeq
    <3>2. Texts(<<y>>) = Append(<<>>, y.len)
      BY <2>5, <3>1, TextsAppend
    <3> QED
      BY <3>2
  <2>6. Texts(<<x>>) = Texts(<<b[1]>>)
    <3>1. b[1].len > 0
      BY <1>5, <1>13
    <3>2. Texts(<<x>>) = <<x.len>>
      BY <1>14, <2>5, <3>1
    <3>3. Texts(<<b[1]>>) = <<b[1].len>>
      BY <1>13, <2>5, <3>1
    <3> QED
      BY <1>14, <3>2, <3>3
  <2>7. <<x>> \in Seq(Line) /\ <<b[1]>> \in Seq(Line)
    BY <1>13, <1>14
  <2>8. Texts(<<x>> \o t) = Texts(<<x>>) \o Texts(t)
        /\ Texts(<<b[1]>> \o t) = Texts(<<b[1]>>) \o Texts(t)
    BY <2>4, <2>7, TextsConcat
  <2> QED
    BY <2>3, <2>4, <2>6, <2>8
<1> QED
  BY <1>6, <1>12, <1>17, <1>18, <1>19

LEMMA StrippedAppend ==
  /\ Stripped(<<>>) = <<>>
  /\ \A parts \in Seq(Seq(Line)), p \in Seq(Line) :
       /\ Stripped(parts) \in Seq(Some(Line))
       /\ Stripped(Append(parts, p)) =
            IF HasText(p) THEN Append(Stripped(parts), StripPart(p)) ELSE Stripped(parts)
<1> DEFINE S == Seq(Line)
           R == Some(Line)
           T == Seq(R)
           h == [p \in S |-> IF HasText(p) THEN <<StripPart(p)>> ELSE <<>>]
<1>1. \A p \in S : (IF HasText(p) THEN <<StripPart(p)>> ELSE <<>>) \in T
  <2> SUFFICES ASSUME NEW p \in S
               PROVE  (IF HasText(p) THEN <<StripPart(p)>> ELSE <<>>) \in T
    OBVIOUS
  <2>1. HasText(p) => StripPart(p) \in R
    BY StripPartKeeps
  <2> HIDE DEF R
  <2>2. \A x \in R : <<x>> \in T
    OBVIOUS
  <2> QED
    BY <2>1, <2>2, EmptySeq
<1>2. /\ IsMap(h, S, T)
      /\ \A p \in S : h[p] = IF HasText(p) THEN <<StripPart(p)>> ELSE <<>>
  <2> HIDE DEF S, T
  <2> QED
    BY <1>1 DEF IsMap
<1>3. ASSUME NEW parts \in Seq(S) PROVE Stripped(parts) = FlattenSeq(Mapped(h, parts))
  <2>1. \A i \in DOMAIN parts : parts[i] \in S
    <3> HIDE DEF S
    <3> QED
      BY ElementOfSeq, LenProperties
  <2> HIDE DEF S
  <2>2. \A i \in DOMAIN parts :
          (IF HasText(parts[i]) THEN <<StripPart(parts[i])>> ELSE <<>>) = h[parts[i]]
    BY <1>2, <2>1
  <2> HIDE DEF h
  <2>3. [i \in DOMAIN parts |-> IF HasText(parts[i]) THEN <<StripPart(parts[i])>> ELSE <<>>]
          = Mapped(h, parts)
    BY <2>2, Zenon DEF Mapped
  <2> QED
    BY <2>3 DEF Stripped
<1>4. Stripped(<<>>) = <<>>
  <2> HIDE DEF S, h
  <2> QED
    BY <1>3, EmptySeq, MapEmpty, FlatEmpty
<1> HIDE DEF h
<1>5. ASSUME NEW parts \in Seq(S), NEW p \in S
      PROVE  /\ Stripped(parts) \in T
             /\ Stripped(Append(parts, p)) =
                  IF HasText(p) THEN Append(Stripped(parts), StripPart(p)) ELSE Stripped(parts)
  <2> HIDE DEF S
  <2>1. /\ Mapped(h, parts) \in Seq(T)
        /\ Mapped(h, Append(parts, p)) = Append(Mapped(h, parts), h[p])
    <3> HIDE DEF T
    <3> QED
      BY <1>2, MapAppend
  <2>2. Append(parts, p) \in Seq(S)
    BY AppendProperties
  <2>3. h[p] \in T
    BY <1>2, Zenon DEF IsMap
  <2> HIDE DEF R
  <2>4. /\ Stripped(parts) \in T
        /\ Stripped(Append(parts, p)) = Stripped(parts) \o h[p]
    BY <1>3, <2>1, <2>2, <2>3, FlatAppend
  <2>5. CASE HasText(p)
    <3>1. StripPart(p) \in R
      BY <2>5, StripPartKeeps DEF R, S
    <3> QED
      BY <1>2, <2>4, <2>5, <3>1, AppendIsConcat
  <2>6. CASE ~HasText(p)
    BY <1>2, <2>4, <2>6, ConcatEmptySeq
  <2> QED
    BY <2>4, <2>5, <2>6
<1> QED
  BY <1>4, <1>5

\* Where the parts that are left come from, and that no text is gone.
StripInv(parts) ==
  /\ Texts(FlattenSeq(Stripped(parts))) = Texts(FlattenSeq(parts))
  /\ \A m \in 1 .. Len(Stripped(parts)) : \E k \in 1 .. Len(parts) :
       /\ HasText(parts[k]) /\ Stripped(parts)[m] = StripPart(parts[k])
       /\ m >= 2 => k >= 2

LEMMA StrippedKeeps ==
  ASSUME NEW parts \in Seq(Seq(Line))
  PROVE  Stripped(parts) \in Seq(Some(Line)) /\ StripInv(parts)
<1> DEFINE S == Seq(Line)
           P == {u \in Seq(S) : StripInv(u)}
<1>1. <<>> \in P
  BY EmptySeq, StrippedAppend, FlatEmpty DEF StripInv
<1>2. ASSUME NEW u \in Seq(S), NEW e \in S, u \in P PROVE Append(u, e) \in P
  <2> DEFINE v == Append(u, e)
             old == Stripped(u)
             new == Stripped(v)
  <2>1. /\ v \in Seq(S) /\ Len(v) = Len(u) + 1 /\ Len(u) \in Nat /\ v[Len(u) + 1] = e
        /\ \A i \in 1 .. Len(u) : v[i] = u[i]
    <3> HIDE DEF S
    <3> QED
      BY AppendProperties, LenProperties
  <2>2. /\ old \in Seq(Some(Line)) /\ old \in Seq(Seq(Line)) /\ Len(old) \in Nat
        /\ new = IF HasText(e) THEN Append(old, StripPart(e)) ELSE old
    <3>1. old \in Seq(Some(Line)) /\ new = IF HasText(e) THEN Append(old, StripPart(e)) ELSE old
      BY StrippedAppend
    <3>2. old \in Seq(Seq(Line))
      BY <3>1, SeqMonotonic DEF Some
    <3> QED
      BY <3>1, <3>2, LenProperties
  <2>3. /\ Texts(FlattenSeq(old)) = Texts(FlattenSeq(u))
        /\ \A m \in 1 .. Len(old) : \E k \in 1 .. Len(u) :
             HasText(u[k]) /\ old[m] = StripPart(u[k]) /\ (m >= 2 => k >= 2)
    BY <1>2 DEF StripInv
  <2>4. /\ FlattenSeq(u) \in Seq(Line) /\ FlattenSeq(v) = FlattenSeq(u) \o e
        /\ FlattenSeq(old) \in Seq(Line)
    BY <2>2, FlatAppend
  <2>5. Texts(FlattenSeq(v)) = Texts(FlattenSeq(u)) \o Texts(e)
    BY <2>4, TextsConcat
  <2> HIDE DEF v, old, new
  <2>6. CASE HasText(e)
    <3> DEFINE r == StripPart(e)
    <3>1. r \in Some(Line) /\ r \in Seq(Line) /\ Texts(r) = Texts(e)
      BY <2>6, StripPartKeeps DEF Some
    <3>2. new = Append(old, r)
      BY <2>2, <2>6
    <3> HIDE DEF r
    <3>3. FlattenSeq(new) = FlattenSeq(old) \o r
      BY <2>2, <3>1, <3>2, FlatAppend
    <3>4. Texts(FlattenSeq(new)) = Texts(FlattenSeq(v))
      BY <2>3, <2>4, <2>5, <3>1, <3>3, TextsConcat
    <3>5. /\ Len(new) = Len(old) + 1 /\ new[Len(old) + 1] = r
          /\ \A m \in 1 .. Len(old) : new[m] = old[m]
      BY <2>2, <3>1, <3>2, AppendProperties
    <3>6. ASSUME NEW m \in 1 .. Len(new)
          PROVE  \E k \in 1 .. Len(v) :
                   HasText(v[k]) /\ new[m] = StripPart(v[k]) /\ (m >= 2 => k >= 2)
      <4>1. CASE m \in 1 .. Len(old)
        <5>1. PICK k \in 1 .. Len(u) :
                     HasText(u[k]) /\ old[m] = StripPart(u[k]) /\ (m >= 2 => k >= 2)
          BY <2>3, <4>1
        <5>2. k \in 1 .. Len(v) /\ v[k] = u[k] /\ new[m] = old[m]
          BY <2>1, <3>5, <4>1
        <5> QED
          BY <5>1, <5>2
      <4>2. CASE m = Len(old) + 1
        <5> DEFINE k == Len(u) + 1
        <5>1. k \in 1 .. Len(v) /\ v[k] = e /\ new[m] = StripPart(e)
          BY <2>1, <3>5, <4>2 DEF r
        <5>2. m >= 2 => k >= 2
          <6> SUFFICES ASSUME m >= 2 PROVE Len(u) >= 1
            BY <2>1
          <6>1. 1 \in 1 .. Len(old)
            BY <2>2, <4>2
          <6>2. PICK l \in 1 .. Len(u) : TRUE
            BY <2>3, <6>1
          <6> QED
            BY <2>1, <6>2
        <5> HIDE DEF k
        <5> QED
          BY <2>6, <5>1, <5>2
      <4> QED
        BY <2>2, <3>5, <4>1, <4>2
    <3>7. StripInv(v)
      BY <3>4, <3>6 DEF StripInv, new
    <3> QED
      BY <2>1, <3>7 DEF v
  <2>7. CASE ~HasText(e)
    <3>1. Texts(e) = <<>>
      <4>1. \A i \in 1 .. Len(e) : i \in DOMAIN e /\ e[i] \in Line
        BY ElementOfSeq, LenProperties
      <4>2. \A i \in 1 .. Len(e) : e[i].len = 0
        BY <2>7, <4>1 DEF HasText, Line
      <4> QED
        BY <4>2, BlankTexts
    <3>2. Texts(FlattenSeq(u)) \in Seq(Nat)
      <4>1. [heading |-> FALSE, len |-> 0] \in Line
        BY DEF Line
      <4> QED
        BY <2>4, <4>1, TextsAppend
    <3>3. Texts(FlattenSeq(v)) = Texts(FlattenSeq(u))
      BY <2>5, <3>1, <3>2, ConcatEmptySeq
    <3>4. new = old
      BY <2>2, <2>7
    <3>5. ASSUME NEW m \in 1 .. Len(new)
          PROVE  \E k \in 1 .. Len(v) :
                   HasText(v[k]) /\ new[m] = StripPart(v[k]) /\ (m >= 2 => k >= 2)
      <4>1. PICK k \in 1 .. Len(u) :
                   HasText(u[k]) /\ old[m] = StripPart(u[k]) /\ (m >= 2 => k >= 2)
        BY <2>3, <3>4
      <4>2. k \in 1 .. Len(v)
        BY <2>1
      <4>3. v[k] = u[k]
        BY <2>1
      <4> QED
        BY <3>4, <4>1, <4>2, <4>3
    <3>6. StripInv(v)
      BY <2>3, <3>3, <3>4, <3>5 DEF StripInv, new
    <3> QED
      BY <2>1, <3>6 DEF v
  <2> QED
    BY <2>6, <2>7
<1> HIDE DEF P
<1>3. parts \in P
  <2> HIDE DEF S
  <2>1. \A u \in Seq(S) : u \in P
    BY <1>1, <1>2, SeqInduction
  <2> QED
    BY <2>1 DEF S
<1>4. Stripped(parts) \in Seq(Some(Line))
  BY StrippedAppend, EmptySeq
<1> QED
  BY <1>3, <1>4 DEF P

-----------------------------------------------------------------------------
(* The sections of a file and the paragraphs of a section: all the texts   *)
(* are in them, and a heading is only ever the first line of a section.    *)

\* A section starts with text, and only its first line may be a heading.
IsSection(s) == s[1].len > 0 /\ \A j \in 2 .. Len(s) : ~s[j].heading

\* Paragraphs without blank lines, of which only the first line may be a heading.
AreParagraphs(paras) ==
  \A k \in 1 .. Len(paras) : \A j \in 1 .. Len(paras[k]) :
    paras[k][j].len > 0 /\ (k >= 2 \/ j >= 2 => ~paras[k][j].heading)

\* Line j of what is left of a part is line p of the file, but for the heading.
Sources(lines, D, k, part, r) ==
  /\ r[1].len > 0
  /\ \E p \in 1 .. Len(lines) : r[1].heading = lines[p].heading /\ From(lines, D, k, 1, p)
  /\ \A j \in 2 .. Len(r) : \E q \in 2 .. Len(part), p \in 1 .. Len(lines) :
       r[j] = lines[p] /\ From(lines, D, k, q, p)

LEMMA StrippedSources ==
  ASSUME NEW lines \in Seq(Line), NEW D
  PROVE  /\ Stripped(Cut(lines, D)) \in Seq(Some(Line))
         /\ Texts(FlattenSeq(Stripped(Cut(lines, D)))) = Texts(lines)
         /\ \A m \in 1 .. Len(Stripped(Cut(lines, D))) :
              \E k \in 1 .. Len(Cut(lines, D)) :
                /\ m >= 2 => k >= 2
                /\ Sources(lines, D, k, Cut(lines, D)[k], Stripped(Cut(lines, D))[m])
<1> DEFINE parts == Cut(lines, D)
           out == Stripped(parts)
<1>1. /\ parts \in Seq(Seq(Line)) /\ FlattenSeq(parts) = lines
      /\ CutInv(lines, D, parts, Len(lines))
  BY CutParts DEF Some
<1> HIDE DEF parts
<1>2. out \in Seq(Some(Line)) /\ StripInv(parts)
  BY <1>1, StrippedKeeps
<1> HIDE DEF out
<1>3. /\ Texts(FlattenSeq(out)) = Texts(lines)
      /\ \A m \in 1 .. Len(out) : \E k \in 1 .. Len(parts) :
           HasText(parts[k]) /\ out[m] = StripPart(parts[k]) /\ (m >= 2 => k >= 2)
  BY <1>1, <1>2 DEF StripInv, out
<1>4. ASSUME NEW m \in 1 .. Len(out)
      PROVE  \E k \in 1 .. Len(parts) :
               (m >= 2 => k >= 2) /\ Sources(lines, D, k, parts[k], out[m])
  <2>1. PICK k \in 1 .. Len(parts) :
               HasText(parts[k]) /\ out[m] = StripPart(parts[k]) /\ (m >= 2 => k >= 2)
    BY <1>3
  <2>2. parts[k] \in Seq(Line)
    <3> DEFINE S == Seq(Line)
    <3>1. parts \in Seq(S)
      BY <1>1
    <3> HIDE DEF S
    <3>2. parts[k] \in S
      BY <3>1, ElementOfSeq
    <3> QED
      BY <3>2 DEF S
  <2> DEFINE part == parts[k]
             r == out[m]
  <2>3. Strips(part, r)
    BY <2>1, <2>2, StripPartKeeps
  <2>4. 1 \in 1 .. Len(part) /\ Len(part) \in Nat
    BY <2>1, <2>2, LenProperties DEF HasText
  <2>5. \A j \in 1 .. Len(part) : \E p \in 1 .. Len(lines) :
          part[j] = lines[p] /\ From(lines, D, k, j, p)
    BY <1>1 DEF CutInv
  <2> HIDE DEF part, r
  <2>6. r[1].len > 0
    BY <2>3 DEF Strips
  <2>7. \E p \in 1 .. Len(lines) : r[1].heading = lines[p].heading /\ From(lines, D, k, 1, p)
    <3>1. PICK p \in 1 .. Len(lines) : part[1] = lines[p] /\ From(lines, D, k, 1, p)
      BY <2>4, <2>5
    <3> QED
      BY <2>3, <3>1 DEF Strips
  <2>8. ASSUME NEW j \in 2 .. Len(r)
        PROVE  \E q \in 2 .. Len(part), p \in 1 .. Len(lines) :
                 r[j] = lines[p] /\ From(lines, D, k, q, p)
    <3>1. PICK q \in 2 .. Len(part) : r[j] = part[q]
      BY <2>3 DEF Strips
    <3>2. q \in 1 .. Len(part)
      BY <2>4
    <3>3. PICK p \in 1 .. Len(lines) : part[q] = lines[p] /\ From(lines, D, k, q, p)
      BY <2>5, <3>2
    <3> QED
      BY <3>1, <3>3
  <2>9. Sources(lines, D, k, part, r)
    BY <2>6, <2>7, <2>8 DEF Sources
  <2> QED
    BY <2>1, <2>9 DEF part, r
<1> QED
  BY <1>2, <1>3, <1>4 DEF out, parts

LEMMA SectionsKeep ==
  ASSUME NEW file \in Seq(Line)
  PROVE  /\ SplitIntoSections(file) \in Seq(Some(Line))
         /\ Texts(FlattenSeq(SplitIntoSections(file))) = Texts(file)
         /\ \A i \in 1 .. Len(SplitIntoSections(file)) : IsSection(SplitIntoSections(file)[i])
<1> DEFINE D == {i \in DOMAIN file : file[i].heading}
           sections == SplitIntoSections(file)
<1>1. sections = Stripped(Cut(file, D))
  BY DEF SplitIntoSections
<1>2. \A i \in 1 .. Len(file) : i \notin D => ~file[i].heading
  BY LenProperties
<1> HIDE DEF D, sections
<1>3. /\ sections \in Seq(Some(Line)) /\ Texts(FlattenSeq(sections)) = Texts(file)
      /\ \A m \in 1 .. Len(sections) : \E k \in 1 .. Len(Cut(file, D)) :
           Sources(file, D, k, Cut(file, D)[k], sections[m])
  BY <1>1, StrippedSources
<1>4. ASSUME NEW m \in 1 .. Len(sections) PROVE IsSection(sections[m])
  <2>1. PICK k \in 1 .. Len(Cut(file, D)) : Sources(file, D, k, Cut(file, D)[k], sections[m])
    BY <1>3
  <2>2. ASSUME NEW j \in 2 .. Len(sections[m]) PROVE ~sections[m][j].heading
    <3>1. PICK q \in 2 .. Len(Cut(file, D)[k]), p \in 1 .. Len(file) :
                 sections[m][j] = file[p] /\ From(file, D, k, q, p)
      BY <2>1 DEF Sources
    <3>2. p \notin D
      BY <3>1 DEF From
    <3> QED
      BY <1>2, <3>1, <3>2
  <2> QED
    BY <2>1, <2>2 DEF IsSection, Sources
<1> QED
  BY <1>3, <1>4 DEF sections

LEMMA ParagraphsKeep ==
  ASSUME NEW section \in Some(Line), IsSection(section)
  PROVE  /\ SplitOnParagraphs(section) \in Seq(Some(Line))
         /\ Texts(FlattenSeq(SplitOnParagraphs(section))) = Texts(section)
         /\ AreParagraphs(SplitOnParagraphs(section))
<1> DEFINE D == {i \in DOMAIN section : section[i].len = 0}
           paras == SplitOnParagraphs(section)
<1>1. paras = Stripped(Cut(section, D))
  BY DEF SplitOnParagraphs
<1>2. section \in Seq(Line) /\ Len(section) \in Nat /\ DOMAIN section = 1 .. Len(section)
  BY LenProperties DEF Some
<1>3. 1 \notin D /\ \A i \in 1 .. Len(section) : i \notin D => section[i].len > 0
  <2>1. \A i \in 1 .. Len(section) : section[i].len \in Nat
    <3>1. \A i \in 1 .. Len(section) : section[i] \in Line
      BY <1>2, ElementOfSeq
    <3> QED
      BY <3>1 DEF Line
  <2> QED
    BY <1>2, <2>1 DEF IsSection
<1>4. \A i \in 2 .. Len(section) : ~section[i].heading
  BY DEF IsSection
<1> HIDE DEF D, paras
<1>5. /\ paras \in Seq(Some(Line)) /\ Texts(FlattenSeq(paras)) = Texts(section)
      /\ \A m \in 1 .. Len(paras) : \E k \in 1 .. Len(Cut(section, D)) :
           (m >= 2 => k >= 2) /\ Sources(section, D, k, Cut(section, D)[k], paras[m])
  BY <1>1, <1>2, StrippedSources
<1>6. ASSUME NEW m \in 1 .. Len(paras), NEW j \in 1 .. Len(paras[m])
      PROVE  paras[m][j].len > 0 /\ (m >= 2 \/ j >= 2 => ~paras[m][j].heading)
  <2>1. PICK k \in 1 .. Len(Cut(section, D)) :
               (m >= 2 => k >= 2) /\ Sources(section, D, k, Cut(section, D)[k], paras[m])
    BY <1>5
  <2>2. CASE j = 1
    <3>1. PICK p \in 1 .. Len(section) :
                 paras[m][1].heading = section[p].heading /\ From(section, D, k, 1, p)
      BY <2>1 DEF Sources
    <3>2. m >= 2 => p \in 2 .. Len(section)
      BY <1>2, <1>3, <2>1, <3>1 DEF From
    <3>3. paras[m][1].len > 0
      BY <2>1 DEF Sources
    <3>4. m >= 2 => ~paras[m][1].heading
      BY <1>4, <3>1, <3>2
    <3> QED
      BY <2>2, <3>3, <3>4
  <2>3. CASE j # 1
    <3>1. j \in 2 .. Len(paras[m])
      BY <2>3
    <3>2. PICK q \in 2 .. Len(Cut(section, D)[k]), p \in 1 .. Len(section) :
                 paras[m][j] = section[p] /\ From(section, D, k, q, p)
      BY <2>1, <3>1 DEF Sources
    <3>3. q >= 2 /\ p \notin D
      BY <3>2 DEF From
    <3>4. p \in 2 .. Len(section)
      BY <1>2, <1>3, <3>2, <3>3 DEF From
    <3> QED
      BY <1>3, <1>4, <3>2, <3>3, <3>4
  <2> QED
    BY <2>2, <2>3
<1> QED
  BY <1>5, <1>6 DEF paras, AreParagraphs

-----------------------------------------------------------------------------
(* The length of a chunk, and the loop that packs paragraphs into chunks.  *)

Para == Some(Line)

LEMMA ParagraphLenType ==
  ASSUME NEW para \in Para
  PROVE  ParagraphLen(para) \in Nat
<1> DEFINE h == [x \in Line |-> LineLen(x)]
           N == Nat
<1>1. IsMap(h, Line, N)
  BY DEF IsMap, LineLen, Line, HeadingLen
<1>2. para \in Seq(Line) /\ Len(para) \in Nat /\ Len(para) >= 1
  BY EmptySeq DEF Para, Some
<1>3. [i \in DOMAIN para |-> LineLen(para[i])] = Mapped(h, para)
  <2>1. \A i \in DOMAIN para : para[i] \in Line
    BY <1>2, ElementOfSeq, LenProperties
  <2> QED
    BY <2>1 DEF Mapped
<1> HIDE DEF h
<1>4. Mapped(h, para) \in Seq(Nat)
  <2>1. [heading |-> FALSE, len |-> 0] \in Line
    BY DEF Line
  <2> HIDE DEF N
  <2>2. Mapped(h, para) \in Seq(N)
    BY <1>1, <1>2, <2>1, MapAppend
  <2> QED
    BY <2>2 DEF N
<1>5. Total(Mapped(h, para)) \in Nat
  BY <1>4, TotalAppend
<1> QED
  BY <1>2, <1>3, <1>5 DEF ParagraphLen, NewlineLen

LEMMA TextLenAppend ==
  /\ TextLen(<<>>) = -2
  /\ \A c \in Seq(Para), p \in Para :
       /\ TextLen(c) \in Int /\ TextLen(c) >= -2
       /\ TextLen(Append(c, p)) = TextLen(c) + 2 + ParagraphLen(p)
<1> DEFINE h == [p \in Para |-> ParagraphLen(p)]
           N == Nat
<1>1. IsMap(h, Para, N) /\ \A p \in Para : h[p] = ParagraphLen(p) /\ h[p] \in Nat
  BY ParagraphLenType DEF IsMap
<1>2. ASSUME NEW c \in Seq(Para)
      PROVE  TextLen(c) = Total(Mapped(h, c)) + 2 * (Len(c) - 1)
  <2>1. \A i \in DOMAIN c : c[i] \in Para
    BY ElementOfSeq, LenProperties
  <2>2. [i \in DOMAIN c |-> ParagraphLen(c[i])] = Mapped(h, c)
    BY <2>1 DEF Mapped
  <2> HIDE DEF h
  <2> QED
    BY <2>2 DEF TextLen, SeparatorLen
<1> HIDE DEF h
<1>3. TextLen(<<>>) = -2
  <2>1. <<>> \in Seq(Para) /\ Len(<<>>) = 0 /\ Total(Mapped(h, <<>>)) = 0
    BY EmptySeq, MapEmpty, TotalEmpty
  <2>2. TextLen(<<>>) = Total(Mapped(h, <<>>)) + 2 * (Len(<<>>) - 1)
    BY <1>2, <2>1
  <2> QED
    BY <2>1, <2>2
<1>4. ASSUME NEW c \in Seq(Para), NEW p \in Para
      PROVE  /\ TextLen(c) \in Int /\ TextLen(c) >= -2
             /\ TextLen(Append(c, p)) = TextLen(c) + 2 + ParagraphLen(p)
  <2>1. Mapped(h, c) \in Seq(N) /\ Mapped(h, Append(c, p)) = Append(Mapped(h, c), h[p])
    <3> HIDE DEF N
    <3> QED
      BY <1>1, MapAppend
  <2>2. /\ Total(Mapped(h, c)) \in Nat
        /\ Total(Append(Mapped(h, c), h[p])) = Total(Mapped(h, c)) + h[p]
    BY <1>1, <2>1, TotalAppend
  <2>3. Append(c, p) \in Seq(Para) /\ Len(Append(c, p)) = Len(c) + 1 /\ Len(c) \in Nat
    BY AppendProperties, LenProperties
  <2>4. TextLen(c) = Total(Mapped(h, c)) + 2 * (Len(c) - 1)
    BY <1>2
  <2>5. TextLen(Append(c, p)) = Total(Mapped(h, c)) + h[p] + 2 * Len(c)
    <3>1. TextLen(Append(c, p)) = Total(Mapped(h, Append(c, p))) + 2 * (Len(Append(c, p)) - 1)
      BY <1>2, <2>3
    <3>2. Total(Mapped(h, Append(c, p))) = Total(Mapped(h, c)) + h[p]
      BY <2>1, <2>2
    <3> QED
      BY <2>3, <3>1, <3>2
  <2> QED
    BY <1>1, <2>2, <2>3, <2>4, <2>5
<1> QED
  BY <1>3, <1>4

LEMMA TextLenConcat ==
  ASSUME NEW s \in Seq(Para), NEW t \in Seq(Para)
  PROVE  TextLen(s \o t) = TextLen(s) + TextLen(t) + 2
<1> DEFINE P == {u \in Seq(Para) : TextLen(s \o u) = TextLen(s) + TextLen(u) + 2}
<1>1. \A u \in Seq(Para) : TextLen(u) \in Int
  <2>1. <<[heading |-> FALSE, len |-> 0]>> \in Para
    BY DEF Para, Some, Line
  <2> QED
    BY <2>1, TextLenAppend
<1>2. <<>> \in P
  <2>1. s \o <<>> = s /\ <<>> \in Seq(Para)
    BY ConcatEmptySeq, EmptySeq
  <2> QED
    BY <1>1, <2>1, TextLenAppend
<1>3. ASSUME NEW u \in Seq(Para), NEW e \in Para, u \in P PROVE Append(u, e) \in P
  <2>1. Append(u, e) \in Seq(Para)
    BY AppendProperties
  <2>2. s \o u \in Seq(Para) /\ s \o Append(u, e) = Append(s \o u, e)
    BY ConcatAppend
  <2>5. /\ TextLen(Append(s \o u, e)) = TextLen(s \o u) + 2 + ParagraphLen(e)
        /\ TextLen(Append(u, e)) = TextLen(u) + 2 + ParagraphLen(e)
    BY <2>2, TextLenAppend
  <2>6. TextLen(s \o u) = TextLen(s) + TextLen(u) + 2
    BY <1>3
  <2>7. TextLen(s \o Append(u, e)) = TextLen(s) + TextLen(Append(u, e)) + 2
    BY <1>1, <2>2, <2>5, <2>6, ParagraphLenType
  <2> QED
    BY <2>1, <2>7
<1> HIDE DEF P
<1>4. \A u \in Seq(Para) : u \in P
  BY <1>2, <1>3, SeqInduction
<1> QED
  BY <1>4 DEF P

\* The chunks made so far, the paragraphs of the next one, and their length.
Accs == [chunks : Seq(Seq(Para)), parts : Seq(Para), len : Int]
NoAcc == [chunks |-> <<>>, parts |-> <<>>, len |-> 0]

LEMMA PackType ==
  ASSUME NEW acc \in Accs, NEW para \in Para
  PROVE  Pack(acc, para, MaxChars) \in Accs
<1>1. acc.chunks \in Seq(Seq(Para)) /\ acc.parts \in Seq(Para) /\ acc.len \in Int
  BY DEF Accs
<1>2. ParagraphLen(para) \in Int
  BY ParagraphLenType
<1> DEFINE len == ParagraphLen(para)
           separator == IF acc.parts = <<>> THEN 0 ELSE SeparatorLen
           U == Seq(Para)
<1>3. separator \in Int
  BY DEF SeparatorLen
<1>4. /\ Append(acc.chunks, acc.parts) \in Seq(U) /\ <<para>> \in U
      /\ Append(acc.parts, para) \in U /\ acc.len + separator + len \in Int
  <2>1. Append(acc.chunks, acc.parts) \in Seq(U)
    <3> HIDE DEF U
    <3>1. acc.chunks \in Seq(U) /\ acc.parts \in U
      BY <1>1 DEF U
    <3> QED
      BY <3>1, AppendProperties
  <2> QED
    BY <1>1, <1>2, <1>3, <2>1, AppendProperties
<1>5. CASE acc.parts # <<>> /\ acc.len + separator + len > MaxChars
  <2>1. Pack(acc, para, MaxChars)
          = [chunks |-> Append(acc.chunks, acc.parts), parts |-> <<para>>, len |-> len]
    BY <1>5 DEF Pack
  <2> QED
    BY <1>2, <1>4, <2>1 DEF Accs
<1>6. CASE ~(acc.parts # <<>> /\ acc.len + separator + len > MaxChars)
  <2>1. Pack(acc, para, MaxChars)
          = [acc EXCEPT !.parts = Append(@, para), !.len = @ + separator + len]
    BY <1>6 DEF Pack
  <2> HIDE DEF len, separator
  <2> QED
    BY <1>1, <1>4, <2>1 DEF Accs
<1> QED
  BY <1>5, <1>6

IsMerge(paras, f) ==
  f = [i \in 0 .. Len(paras) |->
         IF i = 0 THEN [chunks |-> <<>>, parts |-> <<>>, len |-> 0]
         ELSE Pack(f[i - 1], paras[i], MaxChars)]

MergesTo(paras, acc) ==
  /\ acc \in [0 .. Len(paras) -> Accs] /\ acc[0] = NoAcc
  /\ \A i \in 1 .. Len(paras) : acc[i] = Pack(acc[i - 1], paras[i], MaxChars)
  /\ MergeParagraphs(paras, MaxChars) =
       IF acc[Len(paras)].parts = <<>> THEN acc[Len(paras)].chunks
       ELSE Append(acc[Len(paras)].chunks, acc[Len(paras)].parts)

LEMMA MergeLoop ==
  ASSUME NEW paras \in Seq(Para)
  PROVE  \E acc : MergesTo(paras, acc)
<1> DEFINE n == Len(paras)
           S == Accs
           base == NoAcc
           turn == [x \in S \X (1 .. n) |-> Pack(x[1], paras[x[2]], MaxChars)]
           acc == CHOOSE f : IsMerge(paras, f)
<1>1. n \in Nat /\ \A i \in 1 .. n : paras[i] \in Para
  BY ElementOfSeq, LenProperties
<1>2. base \in S /\ \A s \in S, i \in 1 .. n : Pack(s, paras[i], MaxChars) \in S
  <2>1. NoAcc \in Accs
    <3>1. <<>> \in Seq(Para) /\ <<>> \in Seq(Seq(Para))
      BY EmptySeq
    <3> QED
      BY <3>1 DEF NoAcc, Accs
  <2> QED
    BY <1>1, <2>1, PackType
<1>3. /\ turn \in [S \X (1 .. n) -> S]
      /\ \A s \in S, k \in 1 .. n : turn[<<s, k>>] = Pack(s, paras[k], MaxChars)
  BY <1>2
<1> HIDE DEF S, n, turn, base
<1>4. PICK f : IsLoop(f, n, S, base, turn)
  BY <1>1, <1>2, <1>3, LoopRuns
<1>5. f \in [0 .. n -> S] /\ f[0] = base /\ \A i \in 1 .. n : f[i] = turn[<<f[i - 1], i>>]
  BY <1>4 DEF IsLoop
<1>6. \A i \in 0 .. n : f[i] = IF i = 0 THEN base ELSE Pack(f[i - 1], paras[i], MaxChars)
  <2> SUFFICES ASSUME NEW i \in 1 .. n PROVE f[i] = Pack(f[i - 1], paras[i], MaxChars)
    BY <1>1, <1>5
  <2>1. i - 1 \in 0 .. n
    BY <1>1
  <2> QED
    BY <1>3, <1>5, <2>1
<1>7. IsMerge(paras, f)
  <2>1. f = [i \in 0 .. n |-> f[i]]
    BY <1>5
  <2> QED
    BY <1>6, <2>1, Zenon DEF IsMerge, n, base, NoAcc
<1>8. IsMerge(paras, acc)
  BY <1>7
<1>9. MergeParagraphs(paras, MaxChars) =
        IF acc[n].parts = <<>> THEN acc[n].chunks ELSE Append(acc[n].chunks, acc[n].parts)
  BY DEF MergeParagraphs, IsMerge, n
<1> HIDE DEF acc
<1>10. acc = [i \in 0 .. n |-> IF i = 0 THEN base ELSE Pack(acc[i - 1], paras[i], MaxChars)]
  BY <1>8, Zenon DEF IsMerge, n, base, NoAcc
<1>11. acc[0] = base /\ \A i \in 1 .. n : acc[i] = Pack(acc[i - 1], paras[i], MaxChars)
  BY <1>1, <1>10
<1> DEFINE P == {i \in 0 .. n : acc[i] \in S}
<1>12. \A i \in 0 .. n : i \in P
  <2>1. 0 \in P
    BY <1>1, <1>2, <1>11
  <2>2. ASSUME NEW i \in 1 .. n, i - 1 \in P PROVE i \in P
    BY <1>1, <1>2, <1>11, <2>2
  <2> HIDE DEF P
  <2> QED
    BY <1>1, <2>1, <2>2, Induction
<1>13. acc \in [0 .. n -> S]
  BY <1>10, <1>12
<1>14. MergesTo(paras, acc)
  BY <1>9, <1>11, <1>13 DEF MergesTo, n, S, base
<1> QED
  BY <1>14

-----------------------------------------------------------------------------
(* Packing is greedy, and greed is best: a chunk is closed when one more   *)
(* paragraph makes it too long, so any division has a cut between its      *)
(* first paragraph and that one.                                           *)

\* A division of the paragraphs into bounded chunks, after each of the cuts.
Divides(cuts, paras) ==
  /\ cuts \in SUBSET (1 .. Len(paras) - 1)
  /\ \A i \in {0} \cup cuts, k \in cuts \cup {Len(paras)} :
       i < k /\ (i + 1) .. (k - 1) \cap cuts = {} => Bounded(SubSeq(paras, i + 1, k))

LEMMA Pieces ==
  ASSUME NEW paras \in Seq(Para), NEW a \in 1 .. Len(paras) + 1, NEW b \in a - 1 .. Len(paras)
  PROVE  SubSeq(paras, a, b) \in Seq(Para) /\ Len(SubSeq(paras, a, b)) = b - a + 1
<1>1. Len(paras) \in Nat /\ a \in Int /\ b \in Int
  BY LenProperties
<1>2. \A i \in a .. b : paras[i] \in Para
  <2> SUFFICES ASSUME NEW i \in a .. b PROVE paras[i] \in Para
    OBVIOUS
  <2>1. i \in 1 .. Len(paras)
    BY <1>1
  <2> QED
    BY <2>1, ElementOfSeq
<1>3. /\ SubSeq(paras, a, b) \in Seq(Para)
      /\ Len(SubSeq(paras, a, b)) = IF a <= b THEN b - a + 1 ELSE 0
  BY <1>1, <1>2, SubSeqProperties
<1> QED
  BY <1>1, <1>3

\* More paragraphs make a longer chunk.
LEMMA LongerPiece ==
  ASSUME NEW paras \in Seq(Para),
         NEW a \in 1 .. Len(paras), NEW st \in a .. Len(paras),
         NEW i \in st .. Len(paras), NEW b \in i .. Len(paras)
  PROVE  TextLen(SubSeq(paras, st, i)) <= TextLen(SubSeq(paras, a, b))
<1> DEFINE x == SubSeq(paras, a, st - 1)
           y == SubSeq(paras, st, i)
           z == SubSeq(paras, i + 1, b)
           n == Len(paras)
<1>1. n \in Nat /\ a \in Int /\ st \in Int /\ i \in Int /\ b \in Int
  BY LenProperties
<1>2. /\ a \in 1 .. n + 1 /\ st \in 1 .. n + 1 /\ i + 1 \in 1 .. n + 1
      /\ st - 1 \in a - 1 .. n /\ i \in st - 1 .. n /\ b \in (i + 1) - 1 .. n
      /\ i \in st - 1 .. n /\ b \in i .. n /\ (st - 1) + 1 = st /\ i \in a - 1 .. n
  BY <1>1
<1>3. x \in Seq(Para) /\ y \in Seq(Para) /\ z \in Seq(Para)
  BY <1>2, Pieces
<1>4. x \o y = SubSeq(paras, a, i)
  BY <1>2, ConcatAdjacentSubSeq
<1>5. SubSeq(paras, a, i) \o z = SubSeq(paras, a, b)
  BY <1>2, ConcatAdjacentSubSeq
<1> HIDE DEF x, y, z
<1>6. /\ TextLen(SubSeq(paras, a, b)) = TextLen(x \o y) + TextLen(z) + 2
      /\ TextLen(x \o y) = TextLen(x) + TextLen(y) + 2
  <2>1. x \o y \in Seq(Para)
    BY <1>3, ConcatProperties
  <2>2. TextLen((x \o y) \o z) = TextLen(x \o y) + TextLen(z) + 2
    BY <1>3, <2>1, TextLenConcat
  <2>3. TextLen(x \o y) = TextLen(x) + TextLen(y) + 2
    BY <1>3, TextLenConcat
  <2> QED
    BY <1>4, <1>5, <2>2, <2>3
<1>7. \A s \in Seq(Para) : TextLen(s) \in Int /\ TextLen(s) >= -2
  <2>1. <<[heading |-> FALSE, len |-> 0]>> \in Para
    BY DEF Para, Some, Line
  <2> QED
    BY <2>1, TextLenAppend
<1>8. TextLen(x) \in Int /\ TextLen(y) \in Int /\ TextLen(z) \in Int
      /\ TextLen(x) >= -2 /\ TextLen(z) >= -2
  BY <1>3, <1>7
<1> QED
  BY <1>6, <1>8 DEF y

\* A piece that is not bounded is cut somewhere.
LEMMA CutNeeded ==
  ASSUME NEW paras \in Seq(Para), NEW cuts, Divides(cuts, paras),
         NEW st \in 1 .. Len(paras), NEW i \in st .. Len(paras), st < i,
         TextLen(SubSeq(paras, st, i)) > MaxChars
  PROVE  \E c \in cuts : c \in st .. i - 1
<1> DEFINE n == Len(paras)
           A == {x \in {0} \cup cuts : x < st}
           B == {x \in cuts \cup {n} : x >= i}
<1> SUFFICES ASSUME \A c \in cuts : c \notin st .. i - 1 PROVE FALSE
  OBVIOUS
<1>1. n \in Nat /\ cuts \in SUBSET (1 .. n - 1) /\ st \in Nat /\ i \in Nat /\ i <= n
      /\ 0 < st
  BY LenProperties DEF Divides
<1>2. A \in SUBSET (0 .. n) /\ 0 \in A
  <2> HIDE DEF n
  <2>1. \A x \in {0} \cup cuts : x \in 0 .. n
    BY <1>1
  <2> QED
    BY <1>1, <2>1
<1>3. B \in SUBSET Nat /\ n \in B
  <2> HIDE DEF n
  <2>1. \A x \in cuts \cup {n} : x \in Nat
    BY <1>1
  <2> QED
    BY <1>1, <2>1
<1>4. PICK a \in A : \A x \in A : x <= a
  <2> HIDE DEF A, n
  <2> QED
    BY <1>1, <1>2, GreatestNumber
<1>5. PICK b \in B : \A x \in B : b <= x
  <2> HIDE DEF B, n
  <2> QED
    BY <1>3, LeastNumber
<1>6. /\ a \in {0} \cup cuts /\ a \in 0 .. n /\ a < st
      /\ b \in cuts \cup {n} /\ b \in 0 .. n /\ i <= b
  BY <1>1, <1>4, <1>5
<1>7. (a + 1) .. (b - 1) \cap cuts = {}
  <2> SUFFICES ASSUME NEW x \in cuts, x \in (a + 1) .. (b - 1) PROVE FALSE
    OBVIOUS
  <2>1. x \in 1 .. n - 1 /\ a < x /\ x < b
    BY <1>1, <1>6
  <2>2. x < st \/ x \in st .. i - 1 \/ x >= i
    BY <1>1, <2>1
  <2>3. CASE x < st
    <3>1. x \in A
      BY <2>3
    <3>2. x <= a
      BY <1>4, <3>1
    <3> QED
      BY <1>6, <2>1, <3>2
  <2>4. CASE x >= i
    <3>1. x \in B
      BY <2>4
    <3>2. b <= x
      BY <1>5, <3>1
    <3> QED
      BY <1>6, <2>1, <3>2
  <2> QED
    BY <2>2, <2>3, <2>4
<1> DEFINE s == SubSeq(paras, a + 1, b)
<1>8. Bounded(s)
  <2>1. a < b
    BY <1>1, <1>6
  <2> QED
    BY <1>6, <1>7, <2>1 DEF Divides
<1>9. /\ a + 1 \in 1 .. n /\ st \in a + 1 .. n /\ i \in st .. n /\ b \in i .. n
      /\ a + 1 \in 1 .. n + 1 /\ b \in (a + 1) - 1 .. n
  BY <1>1, <1>6
<1>10. TextLen(SubSeq(paras, st, i)) <= TextLen(s)
  BY <1>9, LongerPiece
<1>11. s \in Seq(Para) /\ Len(s) = b - (a + 1) + 1
  BY <1>9, Pieces
<1>12. Len(s) # 1
  BY <1>1, <1>6, <1>11
<1>13. \A t \in Seq(Para) : TextLen(t) \in Int
  <2>1. <<[heading |-> FALSE, len |-> 0]>> \in Para
    BY DEF Para, Some, Line
  <2> QED
    BY <2>1, TextLenAppend
<1>14. TextLen(s) \in Int /\ TextLen(SubSeq(paras, st, i)) \in Int
  <2>1. st \in 1 .. n + 1 /\ i \in st - 1 .. n
    BY <1>1
  <2> QED
    BY <1>11, <1>13, <2>1, Pieces
<1> HIDE DEF s
<1> QED
  BY <1>8, <1>10, <1>12, <1>14, BoundsAssumption DEF Bounded

\* After i paragraphs: those from st on are in parts, those before in chunks.
MergeInvAt(paras, acc, i, st) ==
  /\ i >= 1 => st <= i
  /\ acc.parts = SubSeq(paras, st, i)
  /\ FlattenSeq(acc.chunks) = SubSeq(paras, 1, st - 1)
  /\ \A k \in 1 .. Len(acc.chunks) :
       /\ Bounded(acc.chunks[k])
       /\ \E a \in 1 .. Len(paras), b \in 1 .. Len(paras) :
            a <= b /\ acc.chunks[k] = SubSeq(paras, a, b)
  /\ IF i = 0 THEN acc.len = 0 ELSE acc.len = TextLen(acc.parts) /\ Bounded(acc.parts)
  /\ \A cuts : Divides(cuts, paras) => Cardinality(cuts \cap (1 .. st - 1)) >= Len(acc.chunks)

MergeInv(paras, acc, i) == \E st \in 1 .. i + 1 : MergeInvAt(paras, acc, i, st)

LEMMA PackInv ==
  ASSUME NEW paras \in Seq(Para), NEW i \in 1 .. Len(paras), NEW acc \in Accs,
         MergeInv(paras, acc, i - 1)
  PROVE  MergeInv(paras, Pack(acc, paras[i], MaxChars), i)
<1> DEFINE n == Len(paras)
           para == paras[i]
           len == ParagraphLen(para)
           separator == IF acc.parts = <<>> THEN 0 ELSE SeparatorLen
           new == Pack(acc, para, MaxChars)
           chunks == acc.chunks
           parts == acc.parts
<1>1. n \in Nat /\ i \in Nat /\ i >= 1 /\ i <= n /\ para \in Para /\ len \in Nat /\ MaxChars \in Nat
  BY LenProperties, ElementOfSeq, ParagraphLenType, BoundsAssumption
<1>2. chunks \in Seq(Seq(Para)) /\ parts \in Seq(Para) /\ acc.len \in Int
  BY DEF Accs
<1>3. PICK st \in 1 .. (i - 1) + 1 : MergeInvAt(paras, acc, i - 1, st)
  BY DEF MergeInv
<1>4. st \in Nat /\ st >= 1 /\ st <= i /\ (i - 1 >= 1 => st <= i - 1)
  BY <1>1, <1>3 DEF MergeInvAt
<1>5. parts = SubSeq(paras, st, i - 1) /\ Len(parts) = i - st
  <2>1. st \in 1 .. n + 1 /\ i - 1 \in st - 1 .. n
    BY <1>1, <1>4
  <2>2. Len(SubSeq(paras, st, i - 1)) = (i - 1) - st + 1
    BY <2>1, Pieces
  <2> QED
    BY <1>1, <1>3, <1>4, <2>2 DEF MergeInvAt
<1>6. /\ Append(parts, para) = SubSeq(paras, st, i) /\ Append(parts, para) \in Seq(Para)
      /\ Len(Append(parts, para)) = i - st + 1
  <2>1. st \in 1 .. Len(paras) /\ i \in st .. Len(paras)
    BY <1>1, <1>4
  <2>2. SubSeq(paras, st, i) = SubSeq(paras, st, i - 1) \o <<para>>
    BY <2>1, SubSeqRecursiveSecond
  <2>3. Append(parts, para) = parts \o <<para>> /\ Append(parts, para) \in Seq(Para)
        /\ Len(Append(parts, para)) = Len(parts) + 1
    BY <1>1, <1>2, AppendIsConcat, AppendProperties
  <2> QED
    BY <1>4, <1>5, <2>2, <2>3
<1>7. /\ TextLen(parts) \in Int
      /\ TextLen(Append(parts, para)) = TextLen(parts) + 2 + len
      /\ TextLen(<<>>) = -2
  BY <1>1, <1>2, TextLenAppend
<1>8. (parts = <<>> <=> i = 1) /\ (i = 1 => acc.len = 0) /\ (i # 1 => acc.len = TextLen(parts))
  <2>1. parts = <<>> <=> Len(parts) = 0
    BY <1>2, EmptySeq
  <2>2. parts = <<>> <=> i = 1
    BY <1>1, <1>4, <1>5, <2>1
  <2>3. IF i - 1 = 0 THEN acc.len = 0 ELSE acc.len = TextLen(parts) /\ Bounded(parts)
    BY <1>3 DEF MergeInvAt
  <2> HIDE DEF parts
  <2> QED
    BY <1>1, <2>2, <2>3
<1>9. acc.len + separator + len = TextLen(Append(parts, para))
  <2>1. CASE i = 1
    <3>1. parts = <<>> /\ acc.len = 0 /\ separator = 0
      BY <1>8, <2>1
    <3>2. TextLen(Append(parts, para)) = len
      BY <1>1, <1>7, <3>1
    <3> QED
      BY <1>1, <3>1, <3>2
  <2>2. CASE i # 1
    BY <1>1, <1>7, <1>8, <2>2 DEF SeparatorLen
  <2> QED
    BY <2>1, <2>2
<1>10. FlattenSeq(chunks) = SubSeq(paras, 1, st - 1)
  BY <1>3 DEF MergeInvAt
<1>11. \A k \in 1 .. Len(chunks) :
         /\ Bounded(chunks[k])
         /\ \E a \in 1 .. n, b \in 1 .. n : a <= b /\ chunks[k] = SubSeq(paras, a, b)
  BY <1>3 DEF MergeInvAt
<1>12. \A cuts : Divides(cuts, paras) => Cardinality(cuts \cap (1 .. st - 1)) >= Len(chunks)
  BY <1>3 DEF MergeInvAt
<1>13. CASE parts # <<>> /\ acc.len + separator + len > MaxChars
  <2>1. new = [chunks |-> Append(chunks, parts), parts |-> <<para>>, len |-> len]
    BY <1>13 DEF Pack
  <2>2. new.chunks = Append(chunks, parts) /\ new.parts = <<para>> /\ new.len = len
    BY <2>1
  <2> HIDE DEF new, chunks, parts, len, para, separator
  <2>3. i # 1 /\ st <= i - 1 /\ st < i
    BY <1>1, <1>4, <1>8, <1>13
  <2>4. <<para>> = SubSeq(paras, i, i)
    <3>1. SubSeq(paras, i, i) \in Seq(Para) /\ Len(SubSeq(paras, i, i)) = 1
      <4>1. i \in 1 .. n + 1 /\ i \in i - 1 .. n /\ i - i + 1 = 1
        BY <1>1
      <4> QED
        BY <4>1, Pieces
    <3>2. SubSeq(paras, i, i)[1] = para
      <4>1. \A j \in i .. i : paras[j] \in Para
        BY <1>1 DEF para
      <4>2. 1 \in 1 .. i - i + 1 /\ i + 1 - 1 = i
        BY <1>1
      <4> QED
        BY <1>1, <4>1, <4>2, SubSeqProperties DEF para
    <3>3. \A j \in 1 .. 1 : SubSeq(paras, i, i)[j] = <<para>>[j]
      BY <3>2
    <3>4. <<para>> \in Seq(Para) /\ Len(<<para>>) = 1
      BY <1>1
    <3> HIDE DEF para
    <3> QED
      BY <3>1, <3>3, <3>4, SeqEqual
  <2>5. FlattenSeq(new.chunks) = SubSeq(paras, 1, i - 1)
    <3>1. FlattenSeq(new.chunks) = SubSeq(paras, 1, st - 1) \o SubSeq(paras, st, i - 1)
      BY <1>2, <1>5, <1>10, <2>2, FlatAppend
    <3>2. /\ 1 \in 1 .. n + 1 /\ st - 1 \in 1 - 1 .. n /\ i - 1 \in st - 1 .. n
          /\ (st - 1) + 1 = st
      BY <1>1, <1>4
    <3> QED
      BY <3>1, <3>2, ConcatAdjacentSubSeq
  <2>6. /\ Len(new.chunks) = Len(chunks) + 1 /\ new.chunks[Len(chunks) + 1] = parts
        /\ \A k \in 1 .. Len(chunks) : new.chunks[k] = chunks[k]
        /\ Len(chunks) \in Nat
    <3> DEFINE U == Seq(Para)
    <3>1. chunks \in Seq(U) /\ parts \in U
      BY <1>2
    <3> HIDE DEF U
    <3> QED
      BY <2>2, <3>1, AppendProperties, LenProperties
  <2>7. ASSUME NEW k \in 1 .. Len(new.chunks)
        PROVE  /\ Bounded(new.chunks[k])
               /\ \E a \in 1 .. n, b \in 1 .. n : a <= b /\ new.chunks[k] = SubSeq(paras, a, b)
    <3>1. CASE k \in 1 .. Len(chunks)
      BY <1>11, <2>6, <3>1
    <3>2. CASE k = Len(chunks) + 1
      <4>1. Bounded(parts)
        BY <1>1, <1>3, <2>3 DEF MergeInvAt, parts
      <4>2. st \in 1 .. n /\ i - 1 \in 1 .. n /\ st <= i - 1
        BY <1>1, <1>4, <2>3
      <4> QED
        BY <1>5, <2>6, <3>2, <4>1, <4>2
    <3> QED
      BY <2>6, <3>1, <3>2
  <2>8. new.len = TextLen(new.parts) /\ Bounded(new.parts)
    <3>1. <<>> \in Seq(Para) /\ <<para>> = Append(<<>>, para) /\ Len(<<para>>) = 1
      BY EmptySeq
    <3>2. TextLen(<<para>>) = TextLen(<<>>) + 2 + len
      BY <1>1, <3>1, TextLenAppend DEF len
    <3>3. TextLen(<<para>>) = len
      BY <1>1, <1>7, <3>2
    <3> QED
      BY <2>2, <3>1, <3>3 DEF Bounded
  <2>9. ASSUME NEW cuts, Divides(cuts, paras)
        PROVE  Cardinality(cuts \cap (1 .. i - 1)) >= Len(new.chunks)
    <3>1. TextLen(SubSeq(paras, st, i)) > MaxChars
      BY <1>6, <1>9, <1>13
    <3>2. st \in 1 .. Len(paras) /\ i \in st .. Len(paras)
      BY <1>1, <1>4
    <3>3. PICK c \in cuts : c \in st .. i - 1
      BY <2>3, <2>9, <3>1, <3>2, CutNeeded
    <3> DEFINE C == cuts \cap (1 .. st - 1)
               E == cuts \cap (1 .. i - 1)
    <3>4. IsFiniteSet(1 .. i - 1)
      BY <1>1, FS_Interval
    <3>5. C \in SUBSET (1 .. i - 1) /\ E \in SUBSET (1 .. i - 1) /\ c \notin C /\ C \cup {c} \in SUBSET E
      BY <1>1, <1>4, <3>3
    <3> HIDE DEF C, E
    <3>6. IsFiniteSet(C) /\ IsFiniteSet(E)
      BY <3>4, <3>5, FS_Subset
    <3>7. Cardinality(C \cup {c}) = Cardinality(C) + 1
      BY <3>5, <3>6, FS_AddElement
    <3>8. Cardinality(C \cup {c}) <= Cardinality(E)
      BY <3>5, <3>6, FS_Subset
    <3>9. Cardinality(C) \in Nat /\ Cardinality(E) \in Nat
      BY <3>6, FS_CardinalityType
    <3>10. Cardinality(C) >= Len(chunks)
      BY <1>12, <2>9 DEF C
    <3> QED
      BY <2>6, <3>7, <3>8, <3>9, <3>10 DEF E
  <2>10. MergeInvAt(paras, new, i, i)
    BY <1>1, <2>2, <2>4, <2>5, <2>7, <2>8, <2>9 DEF MergeInvAt
  <2>11. i \in 1 .. i + 1
    BY <1>1
  <2> QED
    BY <2>10, <2>11 DEF MergeInv, new, para
<1>14. CASE ~(parts # <<>> /\ acc.len + separator + len > MaxChars)
  <2>1. new = [acc EXCEPT !.parts = Append(@, para), !.len = @ + separator + len]
    BY <1>14 DEF Pack
  <2>2. new.chunks = chunks /\ new.parts = Append(parts, para) /\ new.len = acc.len + separator + len
    BY <2>1 DEF Accs
  <2> HIDE DEF new, chunks, parts, len, para, separator
  <2>3. Bounded(Append(parts, para))
    <3>1. CASE parts = <<>>
      <4>1. Len(parts) = 0
        BY <3>1, EmptySeq
      <4>2. Len(Append(parts, para)) = 1
        BY <1>4, <1>5, <1>6, <4>1
      <4> QED
        BY <4>2 DEF Bounded
    <3>2. CASE parts # <<>>
      <4>1. TextLen(Append(parts, para)) <= MaxChars
        BY <1>1, <1>7, <1>9, <1>14, <3>2
      <4> QED
        BY <4>1 DEF Bounded
    <3> QED
      BY <3>1, <3>2
  <2>4. new.len = TextLen(new.parts) /\ Bounded(new.parts) /\ i # 0 /\ st <= i
    BY <1>1, <1>4, <1>9, <2>2, <2>3
  <2>5. new.parts = SubSeq(paras, st, i)
    BY <1>6, <2>2
  <2>6. MergeInvAt(paras, new, i, st)
    BY <1>10, <1>11, <1>12, <2>2, <2>4, <2>5, Zenon DEF MergeInvAt, n
  <2>7. st \in 1 .. i + 1
    BY <1>1, <1>4
  <2> QED
    BY <2>7, <2>6 DEF MergeInv, new, para
<1> QED
  BY <1>13, <1>14

LEMMA MergeKeeps ==
  ASSUME NEW paras \in Seq(Para)
  PROVE  /\ MergeParagraphs(paras, MaxChars) \in Seq(Seq(Para))
         /\ FlattenSeq(MergeParagraphs(paras, MaxChars)) = paras
         /\ \A k \in 1 .. Len(MergeParagraphs(paras, MaxChars)) :
              /\ Bounded(MergeParagraphs(paras, MaxChars)[k])
              /\ \E a \in 1 .. Len(paras), b \in 1 .. Len(paras) :
                   a <= b /\ MergeParagraphs(paras, MaxChars)[k] = SubSeq(paras, a, b)
         /\ ~FewerThan(Len(MergeParagraphs(paras, MaxChars)), paras)
<1> DEFINE n == Len(paras)
           m == MergeParagraphs(paras, MaxChars)
           U == Seq(Para)
<1>1. n \in Nat
  BY LenProperties
<1>2. PICK acc : MergesTo(paras, acc)
  BY MergeLoop
<1>3. \A i \in 0 .. n : acc[i] \in Accs
  BY <1>2 DEF MergesTo
<1> DEFINE P == {i \in 0 .. n : MergeInv(paras, acc[i], i)}
<1>4. 0 \in P
  <2>1. acc[0] = NoAcc
    BY <1>2 DEF MergesTo
  <2>2. SubSeq(paras, 1, 0) = <<>> /\ FlattenSeq(<<>>) = <<>> /\ Len(<<>>) = 0 /\ 1 - 1 = 0
    BY SubSeqEmpty, FlatEmpty
  <2>3. \A cuts : cuts \cap (1 .. 0) = {} /\ Cardinality({}) >= 0
    BY FS_EmptySet
  <2> DEFINE none == acc[0]
  <2>4. none.chunks = <<>> /\ none.parts = <<>> /\ none.len = 0
    BY <2>1 DEF NoAcc
  <2>5. \A cuts : Cardinality(cuts \cap (1 .. 1 - 1)) >= Len(none.chunks)
    BY <2>2, <2>3, <2>4
  <2> HIDE DEF none
  <2>6. none.parts = SubSeq(paras, 1, 0) /\ FlattenSeq(none.chunks) = SubSeq(paras, 1, 1 - 1)
    BY <2>2, <2>4
  <2>7. \A k \in 1 .. Len(none.chunks) : FALSE
    BY <2>2, <2>4
  <2>8. MergeInvAt(paras, none, 0, 1)
    <3>1. ~(0 >= 1)
      OBVIOUS
    <3> QED
      BY <2>4, <2>5, <2>6, <2>7, <3>1, Zenon DEF MergeInvAt
  <2>9. 1 \in 1 .. 0 + 1
    OBVIOUS
  <2> QED
    BY <1>1, <2>8, <2>9 DEF MergeInv, none
<1>5. ASSUME NEW i \in 1 .. n, i - 1 \in P PROVE i \in P
  <2>1. acc[i] = Pack(acc[i - 1], paras[i], MaxChars) /\ acc[i - 1] \in Accs
    BY <1>1, <1>2, <1>3 DEF MergesTo
  <2>2. MergeInv(paras, acc[i], i)
    BY <1>5, <2>1, PackInv
  <2> QED
    BY <1>1, <2>2
<1>6. n \in P
  <2> HIDE DEF P, n
  <2>1. \A i \in 0 .. n : i \in P
    BY <1>1, <1>4, <1>5, Induction
  <2> QED
    BY <1>1, <2>1
<1> DEFINE last == acc[n]
           chunks == last.chunks
           parts == last.parts
<1>7. /\ chunks \in Seq(U) /\ parts \in U /\ Len(chunks) \in Nat
      /\ m = IF parts = <<>> THEN chunks ELSE Append(chunks, parts)
  <2>1. last \in Accs
    BY <1>1, <1>3
  <2>2. chunks \in Seq(U) /\ parts \in U
    BY <2>1 DEF Accs
  <2> QED
    BY <1>2, <2>2, LenProperties DEF MergesTo
<1>8. PICK st \in 1 .. n + 1 : MergeInvAt(paras, last, n, st)
  BY <1>6 DEF MergeInv
<1> HIDE DEF last, P, m, n
<1>9. /\ n >= 1 => st <= n
      /\ parts = SubSeq(paras, st, n) /\ FlattenSeq(chunks) = SubSeq(paras, 1, st - 1)
      /\ n # 0 => Bounded(parts)
      /\ \A cuts : Divides(cuts, paras) => Cardinality(cuts \cap (1 .. st - 1)) >= Len(chunks)
  BY <1>8 DEF MergeInvAt
<1>10. \A k \in 1 .. Len(chunks) :
         /\ Bounded(chunks[k])
         /\ \E a \in 1 .. n, b \in 1 .. n : a <= b /\ chunks[k] = SubSeq(paras, a, b)
  BY <1>8 DEF MergeInvAt, n
<1>11. Len(parts) = n - st + 1 /\ (parts = <<>> <=> n = 0) /\ st >= 1 /\ st <= n + 1 /\ st \in Nat
  <2>1. st \in 1 .. Len(paras) + 1 /\ n \in st - 1 .. Len(paras) /\ st \in Nat /\ st >= 1 /\ st <= n + 1
    BY <1>1 DEF n
  <2>2. Len(parts) = n - st + 1
    BY <1>9, <2>1, Pieces
  <2>3. parts = <<>> <=> Len(parts) = 0
    BY <1>7, EmptySeq
  <2> QED
    BY <1>1, <1>9, <2>1, <2>2, <2>3
<1> HIDE DEF chunks, parts
<1>12. SubSeq(paras, 1, st - 1) \o SubSeq(paras, st, n) = paras
  <2>1. /\ 1 \in 1 .. n + 1 /\ st - 1 \in 1 - 1 .. n /\ n \in st - 1 .. n
        /\ (st - 1) + 1 = st
    BY <1>1, <1>11
  <2>2. SubSeq(paras, 1, st - 1) \o SubSeq(paras, (st - 1) + 1, n) = SubSeq(paras, 1, n)
    BY <2>1, ConcatAdjacentSubSeq DEF n
  <2> QED
    BY <2>1, <2>2, SubSeqFull DEF n
<1>13. m \in Seq(U)
  <2> HIDE DEF U
  <2> QED
    BY <1>7, AppendProperties
<1>14. FlattenSeq(m) = paras
  <2>1. FlattenSeq(Append(chunks, parts)) = FlattenSeq(chunks) \o parts /\ FlattenSeq(chunks) \in Seq(Para)
    BY <1>7, FlatAppend
  <2>2. FlattenSeq(chunks) \o parts = paras
    BY <1>9, <1>12
  <2>3. CASE parts = <<>>
    <3>1. FlattenSeq(chunks) \o <<>> = FlattenSeq(chunks)
      BY <2>1, ConcatEmptySeq
    <3> QED
      BY <1>7, <2>2, <2>3, <3>1
  <2> QED
    BY <1>7, <2>1, <2>2, <2>3
<1>15. ASSUME NEW k \in 1 .. Len(m)
       PROVE  /\ Bounded(m[k])
              /\ \E a \in 1 .. n, b \in 1 .. n : a <= b /\ m[k] = SubSeq(paras, a, b)
  <2>1. CASE parts = <<>>
    BY <1>7, <1>10, <2>1
  <2>2. CASE parts # <<>>
    <3>1. /\ Len(m) = Len(chunks) + 1 /\ m[Len(chunks) + 1] = parts
          /\ \A j \in 1 .. Len(chunks) : m[j] = chunks[j]
      <4> HIDE DEF U
      <4> QED
        BY <1>7, <2>2, AppendProperties
    <3>2. CASE k \in 1 .. Len(chunks)
      BY <1>10, <3>1, <3>2
    <3>3. CASE k = Len(chunks) + 1
      <4>1. m[k] = SubSeq(paras, st, n) /\ Bounded(m[k])
        BY <1>9, <1>11, <2>2, <3>1, <3>3
      <4>2. st \in 1 .. n /\ n \in 1 .. n /\ st <= n
        BY <1>1, <1>9, <1>11, <2>2
      <4> QED
        BY <4>1, <4>2
    <3>4. k \in 1 .. Len(chunks) \/ k = Len(chunks) + 1
      <4>1. Len(chunks) \in Nat
        BY <1>7, LenProperties
      <4> HIDE DEF U
      <4> QED
        BY <3>1, <4>1
    <3> QED
      BY <3>2, <3>3, <3>4
  <2> QED
    BY <2>1, <2>2
<1>16. ~FewerThan(Len(m), paras)
  <2> SUFFICES ASSUME NEW cuts, Divides(cuts, paras), Cardinality(cuts) + 1 < Len(m)
               PROVE  FALSE
    BY Zenon DEF FewerThan, Divides
  <2> DEFINE C == cuts \cap (1 .. st - 1)
  <2>1. IsFiniteSet(cuts) /\ IsFiniteSet(C) /\ Cardinality(C) <= Cardinality(cuts)
    <3>1. cuts \in SUBSET (1 .. n - 1) /\ IsFiniteSet(1 .. n - 1)
      <4>1. cuts \in SUBSET (1 .. n - 1)
        BY DEF Divides, n
      <4>2. 1 \in Int /\ n - 1 \in Int
        BY <1>1
      <4> QED
        BY <4>1, <4>2, FS_Interval
    <3>2. IsFiniteSet(cuts)
      BY <3>1, FS_Subset
    <3>3. C \in SUBSET cuts
      OBVIOUS
    <3> HIDE DEF C
    <3> QED
      BY <3>2, <3>3, FS_Subset
  <2>2. Cardinality(C) \in Nat /\ Cardinality(cuts) \in Nat
    BY <2>1, FS_CardinalityType
  <2>3. Cardinality(C) >= Len(chunks)
    BY <1>9
  <2>4. Len(m) <= Len(chunks) + 1
    <3>1. Len(Append(chunks, parts)) = Len(chunks) + 1
      <4> HIDE DEF U
      <4> QED
        BY <1>7, AppendProperties
    <3> QED
      BY <1>7, <3>1
  <2>5. Len(m) \in Nat
    <3> HIDE DEF U
    <3> QED
      BY <1>13, LenProperties
  <2> HIDE DEF C
  <2> QED
    BY <1>7, <2>1, <2>2, <2>3, <2>4, <2>5
<1> QED
  BY <1>13, <1>14, <1>15, <1>16 DEF m, n

-----------------------------------------------------------------------------
(* From the paragraphs to the lines, and from the sections to the file.    *)

\* Every line has text, and only the first may be a heading.
IsChunkText(lines) ==
  \A j \in 1 .. Len(lines) : lines[j].len > 0 /\ (j >= 2 => ~lines[j].heading)

LEMMA ParagraphsFlat ==
  ASSUME NEW paras \in Seq(Para), AreParagraphs(paras)
  PROVE  FlattenSeq(paras) \in Seq(Line) /\ IsChunkText(FlattenSeq(paras))
<1> DEFINE S == Para
           P == {u \in Seq(S) : AreParagraphs(u) => IsChunkText(FlattenSeq(u))}
<1>1. <<>> \in P
  BY EmptySeq, FlatEmpty DEF IsChunkText
<1>2. ASSUME NEW u \in Seq(S) PROVE u \in Seq(Seq(Line)) /\ FlattenSeq(u) \in Seq(Line)
  <2>1. u \in Seq(Seq(Line))
    BY SeqMonotonic DEF Para, Some
  <2> QED
    BY <2>1, FlatAppend, EmptySeq
<1>3. ASSUME NEW u \in Seq(S), NEW e \in S, u \in P PROVE Append(u, e) \in P
  <2> DEFINE v == Append(u, e)
             old == FlattenSeq(u)
             new == FlattenSeq(v)
  <2>1. /\ v \in Seq(S) /\ Len(v) = Len(u) + 1 /\ Len(u) \in Nat /\ v[Len(u) + 1] = e
        /\ \A i \in 1 .. Len(u) : v[i] = u[i]
    BY AppendProperties, LenProperties
  <2>2. e \in Seq(Line) /\ new = old \o e /\ old \in Seq(Line) /\ Len(old) \in Nat /\ Len(e) \in Nat
    <3>1. e \in Seq(Line)
      BY DEF Para, Some
    <3> QED
      BY <1>2, <3>1, FlatAppend, LenProperties
  <2>3. /\ Len(new) = Len(old) + Len(e)
        /\ \A i \in 1 .. Len(old) + Len(e) :
             new[i] = IF i <= Len(old) THEN old[i] ELSE e[i - Len(old)]
    BY <2>2, ConcatProperties
  <2> HIDE DEF v, new
  <2>4. ASSUME AreParagraphs(v) PROVE IsChunkText(new)
    <3>1. AreParagraphs(u)
      <4> SUFFICES ASSUME NEW k \in 1 .. Len(u), NEW j \in 1 .. Len(u[k])
                   PROVE  u[k][j].len > 0 /\ (k >= 2 \/ j >= 2 => ~u[k][j].heading)
        BY DEF AreParagraphs
      <4>1. k \in 1 .. Len(v) /\ v[k] = u[k]
        BY <2>1
      <4> QED
        BY <2>4, <4>1 DEF AreParagraphs
    <3>2. IsChunkText(old)
      BY <1>3, <3>1
    <3>3. ASSUME NEW j \in 1 .. Len(e)
          PROVE  e[j].len > 0 /\ (Len(u) + 1 >= 2 \/ j >= 2 => ~e[j].heading)
      <4>1. Len(u) + 1 \in 1 .. Len(v)
        BY <2>1
      <4> QED
        BY <2>1, <2>4, <4>1 DEF AreParagraphs
    <3>4. Len(u) = 0 => Len(old) = 0
      BY EmptySeq, FlatEmpty
    <3> SUFFICES ASSUME NEW j \in 1 .. Len(new)
                 PROVE  new[j].len > 0 /\ (j >= 2 => ~new[j].heading)
      BY DEF IsChunkText
    <3>5. CASE j <= Len(old)
      <4>1. j \in 1 .. Len(old) /\ new[j] = old[j]
        BY <2>2, <2>3, <3>5
      <4> QED
        BY <3>2, <4>1 DEF IsChunkText
    <3>6. CASE ~(j <= Len(old))
      <4>1. j - Len(old) \in 1 .. Len(e) /\ new[j] = e[j - Len(old)]
        BY <2>2, <2>3, <3>6
      <4>2. j >= 2 => Len(u) + 1 >= 2 \/ j - Len(old) >= 2
        BY <2>1, <2>2, <2>3, <3>4
      <4> QED
        BY <3>3, <4>1, <4>2
    <3> QED
      BY <3>5, <3>6
  <2> QED
    BY <2>1, <2>4 DEF v, new
<1> HIDE DEF P
<1>4. \A u \in Seq(S) : u \in P
  <2> HIDE DEF S
  <2> QED
    BY <1>1, <1>3, SeqInduction
<1> QED
  BY <1>2, <1>4 DEF P

Sections == {s \in Para : IsSection(s)}
SectionChunks(s) == MergeParagraphs(SplitOnParagraphs(s), MaxChars)

\* What Partitions promises of each chunk.
GoodChunk(c) ==
  Bounded(c) /\ \A i \in 2 .. Len(FlattenSeq(c)) : ~FlattenSeq(c)[i].heading

LEMMA SectionPartitions ==
  ASSUME NEW s \in Sections
  PROVE  /\ SectionChunks(s) \in Seq(Seq(Para))
         /\ Texts(FlattenSeq(FlattenSeq(SectionChunks(s)))) = Texts(s)
         /\ IsChunkText(FlattenSeq(FlattenSeq(SectionChunks(s))))
         /\ \A k \in 1 .. Len(SectionChunks(s)) : GoodChunk(SectionChunks(s)[k])
         /\ ~FewerThan(Len(SectionChunks(s)), SplitOnParagraphs(s))
<1> DEFINE paras == SplitOnParagraphs(s)
           m == MergeParagraphs(paras, MaxChars)
<1>1. /\ paras \in Seq(Para) /\ Texts(FlattenSeq(paras)) = Texts(s)
      /\ AreParagraphs(paras)
  BY ParagraphsKeep DEF Sections, Para
<1> HIDE DEF paras
<1>2. /\ m \in Seq(Seq(Para)) /\ FlattenSeq(m) = paras
      /\ \A k \in 1 .. Len(m) : /\ Bounded(m[k])
                                /\ \E a \in 1 .. Len(paras), b \in 1 .. Len(paras) :
                                     a <= b /\ m[k] = SubSeq(paras, a, b)
      /\ ~FewerThan(Len(m), paras)
  BY <1>1, MergeKeeps
<1> HIDE DEF m
<1>3. IsChunkText(FlattenSeq(FlattenSeq(m)))
  BY <1>1, <1>2, ParagraphsFlat
<1>4. ASSUME NEW k \in 1 .. Len(m) PROVE GoodChunk(m[k])
  <2>1. PICK a \in 1 .. Len(paras), b \in 1 .. Len(paras) :
               a <= b /\ m[k] = SubSeq(paras, a, b)
    BY <1>2
  <2> DEFINE c == SubSeq(paras, a, b)
  <2>2. Len(paras) \in Nat
    BY <1>1, LenProperties
  <2>3. c \in Seq(Para) /\ Len(c) = b - a + 1
    <3>1. a \in 1 .. Len(paras) + 1 /\ b \in a - 1 .. Len(paras)
      BY <2>1, <2>2
    <3> QED
      BY <1>1, <3>1, Pieces
  <2>4. \A i \in 1 .. b - a + 1 : c[i] = paras[a + i - 1]
    <3>1. \A i \in a .. b : paras[i] \in Para
      <4> SUFFICES ASSUME NEW i \in a .. b PROVE paras[i] \in Para
        OBVIOUS
      <4>1. i \in 1 .. Len(paras)
        BY <2>2
      <4> QED
        BY <1>1, <4>1, ElementOfSeq
    <3>2. a \in Int /\ b \in Int
      BY <2>2
    <3> QED
      BY <3>1, <3>2, SubSeqProperties
  <2> HIDE DEF c
  <2>5. AreParagraphs(c)
    <3> SUFFICES ASSUME NEW i \in 1 .. Len(c), NEW j \in 1 .. Len(c[i])
                 PROVE  c[i][j].len > 0 /\ (i >= 2 \/ j >= 2 => ~c[i][j].heading)
      BY DEF AreParagraphs
    <3>1. a + i - 1 \in 1 .. Len(paras) /\ c[i] = paras[a + i - 1] /\ (i >= 2 => a + i - 1 >= 2)
      BY <2>2, <2>3, <2>4
    <3> QED
      BY <1>1, <3>1 DEF AreParagraphs
  <2>6. IsChunkText(FlattenSeq(c)) /\ FlattenSeq(c) \in Seq(Line)
    BY <2>3, <2>5, ParagraphsFlat
  <2>7. \A i \in 2 .. Len(FlattenSeq(c)) : ~FlattenSeq(c)[i].heading
    <3> SUFFICES ASSUME NEW i \in 2 .. Len(FlattenSeq(c))
                 PROVE  ~FlattenSeq(c)[i].heading
      OBVIOUS
    <3>1. i \in 1 .. Len(FlattenSeq(c)) /\ i >= 2
      BY <2>6, LenProperties
    <3> QED
      BY <2>6, <3>1 DEF IsChunkText
  <2> QED
    BY <1>2, <2>1, <2>7 DEF GoodChunk, c
<1> QED
  BY <1>1, <1>2, <1>3, <1>4 DEF SectionChunks, m, paras

\* The chunks of some sections.
AllChunks(sections) == FlattenSeq([i \in DOMAIN sections |-> SectionChunks(sections[i])])

Full(lines) == \A j \in 1 .. Len(lines) : lines[j].len > 0

ChunksInv(sections) ==
  /\ AllChunks(sections) \in Seq(Seq(Para))
  /\ Texts(FlattenSeq(FlattenSeq(AllChunks(sections)))) = Texts(FlattenSeq(sections))
  /\ Full(FlattenSeq(FlattenSeq(AllChunks(sections))))
  /\ \A k \in 1 .. Len(AllChunks(sections)) : GoodChunk(AllChunks(sections)[k])

LEMMA FlatTypes ==
  /\ \A u \in Seq(Para) : u \in Seq(Seq(Line)) /\ FlattenSeq(u) \in Seq(Line)
  /\ \A u \in Seq(Seq(Para)) : FlattenSeq(u) \in Seq(Para)
<1>1. ASSUME NEW u \in Seq(Para) PROVE u \in Seq(Seq(Line)) /\ FlattenSeq(u) \in Seq(Line)
  <2>1. u \in Seq(Seq(Line))
    BY SeqMonotonic DEF Para, Some
  <2> QED
    BY <2>1, FlatAppend, EmptySeq
<1>2. ASSUME NEW u \in Seq(Seq(Para)) PROVE FlattenSeq(u) \in Seq(Para)
  BY FlatAppend, EmptySeq
<1> QED
  BY <1>1, <1>2

LEMMA SectionsPartition ==
  ASSUME NEW sections \in Seq(Sections)
  PROVE  ChunksInv(sections)
<1> DEFINE S == Sections
           T == Seq(Seq(Para))
           h == [s \in S |-> SectionChunks(s)]
           P == {u \in Seq(S) : ChunksInv(u)}
<1>1. IsMap(h, S, T) /\ \A s \in S : h[s] = SectionChunks(s) /\ h[s] \in T
  <2>1. \A s \in S : SectionChunks(s) \in T
    BY SectionPartitions
  <2> HIDE DEF S, T
  <2> QED
    BY <2>1 DEF IsMap
<1>2. ASSUME NEW u \in Seq(S) PROVE AllChunks(u) = FlattenSeq(Mapped(h, u))
  <2> HIDE DEF S
  <2>1. \A i \in DOMAIN u : SectionChunks(u[i]) = h[u[i]]
    <3>1. \A i \in DOMAIN u : u[i] \in S
      BY ElementOfSeq, LenProperties
    <3> QED
      BY <1>1, <3>1
  <2> HIDE DEF h
  <2>2. [i \in DOMAIN u |-> SectionChunks(u[i])] = Mapped(h, u)
    BY <2>1, Zenon DEF Mapped
  <2> QED
    BY <2>2 DEF AllChunks
<1>3. \A u \in Seq(S) : u \in Seq(Seq(Line)) /\ FlattenSeq(u) \in Seq(Line)
  <2>1. \A u \in Seq(S) : u \in Seq(Para)
    BY SeqMonotonic DEF Sections
  <2> QED
    BY <2>1, FlatTypes
<1> HIDE DEF h, S
<1>4. <<>> \in P
  <2>1. <<>> \in Seq(S) /\ AllChunks(<<>>) = <<>> /\ <<>> \in Seq(Seq(Para)) /\ Len(<<>>) = 0
    BY <1>2, EmptySeq, MapEmpty, FlatEmpty
  <2> DEFINE none == AllChunks(<<>>)
  <2>2. none = <<>> /\ FlattenSeq(FlattenSeq(none)) = <<>> /\ FlattenSeq(<<>>) = <<>>
    BY <2>1, FlatEmpty
  <2>3. Full(<<>>) /\ \A k \in 1 .. Len(none) : FALSE
    BY <2>1 DEF Full
  <2> HIDE DEF none
  <2>4. ChunksInv(<<>>)
    BY <2>1, <2>2, <2>3, Zenon DEF ChunksInv, none
  <2> QED
    BY <2>1, <2>4
<1>5. ASSUME NEW u \in Seq(S), NEW e \in S, u \in P PROVE Append(u, e) \in P
  <2> DEFINE v == Append(u, e)
             old == AllChunks(u)
             m == SectionChunks(e)
             new == AllChunks(v)
             U == Seq(Para)
  <2>1. v \in Seq(S)
    BY AppendProperties
  <2>2. /\ old \in Seq(Seq(Para)) /\ Texts(FlattenSeq(FlattenSeq(old))) = Texts(FlattenSeq(u))
        /\ Full(FlattenSeq(FlattenSeq(old)))
        /\ \A k \in 1 .. Len(old) : GoodChunk(old[k])
    BY <1>5 DEF ChunksInv
  <2>3. /\ m \in Seq(Seq(Para)) /\ Texts(FlattenSeq(FlattenSeq(m))) = Texts(e)
        /\ Full(FlattenSeq(FlattenSeq(m)))
        /\ \A k \in 1 .. Len(m) : GoodChunk(m[k])
    BY SectionPartitions DEF S, IsChunkText, Full
  <2>4. new = old \o m
    <3>1. /\ Mapped(h, u) \in Seq(T)
          /\ Mapped(h, v) = Append(Mapped(h, u), h[e])
      <4> HIDE DEF T
      <4> QED
        BY <1>1, MapAppend
    <3>2. FlattenSeq(Append(Mapped(h, u), h[e])) = FlattenSeq(Mapped(h, u)) \o h[e]
      <4> HIDE DEF U
      <4>1. Mapped(h, u) \in Seq(Seq(U)) /\ h[e] \in Seq(U)
        BY <1>1, <3>1 DEF U
      <4> QED
        BY <4>1, FlatAppend
    <3> QED
      BY <1>1, <1>2, <2>1, <3>1, <3>2
  <2> HIDE DEF v, old, m, new
  <2>5. /\ new \in Seq(U) /\ Len(new) = Len(old) + Len(m) /\ Len(old) \in Nat /\ Len(m) \in Nat
        /\ \A k \in 1 .. Len(old) + Len(m) :
             new[k] = IF k <= Len(old) THEN old[k] ELSE m[k - Len(old)]
    <3> HIDE DEF U
    <3>1. old \in Seq(U) /\ m \in Seq(U)
      BY <2>2, <2>3 DEF U
    <3> QED
      BY <2>4, <3>1, ConcatProperties, LenProperties
  <2>6. FlattenSeq(new) = FlattenSeq(old) \o FlattenSeq(m)
    BY <2>2, <2>3, <2>4, FlatConcat
  <2> DEFINE x == FlattenSeq(FlattenSeq(old))
             y == FlattenSeq(FlattenSeq(m))
  <2>7. x \in Seq(Line) /\ y \in Seq(Line) /\ FlattenSeq(FlattenSeq(new)) = x \o y
    <3>1. FlattenSeq(old) \in Seq(Seq(Line)) /\ FlattenSeq(m) \in Seq(Seq(Line))
      BY <2>2, <2>3, FlatTypes
    <3>2. x \in Seq(Line) /\ y \in Seq(Line)
      BY <2>2, <2>3, FlatTypes
    <3> QED
      BY <2>6, <3>1, <3>2, FlatConcat
  <2> HIDE DEF x, y
  <2>8. Texts(FlattenSeq(FlattenSeq(new))) = Texts(FlattenSeq(v))
    <3>1. e \in Seq(Line)
      BY DEF S, Sections, Para, Some
    <3>2. FlattenSeq(v) = FlattenSeq(u) \o e
      BY <1>3, <3>1, FlatAppend DEF v
    <3>3. Texts(FlattenSeq(v)) = Texts(FlattenSeq(u)) \o Texts(e)
      BY <1>3, <3>1, <3>2, TextsConcat
    <3>4. Texts(x \o y) = Texts(x) \o Texts(y)
      BY <2>7, TextsConcat
    <3> QED
      BY <2>2, <2>3, <2>7, <3>3, <3>4 DEF x, y
  <2>9. Full(FlattenSeq(FlattenSeq(new)))
    <3>1. /\ Len(x \o y) = Len(x) + Len(y) /\ Len(x) \in Nat /\ Len(y) \in Nat
          /\ \A k \in 1 .. Len(x) + Len(y) :
               (x \o y)[k] = IF k <= Len(x) THEN x[k] ELSE y[k - Len(x)]
      BY <2>7, ConcatProperties, LenProperties
    <3> SUFFICES ASSUME NEW k \in 1 .. Len(x) + Len(y) PROVE (x \o y)[k].len > 0
      BY <2>7, <3>1 DEF Full
    <3>2. CASE k <= Len(x)
      <4>1. k \in 1 .. Len(x) /\ (x \o y)[k] = x[k]
        BY <3>1, <3>2
      <4> QED
        BY <2>2, <4>1 DEF Full, x
    <3>3. CASE ~(k <= Len(x))
      <4>1. k - Len(x) \in 1 .. Len(y) /\ (x \o y)[k] = y[k - Len(x)]
        BY <3>1, <3>3
      <4> QED
        BY <2>3, <4>1 DEF Full, y
    <3> QED
      BY <3>2, <3>3
  <2>10. ASSUME NEW k \in 1 .. Len(new) PROVE GoodChunk(new[k])
    <3>1. CASE k <= Len(old)
      <4>1. k \in 1 .. Len(old) /\ new[k] = old[k]
        BY <2>5, <3>1
      <4> QED
        BY <2>2, <4>1
    <3>2. CASE ~(k <= Len(old))
      <4>1. k - Len(old) \in 1 .. Len(m) /\ new[k] = m[k - Len(old)]
        BY <2>5, <3>2
      <4> QED
        BY <2>3, <4>1
    <3> QED
      BY <3>1, <3>2
  <2>11. ChunksInv(v)
    BY <2>5, <2>8, <2>9, <2>10 DEF ChunksInv, new
  <2> QED
    BY <2>1, <2>11 DEF v
<1> HIDE DEF P
<1>6. \A u \in Seq(S) : u \in P
  BY <1>4, <1>5, SeqInduction
<1> QED
  BY <1>6 DEF P, S

(* Every file, of any length, is chunked without losing, repeating or      *)
(* reordering a text, no chunk joins two sections or is longer than        *)
(* max_chars unless it is one paragraph, and no section is divided into    *)
(* more chunks than it needs (chunk_markdown, kb_ingestion.py:136-182).    *)
THEOREM EveryFileIsPartitioned == \A file \in Seq(Line) : Partitions(file)
<1> SUFFICES ASSUME NEW file \in Seq(Line) PROVE Partitions(file)
  OBVIOUS
<1> DEFINE sections == SplitIntoSections(file)
           chunks == ChunkMarkdown(file, MaxChars)
           lines == FlattenSeq(FlattenSeq(chunks))
<1>1. /\ sections \in Seq(Para) /\ Texts(FlattenSeq(sections)) = Texts(file)
      /\ \A i \in 1 .. Len(sections) : IsSection(sections[i])
  BY SectionsKeep DEF Para
<1> HIDE DEF sections
<1>2. /\ DOMAIN sections = 1 .. Len(sections) /\ Len(sections) \in Nat
      /\ \A i \in 1 .. Len(sections) : sections[i] \in Sections
  <2>1. \A i \in 1 .. Len(sections) : sections[i] \in Para
    BY <1>1, ElementOfSeq
  <2> QED
    BY <1>1, <2>1, LenProperties DEF Sections
<1>3. sections \in Seq(Sections)
  <2>1. sections \in [1 .. Len(sections) -> Sections]
    BY <1>1, <1>2, LenProperties
  <2> QED
    BY <1>2, <2>1, SeqDef
<1>4. chunks = AllChunks(sections)
  BY DEF ChunkMarkdown, AllChunks, SectionChunks, sections
<1> HIDE DEF chunks
<1>5. /\ chunks \in Seq(Seq(Para)) /\ Texts(lines) = Texts(file)
      /\ Full(lines) /\ \A k \in 1 .. Len(chunks) : GoodChunk(chunks[k])
  BY <1>1, <1>3, <1>4, SectionsPartition DEF ChunksInv
<1>6. lines \in Seq(Line)
  BY <1>5, FlatTypes
<1> HIDE DEF lines
<1>7. TextsOf(lines) = TextsOf(TextLines(file))
  <2>1. TextsOf(lines) = Texts(lines)
    BY <1>5, <1>6, AllTexts DEF Full
  <2> QED
    BY <1>5, <2>1 DEF Texts
<1>8. ASSUME NEW c \in ToSet(chunks) PROVE GoodChunk(c)
  <2>1. DOMAIN chunks = 1 .. Len(chunks)
    BY <1>5, LenProperties
  <2> QED
    BY <1>5, <2>1 DEF ToSet
<1>9. ASSUME NEW i \in DOMAIN sections
      PROVE  ~FewerThan(Len(MergeParagraphs(SplitOnParagraphs(sections[i]), MaxChars)),
                        SplitOnParagraphs(sections[i]))
  BY <1>2, SectionPartitions DEF SectionChunks
<1> QED
  BY <1>7, <1>8, <1>9 DEF Partitions, GoodChunk, lines, chunks, sections

(* ChunksPartition, for any lengths of lines and any bound on their        *)
(* number: TLC takes each file of at most MaxLines lines, here they are    *)
(* instances of the theorem about all files (chunk_markdown).              *)
THEOREM ChunksArePartition == ChunksPartition
<1> SUFFICES ASSUME NEW file \in BoundedSeq(Lines, MaxLines) PROVE Partitions(file)
  BY DEF ChunksPartition
<1>1. Lines \subseteq Line
  BY BoundsAssumption DEF Lines, Line
<1>2. PICK m \in 0 .. MaxLines : file \in [1 .. m -> Lines]
  BY DEF BoundedSeq, SeqOf
<1>3. m \in Nat /\ file \in [1 .. m -> Line]
  BY <1>1, <1>2, BoundsAssumption
<1>4. file \in Seq(Line)
  BY <1>3, SeqDef
<1> QED
  BY <1>4, EveryFileIsPartitioned

-----------------------------------------------------------------------------
(* The ingestion: what holds in every state of a run, and between two.     *)

Rank(f) == Base!Rank(f)
Places(reading, c) == Base!Places(reading, c)
Before(p, q) == Base!Before(p, q)

Active == {"file", "check", "insert", "commit"}
InFile(s) == s.step \in {"check", "insert"}
Seen(s, rows, c) == rows[c] # NoRow \/ s.mine[c] # NoRow

\* The first place a run has read chunk c at.
First(p, reading, c) ==
  p \in Places(reading, c) /\ \A q \in Places(reading, c) \ {p} : Before(p, q)

\* The files are taken in order, and read when they are taken.
InOrder(s) ==
  /\ \A f \in Names \ s.left, g \in s.left : Rank(f) < Rank(g)
  /\ \A f \in s.left : s.read[f] = Missing

\* Nothing of a file that is done is missing in what the run sees.
NothingLeftOut(s, rows) ==
  \A f \in Names \ s.left : s.read[f] # Missing /\ ~(InFile(s) /\ f = s.file) =>
    \A i \in 1 .. Len(s.read[f]) : Seen(s, rows, s.read[f][i])

\* What a run holds is new, cites its first place and was inserted in order.
MineInv(s, rows) ==
  \A c \in Chunks : s.mine[c] # NoRow =>
    /\ rows[c] = NoRow
    /\ First(s.mine[c], s.read, c)
    /\ InFile(s) /\ s.mine[c].file = s.file =>
         /\ s.step = "insert"
         /\ \A i \in 1 .. Len(s.fresh) : s.mine[c].index < s.fresh[i].index

\* The file in progress: what is not seen yet is listed, in order.
FileInv(s, rows) ==
  /\ s.file \in Names \ s.left /\ s.read[s.file] # Missing
  /\ \A f \in Names \ s.left : f # s.file => Rank(f) < Rank(s.file)
  /\ s.checked <= Len(s.read[s.file])
  /\ \A i \in 1 .. Len(s.fresh) :
       s.fresh[i].file = s.file /\ s.fresh[i].index \in 1 .. s.checked
  /\ \A i, j \in 1 .. Len(s.fresh) : i < j => s.fresh[i].index < s.fresh[j].index
  /\ \A i \in 1 .. s.checked : \/ Seen(s, rows, s.read[s.file][i])
                               \/ \E j \in 1 .. Len(s.fresh) : s.fresh[j].index = i

RunInv(s, rows) ==
  /\ s \in Run
  /\ s.inserted + Len(s.fresh) <= s.checked
  /\ s.step = "new" => s = NewRun
  /\ s.step \notin Active => \A c \in Chunks : s.mine[c] = NoRow
  /\ s.step \in Active => InOrder(s) /\ NothingLeftOut(s, rows) /\ MineInv(s, rows)
  /\ InFile(s) => FileInv(s, rows)
  /\ s.step = "insert" => s.checked = Len(s.read[s.file])
  /\ s.step = "commit" => s.left = {}

\* No two transactions hold the index entry of the same chunk.
Exclusive ==
  \A r, q \in Runs, c \in Chunks :
    run[r].mine[c] # NoRow /\ run[q].mine[c] # NoRow => r = q

IInv ==
  /\ TypeOK
  /\ \A r \in Runs : RunInv(run[r], stored)
  /\ Exclusive

-----------------------------------------------------------------------------
(* Places and their order.                                                 *)

USE ConstantsAssumption, NoRowAssumption, FilesAssumption

Reading == [Names -> Editions \cup {Missing}]

LEMMA RankIsPosition ==
  /\ \A f \in Names : Rank(f) \in Nat /\ Files[Rank(f)] = f
  /\ \A f, g \in Names : Rank(f) = Rank(g) => f = g
<1>1. ASSUME NEW f \in Names PROVE Rank(f) \in DOMAIN Files /\ Files[Rank(f)] = f
  <2>1. \E i \in DOMAIN Files : Files[i] = f
    BY DEF Names, ToSet
  <2> QED
    BY <2>1 DEF Rank, Base!Rank
<1>2. DOMAIN Files \subseteq Nat
  BY DEF Names
<1> QED
  BY <1>1, <1>2

LEMMA FileRead ==
  ASSUME NEW reading \in Reading, NEW f \in Names, reading[f] # Missing
  PROVE  /\ reading[f] \in Seq(Chunks) /\ Len(reading[f]) \in Nat
         /\ DOMAIN reading[f] = 1 .. Len(reading[f])
         /\ \A i \in 1 .. Len(reading[f]) : reading[f][i] \in Chunks
BY DEF Reading

LEMMA PlacesAre ==
  ASSUME NEW reading \in Reading, NEW c \in Chunks, NEW p
  PROVE  p \in Places(reading, c) <=>
           /\ p \in Place /\ reading[p.file] # Missing
           /\ p.index \in 1 .. Len(reading[p.file]) /\ reading[p.file][p.index] = c
<1>1. ASSUME p \in Places(reading, c)
      PROVE  /\ p \in Place /\ reading[p.file] # Missing
             /\ p.index \in 1 .. Len(reading[p.file]) /\ reading[p.file][p.index] = c
  <2>1. PICK f \in Names : /\ reading[f] # Missing
                           /\ \E i \in DOMAIN reading[f] : /\ reading[f][i] = c
                                                           /\ p = [file |-> f, index |-> i]
    BY <1>1 DEF Places, Base!Places, Names, Base!Names, ToSet, Base!ToSet
  <2>2. PICK i \in DOMAIN reading[f] : reading[f][i] = c /\ p = [file |-> f, index |-> i]
    BY <2>1
  <2> QED
    BY <2>1, <2>2, FileRead DEF Place
<1>2. ASSUME p \in Place, reading[p.file] # Missing,
             p.index \in 1 .. Len(reading[p.file]), reading[p.file][p.index] = c
      PROVE  p \in Places(reading, c)
  <2>1. p.file \in Names /\ p = [file |-> p.file, index |-> p.index]
    BY <1>2 DEF Place
  <2>2. p.index \in DOMAIN reading[p.file]
    BY <1>2, <2>1, FileRead
  <2>3. p \in {[file |-> p.file, index |-> i] : i \in {j \in DOMAIN reading[p.file] :
                                                         reading[p.file][j] = c}}
    BY <1>2, <2>1, <2>2
  <2> QED
    BY <1>2, <2>1, <2>3 DEF Places, Base!Places, Names, Base!Names, ToSet, Base!ToSet
<1> QED
  BY <1>1, <1>2

LEMMA BeforeIsOrder ==
  /\ \A p \in Place : ~Before(p, p)
  /\ \A p, q \in Place : Before(p, q) => ~Before(q, p)
  /\ \A p, q, o \in Place : Before(p, q) /\ Before(q, o) => Before(p, o)
  /\ \A p, q \in Place : p # q => Before(p, q) \/ Before(q, p)
<1>1. ASSUME NEW p \in Place
      PROVE  /\ p.file \in Names /\ p.index \in Nat /\ Rank(p.file) \in Nat
             /\ p = [file |-> p.file, index |-> p.index]
  BY <1>1, RankIsPosition DEF Place
<1>2. ASSUME NEW p \in Place, NEW q \in Place
      PROVE  Before(p, q) <=> \/ Rank(p.file) < Rank(q.file)
                              \/ p.file = q.file /\ p.index < q.index
  BY DEF Before, Base!Before, Rank
<1>3. ASSUME NEW p \in Place, NEW q \in Place, p # q
      PROVE  Before(p, q) \/ Before(q, p)
  BY <1>1, <1>2, <1>3, RankIsPosition
<1> QED
  BY <1>1, <1>2, <1>3

\* There is at most one first place, and it is the one the table cites.
LEMMA FirstIsFirst ==
  ASSUME NEW reading \in Reading, NEW c \in Chunks, NEW p, First(p, reading, c)
  PROVE  p \in Place /\ p = Base!FirstPlace(reading, c)
<1>1. p \in Place /\ Places(reading, c) \subseteq Place
  BY PlacesAre DEF First
<1>2. ASSUME NEW q, First(q, reading, c) PROVE q = p
  BY <1>1, <1>2, BeforeIsOrder DEF First
<1>3. First(Base!FirstPlace(reading, c), reading, c)
  BY DEF First, Places, Before, Base!FirstPlace
<1> QED
  BY <1>1, <1>2, <1>3

-----------------------------------------------------------------------------
(* The steps of one run, over its frame.                                   *)

AfterRead(s, f, to) ==
  [s EXCEPT !.step = "check", !.left = @ \ {f}, !.file = f, !.read[f] = to,
            !.checked = 0, !.fresh = <<>>, !.inserted = 0]
AfterCheck(s, fresh) == [s EXCEPT !.checked = @ + 1, !.fresh = fresh]
AfterFile(s, count) == [s EXCEPT !.step = "file", !.results[s.file] = count]

LEMMA Fields ==
  ASSUME NEW s \in Run
  PROVE  /\ s.left \subseteq Names /\ s.file \in Names \cup {None} /\ s.read \in Reading
         /\ s.checked \in Nat /\ s.inserted \in Nat
         /\ s.fresh \in Seq(Place) /\ Len(s.fresh) \in Nat
         /\ \A i \in 1 .. Len(s.fresh) : s.fresh[i] \in Place
         /\ s.mine \in [Chunks -> Place \cup {NoRow}]
BY DEF Run, Reading

LEMMA NewRunIsRun == NewRun \in Run
BY DEF NewRun, Run

LEMMA NewFrame ==
  ASSUME NEW rows PROVE RunInv(NewRun, rows)
<1>1. /\ NewRun.step = "new" /\ NewRun.inserted = 0 /\ NewRun.fresh = <<>>
      /\ NewRun.checked = 0 /\ \A c \in Chunks : NewRun.mine[c] = NoRow
  BY DEF NewRun
<1> QED
  BY <1>1, NewRunIsRun DEF RunInv, Active, InFile

LEMMA StartFrame ==
  ASSUME NEW rows, NEW s, RunInv(s, rows), s.step = "new",
         NEW s2, s2 = [s EXCEPT !.step = "file"]
  PROVE  RunInv(s2, rows) /\ s2.mine = s.mine
<1>1. s = NewRun /\ s2 = [NewRun EXCEPT !.step = "file"]
  BY DEF RunInv
<1>2. /\ s2.step = "file" /\ s2.left = Names /\ s2.inserted = 0 /\ s2.fresh = <<>>
      /\ s2.checked = 0 /\ s2.mine = [c \in Chunks |-> NoRow] /\ s2.mine = s.mine
      /\ s2.read = [f \in Names |-> Missing] /\ s2 \in Run
  BY <1>1, NewRunIsRun DEF NewRun, Run
<1>3. InOrder(s2) /\ NothingLeftOut(s2, rows) /\ MineInv(s2, rows)
  BY <1>2 DEF InOrder, NothingLeftOut, MineInv
<1> QED
  BY <1>2, <1>3 DEF RunInv, Active, InFile

\* The file that is next comes before those that are left after it.
LEMMA NextInOrder ==
  ASSUME NEW s \in Run, InOrder(s), NEW f, IsNext(f, s.left)
  PROVE  /\ f \in Names /\ f \in s.left /\ s.read[f] = Missing
         /\ \A g \in Names \ (s.left \ {f}), h \in s.left \ {f} : Rank(g) < Rank(h)
         /\ \A g \in Names \ s.left : Rank(g) < Rank(f)
<1>1. f \in s.left /\ f \in Names
  BY Fields DEF IsNext
<1>2. \A g \in s.left : Rank(f) <= Rank(g)
  BY DEF IsNext, Rank, Base!Rank
<1>3. \A g \in s.left \ {f} : Rank(f) < Rank(g)
  BY <1>1, <1>2, RankIsPosition, Fields
<1> QED
  BY <1>1, <1>3 DEF InOrder

LEMMA SkipFrame ==
  ASSUME NEW rows, NEW s, RunInv(s, rows), s.step = "file", NEW f, IsNext(f, s.left),
         NEW s2, s2 = [s EXCEPT !.left = @ \ {f}]
  PROVE  RunInv(s2, rows) /\ s2.mine = s.mine
<1>1. s \in Run /\ InOrder(s) /\ NothingLeftOut(s, rows) /\ MineInv(s, rows)
  BY DEF RunInv, Active
<1>2. /\ s2 \in Run /\ s2.step = "file" /\ s2.left = s.left \ {f} /\ s2.inserted = s.inserted
      /\ s2.fresh = s.fresh /\ s2.checked = s.checked /\ s2.mine = s.mine /\ s2.read = s.read
  BY <1>1 DEF Run
<1>3. InOrder(s2)
  BY <1>1, <1>2, NextInOrder DEF InOrder
<1>4. NothingLeftOut(s2, rows)
  BY <1>1, <1>2, NextInOrder DEF NothingLeftOut, Seen, InFile
<1>5. MineInv(s2, rows)
  BY <1>1, <1>2 DEF MineInv, InFile
<1> QED
  BY <1>1, <1>2, <1>3, <1>4, <1>5 DEF RunInv, Active, InFile

\* What is read later does not come first.
LEMMA ReadLater ==
  ASSUME NEW reading \in Reading, NEW c \in Chunks, NEW p, First(p, reading, c),
         NEW f \in Names, reading[f] = Missing, NEW to \in Editions,
         \A g \in Names : reading[g] # Missing => Rank(g) < Rank(f)
  PROVE  First(p, [reading EXCEPT ![f] = to], c)
<1> DEFINE later == [reading EXCEPT ![f] = to]
<1>1. later \in Reading /\ later[f] = to /\ \A g \in Names \ {f} : later[g] = reading[g]
  BY DEF Reading
<1> HIDE DEF later
<1>2. /\ p \in Place /\ reading[p.file] # Missing /\ p.file # f /\ p.file \in Names
      /\ p.index \in 1 .. Len(reading[p.file]) /\ reading[p.file][p.index] = c
  BY PlacesAre DEF First, Place
<1>3. p \in Places(later, c)
  BY <1>1, <1>2, PlacesAre
<1>4. ASSUME NEW q \in Places(later, c) \ {p} PROVE Before(p, q)
  <2>1. q \in Place /\ q.file \in Names
    BY <1>1, PlacesAre DEF Place
  <2>2. CASE q.file = f
    BY <1>2, <2>2 DEF Before, Base!Before, Rank
  <2>3. CASE q.file # f
    <3>1. q \in Places(reading, c)
      BY <1>1, <2>1, <2>3, PlacesAre
    <3> QED
      BY <3>1 DEF First
  <2> QED
    BY <2>2, <2>3
<1> QED
  BY <1>3, <1>4 DEF First, later

LEMMA ReadFrame ==
  ASSUME NEW rows, NEW s, RunInv(s, rows), s.step = "file", NEW f, IsNext(f, s.left),
         NEW to \in Editions,
         NEW s2, s2 = AfterRead(s, f, to)
  PROVE  RunInv(s2, rows) /\ s2.mine = s.mine
<1>1. s \in Run /\ InOrder(s) /\ NothingLeftOut(s, rows) /\ MineInv(s, rows)
  BY DEF RunInv, Active
<1>2. /\ f \in Names /\ f \in s.left /\ s.read[f] = Missing
      /\ \A g \in Names \ (s.left \ {f}), h \in s.left \ {f} : Rank(g) < Rank(h)
      /\ \A g \in Names \ s.left : Rank(g) < Rank(f)
  BY <1>1, NextInOrder
<1>3. /\ s2 \in Run /\ s2.step = "check" /\ s2.left = s.left \ {f} /\ s2.inserted = 0
      /\ s2.fresh = <<>> /\ s2.checked = 0 /\ s2.mine = s.mine /\ s2.file = f
      /\ s2.read = [s.read EXCEPT ![f] = to]
  <2> DEFINE later == [s.read EXCEPT ![f] = to]
  <2>1. later \in [Names -> Editions \cup {Missing}]
    BY <1>1, <1>2 DEF Run
  <2>2. s2 = [s EXCEPT !.step = "check", !.left = s.left \ {f}, !.file = f,
                       !.read = later, !.checked = 0, !.fresh = <<>>, !.inserted = 0]
    BY <1>1 DEF Run, AfterRead
  <2> HIDE DEF later
  <2>3. s2 \in Run
    <3>1. /\ s.left \ {f} \in SUBSET Names /\ f \in Names \cup {None} /\ <<>> \in Seq(Place)
          /\ "check" \in {"new", "file", "check", "insert", "commit", "done", "exited"}
      BY <1>1, <1>2, Fields
    <3>2. [s EXCEPT !.step = "check", !.left = s.left \ {f}, !.file = f,
                    !.read = later, !.checked = 0, !.fresh = <<>>, !.inserted = 0] \in Run
      BY <1>1, <2>1, <3>1 DEF Run
    <3> QED
      BY <2>2, <3>2, Zenon
  <2>4. /\ s2.step = "check" /\ s2.left = s.left \ {f} /\ s2.inserted = 0
        /\ s2.fresh = <<>> /\ s2.checked = 0 /\ s2.mine = s.mine /\ s2.file = f
        /\ s2.read = later
    BY <1>1, <2>2 DEF Run
  <2> QED
    BY <2>3, <2>4 DEF later
<1>4. /\ s.read \in Reading /\ s2.read \in Reading /\ s2.read[f] = to /\ to # Missing
      /\ to \in Seq(Chunks) /\ \A g \in Names \ {f} : s2.read[g] = s.read[g]
  BY <1>1, <1>2, <1>3, Fields DEF Reading
<1>5. InOrder(s2)
  BY <1>1, <1>2, <1>3, <1>4, Fields DEF InOrder
<1>6. NothingLeftOut(s2, rows)
  BY <1>1, <1>2, <1>3, <1>4 DEF NothingLeftOut, Seen, InFile
<1>7. MineInv(s2, rows)
  <2> SUFFICES ASSUME NEW c \in Chunks, s.mine[c] # NoRow
               PROVE  /\ rows[c] = NoRow /\ First(s.mine[c], s2.read, c)
                      /\ s.mine[c].file # f
    BY <1>3 DEF MineInv
  <2>1. rows[c] = NoRow /\ First(s.mine[c], s.read, c)
    BY <1>1 DEF MineInv
  <2>2. \A g \in Names : s.read[g] # Missing => Rank(g) < Rank(f)
    BY <1>1, <1>2 DEF InOrder
  <2>3. First(s.mine[c], s2.read, c)
    BY <1>2, <1>3, <1>4, <2>1, <2>2, ReadLater
  <2>4. s.read[s.mine[c].file] # Missing
    BY <1>4, <2>1, PlacesAre DEF First
  <2> QED
    BY <1>2, <2>1, <2>3, <2>4
<1>8. FileInv(s2, rows)
  BY <1>2, <1>3, <1>4 DEF FileInv
<1> QED
  BY <1>3, <1>5, <1>6, <1>7, <1>8 DEF RunInv, Active, InFile

LEMMA CheckFrame ==
  ASSUME NEW rows, NEW s, RunInv(s, rows), s.step = "check",
         s.checked + 1 <= Len(s.read[s.file]),
         NEW i, i = s.checked + 1, NEW place, place = [file |-> s.file, index |-> i], NEW fresh,
         \/ fresh = s.fresh /\ Seen(s, rows, s.read[s.file][i])
         \/ fresh = Append(s.fresh, place),
         NEW s2, s2 = AfterCheck(s, fresh)
  PROVE  RunInv(s2, rows) /\ s2.mine = s.mine
<1> DEFINE n == Len(s.fresh)
<1>1. /\ s \in Run /\ InOrder(s) /\ NothingLeftOut(s, rows) /\ MineInv(s, rows)
      /\ FileInv(s, rows) /\ s.inserted + n <= s.checked
  BY DEF RunInv, Active, InFile
<1>2. /\ i \in Nat /\ s.checked \in Nat /\ s.inserted \in Nat /\ n \in Nat
      /\ s.file \in Names /\ s.fresh \in Seq(Place) /\ place \in Place
  <2>1. s.file \in Names
    BY <1>1 DEF FileInv
  <2>2. s.checked \in Nat /\ s.inserted \in Nat /\ n \in Nat /\ s.fresh \in Seq(Place)
    BY <1>1, Fields
  <2>3. i \in Nat
    BY <2>2
  <2> QED
    BY <2>1, <2>2, <2>3 DEF Place
<1> HIDE DEF n
<1>3. \/ fresh = s.fresh /\ Seen(s, rows, s.read[s.file][i])
      \/ /\ fresh = Append(s.fresh, place) /\ Len(fresh) = n + 1 /\ fresh[n + 1] = place
         /\ \A j \in 1 .. n : fresh[j] = s.fresh[j]
  BY <1>2, SMTT(60) DEF n
<1>4. fresh \in Seq(Place) /\ Len(fresh) \in Nat /\ s.inserted + Len(fresh) <= i
  <2>1. s.inserted + n <= s.checked /\ s.inserted \in Nat /\ s.checked \in Nat /\ n \in Nat
    BY <1>1, <1>2 DEF n
  <2>2. s.inserted + n <= i /\ s.inserted + (n + 1) <= i
    BY <2>1
  <2>3. CASE fresh = s.fresh
    BY <1>2, <2>1, <2>2, <2>3 DEF n
  <2>4. CASE fresh = Append(s.fresh, place) /\ Len(fresh) = n + 1
    BY <1>2, <2>1, <2>2, <2>4
  <2> QED
    BY <1>3, <2>3, <2>4
<1>5. /\ s2 \in Run /\ s2.step = "check" /\ s2.left = s.left /\ s2.inserted = s.inserted
      /\ s2.fresh = fresh /\ s2.checked = i /\ s2.mine = s.mine /\ s2.file = s.file
      /\ s2.read = s.read
  BY <1>1, <1>2, <1>4 DEF Run, AfterCheck
<1>6. InOrder(s2) /\ NothingLeftOut(s2, rows)
  <2>1. InOrder(s2)
    BY <1>1, <1>5 DEF InOrder
  <2>2. NothingLeftOut(s2, rows)
    <3>1. \A c : Seen(s2, rows, c) <=> Seen(s, rows, c)
      BY <1>5 DEF Seen
    <3>2. /\ s2.left = s.left /\ s2.read = s.read /\ s2.file = s.file
          /\ InFile(s2) /\ InFile(s)
      BY <1>5 DEF InFile
    <3> QED
      BY <1>1, <3>1, <3>2, ZenonT(60) DEF NothingLeftOut
  <2> QED
    BY <2>1, <2>2
<1>7. MineInv(s2, rows)
  BY <1>1, <1>5 DEF MineInv, InFile
<1>8. FileInv(s2, rows)
  <2>1. /\ s.file \in Names \ s.left /\ s.read[s.file] # Missing
        /\ \A f \in Names \ s.left : f # s.file => Rank(f) < Rank(s.file)
        /\ i <= Len(s.read[s.file])
    BY <1>1 DEF FileInv
  <2>2. \A j \in 1 .. n : s.fresh[j].file = s.file /\ s.fresh[j].index \in 1 .. s.checked
    BY <1>1 DEF FileInv, n
  <2>3. \A j \in 1 .. Len(fresh) : fresh[j].file = s.file /\ fresh[j].index \in 1 .. i
    <3>1. CASE fresh = s.fresh
      BY <1>2, <2>2, <3>1 DEF n
    <3>2. CASE /\ Len(fresh) = n + 1 /\ fresh[n + 1] = place
               /\ \A j \in 1 .. n : fresh[j] = s.fresh[j]
      <4> SUFFICES ASSUME NEW j \in 1 .. n + 1
                   PROVE  fresh[j].file = s.file /\ fresh[j].index \in 1 .. i
        BY <3>2
      <4>1. CASE j = n + 1
        BY <1>2, <3>2, <4>1
      <4>2. CASE j \in 1 .. n
        BY <1>2, <2>2, <3>2, <4>2, SMTT(60)
      <4>3. j = n + 1 \/ j \in 1 .. n
        BY <1>2
      <4> QED
        BY <4>1, <4>2, <4>3
    <3> QED
      BY <1>3, <3>1, <3>2
  <2>4. \A j, k \in 1 .. n : j < k => s.fresh[j].index < s.fresh[k].index
    BY <1>1 DEF FileInv, n
  <2>5. \A j, k \in 1 .. Len(fresh) : j < k => fresh[j].index < fresh[k].index
    <3>1. CASE fresh = s.fresh
      BY <2>4, <3>1 DEF n
    <3>2. CASE /\ Len(fresh) = n + 1 /\ fresh[n + 1] = place
               /\ \A j \in 1 .. n : fresh[j] = s.fresh[j]
      <4> SUFFICES ASSUME NEW j \in 1 .. n + 1, NEW k \in 1 .. n + 1, j < k
                   PROVE  fresh[j].index < fresh[k].index
        BY <3>2
      <4>1. j \in 1 .. n /\ fresh[j] = s.fresh[j] /\ fresh[j].index \in 1 .. s.checked
        BY <1>2, <2>2, <3>2
      <4>2. CASE k = n + 1
        <5>1. fresh[k].index = i /\ fresh[j].index < i
          BY <1>2, <3>2, <4>1, <4>2
        <5> QED
          BY <5>1
      <4>3. CASE k \in 1 .. n
        BY <2>4, <3>2, <4>1, <4>3
      <4>4. k = n + 1 \/ k \in 1 .. n
        BY <1>2
      <4> QED
        BY <4>2, <4>3, <4>4, Zenon
    <3> QED
      BY <1>3, <3>1, <3>2
  <2>6. \A k \in 1 .. i : \/ Seen(s, rows, s.read[s.file][k])
                          \/ \E j \in 1 .. Len(fresh) : fresh[j].index = k
    <3> SUFFICES ASSUME NEW k \in 1 .. i, ~Seen(s, rows, s.read[s.file][k])
                 PROVE  \E j \in 1 .. Len(fresh) : fresh[j].index = k
      OBVIOUS
    <3>1. CASE k = i
      <4>1. fresh[n + 1] = place /\ Len(fresh) = n + 1
        BY <1>3, <3>1
      <4> QED
        BY <1>2, <3>1, <4>1
    <3>2. CASE k \in 1 .. s.checked
      <4>1. PICK j \in 1 .. n : s.fresh[j].index = k
        BY <1>1, <3>2 DEF FileInv, n
      <4> QED
        BY <1>2, <1>3, <4>1 DEF n
    <3> QED
      BY <1>2, <3>1, <3>2
  <2> QED
    <3>1. \A c : Seen(s2, rows, c) <=> Seen(s, rows, c)
      BY <1>5 DEF Seen
    <3> QED
      BY <1>5, <2>1, <2>3, <2>5, <2>6, <3>1 DEF FileInv
<1> QED
  BY <1>4, <1>5, <1>6, <1>7, <1>8 DEF RunInv, Active, InFile

\* Without new chunks, or with the last one inserted, the file is done.
LEMMA FileDone ==
  ASSUME NEW rows, NEW s, RunInv(s, rows), InFile(s), s.fresh = <<>>,
         s.checked = Len(s.read[s.file]),
         NEW s2 \in Run, s2.step = "file", s2.left = s.left, s2.fresh = s.fresh,
         s2.checked = s.checked, s2.inserted = s.inserted, s2.mine = s.mine, s2.read = s.read
  PROVE  RunInv(s2, rows)
<1>1. /\ s \in Run /\ InOrder(s) /\ NothingLeftOut(s, rows) /\ MineInv(s, rows)
      /\ FileInv(s, rows) /\ s.inserted + Len(s.fresh) <= s.checked
  BY DEF RunInv, Active, InFile
<1>2. InOrder(s2)
  BY <1>1 DEF InOrder
<1>3. MineInv(s2, rows)
  BY <1>1 DEF MineInv, InFile
<1>4. NothingLeftOut(s2, rows)
  <2>1. \A i \in 1 .. Len(s.read[s.file]) : Seen(s, rows, s.read[s.file][i])
    BY <1>1 DEF FileInv
  <2> QED
    BY <1>1, <2>1 DEF NothingLeftOut, Seen
<1> QED
  BY <1>1, <1>2, <1>3, <1>4 DEF RunInv, Active, InFile

LEMMA DoneFrame ==
  ASSUME NEW rows, NEW s, RunInv(s, rows), s.step \in {"check", "insert"}, s.fresh = <<>>,
         s.checked = Len(s.read[s.file]), NEW count \in Nat,
         NEW s2, s2 = AfterFile(s, count)
  PROVE  RunInv(s2, rows) /\ s2.mine = s.mine
<1> DEFINE results == [s.results EXCEPT ![s.file] = count]
<1>1. s \in Run /\ s.file \in Names
  BY DEF RunInv, InFile, FileInv
<1>2. results \in [Names -> Nat \cup {None}]
  BY <1>1 DEF Run
<1>3. s2 = [s EXCEPT !.step = "file", !.results = results]
  BY <1>1 DEF Run, AfterFile
<1> HIDE DEF results
<1>4. [s EXCEPT !.step = "file", !.results = results] \in Run
  BY <1>1, <1>2 DEF Run
<1>5. /\ s2.step = "file" /\ s2.left = s.left /\ s2.fresh = s.fresh /\ s2.checked = s.checked
      /\ s2.inserted = s.inserted /\ s2.mine = s.mine /\ s2.read = s.read
  BY <1>1, <1>3 DEF Run
<1>6. s2 \in Run
  BY <1>3, <1>4, Zenon
<1>7. InFile(s)
  BY DEF InFile
<1> QED
  BY <1>5, <1>6, <1>7, FileDone

LEMMA EmbedFrame ==
  ASSUME NEW rows, NEW s, RunInv(s, rows), s.step = "check",
         s.checked = Len(s.read[s.file]),
         NEW s2, s2 = [s EXCEPT !.step = "insert"]
  PROVE  RunInv(s2, rows) /\ s2.mine = s.mine
<1>1. /\ s \in Run /\ InOrder(s) /\ NothingLeftOut(s, rows) /\ MineInv(s, rows)
      /\ FileInv(s, rows) /\ s.inserted + Len(s.fresh) <= s.checked
  BY DEF RunInv, Active, InFile
<1>2. /\ s2 \in Run /\ s2.step = "insert" /\ s2.left = s.left /\ s2.inserted = s.inserted
      /\ s2.fresh = s.fresh /\ s2.checked = s.checked /\ s2.mine = s.mine /\ s2.file = s.file
      /\ s2.read = s.read
  BY <1>1 DEF Run
<1>3. InOrder(s2) /\ NothingLeftOut(s2, rows)
  BY <1>1, <1>2 DEF InOrder, NothingLeftOut, Seen, InFile
<1>4. MineInv(s2, rows)
  BY <1>1, <1>2 DEF MineInv, InFile
<1>5. FileInv(s2, rows)
  BY <1>1, <1>2 DEF FileInv, Seen
<1> QED
  BY <1>1, <1>2, <1>3, <1>4, <1>5 DEF RunInv, Active, InFile

\* What a run inserts next, and the frame after that.
NextPlace(s) == Head(s.fresh)
NextText(s) == s.read[NextPlace(s).file][NextPlace(s).index]

AfterInsert(s, s2, rows) ==
  /\ s2 \in Run
  /\ s2.step = "insert" /\ s2.left = s.left /\ s2.file = s.file /\ s2.checked = s.checked
  /\ s2.fresh = Tail(s.fresh) /\ s2.inserted = s.inserted + 1 /\ s2.read = s.read
  /\ \A d \in Chunks \ {NextText(s)} : s2.mine[d] = s.mine[d]
  /\ Seen(s, rows, NextText(s)) => s2.mine[NextText(s)] = s.mine[NextText(s)]
  /\ ~Seen(s, rows, NextText(s)) => s2.mine[NextText(s)] = NextPlace(s)

\* A listed chunk the run does not see is listed at its first place.
LEMMA FreshFirst ==
  ASSUME NEW rows, NEW s, RunInv(s, rows), s.step = "insert", s.fresh # <<>>
  PROVE  /\ NextPlace(s) \in Place /\ NextPlace(s).file = s.file /\ NextText(s) \in Chunks
         /\ ~Seen(s, rows, NextText(s)) => First(NextPlace(s), s.read, NextText(s))
<1> DEFINE place == NextPlace(s)
           c == NextText(s)
<1>1. /\ s \in Run /\ InOrder(s) /\ NothingLeftOut(s, rows) /\ FileInv(s, rows)
      /\ s.checked = Len(s.read[s.file])
  BY DEF RunInv, Active, InFile
<1>2. place = s.fresh[1] /\ 1 \in 1 .. Len(s.fresh) /\ c = s.read[place.file][place.index]
  BY <1>1, Fields DEF NextPlace, NextText
<1> HIDE DEF place, c
<1>3. /\ place \in Place /\ place.file = s.file /\ place.index \in 1 .. s.checked
      /\ s.file \in Names \ s.left /\ s.read[s.file] # Missing /\ s.read \in Reading
  BY <1>1, <1>2, Fields DEF FileInv
<1>4. c \in Chunks
  BY <1>1, <1>2, <1>3, FileRead
<1>5. ASSUME ~Seen(s, rows, c), NEW q \in Places(s.read, c) \ {place} PROVE Before(place, q)
  <2>1. /\ q \in Place /\ q.file \in Names /\ s.read[q.file] # Missing
        /\ q.index \in 1 .. Len(s.read[q.file]) /\ s.read[q.file][q.index] = c
    BY <1>3, <1>4, <1>5, PlacesAre DEF Place
  <2>2. q.file \notin s.left
    BY <1>1, <2>1 DEF InOrder
  <2>3. q.file = s.file
    BY <1>1, <1>5, <2>1, <2>2 DEF NothingLeftOut
  <2>4. PICK j \in 1 .. Len(s.fresh) : s.fresh[j].index = q.index
    BY <1>1, <1>5, <2>1, <2>3 DEF FileInv
  <2>5. j # 1
    BY <1>2, <1>3, <1>5, <2>1, <2>3, <2>4 DEF Place
  <2>6. 1 < j
    BY <2>4, <2>5
  <2>7. place.index < q.index
    BY <1>1, <1>2, <2>4, <2>6 DEF FileInv
  <2> QED
    BY <1>3, <2>3, <2>7 DEF Before, Base!Before
<1>6. place \in Places(s.read, c)
  BY <1>1, <1>2, <1>3, <1>4, PlacesAre
<1> QED
  BY <1>3, <1>4, <1>5, <1>6 DEF First, place, c

\* A sequence without its first element.
LEMMA TailOf ==
  ASSUME NEW S, NEW q \in Seq(S), q # <<>>, NEW n, n = Len(q)
  PROVE  /\ n \in Nat /\ n >= 1 /\ 1 \in 1 .. n /\ Head(q) = q[1]
         /\ Tail(q) \in Seq(S) /\ Len(Tail(q)) = n - 1 /\ n - 1 \in Nat
         /\ \A i \in 1 .. n - 1 : i + 1 \in 1 .. n /\ 1 < i + 1 /\ Tail(q)[i] = q[i + 1]
         /\ \A i, j \in 1 .. n - 1 : i < j => i + 1 < j + 1
         /\ \A i \in 1 .. n : i # 1 => /\ i - 1 \in 1 .. n - 1
                                       /\ Tail(q)[i - 1] = q[i]
<1>1. n \in Nat /\ n >= 1 /\ 1 \in 1 .. n /\ n - 1 \in Nat
  OBVIOUS
<1>2. /\ Tail(q) \in Seq(S) /\ Len(Tail(q)) = n - 1 /\ Head(q) = q[1]
      /\ \A i \in 1 .. n - 1 : Tail(q)[i] = q[i + 1]
  BY HeadTailProperties
<1>3. \A i \in 1 .. n - 1 : i + 1 \in 1 .. n /\ 1 < i + 1
  BY <1>1
<1>4. ASSUME NEW i \in 1 .. n, i # 1 PROVE i - 1 \in 1 .. n - 1 /\ Tail(q)[i - 1] = q[i]
  <2>1. i - 1 \in 1 .. n - 1 /\ (i - 1) + 1 = i
    BY <1>1, <1>4
  <2> QED
    BY <1>2, <2>1
<1>5. \A i, j \in 1 .. n - 1 : i < j => i + 1 < j + 1
  BY <1>1
<1> QED
  BY <1>1, <1>2, <1>3, <1>4, <1>5

LEMMA Inserted ==
  ASSUME NEW rows, NEW s, RunInv(s, rows), s.step = "insert", s.fresh # <<>>,
         NEW s2, AfterInsert(s, s2, rows)
  PROVE  RunInv(s2, rows)
<1> DEFINE n == Len(s.fresh)
           place == NextPlace(s)
           c == NextText(s)
<1>1. /\ s2 \in Run /\ s2.step = "insert" /\ s2.left = s.left /\ s2.file = s.file
      /\ s2.checked = s.checked /\ s2.fresh = Tail(s.fresh)
      /\ s2.inserted = s.inserted + 1 /\ s2.read = s.read
  BY DEF AfterInsert
<1>2. /\ \A d \in Chunks \ {c} : s2.mine[d] = s.mine[d]
      /\ Seen(s, rows, c) => s2.mine[c] = s.mine[c]
      /\ ~Seen(s, rows, c) => s2.mine[c] = place
  BY DEF AfterInsert
<1>3. /\ s \in Run /\ InOrder(s) /\ NothingLeftOut(s, rows) /\ MineInv(s, rows)
      /\ FileInv(s, rows) /\ s.inserted + n <= s.checked
      /\ s.checked = Len(s.read[s.file])
  BY DEF RunInv, Active, InFile
<1>4. /\ place \in Place /\ place.file = s.file /\ c \in Chunks
      /\ ~Seen(s, rows, c) => First(place, s.read, c)
  BY FreshFirst
<1> HIDE DEF c
<1>5. /\ n \in Nat /\ 1 \in 1 .. n /\ place = s.fresh[1]
      /\ Len(s2.fresh) = n - 1 /\ n - 1 \in Nat
      /\ \A i \in 1 .. n - 1 : i + 1 \in 1 .. n /\ 1 < i + 1 /\ s2.fresh[i] = s.fresh[i + 1]
      /\ \A i, j \in 1 .. n - 1 : i < j => i + 1 < j + 1
      /\ \A i \in 1 .. n : i # 1 => i - 1 \in 1 .. n - 1 /\ s2.fresh[i - 1] = s.fresh[i]
  BY <1>3, <1>1, Fields, TailOf DEF NextPlace
<1> HIDE DEF place
<1>6. s2.inserted + Len(s2.fresh) <= s2.checked
  <2>1. s.inserted \in Nat /\ s.checked \in Nat
    BY <1>1, <1>2, <1>3, Fields
  <2>2. s2.inserted + Len(s2.fresh) = (s.inserted + 1) + (n - 1)
    BY <1>1, <1>2, <1>5
  <2> HIDE DEF n
  <2>3. (s.inserted + 1) + (n - 1) = s.inserted + n
    BY <1>1, <1>2, <1>5, <2>1
  <2> QED
    BY <1>1, <1>2, <1>3, <2>2, <2>3
<1> HIDE DEF n
<1>7. \A d \in Chunks : Seen(s, rows, d) => Seen(s2, rows, d)
  BY <1>1, <1>2 DEF Seen
<1>8. Seen(s2, rows, c)
  BY <1>1, <1>2, <1>4, <1>7 DEF Seen
<1>9. InOrder(s2)
  BY <1>1, <1>2, <1>3 DEF InOrder
<1>10. NothingLeftOut(s2, rows)
  <2> SUFFICES ASSUME NEW f \in Names \ s.left, s.read[f] # Missing, ~(InFile(s) /\ f = s.file),
                      NEW i \in 1 .. Len(s.read[f])
               PROVE  Seen(s2, rows, s.read[f][i])
    BY <1>1, <1>2 DEF NothingLeftOut, InFile
  <2>1. s.read[f][i] \in Chunks
    BY <1>1, <1>2, <1>3, Fields, FileRead
  <2>2. Seen(s, rows, s.read[f][i])
    BY <1>1, <1>2, <1>3 DEF NothingLeftOut
  <2> QED
    BY <1>1, <1>2, <1>7, <2>1, <2>2
<1>11. MineInv(s2, rows)
  <2> SUFFICES ASSUME NEW d \in Chunks, s2.mine[d] # NoRow
               PROVE  /\ rows[d] = NoRow
                      /\ First(s2.mine[d], s.read, d)
                      /\ s2.mine[d].file = s.file =>
                           \A i \in 1 .. n - 1 : s2.mine[d].index < s.fresh[i + 1].index
    BY <1>1, <1>2, <1>5 DEF MineInv
  <2>1. CASE s2.mine[d] = s.mine[d]
    <3>1. /\ rows[d] = NoRow /\ First(s2.mine[d], s.read, d)
          /\ s2.mine[d].file = s.file => \A i \in 1 .. n : s2.mine[d].index < s.fresh[i].index
      BY <1>1, <1>2, <1>3, <2>1 DEF MineInv, InFile, n
    <3> QED
      BY <1>1, <1>2, <1>5, <3>1
  <2>2. CASE d = c /\ ~Seen(s, rows, c)
    <3>1. s2.mine[d] = place /\ rows[d] = NoRow /\ First(place, s.read, d)
      BY <1>1, <1>2, <1>4, <2>2 DEF Seen
    <3>2. \A i \in 1 .. n - 1 : s.fresh[1].index < s.fresh[i + 1].index
      BY <1>1, <1>2, <1>3, <1>5 DEF FileInv, n
    <3> QED
      BY <1>1, <1>2, <1>5, <3>1, <3>2
  <2> QED
    BY <1>1, <1>2, <2>1, <2>2
<1>12. FileInv(s2, rows)
  <2>1. /\ s2.file \in Names \ s2.left /\ s2.read[s2.file] # Missing
        /\ \A f \in Names \ s2.left : f # s2.file => Rank(f) < Rank(s2.file)
        /\ s2.checked <= Len(s2.read[s2.file])
    BY <1>1, <1>2, <1>3 DEF FileInv
  <2>2. \A i \in 1 .. n : s.fresh[i].file = s.file /\ s.fresh[i].index \in 1 .. s.checked
    BY <1>1, <1>2, <1>3 DEF FileInv, n
  <2>3. \A i, j \in 1 .. n : i < j => s.fresh[i].index < s.fresh[j].index
    BY <1>1, <1>2, <1>3 DEF FileInv, n
  <2>4. ASSUME NEW i \in 1 .. n - 1
        PROVE  s2.fresh[i].file = s.file /\ s2.fresh[i].index \in 1 .. s.checked
    <3>1. i + 1 \in 1 .. n /\ s2.fresh[i] = s.fresh[i + 1]
      BY <1>1, <1>2, <1>5
    <3> QED
      BY <1>1, <1>2, <2>2, <3>1
  <2>5. \A i, j \in 1 .. n - 1 : i < j => s2.fresh[i].index < s2.fresh[j].index
    BY <1>1, <1>2, <1>5, <2>3
  <2>6. ASSUME NEW i \in 1 .. s.checked
        PROVE  \/ Seen(s2, rows, s.read[s.file][i])
               \/ \E j \in 1 .. n - 1 : s2.fresh[j].index = i
    <3>1. s.read[s.file][i] \in Chunks
      BY <1>1, <1>2, <1>3, Fields, FileRead DEF FileInv
    <3>2. CASE Seen(s, rows, s.read[s.file][i])
      BY <1>1, <1>2, <1>7, <3>1, <3>2
    <3>3. CASE \E j \in 1 .. n : s.fresh[j].index = i
      <4>1. PICK j \in 1 .. n : s.fresh[j].index = i
        BY <1>1, <1>2, <3>3
      <4>2. CASE j = 1
        <5>1. s.read[s.file][i] = c
          BY <1>4, <1>5, <4>1, <4>2 DEF c, place, NextText
        <5> QED
          BY <1>8, <5>1
      <4>3. CASE j # 1
        BY <1>1, <1>2, <1>5, <4>1, <4>3
      <4> QED
        BY <1>1, <1>2, <4>2, <4>3
    <3> QED
      BY <1>1, <1>2, <1>3, <3>2, <3>3 DEF FileInv, n
  <2> QED
    BY <1>1, <1>2, <1>5, <2>1, <2>4, <2>5, <2>6 DEF FileInv
<1> QED
  BY <1>1, <1>2, <1>3, <1>6, <1>9, <1>10, <1>11, <1>12 DEF RunInv, Active, InFile

LEMMA InsertFrame ==
  ASSUME NEW rows, NEW s, RunInv(s, rows), s.step = "insert", s.fresh # <<>>,
         NEW m, Seen(s, rows, NextText(s)) => m = s.mine[NextText(s)],
         ~Seen(s, rows, NextText(s)) => m = NextPlace(s),
         NEW s2,
         s2 = [s EXCEPT !.fresh = Tail(@), !.inserted = @ + 1, !.mine[NextText(s)] = m]
  PROVE  AfterInsert(s, s2, rows)
<1> DEFINE c == NextText(s)
           fresh == Tail(s.fresh)
           mine == [s.mine EXCEPT ![c] = m]
<1>1. s \in Run
  BY DEF RunInv
<1>2. NextPlace(s) \in Place /\ c \in Chunks
  BY FreshFirst
<1> HIDE DEF c
<1>3. s2 = [s EXCEPT !.fresh = fresh, !.inserted = s.inserted + 1, !.mine = mine]
  BY <1>1 DEF Run, c
<1>4. m \in Place \cup {NoRow}
  BY <1>1, <1>2, Fields DEF c
<1>5. /\ mine \in [Chunks -> Place \cup {NoRow}] /\ mine[c] = m
      /\ \A d \in Chunks \ {c} : mine[d] = s.mine[d]
  BY <1>1, <1>2, <1>4, Fields
<1>6. s.inserted + 1 \in Nat /\ fresh \in Seq(Place)
  BY <1>1, Fields, TailOf
<1> HIDE DEF fresh, mine
<1>7. [s EXCEPT !.fresh = fresh, !.inserted = s.inserted + 1, !.mine = mine] \in Run
  BY <1>1, <1>5, <1>6 DEF Run
<1>8. s2 \in Run
  BY <1>3, <1>7, Zenon
<1>9. /\ s2.step = "insert" /\ s2.left = s.left /\ s2.inserted = s.inserted + 1
      /\ s2.fresh = fresh /\ s2.checked = s.checked /\ s2.mine = mine /\ s2.file = s.file
      /\ s2.read = s.read
  BY <1>1, <1>3 DEF Run
<1> QED
  BY <1>5, <1>8, <1>9 DEF AfterInsert, fresh, c

LEMMA FinishFilesFrame ==
  ASSUME NEW rows, NEW s, RunInv(s, rows), s.step = "file", s.left = {},
         NEW s2, s2 = [s EXCEPT !.step = "commit"]
  PROVE  RunInv(s2, rows) /\ s2.mine = s.mine
<1>1. /\ s \in Run /\ InOrder(s) /\ NothingLeftOut(s, rows) /\ MineInv(s, rows)
      /\ s.inserted + Len(s.fresh) <= s.checked
  BY DEF RunInv, Active
<1>2. /\ s2 \in Run /\ s2.step = "commit" /\ s2.left = s.left /\ s2.inserted = s.inserted
      /\ s2.fresh = s.fresh /\ s2.checked = s.checked /\ s2.mine = s.mine
      /\ s2.read = s.read
  BY <1>1 DEF Run
<1>3. InOrder(s2) /\ NothingLeftOut(s2, rows)
  BY <1>1, <1>2 DEF InOrder, NothingLeftOut, Seen, InFile
<1>4. MineInv(s2, rows)
  BY <1>1, <1>2 DEF MineInv, InFile
<1> QED
  BY <1>1, <1>2, <1>3, <1>4 DEF RunInv, Active, InFile

\* A run that is over holds nothing.
LEMMA EndFrame ==
  ASSUME NEW rows, NEW s, RunInv(s, rows), s.step = "commit", NEW rows2,
         NEW s2, s2 = [s EXCEPT !.step = "done", !.mine = NewRun.mine]
  PROVE  RunInv(s2, rows2) /\ \A c \in Chunks : s2.mine[c] = NoRow
<1>1. s \in Run /\ s.inserted + Len(s.fresh) <= s.checked
  BY DEF RunInv
<1>2. NewRun.mine \in [Chunks -> Place \cup {NoRow}] /\ \A c \in Chunks : NewRun.mine[c] = NoRow
  BY DEF NewRun
<1>3. /\ s2 \in Run /\ s2.step = "done" /\ s2.inserted = s.inserted
      /\ s2.fresh = s.fresh /\ s2.checked = s.checked /\ s2.mine = NewRun.mine
  BY <1>1, <1>2 DEF Run
<1> QED
  BY <1>1, <1>2, <1>3 DEF RunInv, Active, InFile

LEMMA ExitFrame ==
  ASSUME NEW rows, NEW s2, s2 = [NewRun EXCEPT !.step = "exited"]
  PROVE  RunInv(s2, rows) /\ \A c \in Chunks : s2.mine[c] = NoRow
<1>1. /\ s2.step = "exited" /\ s2.inserted = 0 /\ s2.fresh = <<>>
      /\ s2.checked = 0 /\ s2.mine = [c \in Chunks |-> NoRow] /\ s2 \in Run
  BY NewRunIsRun DEF NewRun, Run
<1> QED
  BY <1>1 DEF RunInv, Active, InFile

\* The table grows, but not where the run holds a chunk.
LEMMA RowsGrow ==
  ASSUME NEW rows, NEW s, RunInv(s, rows), NEW rows2,
         \A c \in Chunks : rows[c] # NoRow => rows2[c] # NoRow,
         \A c \in Chunks : s.mine[c] # NoRow => rows2[c] = rows[c]
  PROVE  RunInv(s, rows2)
<1>1. \A c \in Chunks : Seen(s, rows, c) => Seen(s, rows2, c)
  BY DEF Seen
<1>2. s \in Run /\ s.read \in Reading
  BY Fields DEF RunInv
<1>3. ASSUME NothingLeftOut(s, rows) PROVE NothingLeftOut(s, rows2)
  BY <1>1, <1>2, <1>3, FileRead DEF NothingLeftOut
<1>4. ASSUME MineInv(s, rows) PROVE MineInv(s, rows2)
  BY <1>4 DEF MineInv
<1>5. ASSUME FileInv(s, rows) PROVE FileInv(s, rows2)
  <2>1. /\ s.file \in Names \ s.left /\ s.read[s.file] # Missing
        /\ \A f \in Names \ s.left : f # s.file => Rank(f) < Rank(s.file)
        /\ s.checked <= Len(s.read[s.file])
        /\ \A i \in 1 .. Len(s.fresh) :
             s.fresh[i].file = s.file /\ s.fresh[i].index \in 1 .. s.checked
        /\ \A i, j \in 1 .. Len(s.fresh) : i < j => s.fresh[i].index < s.fresh[j].index
    BY <1>5 DEF FileInv
  <2>2. ASSUME NEW i \in 1 .. s.checked
        PROVE  \/ Seen(s, rows2, s.read[s.file][i])
               \/ \E j \in 1 .. Len(s.fresh) : s.fresh[j].index = i
    <3>1. s.checked \in Nat /\ s.checked <= Len(s.read[s.file]) /\ Len(s.read[s.file]) \in Nat
      BY <1>2, <2>1, Fields, FileRead
    <3>2. i \in 1 .. Len(s.read[s.file])
      BY <3>1
    <3>3. s.read[s.file][i] \in Chunks
      BY <1>2, <2>1, <3>2, FileRead
    <3> QED
      BY <1>1, <1>5, <3>3 DEF FileInv
  <2> QED
    BY <2>1, <2>2 DEF FileInv
<1> QED
  BY <1>3, <1>4, <1>5 DEF RunInv

-----------------------------------------------------------------------------
(* The steps of all runs.                                                  *)

\* What a run holds after a step it held before, or nobody else holds it.
HoldsFreely(r, s2) ==
  \A c \in Chunks : s2.mine[c] # NoRow =>
    run[r].mine[c] # NoRow \/ \A q \in Runs \ {r} : run[q].mine[c] = NoRow

LEMMA RunStep ==
  ASSUME IInv, NEW r \in Runs, NEW s2, run' = [run EXCEPT ![r] = s2],
         UNCHANGED <<kb, stored, edits>>, RunInv(s2, stored),
         HoldsFreely(r, s2)
  PROVE  IInv'
<1>1. /\ TypeOK /\ \A q \in Runs : RunInv(run[q], stored)
      /\ Exclusive /\ s2 \in Run
  BY DEF IInv, RunInv
<1>2. run' \in [Runs -> Run] /\ run'[r] = s2 /\ \A q \in Runs \ {r} : run'[q] = run[q]
  BY <1>1 DEF TypeOK
<1>3. \A q \in Runs : RunInv(run'[q], stored')
  BY <1>1, <1>2
<1>4. TypeOK'
  <2>1. \A q \in Runs : run'[q].inserted + Len(run'[q].fresh) <= run'[q].checked
    BY <1>3 DEF RunInv
  <2> QED
    BY <1>1, <1>2, <2>1 DEF TypeOK
<1>5. Exclusive'
  BY <1>1, <1>2 DEF Exclusive, HoldsFreely
<1> QED
  BY <1>3, <1>4, <1>5 DEF IInv

\* The same when it holds what it held, or nothing.
LEMMA RunStepKeeping ==
  ASSUME IInv, NEW r \in Runs, NEW s2, run' = [run EXCEPT ![r] = s2],
         UNCHANGED <<kb, stored, edits>>, RunInv(s2, stored),
         s2.mine = run[r].mine \/ \A c \in Chunks : s2.mine[c] = NoRow
  PROVE  IInv'
<1>1. HoldsFreely(r, s2)
  BY DEF HoldsFreely
<1> QED
  BY <1>1, RunStep

LEMMA FrameOf ==
  ASSUME IInv, NEW r \in Runs
  PROVE  run \in [Runs -> Run] /\ run[r] \in Run /\ RunInv(run[r], stored)
BY DEF IInv, TypeOK

LEMMA StartStep ==
  ASSUME IInv, NEW r \in Runs, Start(r) PROVE IInv'
<1> DEFINE s2 == [run[r] EXCEPT !.step = "file"]
<1>1. run[r].step = "new" /\ run' = [run EXCEPT ![r] = s2] /\ UNCHANGED <<kb, stored, edits>>
  BY DEF Start, At
<1>2. RunInv(s2, stored) /\ s2.mine = run[r].mine
  BY <1>1, FrameOf, StartFrame
<1> HIDE DEF s2
<1> QED
  BY <1>1, <1>2, RunStepKeeping

LEMMA ReadFileStep ==
  ASSUME IInv, NEW r \in Runs, NEW f \in Names, ReadFile(r, f) PROVE IInv'
<1> DEFINE s == run[r]
<1>1. /\ s.step = "file" /\ IsNext(f, s.left) /\ UNCHANGED <<kb, stored, edits>>
      /\ RunInv(s, stored)
  BY FrameOf DEF ReadFile, At
<1>2. CASE kb[f] = Missing
  <2> DEFINE s2 == [s EXCEPT !.left = @ \ {f}]
  <2>1. run' = [run EXCEPT ![r] = s2]
    BY <1>2 DEF ReadFile
  <2>2. RunInv(s2, stored) /\ s2.mine = run[r].mine
    BY <1>1, SkipFrame, SMTT(60)
  <2> HIDE DEF s2
  <2> QED
    BY <1>1, <2>1, <2>2, RunStepKeeping
<1>3. CASE kb[f] # Missing
  <2> DEFINE s2 == AfterRead(s, f, kb[f])
  <2>1. kb[f] \in Editions
    BY <1>3 DEF IInv, TypeOK
  <2>2. run' = [run EXCEPT ![r] = s2]
    <3>1. /\ run \in [Runs -> Run] /\ s \in Run
          /\ run' = [run EXCEPT ![r].step = "check", ![r].left = @ \ {f}, ![r].file = f,
                               ![r].read[f] = kb[f], ![r].checked = 0,
                               ![r].fresh = <<>>, ![r].inserted = 0]
      BY <1>3, FrameOf DEF ReadFile
    <3>2. run' = [q \in Runs |-> IF q = r THEN s2 ELSE run[q]]
      BY <3>1 DEF Run, AfterRead
    <3> QED
      BY <3>1, <3>2
  <2>3. RunInv(s2, stored) /\ s2.mine = run[r].mine
    BY <1>1, <2>1, ReadFrame
  <2> HIDE DEF s2
  <2> QED
    BY <1>1, <2>2, <2>3, RunStepKeeping
<1> QED
  BY <1>2, <1>3

LEMMA CheckChunkStep ==
  ASSUME IInv, NEW r \in Runs, CheckChunk(r) PROVE IInv'
<1> DEFINE s == run[r]
           i == s.checked + 1
           place == [file |-> s.file, index |-> i]
           fresh == IF Visible(r, s.read[s.file][i]) THEN s.fresh ELSE Append(s.fresh, place)
           s2 == AfterCheck(s, fresh)
<1>1. /\ s.step = "check" /\ i <= Len(s.read[s.file]) /\ UNCHANGED <<kb, stored, edits>>
      /\ RunInv(s, stored)
  BY FrameOf DEF CheckChunk
<1>2. run' = [run EXCEPT ![r] = s2]
  BY FrameOf DEF CheckChunk, AfterCheck
<1>3. \/ fresh = s.fresh /\ Seen(s, stored, s.read[s.file][i])
      \/ fresh = Append(s.fresh, place)
  BY DEF Visible, Seen
<1> HIDE DEF fresh
<1>4. RunInv(s2, stored) /\ s2.mine = run[r].mine
  BY <1>1, <1>3, CheckFrame, SMTT(60)
<1> HIDE DEF s2
<1> QED
  BY <1>1, <1>2, <1>4, RunStepKeeping

LEMMA EmbedStep ==
  ASSUME IInv, NEW r \in Runs, Embed(r) PROVE IInv'
<1> DEFINE s == run[r]
<1>1. /\ s.step = "check" /\ s.checked = Len(s.read[s.file]) /\ UNCHANGED <<kb, stored, edits>>
      /\ RunInv(s, stored)
  BY FrameOf DEF Embed
<1>2. CASE s.fresh = <<>>
  <2> DEFINE s2 == AfterFile(s, 0)
  <2>1. run' = [run EXCEPT ![r] = s2]
    BY <1>2, FrameOf DEF Embed, AfterFile
  <2>2. RunInv(s2, stored) /\ s2.mine = run[r].mine
    BY <1>1, <1>2, DoneFrame
  <2> HIDE DEF s2
  <2> QED
    BY <1>1, <2>1, <2>2, RunStepKeeping
<1>3. CASE s.fresh # <<>>
  <2> DEFINE s2 == [s EXCEPT !.step = "insert"]
  <2>1. run' = [run EXCEPT ![r] = s2]
    BY <1>3, FrameOf DEF Embed
  <2>2. RunInv(s2, stored) /\ s2.mine = run[r].mine
    BY <1>1, EmbedFrame
  <2> HIDE DEF s2
  <2> QED
    BY <1>1, <2>1, <2>2, RunStepKeeping
<1> QED
  BY <1>2, <1>3

\* A run inserts a chunk it does not see only when nobody else holds it.
LEMMA InsertChunkStep ==
  ASSUME IInv, NEW r \in Runs, InsertChunk(r) PROVE IInv'
<1> DEFINE s == run[r]
           c == NextText(s)
           m == IF Visible(r, c) THEN s.mine[c] ELSE NextPlace(s)
           s2 == [s EXCEPT !.fresh = Tail(@), !.inserted = @ + 1, !.mine[c] = m]
<1>1. /\ s.step = "insert" /\ s.fresh # <<>> /\ UNCHANGED <<kb, stored, edits>>
      /\ RunInv(s, stored)
  BY FrameOf DEF InsertChunk
<1>2. \A q \in Runs \ {r} : run[q].mine[c] = NoRow
  BY <1>1 DEF InsertChunk, WaitsFor, Holding, TextAt, At, NextText, NextPlace
<1>3. run' = [run EXCEPT ![r] = s2]
  BY FrameOf DEF InsertChunk, TextAt, NextText, NextPlace
<1>4. /\ Seen(s, stored, c) => m = s.mine[c]
      /\ ~Seen(s, stored, c) => m = NextPlace(s)
  BY DEF Visible, Seen
<1> HIDE DEF m
<1>5. AfterInsert(s, s2, stored)
  BY <1>1, <1>4, InsertFrame
<1> HIDE DEF s2
<1>6. RunInv(s2, stored) /\ \A d \in Chunks \ {c} : s2.mine[d] = s.mine[d]
  BY <1>1, <1>5, Inserted DEF AfterInsert
<1> HIDE DEF c
<1>7. HoldsFreely(r, s2)
  BY <1>2, <1>6 DEF HoldsFreely
<1> QED
  BY <1>1, <1>3, <1>6, <1>7, RunStep

LEMMA FinishFileStep ==
  ASSUME IInv, NEW r \in Runs, FinishFile(r) PROVE IInv'
<1> DEFINE s == run[r]
           s2 == AfterFile(s, s.inserted)
<1>1. /\ s.step = "insert" /\ s.fresh = <<>> /\ UNCHANGED <<kb, stored, edits>>
      /\ RunInv(s, stored) /\ s.checked = Len(s.read[s.file]) /\ s.inserted \in Nat
  BY FrameOf, Fields DEF FinishFile, RunInv
<1>2. run' = [run EXCEPT ![r] = s2]
  BY FrameOf DEF FinishFile, AfterFile
<1>3. RunInv(s2, stored) /\ s2.mine = run[r].mine
  BY <1>1, DoneFrame
<1> HIDE DEF s2
<1> QED
  BY <1>1, <1>2, <1>3, RunStepKeeping

LEMMA FinishFilesStep ==
  ASSUME IInv, NEW r \in Runs, FinishFiles(r) PROVE IInv'
<1> DEFINE s2 == [run[r] EXCEPT !.step = "commit"]
<1>1. /\ run[r].step = "file" /\ run[r].left = {} /\ run' = [run EXCEPT ![r] = s2]
      /\ UNCHANGED <<kb, stored, edits>>
  BY DEF FinishFiles, At
<1>2. RunInv(s2, stored) /\ s2.mine = run[r].mine
  BY <1>1, FrameOf, FinishFilesFrame
<1> HIDE DEF s2
<1> QED
  BY <1>1, <1>2, RunStepKeeping

LEMMA ExitStep ==
  ASSUME IInv, NEW r \in Runs, Exit(r), UNCHANGED <<kb, stored, edits>> PROVE IInv'
<1> DEFINE s2 == [NewRun EXCEPT !.step = "exited"]
<1>1. run' = [run EXCEPT ![r] = s2]
  BY DEF Exit
<1>2. RunInv(s2, stored) /\ \A c \in Chunks : s2.mine[c] = NoRow
  BY ExitFrame
<1> HIDE DEF s2
<1> QED
  BY <1>1, <1>2, RunStepKeeping

\* What is committed was held by nobody else.
LEMMA CommitStep ==
  ASSUME IInv, NEW r \in Runs, Commit(r) PROVE IInv'
<1> DEFINE s == run[r]
           s2 == [s EXCEPT !.step = "done", !.mine = NewRun.mine]
<1>1. /\ s.step = "commit" /\ UNCHANGED <<kb, edits>> /\ RunInv(s, stored)
      /\ run \in [Runs -> Run] /\ s \in Run
      /\ \A q \in Runs : RunInv(run[q], stored)
  BY FrameOf DEF Commit, At, IInv
<1>2. run' = [run EXCEPT ![r] = s2]
  BY <1>1 DEF Commit
<1>3. RunInv(s2, stored') /\ \A c \in Chunks : s2.mine[c] = NoRow
  BY <1>1, EndFrame, ZenonT(60)
<1> HIDE DEF s2
<1>4. s2 \in Run
  BY <1>3 DEF RunInv
<1>5. /\ run' \in [Runs -> Run] /\ run'[r] = s2
      /\ \A q \in Runs \ {r} : run'[q] = run[q]
  BY <1>1, <1>2, <1>4
<1>6. /\ stored' \in [Chunks -> Place \cup {NoRow}]
      /\ \A c \in Chunks : stored'[c] = IF s.mine[c] # NoRow THEN s.mine[c] ELSE stored[c]
  <2>1. s.mine \in [Chunks -> Place \cup {NoRow}] /\ stored \in [Chunks -> Place \cup {NoRow}]
    BY <1>1, Fields DEF IInv, TypeOK
  <2> QED
    BY <2>1 DEF Commit
<1>7. ASSUME NEW q \in Runs \ {r} PROVE RunInv(run[q], stored')
  <2>1. \A c \in Chunks : stored[c] # NoRow => stored'[c] # NoRow
    BY <1>6
  <2>2. \A c \in Chunks : run[q].mine[c] # NoRow => s.mine[c] = NoRow
    BY DEF IInv, Exclusive
  <2>3. \A c \in Chunks : run[q].mine[c] # NoRow => stored'[c] = stored[c]
    BY <1>6, <2>2
  <2> QED
    BY <1>1, <2>1, <2>3, RowsGrow
<1>8. \A q \in Runs : RunInv(run'[q], stored')
  BY <1>3, <1>5, <1>7
<1>9. TypeOK'
  <2>1. \A q \in Runs : run'[q].inserted + Len(run'[q].fresh) <= run'[q].checked
    BY <1>8 DEF RunInv
  <2> QED
    BY <1>1, <1>5, <1>6, <2>1 DEF IInv, TypeOK
<1>10. Exclusive'
  BY <1>3, <1>5 DEF IInv, Exclusive
<1> QED
  BY <1>8, <1>9, <1>10 DEF IInv

LEMMA EditStep ==
  ASSUME IInv, NEW f \in Names, NEW to \in Editions \cup {Missing}, Edit(f, to) PROVE IInv'
<1>1. UNCHANGED <<stored, run>> /\ TypeOK
  BY DEF Edit, IInv
<1>2. kb' \in [Names -> Editions \cup {Missing}]
  BY <1>1 DEF Edit, TypeOK
<1>3. edits' \in 0 .. MaxEdits
  BY <1>1 DEF Edit, TypeOK
<1>4. TypeOK'
  BY <1>1, <1>2, <1>3 DEF TypeOK
<1> QED
  BY <1>1, <1>4 DEF IInv, Exclusive

LEMMA InitIInv == Init => IInv
<1> SUFFICES ASSUME Init PROVE IInv
  OBVIOUS
<1>1. run = [r \in Runs |-> NewRun] /\ \A r \in Runs : run[r] = NewRun
  BY DEF Init
<1>2. \A r \in Runs : RunInv(run[r], stored)
  BY <1>1, NewFrame
<1>3. TypeOK
  <2>1. \A r \in Runs : run[r].inserted + Len(run[r].fresh) <= run[r].checked
    BY <1>2 DEF RunInv
  <2>2. stored \in [Chunks -> Place \cup {NoRow}] /\ edits \in 0 .. MaxEdits
    BY DEF Init
  <2>3. kb \in [Names -> Editions \cup {Missing}]
    BY DEF Init
  <2> QED
    BY <1>1, <2>1, <2>2, <2>3, NewRunIsRun DEF TypeOK
<1>4. Exclusive
  BY <1>1 DEF Exclusive, NewRun
<1> QED
  BY <1>2, <1>3, <1>4 DEF IInv

LEMMA NextIInv == IInv /\ [Next]_vars => IInv'
<1> SUFFICES ASSUME IInv, [Next]_vars PROVE IInv'
  OBVIOUS
<1>1. ASSUME NEW r \in Runs, Proceed(r) PROVE IInv'
  BY <1>1, StartStep, ReadFileStep, CheckChunkStep, EmbedStep, InsertChunkStep,
     FinishFileStep, FinishFilesStep, CommitStep DEF Proceed
<1>2. ASSUME NEW r \in Runs, Fail(r) PROVE IInv'
  BY <1>2, ExitStep DEF Fail
<1>3. ASSUME NEW r \in Runs, DeadlockDetected(r) PROVE IInv'
  BY <1>3, ExitStep DEF DeadlockDetected
<1>4. ASSUME NEW f \in Names, NEW to \in Editions \cup {Missing}, Edit(f, to) PROVE IInv'
  BY <1>4, EditStep
<1>5. CASE UNCHANGED vars
  BY <1>5 DEF vars, IInv, TypeOK, Exclusive
<1> QED
  BY <1>1, <1>2, <1>3, <1>4, <1>5 DEF Next

LEMMA SpecIInv == Spec => []IInv
BY InitIInv, NextIInv, PTL DEF Spec

(* Every variable of an ingestion run has its type, and a run has never    *)
(* inserted more chunks of a file than it has checked (ingest_file).       *)
THEOREM TypeCorrect == Spec => []TypeOK
<1>1. IInv => TypeOK
  BY DEF IInv
<1> QED
  BY <1>1, SpecIInv, PTL

-----------------------------------------------------------------------------
(* The runs implement the abstract knowledge base.                         *)

Ingested == {run[r].read : r \in {q \in Runs : At(q, "done")}}

\* Nothing of what is read is missing when a run commits.
LEMMA CommittedInFull ==
  ASSUME NEW rows, NEW s, RunInv(s, rows), s.step = "commit", NEW c \in Chunks
  PROVE  /\ s.mine[c] # NoRow => /\ rows[c] = NoRow /\ Places(s.read, c) # {}
                                 /\ s.mine[c] = Base!FirstPlace(s.read, c)
         /\ ~Seen(s, rows, c) => Places(s.read, c) = {}
<1>1. /\ s \in Run /\ s.left = {} /\ NothingLeftOut(s, rows) /\ MineInv(s, rows)
      /\ s.read \in Reading /\ ~InFile(s)
  BY Fields DEF RunInv, Active, InFile
<1>2. ASSUME s.mine[c] # NoRow
      PROVE  /\ rows[c] = NoRow /\ Places(s.read, c) # {}
             /\ s.mine[c] = Base!FirstPlace(s.read, c)
  <2>1. rows[c] = NoRow /\ First(s.mine[c], s.read, c)
    BY <1>1, <1>2 DEF MineInv
  <2>2. Places(s.read, c) # {}
    BY <2>1 DEF First
  <2> QED
    BY <1>1, <2>1, <2>2, FirstIsFirst
<1>3. ASSUME NEW p \in Places(s.read, c) PROVE Seen(s, rows, c)
  <2>1. /\ p \in Place /\ s.read[p.file] # Missing
        /\ p.index \in 1 .. Len(s.read[p.file]) /\ s.read[p.file][p.index] = c
    BY <1>1, PlacesAre
  <2>2. p.file \in Names \ s.left
    BY <1>1, <2>1 DEF Place
  <2> QED
    BY <1>1, <2>1, <2>2 DEF NothingLeftOut
<1> QED
  BY <1>2, <1>3

LEMMA CommitIngests ==
  ASSUME IInv, NEW r \in Runs, Commit(r)
  PROVE  /\ run[r].read \in [Names -> Editions \cup {Missing}]
         /\ stored' = [c \in Chunks |->
                         IF stored[c] = NoRow /\ Places(run[r].read, c) # {}
                           THEN Base!FirstPlace(run[r].read, c) ELSE stored[c]]
         /\ Ingested' = Ingested \cup {run[r].read}
<1> DEFINE s == run[r]
<1>1. /\ s.step = "commit" /\ RunInv(s, stored) /\ s \in Run /\ run \in [Runs -> Run]
      /\ stored' = [c \in Chunks |-> IF s.mine[c] # NoRow THEN s.mine[c] ELSE stored[c]]
      /\ run' = [run EXCEPT ![r].step = "done", ![r].mine = NewRun.mine]
  BY FrameOf DEF Commit, At
<1>2. s.read \in [Names -> Editions \cup {Missing}]
  BY <1>1, Fields DEF Reading
<1>3. ASSUME NEW c \in Chunks
      PROVE  (IF s.mine[c] # NoRow THEN s.mine[c] ELSE stored[c])
               = IF stored[c] = NoRow /\ Places(s.read, c) # {}
                   THEN Base!FirstPlace(s.read, c) ELSE stored[c]
  <2>1. CASE s.mine[c] # NoRow
    BY <1>1, <2>1, CommittedInFull
  <2>2. CASE s.mine[c] = NoRow
    <3>1. ~Seen(s, stored, c) => Places(s.read, c) = {}
      BY <1>1, CommittedInFull
    <3> QED
      BY <2>2, <3>1 DEF Seen
  <2> QED
    BY <2>1, <2>2
<1>4. /\ \A q \in Runs \ {r} : run'[q] = run[q]
      /\ run'[r].step = "done" /\ run'[r].read = s.read
  BY <1>1 DEF Run
<1>5. Ingested' = Ingested \cup {s.read}
  BY <1>1, <1>4 DEF Ingested, At
<1> HIDE DEF s
<1>6. stored' = [c \in Chunks |->
                   IF stored[c] = NoRow /\ Places(s.read, c) # {}
                     THEN Base!FirstPlace(s.read, c) ELSE stored[c]]
  BY <1>1, <1>3, Zenon
<1> QED
  BY <1>2, <1>5, <1>6 DEF s

\* No other step of a run ends in "done".
LEMMA OthersIngestNothing ==
  ASSUME IInv, NEW r \in Runs, run[r].step # "done", run'[r].step # "done",
         \A q \in Runs \ {r} : run'[q] = run[q]
  PROVE  Ingested' = Ingested
BY DEF Ingested, At

LEMMA OtherSteps ==
  ASSUME IInv, NEW r \in Runs,
         \/ Start(r) \/ (\E f \in Names : ReadFile(r, f)) \/ CheckChunk(r) \/ Embed(r)
         \/ InsertChunk(r) \/ FinishFile(r) \/ FinishFiles(r) \/ Fail(r) \/ DeadlockDetected(r)
  PROVE  UNCHANGED <<stored, Ingested>>
<1>1. run \in [Runs -> Run] /\ run[r] \in Run
  BY FrameOf
<1> SUFFICES /\ UNCHANGED stored /\ run[r].step # "done" /\ run'[r].step # "done"
             /\ \A q \in Runs \ {r} : run'[q] = run[q]
  BY OthersIngestNothing
<1>2. CASE Start(r)
  BY <1>1, <1>2 DEF Start, At, Run
<1>3. ASSUME NEW f \in Names, ReadFile(r, f)
      PROVE  /\ UNCHANGED stored /\ run[r].step # "done" /\ run'[r].step # "done"
             /\ \A q \in Runs \ {r} : run'[q] = run[q]
  BY <1>1, <1>3, ZenonT(60) DEF ReadFile, At, Run
<1>4. CASE CheckChunk(r)
  BY <1>1, <1>4 DEF CheckChunk, Run
<1>5. CASE Embed(r)
  BY <1>1, <1>5 DEF Embed, Run
<1>6. CASE InsertChunk(r)
  BY <1>1, <1>6 DEF InsertChunk, Run
<1>7. CASE FinishFile(r)
  BY <1>1, <1>7 DEF FinishFile, Run
<1>8. CASE FinishFiles(r)
  BY <1>1, <1>8 DEF FinishFiles, At, Run
<1>9. ASSUME Exit(r)
      PROVE  run'[r].step # "done" /\ \A q \in Runs \ {r} : run'[q] = run[q]
  BY <1>1, <1>9, NewRunIsRun DEF Exit, Run
<1>10. CASE Fail(r)
  BY <1>9, <1>10 DEF Fail
<1>11. CASE DeadlockDetected(r)
  BY <1>9, <1>11 DEF DeadlockDetected, Cycle, WaitsFor, At
<1> QED
  BY <1>2, <1>3, <1>4, <1>5, <1>6, <1>7, <1>8, <1>10, <1>11

(* The ingestion runs implement the knowledge base of KnowledgeBase.tla: a *)
(* commit puts into the table all its run has read, each new chunk at its  *)
(* first place, whatever other runs hold, insert or roll back meanwhile,   *)
(* and nothing else changes the table (ingest_kb, upsert_chunk).           *)
THEOREM Implements == Spec => ImplementsKnowledgeBase
<1>1. Init => Base!Init
  BY DEF Init, Base!Init, At, NewRun
<1>2. IInv /\ [Next]_vars => [Base!Next]_<<stored, Ingested>>
  <2> SUFFICES ASSUME IInv, [Next]_vars PROVE Base!Next \/ UNCHANGED <<stored, Ingested>>
    OBVIOUS
  <2>1. ASSUME NEW r \in Runs, Commit(r) PROVE Base!Next
    <3>1. PICK reading \in [Names -> Editions \cup {Missing}] : reading = run[r].read
      BY <2>1, CommitIngests
    <3>2. Base!Ingest(reading)
      BY <2>1, <3>1, CommitIngests DEF Base!Ingest, Places, Ingested
    <3> QED
      BY <3>2 DEF Base!Next
  <2>2. ASSUME NEW r \in Runs, Proceed(r), ~Commit(r) PROVE UNCHANGED <<stored, Ingested>>
    BY <2>2, OtherSteps DEF Proceed
  <2>3. ASSUME NEW r \in Runs, Fail(r) \/ DeadlockDetected(r)
        PROVE  UNCHANGED <<stored, Ingested>>
    BY <2>3, OtherSteps
  <2>4. ASSUME NEW f \in Names, NEW to \in Editions \cup {Missing}, Edit(f, to)
        PROVE  UNCHANGED <<stored, Ingested>>
    BY <2>4 DEF Edit, Ingested, At
  <2>5. CASE UNCHANGED vars
    BY <2>5 DEF vars, Ingested, At
  <2> QED
    BY <2>1, <2>2, <2>3, <2>4, <2>5 DEF Next
<1> QED
  BY <1>1, <1>2, SpecIInv, PTL DEF Spec, ImplementsKnowledgeBase, Base!Spec, Ingested

-----------------------------------------------------------------------------
(* Deadlocks.                                                              *)

\* What a run holds lies before what it inserts next.
LEMMA HeldBefore ==
  ASSUME NEW rows, NEW s, RunInv(s, rows), s.step = "insert", s.fresh # <<>>,
         NEW c \in Chunks, s.mine[c] # NoRow
  PROVE  /\ First(s.mine[c], s.read, c) /\ rows[c] = NoRow
         /\ s.mine[c] \in Place /\ s.mine[c].file \notin s.left
         /\ Rank(s.mine[c].file) <= Rank(s.file)
         /\ Before(s.mine[c], NextPlace(s))
<1> DEFINE p == s.mine[c]
<1>1. /\ s \in Run /\ InOrder(s) /\ MineInv(s, rows) /\ FileInv(s, rows) /\ s.read \in Reading
  BY Fields DEF RunInv, Active, InFile
<1>2. /\ First(p, s.read, c) /\ rows[c] = NoRow
      /\ p.file = s.file => \A i \in 1 .. Len(s.fresh) : p.index < s.fresh[i].index
  BY <1>1 DEF MineInv, InFile
<1>3. p \in Place /\ p.file \in Names /\ s.read[p.file] # Missing
  BY <1>1, <1>2, PlacesAre DEF First, Place
<1>4. p.file \notin s.left
  BY <1>1, <1>3 DEF InOrder
<1>5. s.file \in Names /\ (p.file # s.file => Rank(p.file) < Rank(s.file))
  BY <1>1, <1>3, <1>4 DEF FileInv
<1>6. NextPlace(s) = s.fresh[1] /\ 1 \in 1 .. Len(s.fresh)
  BY <1>1, Fields DEF NextPlace
<1>7. NextPlace(s) \in Place /\ NextPlace(s).file = s.file
  BY FreshFirst
<1>8. Rank(p.file) <= Rank(s.file)
  BY <1>3, <1>5, RankIsPosition
<1>9. Before(p, NextPlace(s))
  BY <1>2, <1>3, <1>5, <1>6, <1>7 DEF Before, Base!Before, Rank
<1> QED
  BY <1>2, <1>3, <1>4, <1>8, <1>9

\* The files a run has taken are those up to the one it is at.
LEMMA TakenUpTo ==
  ASSUME NEW rows, NEW s, RunInv(s, rows), s.step = "insert"
  PROVE  /\ s.file \in Names \ s.left /\ s.read[s.file] # Missing /\ s \in Run
         /\ \A f \in Names : Rank(f) <= Rank(s.file) => f \notin s.left
         /\ \A f \in Names \ s.left : Rank(f) <= Rank(s.file)
<1>1. InOrder(s) /\ FileInv(s, rows) /\ s \in Run
  BY DEF RunInv, Active, InFile
<1>2. s.file \in Names \ s.left /\ s.read[s.file] # Missing
  BY <1>1 DEF FileInv
<1>3. ASSUME NEW f \in Names, Rank(f) <= Rank(s.file) PROVE f \notin s.left
  <2>1. f \in s.left => Rank(s.file) < Rank(f)
    BY <1>1, <1>2 DEF InOrder
  <2> QED
    BY <1>2, <1>3, <2>1, RankIsPosition
<1>4. ASSUME NEW f \in Names \ s.left PROVE Rank(f) <= Rank(s.file)
  <2>1. f = s.file \/ Rank(f) < Rank(s.file)
    BY <1>1 DEF FileInv
  <2> QED
    BY <1>2, <2>1, RankIsPosition
<1> QED
  BY <1>1, <1>2, <1>3, <1>4

\* A frame that waits for another that has read the same texts is behind it.
LEMMA WaitsAhead ==
  ASSUME NEW rows, NEW s, NEW u, RunInv(s, rows), RunInv(u, rows),
         s.step = "insert", s.fresh # <<>>, u.step = "insert", u.fresh # <<>>,
         u.mine[NextText(s)] # NoRow, s.mine[NextText(s)] = NoRow,
         \A f \in Names \ (s.left \cup u.left) : s.read[f] = u.read[f]
  PROVE  Before(NextPlace(s), NextPlace(u))
<1> DEFINE x == NextText(s)
           p == NextPlace(s)
           o == NextPlace(u)
           m == u.mine[x]
<1>1. p \in Place /\ p.file = s.file /\ x \in Chunks
  BY FreshFirst
<1>2. /\ First(m, u.read, x) /\ rows[x] = NoRow /\ m \in Place /\ m.file \notin u.left
      /\ Rank(m.file) <= Rank(u.file) /\ Before(m, o)
  BY <1>1, HeldBefore
<1>3. First(p, s.read, x)
  BY <1>1, <1>2, FreshFirst DEF Seen
<1>4. \A f \in Names : Rank(f) <= Rank(s.file) /\ Rank(f) <= Rank(u.file) => s.read[f] = u.read[f]
  BY TakenUpTo
<1> HIDE DEF x, p, o, m
<1>5. /\ s.read \in Reading /\ u.read \in Reading /\ p.file \in Names
      /\ m.file \in Names /\ u.file \in Names /\ \A f \in Names : Rank(f) \in Nat
  BY <1>1, <1>2, Fields, RankIsPosition, TakenUpTo DEF Place
<1>6. m \in Places(u.read, x) /\ p \in Places(s.read, x)
  BY <1>2, <1>3 DEF First
<1>7. ASSUME Rank(m.file) <= Rank(s.file) PROVE m = p \/ Before(p, m)
  <2>1. s.read[m.file] = u.read[m.file]
    BY <1>2, <1>4, <1>5, <1>7
  <2>2. /\ m \in Place /\ u.read[m.file] # Missing
        /\ m.index \in 1 .. Len(u.read[m.file]) /\ u.read[m.file][m.index] = x
    BY <1>1, <1>5, <1>6, PlacesAre
  <2>3. m \in Places(s.read, x)
    BY <1>1, <1>5, <2>1, <2>2, PlacesAre
  <2> QED
    BY <1>3, <2>3 DEF First
<1>8. CASE Rank(s.file) <= Rank(u.file)
  <2>1. s.read[p.file] = u.read[p.file]
    BY <1>1, <1>4, <1>5, <1>8
  <2>2. /\ p \in Place /\ s.read[p.file] # Missing
        /\ p.index \in 1 .. Len(s.read[p.file]) /\ s.read[p.file][p.index] = x
    BY <1>1, <1>5, <1>6, PlacesAre
  <2>3. p \in Places(u.read, x)
    BY <1>1, <1>5, <2>1, <2>2, PlacesAre
  <2>4. m = p \/ Before(m, p)
    BY <1>2, <2>3 DEF First
  <2>5. Rank(m.file) <= Rank(s.file)
    BY <1>1, <1>5, <2>4 DEF Before, Base!Before, Rank
  <2>6. m = p
    BY <1>1, <1>2, <1>7, <2>4, <2>5, BeforeIsOrder
  <2> QED
    BY <1>2, <2>6 DEF o, p
<1>9. CASE Rank(u.file) < Rank(s.file)
  <2>1. Rank(m.file) < Rank(p.file)
    BY <1>1, <1>2, <1>5, <1>9
  <2>2. m = p \/ Before(p, m)
    BY <1>1, <1>5, <1>7, <2>1
  <2> QED
    BY <1>5, <2>1, <2>2 DEF Before, Base!Before, Rank
<1>10. Rank(s.file) \in Nat /\ Rank(u.file) \in Nat
  BY <1>1, <1>5
<1> QED
  BY <1>8, <1>9, <1>10

LEMMA WaitingFrames ==
  ASSUME IInv, NEW r \in Runs, NEW q \in Runs, WaitsFor(r, q)
  PROVE  /\ RunInv(run[r], stored) /\ run[r].step = "insert" /\ run[r].fresh # <<>>
         /\ run[q].mine[NextText(run[r])] # NoRow
         /\ run[r].mine[NextText(run[r])] = NoRow
<1>1. /\ RunInv(run[r], stored) /\ run[r].step = "insert" /\ run[r].fresh # <<>> /\ q # r
      /\ run[q].mine[NextText(run[r])] # NoRow
  BY FrameOf DEF WaitsFor, At, Holding, TextAt, NextText, NextPlace
<1>2. NextText(run[r]) \in Chunks
  BY <1>1, FreshFirst
<1> QED
  BY <1>1, <1>2 DEF IInv, Exclusive

\* Where a waiting run is: the position of its file, and how much is left of it.
FileOf(r) == Rank(run[r].file)
Rest(r) == Len(run[r].read[run[r].file]) - NextPlace(run[r]).index

LEMMA WaitingAt ==
  ASSUME IInv, NEW r \in Runs, NEW q \in Runs, WaitsFor(r, q)
  PROVE  /\ FileOf(r) \in 1 .. Len(Files) /\ Rest(r) \in Nat
         /\ run[r].file \in Names \ run[r].left /\ Len(run[r].read[run[r].file]) \in Nat
         /\ NextPlace(run[r]) \in Place /\ NextPlace(run[r]).file = run[r].file
<1>1. /\ RunInv(run[r], stored) /\ run[r].step = "insert" /\ run[r].fresh # <<>>
  BY WaitingFrames
<1>2. /\ run[r].file \in Names \ run[r].left /\ run[r].read[run[r].file] # Missing
      /\ run[r] \in Run
  BY <1>1, TakenUpTo
<1>3. Rank(run[r].file) \in DOMAIN Files
  <2>1. \E i \in DOMAIN Files : Files[i] = run[r].file
    BY <1>2 DEF Names, ToSet
  <2> QED
    BY <2>1 DEF Rank, Base!Rank
<1>4. NextPlace(run[r]) \in Place /\ NextPlace(run[r]).file = run[r].file
  BY <1>1, FreshFirst
<1>5. NextPlace(run[r]) = run[r].fresh[1] /\ 1 \in 1 .. Len(run[r].fresh)
  BY <1>1, <1>2, Fields DEF NextPlace
<1>6. /\ NextPlace(run[r]).index \in 1 .. run[r].checked
      /\ run[r].checked <= Len(run[r].read[run[r].file]) /\ run[r].checked \in Nat
  BY <1>1, <1>2, <1>5, Fields DEF RunInv, FileInv, InFile
<1>7. Len(run[r].read[run[r].file]) \in Nat
  BY <1>2, Fields, FileRead
<1>8. Rest(r) \in Nat
  BY <1>6, <1>7 DEF Rest
<1> QED
  BY <1>2, <1>3, <1>4, <1>7, <1>8 DEF FileOf

\* Who waits for a run that has read the same texts is at an earlier file, or
\* has more of the same file before it.
LEMMA WaitsBehind ==
  ASSUME IInv, NEW r \in Runs, NEW q \in Runs, NEW o \in Runs, WaitsFor(r, q), WaitsFor(q, o),
         \A f \in Names \ (run[r].left \cup run[q].left) : run[r].read[f] = run[q].read[f]
  PROVE  FileOf(r) < FileOf(q) \/ (FileOf(r) = FileOf(q) /\ Rest(q) < Rest(r))
<1>1. Before(NextPlace(run[r]), NextPlace(run[q]))
  <2> DEFINE s == run[r]
             u == run[q]
  <2>1. /\ RunInv(s, stored) /\ s.step = "insert" /\ s.fresh # <<>>
        /\ RunInv(u, stored) /\ u.step = "insert" /\ u.fresh # <<>>
        /\ u.mine[NextText(s)] # NoRow /\ s.mine[NextText(s)] = NoRow
        /\ \A f \in Names \ (s.left \cup u.left) : s.read[f] = u.read[f]
    BY WaitingFrames
  <2> HIDE DEF s, u
  <2>2. Before(NextPlace(s), NextPlace(u))
    BY <2>1, WaitsAhead
  <2> QED
    BY <2>2 DEF s, u
<1>2. /\ run[r].file \in Names \ run[r].left /\ Len(run[r].read[run[r].file]) \in Nat
      /\ NextPlace(run[r]) \in Place /\ NextPlace(run[r]).file = run[r].file
  BY WaitingAt
<1>3. /\ run[q].file \in Names \ run[q].left
      /\ NextPlace(run[q]) \in Place /\ NextPlace(run[q]).file = run[q].file
  BY WaitingAt
<1>4. CASE run[r].file # run[q].file
  BY <1>1, <1>2, <1>3, <1>4 DEF Before, Base!Before, FileOf, Rank
<1>5. CASE run[r].file = run[q].file
  <2>1. run[r].read[run[r].file] = run[q].read[run[r].file]
    BY <1>2, <1>3, <1>5
  <2>2. NextPlace(run[r]).index < NextPlace(run[q]).index
    BY <1>1, <1>2, <1>3, <1>5, RankIsPosition DEF Before, Base!Before, Rank
  <2>3. NextPlace(run[r]).index \in Nat /\ NextPlace(run[q]).index \in Nat
    BY <1>2, <1>3 DEF Place
  <2>4. Rest(q) < Rest(r)
    <3> DEFINE n == Len(run[r].read[run[r].file])
               i == NextPlace(run[r]).index
               j == NextPlace(run[q]).index
    <3>1. Rest(r) = n - i /\ Rest(q) = n - j /\ n \in Nat
      BY <1>2, <1>5, <2>1 DEF Rest
    <3> HIDE DEF n
    <3> QED
      BY <2>2, <2>3, <3>1
  <2> QED
    BY <1>5, <2>4 DEF FileOf
<1> QED
  BY <1>4, <1>5

(* Runs insert their chunks in the order of the places, so a run that      *)
(* waits is behind the one it waits for, and they can wait for each other  *)
(* all around only when a file two of them got to was edited between their *)
(* reads of it (ingest_kb sorts the files, ingest_file lists the chunks in *)
(* order).                                                                 *)
THEOREM DeadlocksNeedEdits == Spec => []DeadlockNeedsEdit
<1>1. IInv => DeadlockNeedsEdit
  <2> SUFFICES ASSUME IInv, NEW S \in SUBSET Runs, Cycle(S),
                      \A r, q \in S : WaitsFor(r, q) =>
                        \A f \in Names \ (run[r].left \cup run[q].left) :
                          run[r].read[f] = run[q].read[f]
               PROVE  FALSE
    BY DEF DeadlockNeedsEdit
  <2>1. ASSUME NEW r \in S
        PROVE  /\ FileOf(r) \in Nat /\ FileOf(r) <= Len(Files) /\ Rest(r) \in Nat
               /\ \E q \in S : \/ FileOf(r) < FileOf(q)
                               \/ FileOf(r) = FileOf(q) /\ Rest(q) < Rest(r)
    <3>1. PICK q \in S : WaitsFor(r, q)
      BY DEF Cycle
    <3>2. PICK o \in S : WaitsFor(q, o)
      BY DEF Cycle
    <3>3. \A f \in Names \ (run[r].left \cup run[q].left) : run[r].read[f] = run[q].read[f]
      BY <3>1
    <3>4. FileOf(r) < FileOf(q) \/ (FileOf(r) = FileOf(q) /\ Rest(q) < Rest(r))
      BY <3>1, <3>2, <3>3, WaitsBehind
    <3> QED
      BY <3>1, <3>4, WaitingAt
  <2>0. Len(Files) \in Nat
    BY DEF Names
  <2> DEFINE ahead == {Len(Files) - FileOf(r) : r \in S}
  <2>2. PICK r \in S : \A q \in S : FileOf(q) <= FileOf(r)
    <3>1. ahead \in SUBSET Nat /\ ahead # {}
      <4>1. ASSUME NEW q \in S PROVE Len(Files) - FileOf(q) \in Nat
        <5>1. FileOf(q) \in Nat /\ FileOf(q) <= Len(Files)
          BY <2>1
        <5> QED
          BY <2>0, <5>1
      <4>2. S # {}
        BY DEF Cycle
      <4> QED
        BY <4>1, <4>2
    <3>2. PICK n \in ahead : \A k \in ahead : n <= k
      <4> HIDE DEF ahead
      <4> QED
        BY <3>1, LeastNumber
    <3>3. PICK r \in S : n = Len(Files) - FileOf(r)
      BY <3>2
    <3>4. ASSUME NEW q \in S PROVE FileOf(q) <= FileOf(r)
      <4>1. Len(Files) - FileOf(r) <= Len(Files) - FileOf(q)
        BY <3>2, <3>3
      <4>2. FileOf(r) \in Nat /\ FileOf(q) \in Nat /\ Len(Files) \in Nat
        BY <2>0, <2>1
      <4> QED
        BY <4>1, <4>2
    <3> QED
      BY <3>4
  <2> DEFINE last == {q \in S : FileOf(q) = FileOf(r)}
             rests == {Rest(q) : q \in last}
  <2>3. PICK n \in rests : \A k \in rests : n <= k
    <3>1. rests \in SUBSET Nat /\ rests # {}
      BY <2>1
    <3> HIDE DEF rests
    <3> QED
      BY <3>1, LeastNumber
  <2>4. PICK q \in last : n = Rest(q)
    BY <2>3
  <2>5. PICK o \in S : FileOf(q) < FileOf(o) \/ (FileOf(q) = FileOf(o) /\ Rest(o) < Rest(q))
    BY <2>1, <2>4
  <2>6. FileOf(q) = FileOf(r) /\ FileOf(o) <= FileOf(r)
    BY <2>2, <2>4
  <2>7. FileOf(o) \in Nat /\ FileOf(r) \in Nat /\ Rest(o) \in Nat /\ Rest(q) \in Nat
    BY <2>1, <2>4
  <2>8. FileOf(o) = FileOf(r) /\ Rest(o) < Rest(q)
    BY <2>5, <2>6, <2>7
  <2>9. Rest(q) <= Rest(o)
    BY <2>3, <2>4, <2>8
  <2> QED
    BY <2>7, <2>8, <2>9
<1> QED
  BY <1>1, SpecIInv, PTL
=============================================================================
