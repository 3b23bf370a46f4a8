---------------------- MODULE ResumeProcessing_proofs ----------------------
(***************************************************************************)
(* Safety of LLMClient and of the processing of resumes over it, for every *)
(* finite set of calls, every number of retries, every size of the         *)
(* connection pool and every set of files.                                 *)
(*                                                                         *)
(* The row of a call is written from the frame of the client, which only   *)
(* counts its attempts, while the properties speak of the answers of the   *)
(* provider.  CallInv relates the two at every step of a call.             *)
(***************************************************************************)
EXTENDS ResumeProcessing, FiniteSetTheorems, TLAPS

USE ConstantsAssumption, NoneAssumption, UploadsAssumption

\* The requests a call may send.
Bound(c) == IF Streams(c) THEN 1 ELSE MaxAttempts

\* What the client makes of the last answer.
ResultOf(answer) ==
  CASE answer = "valid" -> "validated"
    [] answer = "invalid" -> "AISchemaError"
    [] answer = "error" -> "AIProviderError"
    [] answer = "timeout" -> "AITimeoutError"
    [] answer = "untyped" -> "untyped"

\* The provider has been asked for the last time.
Ended(c) ==
  LET n == Len(answers[c]) IN
  /\ n \in 1 .. Bound(c)
  /\ \A i \in 1 .. n - 1 : answers[c][i] \in {"invalid", "error"}
  /\ call[c].result = ResultOf(LastAnswer(c))
  /\ LastAnswer(c) \in {"invalid", "error"} => n = Bound(c)

CallInv(c) ==
  LET k == call[c]
      n == Len(answers[c])
  IN
  /\ k.step = "new" => k = NewCall /\ answers[c] = <<>> /\ upload[c] = NoUpload
  /\ k.step \in {"new", "waiting", "yielded"} => k.result = None
  /\ k.step \in {"new", "waiting", "yielded", "logging", "writing"} =>
       rows[c] = <<>> /\ c \notin swallowed
  /\ k.step \in {"waiting", "yielded"} =>
       /\ n = k.attempt /\ n < Bound(c)
       /\ \A i \in 1 .. n : answers[c][i] \in {"invalid", "error"}
  /\ k.step = "yielded" => Streams(c)
  /\ k.step \in {"logging", "writing"} =>
       Ended(c) /\ k.result \in Typed /\ k.entry = ExpectedRow(c)
  /\ k.step \in {"returned", "over"} =>
       /\ Ended(c) \/ (answers[c] = <<>> /\ k.result \in {None, "abandoned"})
       /\ rows[c] \in RowsAfter(c)

HintInv(c) ==
  call[c].step \in {"waiting", "yielded"} =>
    (call[c].hint <=> \E i \in 1 .. Len(answers[c]) : answers[c][i] = "invalid")

\* What becomes of a file: a call that completes, or nothing more.
UploadInv(c) ==
  upload[c] # NoUpload =>
    /\ upload[c].file \in Uploads /\ Completes(c)
    /\ upload[c].extraction = ExtractText(upload[c].file)
    /\ upload[c].extraction = "text" /\ call[c].step \in {"returned", "over"} => Ended(c)
    /\ upload[c].extraction # "text" =>
         /\ call[c].step \in {"returned", "over"}
         /\ answers[c] = <<>> /\ call[c].result = None

IInv ==
  /\ ProcessingTypeOK
  /\ \A c \in Calls : CallInv(c) /\ HintInv(c) /\ UploadInv(c)
  /\ ConnectionsConserved

-----------------------------------------------------------------------------
(* Counting connections.                                                   *)

LEMMA Recount ==
  ASSUME NEW S, NEW T, IsFiniteSet(S), NEW c, S \ {c} = T \ {c}
  PROVE  /\ Cardinality(S) \in Nat /\ Cardinality(T) \in Nat
         /\ c \in S /\ c \in T => Cardinality(T) = Cardinality(S)
         /\ c \notin S /\ c \notin T => Cardinality(T) = Cardinality(S)
         /\ c \in S /\ c \notin T => Cardinality(S) = Cardinality(T) + 1
         /\ c \in T /\ c \notin S => Cardinality(T) = Cardinality(S) + 1
<1> DEFINE R == S \ {c}
<1>1. IsFiniteSet(R)
  BY FS_RemoveElement
<1>2. /\ IsFiniteSet(R \cup {c}) /\ Cardinality(R \cup {c}) = Cardinality(R) + 1
  BY <1>1, FS_AddElement
<1>3. Cardinality(R) \in Nat /\ Cardinality(R \cup {c}) \in Nat
  BY <1>1, <1>2, FS_CardinalityType
<1>4. \/ c \in S /\ S = R \cup {c}
      \/ c \notin S /\ S = R
  OBVIOUS
<1>5. \/ c \in T /\ T = R \cup {c}
      \/ c \notin T /\ T = R
  OBVIOUS
<1> HIDE DEF R
<1> QED
  BY <1>2, <1>3, <1>4, <1>5

\* The connections that call k holds, for its caller and for its row.
Held(k) == (IF k.in_transaction THEN 1 ELSE 0) + (IF k.step = "writing" THEN 1 ELSE 0)

LEMMA ConnectionsStep ==
  ASSUME IInv, NEW c \in Calls, NEW k \in Call, call' = [call EXCEPT ![c] = k],
         free' \in Nat, free' + Held(k) = free + Held(call[c])
  PROVE  ConnectionsConserved' /\ free' \in 0 .. PoolSize
<1> DEFINE InTransaction == {d \in Calls : call[d].in_transaction}
           Writing == {d \in Calls : At(d, "writing")}
<1>1. call'[c] = k /\ \A d \in Calls \ {c} : call'[d] = call[d]
  BY DEF IInv, ProcessingTypeOK, TypeOK
<1>2. /\ InTransaction \ {c} = InTransaction' \ {c} /\ Writing \ {c} = Writing' \ {c}
      /\ c \in InTransaction <=> call[c].in_transaction
      /\ c \in InTransaction' <=> k.in_transaction
      /\ c \in Writing <=> call[c].step = "writing"
      /\ c \in Writing' <=> k.step = "writing"
  BY <1>1 DEF At
<1>3. IsFiniteSet(InTransaction) /\ IsFiniteSet(Writing)
  BY FS_Subset
<1>4. /\ free \in Nat /\ PoolSize \in Nat
      /\ free + Cardinality(InTransaction) + Cardinality(Writing) = PoolSize
  BY DEF IInv, ProcessingTypeOK, TypeOK, ConnectionsConserved
<1> HIDE DEF InTransaction, Writing
<1>5. /\ Cardinality(InTransaction) \in Nat /\ Cardinality(InTransaction') \in Nat
      /\ Cardinality(InTransaction') + (IF call[c].in_transaction THEN 1 ELSE 0)
           = Cardinality(InTransaction) + (IF k.in_transaction THEN 1 ELSE 0)
  <2>1. Cardinality(InTransaction) \in Nat /\ Cardinality(InTransaction') \in Nat
    BY <1>2, <1>3, Recount
  <2>2. CASE call[c].in_transaction /\ k.in_transaction
    BY <1>2, <1>3, <2>1, <2>2, Recount
  <2>3. CASE call[c].in_transaction /\ ~k.in_transaction
    BY <1>2, <1>3, <2>1, <2>3, Recount
  <2>4. CASE ~call[c].in_transaction /\ k.in_transaction
    BY <1>2, <1>3, <2>1, <2>4, Recount
  <2>5. CASE ~call[c].in_transaction /\ ~k.in_transaction
    BY <1>2, <1>3, <2>1, <2>5, Recount
  <2> QED
    BY <2>1, <2>2, <2>3, <2>4, <2>5
<1>6. /\ Cardinality(Writing) \in Nat /\ Cardinality(Writing') \in Nat
      /\ Cardinality(Writing') + (IF call[c].step = "writing" THEN 1 ELSE 0)
           = Cardinality(Writing) + (IF k.step = "writing" THEN 1 ELSE 0)
  <2>1. Cardinality(Writing) \in Nat /\ Cardinality(Writing') \in Nat
    BY <1>2, <1>3, Recount
  <2>2. CASE c \in Writing /\ c \in Writing'
    BY <1>2, <1>3, <2>1, <2>2, Recount
  <2>3. CASE c \in Writing /\ c \notin Writing'
    BY <1>2, <1>3, <2>1, <2>3, Recount
  <2>4. CASE c \notin Writing /\ c \in Writing'
    BY <1>2, <1>3, <2>1, <2>4, Recount
  <2>5. CASE c \notin Writing /\ c \notin Writing'
    BY <1>2, <1>3, <2>1, <2>5, Recount
  <2> QED
    BY <2>1, <2>2, <2>3, <2>4, <2>5
<1>7. free' + Cardinality(InTransaction') + Cardinality(Writing') = PoolSize
  <2> DEFINE b0 == IF call[c].in_transaction THEN 1 ELSE 0
             b1 == IF k.in_transaction THEN 1 ELSE 0
             w0 == IF call[c].step = "writing" THEN 1 ELSE 0
             w1 == IF k.step = "writing" THEN 1 ELSE 0
  <2>1. b0 \in Nat /\ b1 \in Nat /\ w0 \in Nat /\ w1 \in Nat
    OBVIOUS
  <2>2. free' + (b1 + w1) = free + (b0 + w0)
    BY DEF Held
  <2> HIDE DEF b0, b1, w0, w1
  <2>3. /\ Cardinality(InTransaction') + b0 = Cardinality(InTransaction) + b1
        /\ Cardinality(Writing') + w0 = Cardinality(Writing) + w1
    BY <1>5, <1>6, Zenon DEF b0, b1, w0, w1
  <2> DEFINE i0 == Cardinality(InTransaction)
             i1 == Cardinality(InTransaction')
             l0 == Cardinality(Writing)
             l1 == Cardinality(Writing')
  <2>4. /\ i0 \in Nat /\ i1 \in Nat /\ i1 + b0 = i0 + b1
        /\ l0 \in Nat /\ l1 \in Nat /\ l1 + w0 = l0 + w1
        /\ free + i0 + l0 = PoolSize
    BY <1>4, <1>5, <1>6, <2>3, Zenon
  <2> HIDE DEF i0, i1, l0, l1
  <2>5. free \in Nat /\ free' \in Nat
    BY <1>4
  <2>6. free' + i1 + l1 = free + i0 + l0
    <3>1. i1 = i0 + b1 - b0
      BY <2>1, <2>4
    <3>2. l1 = l0 + w1 - w0
      BY <2>1, <2>4
    <3>3. free' = free + b0 + w0 - b1 - w1
      <4> DEFINE f == free
                 g == free'
      <4>1. f \in Nat /\ g \in Nat /\ g + (b1 + w1) = f + (b0 + w0)
        BY <2>2, <2>5, Zenon
      <4> HIDE DEF f, g
      <4>2. g = f + b0 + w0 - b1 - w1
        BY <2>1, <4>1
      <4> QED
        BY <4>2 DEF f, g
    <3> QED
      BY <2>1, <2>4, <2>5, <3>1, <3>2, <3>3
  <2>7. free' + i1 + l1 = PoolSize
    BY <2>4, <2>6, Zenon
  <2> QED
    BY <2>7 DEF i1, l1
<1>8. free' \in 0 .. PoolSize
  BY <1>4, <1>5, <1>6, <1>7
<1> QED
  BY <1>7, <1>8 DEF ConnectionsConserved, InTransaction, Writing

-----------------------------------------------------------------------------
(* A step concerns one call: its frame becomes k, its answers a, its rows  *)
(* r and its upload u.                                                     *)
LEMMA CallStep ==
  ASSUME IInv, NEW c \in Calls,
         NEW k \in Call, call' = [call EXCEPT ![c] = k],
         NEW a \in Seq(Answers), answers' = [answers EXCEPT ![c] = a],
         NEW r \in Seq(LogRow), rows' = [rows EXCEPT ![c] = r],
         NEW u \in [file : Uploads, extraction : Extractions] \cup {NoUpload},
         upload' = [upload EXCEPT ![c] = u],
         swallowed' \in {swallowed, swallowed \cup {c}},
         free' \in Nat, free' + Held(k) = free + Held(call[c]),
         CallInv(c)', HintInv(c)', UploadInv(c)'
  PROVE  IInv'
<1>1. ConnectionsConserved' /\ free' \in 0 .. PoolSize
  BY ConnectionsStep
<1>2. TypeOK'
  BY <1>1 DEF IInv, ProcessingTypeOK, TypeOK
<1>3. ProcessingTypeOK'
  BY <1>2 DEF IInv, ProcessingTypeOK
<1>4. ASSUME NEW d \in Calls PROVE CallInv(d)' /\ HintInv(d)' /\ UploadInv(d)'
  <2>1. CASE d = c
    BY <2>1
  <2>2. CASE d # c
    <3>1. /\ call'[d] = call[d] /\ answers'[d] = answers[d] /\ rows'[d] = rows[d]
          /\ upload'[d] = upload[d] /\ (d \in swallowed' <=> d \in swallowed)
      BY <2>2 DEF IInv, ProcessingTypeOK, TypeOK
    <3>2. CallInv(d) /\ HintInv(d) /\ UploadInv(d)
      BY DEF IInv
    <3>3. CallInv(d)'
      <4>1. LastAnswer(d)' = LastAnswer(d) /\ Bound(d)' = Bound(d)
            /\ Streams(d)' = Streams(d) /\ Completes(d)' = Completes(d)
        BY <3>1 DEF LastAnswer, Bound, Streams, Completes
      <4>2. ExpectedRow(d)' = ExpectedRow(d)
        BY <3>1, <4>1 DEF ExpectedRow
      <4>3. Ended(d)' <=> Ended(d)
        BY <3>1, <4>1 DEF Ended
      <4> QED
        BY <3>1, <3>2, <4>1, <4>2, <4>3 DEF CallInv, RowsAfter
    <3>4. UploadInv(d)'
      BY <3>1, <3>2 DEF UploadInv, Ended, Bound, Streams, Completes, LastAnswer
    <3>5. HintInv(d)'
      BY <3>1, <3>2, Zenon DEF HintInv
    <3> QED
      BY <3>3, <3>4, <3>5
  <2> QED
    BY <2>1, <2>2
<1> QED
  BY <1>1, <1>3, <1>4 DEF IInv

\* What the state holds of a call.
LEMMA Parts ==
  ASSUME IInv, NEW c \in Calls
  PROVE  /\ call[c] \in Call /\ answers[c] \in Seq(Answers) /\ rows[c] \in Seq(LogRow)
         /\ upload[c] \in [file : Uploads, extraction : Extractions] \cup {NoUpload}
         /\ answers = [answers EXCEPT ![c] = answers[c]]
         /\ rows = [rows EXCEPT ![c] = rows[c]]
         /\ upload = [upload EXCEPT ![c] = upload[c]]
         /\ free \in Nat /\ CallInv(c) /\ HintInv(c) /\ UploadInv(c)
         /\ \A k : call' = [call EXCEPT ![c] = k] => call'[c] = k
         /\ \A a : answers' = [answers EXCEPT ![c] = a] => answers'[c] = a
         /\ \A r : rows' = [rows EXCEPT ![c] = r] => rows'[c] = r
BY DEF IInv, ProcessingTypeOK, TypeOK

\* One more answer.
LEMMA Appended ==
  ASSUME IInv, NEW c \in Calls, NEW answer \in Answers, Answered(c, answer)
  PROVE  LET a == Append(answers[c], answer)
             n == Len(answers[c])
         IN  /\ a \in Seq(Answers) /\ answers' = [answers EXCEPT ![c] = a] /\ answers'[c] = a
             /\ n \in Nat /\ Len(a) = n + 1 /\ a[n + 1] = answer
             /\ \A i \in 1 .. n : a[i] = answers[c][i]
<1>1. answers \in [Calls -> Seq(Answers)] /\ answers[c] \in Seq(Answers)
  BY DEF IInv, ProcessingTypeOK, TypeOK
<1>2. answers' = [answers EXCEPT ![c] = Append(answers[c], answer)]
  BY DEF Answered
<1> QED
  BY <1>1, <1>2

-----------------------------------------------------------------------------
(* The initial state, and one lemma per action.                            *)

LEMMA InitIInv == ProcessingInit => IInv
<1> SUFFICES ASSUME ProcessingInit PROVE IInv
  OBVIOUS
<1>1. /\ call = [c \in Calls |-> NewCall] /\ answers = [c \in Calls |-> <<>>]
      /\ rows = [c \in Calls |-> <<>>] /\ swallowed = {} /\ free = PoolSize
      /\ upload = [c \in Calls |-> NoUpload]
  BY DEF ProcessingInit, Init
<1>2. NewCall \in Call
  BY DEF NewCall, Call, Steps
<1>3. ProcessingTypeOK
  BY <1>1, <1>2 DEF ProcessingTypeOK, TypeOK
<1>4. ASSUME NEW c \in Calls PROVE CallInv(c) /\ HintInv(c) /\ UploadInv(c)
  BY <1>1 DEF CallInv, HintInv, UploadInv, NewCall
<1>5. ConnectionsConserved
  <2>1. {c \in Calls : call[c].in_transaction} = {} /\ {c \in Calls : At(c, "writing")} = {}
    BY <1>1 DEF NewCall, At
  <2>2. Cardinality({}) = 0 /\ free = PoolSize /\ PoolSize \in Nat
    BY <1>1, FS_EmptySet
  <2>3. free + 0 + 0 = PoolSize
    BY <2>2
  <2> QED
    BY <2>1, <2>2, <2>3, Zenon DEF ConnectionsConserved
<1> QED
  BY <1>3, <1>4, <1>5 DEF IInv

\* A call that starts, for an upload or as a stream.
LEMMA BeginStep ==
  ASSUME IInv, NEW c \in Calls, NEW mode \in {"complete", "stream"}, NEW held \in BOOLEAN,
         Begin(c, mode, held),
         NEW u \in [file : Uploads, extraction : Extractions] \cup {NoUpload},
         upload' = [upload EXCEPT ![c] = u],
         u # NoUpload => mode = "complete" /\ u.extraction = "text" /\ u.file \in Uploads
                           /\ u.extraction = ExtractText(u.file)
  PROVE  IInv'
<1> DEFINE k == [NewCall EXCEPT !.step = "waiting", !.mode = mode, !.in_transaction = held]
<1>1. call[c] = NewCall /\ answers[c] = <<>> /\ rows[c] = <<>> /\ c \notin swallowed
  BY Parts DEF Begin, At, CallInv
<1>2. k = [NewCall EXCEPT !.step = "waiting", !.mode = mode, !.in_transaction = held]
  OBVIOUS
<1> HIDE DEF k
<1>3. /\ k \in Call /\ k.step = "waiting" /\ k.attempt = 0 /\ k.result = None /\ ~k.hint
      /\ k.mode = mode /\ k.in_transaction = held
  <2>1. CASE held = TRUE
    BY <1>2, <2>1 DEF NewCall, Call, Steps
  <2>2. CASE held = FALSE
    BY <1>2, <2>2 DEF NewCall, Call, Steps
  <2> QED
    BY <2>1, <2>2
<1>4. call' = [call EXCEPT ![c] = k]
  BY <1>1, <1>2, Parts DEF Begin, IInv, ProcessingTypeOK, TypeOK
<1>5. answers' = answers /\ rows' = rows /\ swallowed' = swallowed
  BY DEF Begin
<1>6. free' \in Nat /\ free' + Held(k) = free + Held(call[c])
  <2>1. Held(call[c]) = 0
    BY <1>1 DEF Held, NewCall
  <2>2. Held(k) = IF held THEN 1 ELSE 0
    BY <1>3 DEF Held
  <2> QED
    BY <2>1, <2>2, Parts DEF Begin
<1>7. call'[c] = k /\ upload'[c] = u /\ answers'[c] = <<>> /\ rows'[c] = <<>>
  BY <1>1, <1>4, <1>5, Parts DEF IInv, ProcessingTypeOK
<1>8. CallInv(c)'
  <2>1. Bound(c)' \in Nat /\ Bound(c)' > 0
    BY DEF Bound, MaxAttempts
  <2> QED
    BY <1>1, <1>3, <1>5, <1>7, <2>1 DEF CallInv
<1>9. HintInv(c)'
  BY <1>3, <1>7 DEF HintInv
<1>10. UploadInv(c)'
  BY <1>3, <1>7 DEF UploadInv, Completes
<1> QED
  BY <1>3, <1>4, <1>5, <1>6, <1>8, <1>9, <1>10, Parts, CallStep

LEMMA RefuseStep ==
  ASSUME IInv, NEW c \in Calls, NEW file \in Uploads, NEW held \in BOOLEAN,
         Refuse(c, held, ExtractText(file)),
         upload' = [upload EXCEPT ![c] = [file |-> file, extraction |-> ExtractText(file)]]
  PROVE  IInv'
<1> DEFINE k == [NewCall EXCEPT !.step = "returned", !.in_transaction = held]
           u == [file |-> file, extraction |-> ExtractText(file)]
<1>1. call[c] = NewCall /\ answers[c] = <<>> /\ rows[c] = <<>> /\ c \notin swallowed
  BY Parts DEF Refuse, At, CallInv
<1>2. k = [NewCall EXCEPT !.step = "returned", !.in_transaction = held]
  OBVIOUS
<1> HIDE DEF k
<1>3. /\ k \in Call /\ k.step = "returned" /\ k.attempt = 0 /\ k.result = None /\ ~k.hint
      /\ k.mode = "complete" /\ k.in_transaction = held
  <2>1. CASE held = TRUE
    BY <1>2, <2>1 DEF NewCall, Call, Steps
  <2>2. CASE held = FALSE
    BY <1>2, <2>2 DEF NewCall, Call, Steps
  <2> QED
    BY <2>1, <2>2
<1>4. call' = [call EXCEPT ![c] = k]
  BY <1>1, <1>2, Parts DEF Refuse, IInv, ProcessingTypeOK, TypeOK
<1>5. answers' = answers /\ rows' = rows /\ swallowed' = swallowed
  BY DEF Refuse
<1>6. ExtractText(file) \in Extractions
  BY DEF ExtractText, Extracted, Extractions, File
<1>7. u \in [file : Uploads, extraction : Extractions] /\ u.file = file
      /\ u.extraction = ExtractText(file) /\ u.extraction # "text"
  BY <1>6 DEF Refuse
<1>8. free' \in Nat /\ free' + Held(k) = free + Held(call[c])
  <2>1. Held(call[c]) = 0
    BY <1>1 DEF Held, NewCall
  <2>2. Held(k) = IF held THEN 1 ELSE 0
    BY <1>3 DEF Held
  <2> QED
    BY <2>1, <2>2, Parts DEF Refuse
<1>9. call'[c] = k /\ upload'[c] = u /\ answers'[c] = <<>> /\ rows'[c] = <<>>
  BY <1>1, <1>4, <1>5, Parts DEF IInv, ProcessingTypeOK
<1> HIDE DEF u
<1>10. CallInv(c)'
  BY <1>3, <1>9 DEF CallInv, RowsAfter, Typed, Results
<1>11. HintInv(c)'
  BY <1>3, <1>9 DEF HintInv
<1>12. UploadInv(c)'
  BY <1>3, <1>7, <1>9 DEF UploadInv, Completes
<1>13. upload' = [upload EXCEPT ![c] = u]
  BY DEF u
<1> QED
  BY <1>3, <1>4, <1>5, <1>7, <1>8, <1>10, <1>11, <1>12, <1>13, Parts, CallStep

-----------------------------------------------------------------------------
(* The answers of the provider.                                            *)

\* A call that waits, and what one more answer makes of it.
LEMMA Waiting ==
  ASSUME IInv, NEW c \in Calls, NEW answer \in Answers, Answered(c, answer), UNCHANGED upload
  PROVE  LET n == Len(answers[c]) IN
         /\ call[c].step = "waiting" /\ call[c].result = None
         /\ n \in Nat /\ n = call[c].attempt /\ n < Bound(c)
         /\ Len(answers'[c]) = n + 1 /\ answers'[c][n + 1] = answer
         /\ \A i \in 1 .. n : answers'[c][i] = answers[c][i]
         /\ \A i \in 1 .. n : answers'[c][i] \in {"invalid", "error"}
         /\ rows[c] = <<>> /\ c \notin swallowed
         /\ rows' = rows /\ swallowed' = swallowed /\ free' = free
         /\ Bound(c) \in Nat /\ (Streams(c) => Bound(c) = 1)
<1>1. call[c].step = "waiting" /\ rows' = rows /\ swallowed' = swallowed /\ free' = free
  BY DEF Answered, At
<1>2. /\ call[c].result = None /\ rows[c] = <<>> /\ c \notin swallowed
      /\ Len(answers[c]) = call[c].attempt /\ Len(answers[c]) < Bound(c)
      /\ \A i \in 1 .. Len(answers[c]) : answers[c][i] \in {"invalid", "error"}
  BY <1>1, Parts DEF CallInv
<1>3. Bound(c) \in Nat /\ (Streams(c) => Bound(c) = 1)
  BY DEF Bound, MaxAttempts
<1>4. /\ Len(answers[c]) \in Nat /\ Len(answers'[c]) = Len(answers[c]) + 1
      /\ answers'[c][Len(answers[c]) + 1] = answer
      /\ \A i \in 1 .. Len(answers[c]) : answers'[c][i] = answers[c][i]
  BY Appended
<1> QED
  BY <1>1, <1>2, <1>3, <1>4

\* The last answer, which _log writes down.
LEMMA LogStep ==
  ASSUME IInv, NEW c \in Calls, NEW answer \in {"valid", "invalid", "timeout", "error"},
         Answered(c, answer), UNCHANGED upload,
         NEW hint \in BOOLEAN, NEW outcome, NEW tokens, NEW result,
         LogAndGive(c, hint, outcome, tokens, result), result = ResultOf(answer),
         answer \in {"invalid", "error"} => call[c].attempt + 1 >= Bound(c),
         outcome = CASE answer = "valid" -> IF call[c].attempt = 0 THEN "success"
                                                                  ELSE "retry_success"
                     [] answer = "invalid" -> "invalid_schema"
                     [] answer = "timeout" -> "timeout"
                     [] answer = "error" -> "failed",
         tokens = IF Completes(c) /\ answer \in {"valid", "invalid"} THEN "known" ELSE None
  PROVE  IInv'
<1> DEFINE entry == [outcome |-> outcome, tokens |-> tokens, retry_count |-> call[c].attempt]
           k == [call[c] EXCEPT !.step = "logging", !.hint = hint, !.entry = entry,
                                !.result = result]
           n == Len(answers[c])
<1>1. answer \in Answers /\ result \in Typed /\ result \in Results
      /\ outcome \in Outcomes /\ tokens \in {"known", None}
  BY DEF Answers, ResultOf, Typed, Results, Outcomes
<1>2. call[c] \in Call /\ entry \in LogRow
  BY <1>1, Parts DEF Call, LogRow
<1>3. k \in Call /\ k.step = "logging" /\ k.entry = entry /\ k.result = result
      /\ k.mode = call[c].mode /\ (k.in_transaction <=> call[c].in_transaction)
  BY <1>1, <1>2 DEF Call, Steps
<1>4. call' = [call EXCEPT ![c] = k]
  BY Parts, ZenonT(60) DEF LogAndGive, IInv, ProcessingTypeOK, TypeOK
<1> HIDE DEF k
<1>5. Held(k) = Held(call[c])
  BY <1>1, <1>3, Waiting DEF Held
<1>6. /\ call'[c] = k /\ Len(answers'[c]) = n + 1 /\ answers'[c][n + 1] = answer
      /\ n \in Nat /\ n = call[c].attempt /\ n < Bound(c) /\ Bound(c) \in Nat
      /\ \A i \in 1 .. n : answers'[c][i] \in {"invalid", "error"}
  BY <1>1, <1>4, Parts, Waiting
<1>7. /\ Bound(c)' = Bound(c) /\ (Completes(c)' <=> Completes(c)) /\ LastAnswer(c)' = answer
  BY <1>3, <1>6 DEF Bound, Streams, Completes, LastAnswer
<1>8. ExpectedRow(c)' = entry
  <2>1. (n + 1) - 1 = call[c].attempt /\ (n + 1 = 1 <=> call[c].attempt = 0)
    BY <1>6, SMTT(60)
  <2> QED
    BY <1>6, <1>7, <2>1 DEF ExpectedRow
<1>9. Ended(c)'
  BY <1>3, <1>6, <1>7 DEF Ended
<1>10. CallInv(c)'
  BY <1>1, <1>3, <1>6, <1>8, <1>9, Waiting DEF CallInv
<1>11. HintInv(c)'
  BY <1>3, <1>6 DEF HintInv
<1>12. UploadInv(c)'
  <2>1. upload'[c] = upload[c] /\ (Completes(c)' <=> Completes(c))
    BY <1>7
  <2>2. UploadInv(c) /\ ~(call[c].step \in {"returned", "over"})
    BY <1>1, Parts, Waiting
  <2> QED
    BY <1>3, <1>6, <2>1, <2>2 DEF UploadInv
<1> DEFINE a == Append(answers[c], answer)
<1>13. a \in Seq(Answers) /\ answers' = [answers EXCEPT ![c] = a]
  BY <1>1, Appended
<1> HIDE DEF a
<1>14. /\ rows[c] \in Seq(LogRow) /\ rows' = [rows EXCEPT ![c] = rows[c]]
       /\ upload[c] \in [file : Uploads, extraction : Extractions] \cup {NoUpload}
       /\ upload' = [upload EXCEPT ![c] = upload[c]] /\ swallowed' \in {swallowed, swallowed \cup {c}}
       /\ free' \in Nat /\ free' + Held(k) = free + Held(call[c])
  BY <1>1, <1>5, Parts, Waiting
<1> QED
  BY <1>3, <1>4, <1>10, <1>11, <1>12, <1>13, <1>14, CallStep

\* A further request: one answer more, one request less.
LEMMA TryAgainStep ==
  ASSUME IInv, NEW c \in Calls, NEW answer \in {"invalid", "error"},
         Answered(c, answer), UNCHANGED upload, Completes(c), AttemptsLeft(c),
         NEW hint \in BOOLEAN, TryAgain(c, hint),
         hint <=> (answer = "invalid" \/ call[c].hint)
  PROVE  IInv'
<1> DEFINE k == [call[c] EXCEPT !.attempt = @ + 1, !.hint = hint]
           a == Append(answers[c], answer)
           n == Len(answers[c])
<1>1. answer \in Answers /\ call[c] \in Call
  BY Parts DEF Answers
<1>2. /\ k \in Call /\ k.step = call[c].step /\ k.attempt = call[c].attempt + 1
      /\ k.result = call[c].result /\ k.mode = call[c].mode
      /\ (k.in_transaction <=> call[c].in_transaction)
  <2>1. call[c].attempt \in Nat /\ call[c].attempt + 1 \in Nat
    BY <1>1 DEF Call
  <2>2. k \in Call
    BY <1>1, <2>1 DEF Call
  <2>3. k.step = call[c].step /\ k.attempt = call[c].attempt + 1
    BY <1>1 DEF Call
  <2>4. k.result = call[c].result /\ k.mode = call[c].mode
    BY <1>1 DEF Call
  <2>5. k.in_transaction <=> call[c].in_transaction
    BY <1>1, Zenon DEF Call
  <2> QED
    BY <2>2, <2>3, <2>4, <2>5
<1>3. k.hint <=> hint
  BY <1>1, Zenon DEF Call
<1>4. call' = [call EXCEPT ![c] = k]
  BY Parts DEF TryAgain, IInv, ProcessingTypeOK, TypeOK
<1> HIDE DEF k
<1>5. Held(k) = Held(call[c])
  BY <1>2 DEF Held
<1>6. /\ call'[c] = k /\ Len(answers'[c]) = n + 1 /\ answers'[c][n + 1] = answer
      /\ n \in Nat /\ n = call[c].attempt
      /\ call[c].step = "waiting" /\ call[c].result = None /\ rows[c] = <<>> /\ c \notin swallowed
      /\ \A i \in 1 .. n : answers'[c][i] = answers[c][i]
      /\ \A i \in 1 .. n : answers'[c][i] \in {"invalid", "error"}
      /\ rows' = rows /\ swallowed' = swallowed /\ free' = free
  BY <1>1, <1>4, Parts, Waiting
<1>7. /\ Bound(c)' = MaxAttempts /\ MaxAttempts \in Nat /\ (Completes(c)' <=> Completes(c))
      /\ n + 1 < MaxAttempts
  BY <1>1, <1>2, <1>6 DEF Bound, Streams, Completes, AttemptsLeft, MaxAttempts
<1>8. \A i \in 1 .. n + 1 : answers'[c][i] \in {"invalid", "error"}
  BY <1>6
<1>9. CallInv(c)'
  BY <1>2, <1>6, <1>7, <1>8 DEF CallInv
<1>10. HintInv(c)'
  <2>1. call[c].hint <=> \E i \in 1 .. n : answers[c][i] = "invalid"
    BY <1>6, Parts, Zenon DEF HintInv
  <2>2. (\E i \in 1 .. n + 1 : answers'[c][i] = "invalid")
          <=> (answer = "invalid" \/ \E i \in 1 .. n : answers[c][i] = "invalid")
    <3>1. 1 .. n + 1 = (1 .. n) \cup {n + 1}
      BY <1>6
    <3>2. /\ answers'[c][n + 1] = answer
          /\ \A i \in 1 .. n : answers'[c][i] = answers[c][i]
      BY <1>6
    <3> QED
      BY <3>1, <3>2, Zenon
  <2>3. k.hint <=> \E i \in 1 .. n + 1 : answers'[c][i] = "invalid"
    BY <1>3, <2>1, <2>2, Zenon
  <2> QED
    BY <1>6, <2>3, Zenon DEF HintInv
<1>11. UploadInv(c)'
  BY <1>2, <1>6, <1>7, Parts DEF UploadInv
<1>12. a \in Seq(Answers) /\ answers' = [answers EXCEPT ![c] = a]
  BY <1>1, Appended
<1> HIDE DEF a
<1>13. /\ rows[c] \in Seq(LogRow) /\ rows' = [rows EXCEPT ![c] = rows[c]]
       /\ upload[c] \in [file : Uploads, extraction : Extractions] \cup {NoUpload}
       /\ upload' = [upload EXCEPT ![c] = upload[c]] /\ swallowed' \in {swallowed, swallowed \cup {c}}
       /\ free' \in Nat /\ free' + Held(k) = free + Held(call[c])
  BY <1>1, <1>5, <1>6, Parts
<1> QED
  BY <1>2, <1>4, <1>9, <1>10, <1>11, <1>12, <1>13, CallStep

\* An exception that the client does not know.
LEMMA UntypedStep ==
  ASSUME IInv, NEW c \in Calls, Untyped(c), UNCHANGED upload
  PROVE  IInv'
<1> DEFINE k == [call[c] EXCEPT !.step = "returned", !.result = "untyped"]
           a == Append(answers[c], "untyped")
           n == Len(answers[c])
<1>1. "untyped" \in Answers /\ Answered(c, "untyped") /\ call[c] \in Call
  BY Parts DEF Answers, Untyped
<1>2. /\ k \in Call /\ k.step = "returned" /\ k.result = "untyped" /\ k.mode = call[c].mode
      /\ (k.in_transaction <=> call[c].in_transaction)
  BY <1>1 DEF Call, Steps, Results
<1>3. call' = [call EXCEPT ![c] = k]
  BY Parts DEF Untyped, Leave, IInv, ProcessingTypeOK, TypeOK
<1> HIDE DEF k
<1>4. /\ call'[c] = k /\ Len(answers'[c]) = n + 1 /\ answers'[c][n + 1] = "untyped"
      /\ n \in Nat /\ n < Bound(c) /\ Bound(c) \in Nat
      /\ call[c].step = "waiting" /\ rows[c] = <<>> /\ rows' = rows
      /\ \A i \in 1 .. n : answers'[c][i] \in {"invalid", "error"}
      /\ swallowed' = swallowed /\ free' = free
  BY <1>1, <1>3, Parts, Waiting
<1>5. Held(k) = Held(call[c])
  BY <1>2, <1>4 DEF Held
<1>6. /\ Bound(c)' = Bound(c) /\ (Completes(c)' <=> Completes(c)) /\ LastAnswer(c)' = "untyped"
  BY <1>2, <1>4 DEF Bound, Streams, Completes, LastAnswer
<1>7. Ended(c)'
  BY <1>2, <1>4, <1>6 DEF Ended, ResultOf
<1>8. CallInv(c)'
  BY <1>2, <1>4, <1>7 DEF CallInv, RowsAfter, Typed
<1>9. HintInv(c)'
  BY <1>2, <1>4 DEF HintInv
<1>10. UploadInv(c)'
  BY <1>2, <1>4, <1>6, <1>7, Parts DEF UploadInv
<1>11. a \in Seq(Answers) /\ answers' = [answers EXCEPT ![c] = a]
  BY <1>1, Appended
<1> HIDE DEF a
<1>12. /\ rows[c] \in Seq(LogRow) /\ rows' = [rows EXCEPT ![c] = rows[c]]
       /\ upload[c] \in [file : Uploads, extraction : Extractions] \cup {NoUpload}
       /\ upload' = [upload EXCEPT ![c] = upload[c]] /\ swallowed' \in {swallowed, swallowed \cup {c}}
       /\ free' \in Nat /\ free' + Held(k) = free + Held(call[c])
  BY <1>1, <1>4, <1>5, Parts
<1> QED
  BY <1>2, <1>3, <1>8, <1>9, <1>10, <1>11, <1>12, CallStep

-----------------------------------------------------------------------------
(* The steps between the answers, and those of the row and the caller.     *)

\* A step that leaves the answers alone.
LEMMA QuietStep ==
  ASSUME IInv, NEW c \in Calls, NEW k \in Call, call' = [call EXCEPT ![c] = k],
         k.mode = call[c].mode, UNCHANGED <<answers, upload>>,
         NEW r \in Seq(LogRow), rows' = [rows EXCEPT ![c] = r],
         swallowed' \in {swallowed, swallowed \cup {c}},
         free' \in Nat, free' + Held(k) = free + Held(call[c]),
         CallInv(c)', HintInv(c)',
         upload[c] # NoUpload /\ upload[c].extraction = "text"
           /\ k.step \in {"returned", "over"} => Ended(c)',
         upload[c] # NoUpload /\ upload[c].extraction # "text" =>
           k.step \in {"returned", "over"} /\ k.result = None
  PROVE  IInv'
<1>1. call'[c] = k /\ answers'[c] = answers[c] /\ upload'[c] = upload[c]
  BY Parts
<1>2. UploadInv(c)'
  BY <1>1, Parts DEF UploadInv, Completes
<1>3. /\ answers[c] \in Seq(Answers) /\ answers' = [answers EXCEPT ![c] = answers[c]]
      /\ upload[c] \in [file : Uploads, extraction : Extractions] \cup {NoUpload}
      /\ upload' = [upload EXCEPT ![c] = upload[c]]
  BY Parts
<1> QED
  BY <1>2, <1>3, CallStep

LEMMA DeltaStep ==
  ASSUME IInv, NEW c \in Calls, Delta(c), UNCHANGED upload
  PROVE  IInv'
<1> DEFINE k == [call[c] EXCEPT !.step = "yielded", !.deltas = @ + 1]
<1>1. call[c] \in Call /\ call[c].step = "waiting" /\ call[c].deltas + 1 \in Nat
  BY Parts DEF Delta, At, Call
<1>2. k \in Call /\ k.step = "yielded" /\ k.attempt = call[c].attempt
  BY <1>1 DEF Call, Steps
<1>3. k.result = call[c].result /\ k.mode = call[c].mode
      /\ (k.in_transaction <=> call[c].in_transaction) /\ (k.hint <=> call[c].hint)
  BY <1>1 DEF Call
<1>4. call' = [call EXCEPT ![c] = k]
  BY Parts DEF Delta, IInv, ProcessingTypeOK, TypeOK
<1> HIDE DEF k
<1>5. /\ call'[c] = k /\ answers' = answers /\ rows' = rows /\ swallowed' = swallowed /\ free' = free
      /\ Held(k) = Held(call[c]) /\ (Streams(c)' <=> Streams(c)) /\ Streams(c)
  BY <1>1, <1>2, <1>3, <1>4, Parts DEF Delta, Held, Streams
<1>6. CallInv(c)'
  BY <1>1, <1>2, <1>3, <1>5, Parts DEF CallInv, Bound
<1>7. HintInv(c)'
  BY <1>1, <1>3, <1>5, Parts, Zenon DEF HintInv
<1>8. upload[c] = NoUpload \/ upload[c].extraction = "text"
  BY <1>1, Parts DEF UploadInv
<1>9. /\ rows[c] \in Seq(LogRow) /\ rows' = [rows EXCEPT ![c] = rows[c]]
      /\ free' \in Nat /\ free' + Held(k) = free + Held(call[c])
  BY <1>5, Parts
<1>10. UNCHANGED <<answers, upload>> /\ swallowed' \in {swallowed, swallowed \cup {c}}
  BY <1>5
<1> QED
  BY <1>2, <1>3, <1>4, <1>6, <1>7, <1>8, <1>9, <1>10, QuietStep

LEMMA ResumeStep ==
  ASSUME IInv, NEW c \in Calls, Resume(c), UNCHANGED upload
  PROVE  IInv'
<1> DEFINE k == [call[c] EXCEPT !.step = "waiting"]
<1>1. call[c] \in Call /\ call[c].step = "yielded"
  BY Parts DEF Resume, At
<1>2. k \in Call /\ k.step = "waiting" /\ k.attempt = call[c].attempt
  BY <1>1 DEF Call, Steps
<1>3. k.result = call[c].result /\ k.mode = call[c].mode
      /\ (k.in_transaction <=> call[c].in_transaction) /\ (k.hint <=> call[c].hint)
  BY <1>1 DEF Call
<1>4. call' = [call EXCEPT ![c] = k]
  BY Parts DEF Resume, IInv, ProcessingTypeOK, TypeOK
<1> HIDE DEF k
<1>5. /\ call'[c] = k /\ answers' = answers /\ rows' = rows /\ swallowed' = swallowed /\ free' = free
      /\ Held(k) = Held(call[c]) /\ (Streams(c)' <=> Streams(c))
  BY <1>1, <1>2, <1>3, <1>4, Parts DEF Resume, Held, Streams
<1>6. CallInv(c)'
  BY <1>1, <1>2, <1>3, <1>5, Parts DEF CallInv, Bound
<1>7. HintInv(c)'
  BY <1>1, <1>3, <1>5, Parts, Zenon DEF HintInv
<1>8. upload[c] = NoUpload \/ upload[c].extraction = "text"
  BY <1>1, Parts DEF UploadInv
<1>9. /\ rows[c] \in Seq(LogRow) /\ rows' = [rows EXCEPT ![c] = rows[c]]
      /\ free' \in Nat /\ free' + Held(k) = free + Held(call[c])
  BY <1>5, Parts
<1>10. UNCHANGED <<answers, upload>> /\ swallowed' \in {swallowed, swallowed \cup {c}}
  BY <1>5
<1> QED
  BY <1>2, <1>3, <1>4, <1>6, <1>7, <1>8, <1>9, <1>10, QuietStep

\* Only a stream is abandoned, before its only answer.
LEMMA AbandonStep ==
  ASSUME IInv, NEW c \in Calls, Abandon(c), UNCHANGED upload
  PROVE  IInv'
<1> DEFINE k == [call[c] EXCEPT !.step = "returned", !.result = "abandoned"]
<1>1. call[c] \in Call /\ call[c].step = "yielded"
  BY Parts DEF Abandon, At
<1>2. k \in Call /\ k.step = "returned" /\ k.result = "abandoned"
  BY <1>1 DEF Call, Steps, Results
<1>3. k.mode = call[c].mode /\ (k.in_transaction <=> call[c].in_transaction)
  BY <1>1 DEF Call
<1>4. call' = [call EXCEPT ![c] = k]
  BY Parts DEF Abandon, Leave, IInv, ProcessingTypeOK, TypeOK
<1> HIDE DEF k
<1>5. /\ call'[c] = k /\ answers' = answers /\ rows' = rows /\ swallowed' = swallowed /\ free' = free
      /\ Held(k) = Held(call[c])
  BY <1>1, <1>2, <1>3, <1>4, Parts DEF Abandon, Held
<1>6. /\ Streams(c) /\ Bound(c) = 1 /\ rows[c] = <<>> /\ Len(answers[c]) < 1
  BY <1>1, Parts DEF CallInv, Bound
<1>7. answers[c] = <<>>
  BY <1>6, Parts
<1>8. CallInv(c)'
  BY <1>2, <1>5, <1>6, <1>7 DEF CallInv, RowsAfter, Typed
<1>9. HintInv(c)'
  BY <1>2, <1>5 DEF HintInv
<1>10. upload[c] = NoUpload
  BY <1>6, Parts DEF UploadInv, Completes, Streams
<1>11. /\ rows[c] \in Seq(LogRow) /\ rows' = [rows EXCEPT ![c] = rows[c]]
       /\ free' \in Nat /\ free' + Held(k) = free + Held(call[c])
  BY <1>5, Parts
<1>12. UNCHANGED <<answers, upload>> /\ swallowed' \in {swallowed, swallowed \cup {c}}
  BY <1>5
<1> QED
  BY <1>2, <1>3, <1>4, <1>8, <1>9, <1>10, <1>11, <1>12, QuietStep

\* What the row says does not depend on the step of the call.
LEMMA SameAnswers ==
  ASSUME IInv, NEW c \in Calls, NEW k \in Call, call' = [call EXCEPT ![c] = k],
         k.mode = call[c].mode, k.result = call[c].result, UNCHANGED answers
  PROVE  (Ended(c)' <=> Ended(c)) /\ ExpectedRow(c)' = ExpectedRow(c)
<1>1. call'[c] = k /\ answers'[c] = answers[c]
  BY Parts
<1>2. LastAnswer(c)' = LastAnswer(c) /\ Bound(c)' = Bound(c) /\ (Completes(c)' <=> Completes(c))
  BY <1>1 DEF LastAnswer, Bound, Streams, Completes
<1> QED
  BY <1>1, <1>2 DEF Ended, ExpectedRow

LEMMA OpenLogSessionStep ==
  ASSUME IInv, NEW c \in Calls, OpenLogSession(c), UNCHANGED upload
  PROVE  IInv'
<1> DEFINE k == [call[c] EXCEPT !.step = "writing"]
<1>1. call[c] \in Call /\ call[c].step = "logging"
  BY Parts DEF OpenLogSession, At
<1>2. k \in Call /\ k.step = "writing"
  BY <1>1 DEF Call, Steps
<1>3. k.result = call[c].result /\ k.mode = call[c].mode /\ k.entry = call[c].entry
      /\ (k.in_transaction <=> call[c].in_transaction)
  BY <1>1 DEF Call
<1>4. call' = [call EXCEPT ![c] = k]
  BY Parts DEF OpenLogSession, IInv, ProcessingTypeOK, TypeOK
<1> HIDE DEF k
<1>5. call'[c] = k /\ answers' = answers /\ rows' = rows /\ swallowed' = swallowed
  BY <1>4, Parts DEF OpenLogSession
<1>6. Held(k) = Held(call[c]) + 1 /\ Held(call[c]) \in Nat
  BY <1>1, <1>2, <1>3 DEF Held
<1>7. free' \in Nat /\ free' + Held(k) = free + Held(call[c])
  <2>1. free \in Nat /\ free > 0 /\ free' = free - 1
    BY Parts DEF OpenLogSession
  <2> QED
    BY <1>6, <2>1
<1>8. (Ended(c)' <=> Ended(c)) /\ ExpectedRow(c)' = ExpectedRow(c)
  BY <1>2, <1>3, <1>4, <1>5, SameAnswers
<1>9. CallInv(c)'
  BY <1>1, <1>2, <1>3, <1>5, <1>8, Parts DEF CallInv
<1>10. HintInv(c)'
  BY <1>2, <1>5 DEF HintInv
<1>11. upload[c] = NoUpload \/ upload[c].extraction = "text"
  BY <1>1, Parts DEF UploadInv
<1>12. /\ rows[c] \in Seq(LogRow) /\ rows' = [rows EXCEPT ![c] = rows[c]]
       /\ UNCHANGED <<answers, upload>> /\ swallowed' \in {swallowed, swallowed \cup {c}}
  BY <1>5, Parts
<1> QED
  BY <1>2, <1>3, <1>4, <1>7, <1>9, <1>10, <1>11, <1>12, QuietStep

\* The row is given up, for want of a connection or because of its INSERT.
LEMMA LostStep ==
  ASSUME IInv, NEW c \in Calls, PoolTimeout(c) \/ LogFails(c), UNCHANGED upload
  PROVE  IInv'
<1> DEFINE k == [call[c] EXCEPT !.step = "returned"]
<1>1. call[c] \in Call /\ call[c].step \in {"logging", "writing"}
  BY Parts DEF PoolTimeout, LogFails, At
<1>2. k \in Call /\ k.step = "returned"
  BY <1>1 DEF Call, Steps
<1>3. k.result = call[c].result /\ k.mode = call[c].mode
      /\ (k.in_transaction <=> call[c].in_transaction)
  BY <1>1 DEF Call
<1>4. call' = [call EXCEPT ![c] = k]
  BY Parts DEF PoolTimeout, LogFails, IInv, ProcessingTypeOK, TypeOK
<1> HIDE DEF k
<1>5. call'[c] = k /\ answers' = answers /\ rows' = rows /\ swallowed' = swallowed \cup {c}
  BY <1>4, Parts DEF PoolTimeout, LogFails
<1>6. free' \in Nat /\ free' + Held(k) = free + Held(call[c])
  <2>1. CASE PoolTimeout(c)
    BY <1>2, <1>3, <2>1, Parts DEF PoolTimeout, At, Held
  <2>2. CASE LogFails(c)
    <3>1. free \in Nat /\ free' = free + 1
      BY <2>2, Parts DEF LogFails
    <3>2. Held(call[c]) = Held(k) + 1 /\ Held(k) \in Nat
      BY <1>2, <1>3, <2>2 DEF LogFails, At, Held
    <3> QED
      BY <3>1, <3>2
  <2> QED
    BY <2>1, <2>2
<1>7. (Ended(c)' <=> Ended(c)) /\ Ended(c)
  BY <1>1, <1>2, <1>3, <1>4, <1>5, SameAnswers, Parts DEF CallInv
<1>8. CallInv(c)'
  BY <1>1, <1>2, <1>3, <1>5, <1>7, Parts DEF CallInv, RowsAfter
<1>9. HintInv(c)'
  BY <1>2, <1>5 DEF HintInv
<1>10. upload[c] = NoUpload \/ upload[c].extraction = "text"
  BY <1>1, Parts DEF UploadInv
<1>11. /\ rows[c] \in Seq(LogRow) /\ rows' = [rows EXCEPT ![c] = rows[c]]
       /\ UNCHANGED <<answers, upload>> /\ swallowed' \in {swallowed, swallowed \cup {c}}
  BY <1>5, Parts
<1> QED
  BY <1>2, <1>3, <1>4, <1>6, <1>7, <1>8, <1>9, <1>10, <1>11, QuietStep

\* The row is written, as the answers want it.
LEMMA CommitLogStep ==
  ASSUME IInv, NEW c \in Calls, CommitLog(c), UNCHANGED upload
  PROVE  IInv'
<1> DEFINE k == [call[c] EXCEPT !.step = "returned"]
           r == Append(rows[c], call[c].entry)
<1>1. call[c] \in Call /\ call[c].step = "writing"
  BY Parts DEF CommitLog, At
<1>2. k \in Call /\ k.step = "returned"
  BY <1>1 DEF Call, Steps
<1>3. k.result = call[c].result /\ k.mode = call[c].mode
      /\ (k.in_transaction <=> call[c].in_transaction)
  BY <1>1 DEF Call
<1>4. call' = [call EXCEPT ![c] = k]
  BY Parts DEF CommitLog, IInv, ProcessingTypeOK, TypeOK
<1> HIDE DEF k
<1>5. /\ call'[c] = k /\ answers' = answers /\ swallowed' \in {swallowed, swallowed \cup {c}}
      /\ rows' = [rows EXCEPT ![c] = r]
  BY <1>4, Parts DEF CommitLog
<1>6. /\ rows[c] = <<>> /\ c \notin swallowed /\ Ended(c) /\ call[c].result \in Typed
      /\ call[c].entry = ExpectedRow(c)
  BY <1>1, Parts DEF CallInv
<1>7. call[c].entry \in LogRow
  <2>1. call[c].entry \in LogRow \cup {None}
    BY <1>1 DEF Call
  <2>2. /\ Len(answers[c]) - 1 \in Nat
        /\ LastAnswer(c) \in {"valid", "invalid", "timeout", "error"}
    <3>1. LastAnswer(c) \in Answers
      BY <1>6, Parts DEF Ended, LastAnswer
    <3>2. call[c].result = ResultOf(LastAnswer(c)) /\ Len(answers[c]) \in 1 .. Bound(c)
      BY <1>6 DEF Ended
    <3> QED
      BY <1>6, <3>1, <3>2 DEF Answers, ResultOf, Typed
  <2> QED
    BY <1>6, <2>2 DEF ExpectedRow, LogRow, Outcomes
<1>8. r \in Seq(LogRow) /\ r = <<call[c].entry>>
  BY <1>6, <1>7
<1>9. rows'[c] = <<call[c].entry>>
  BY <1>5, <1>8, Parts
<1> HIDE DEF r
<1>10. free' \in Nat /\ free' + Held(k) = free + Held(call[c])
  <2>1. free \in Nat /\ free' = free + 1
    BY Parts DEF CommitLog
  <2>2. Held(call[c]) = Held(k) + 1 /\ Held(k) \in Nat
    BY <1>1, <1>2, <1>3 DEF Held
  <2> QED
    BY <2>1, <2>2
<1>11. Ended(c)' /\ ExpectedRow(c)' = call[c].entry
  BY <1>2, <1>3, <1>4, <1>5, <1>6, SameAnswers
<1>12. CallInv(c)'
  <2>1. rows'[c] \in RowsAfter(c)'
    <3>1. call'[c].result \in Typed /\ rows'[c] = <<ExpectedRow(c)>>'
      BY <1>3, <1>5, <1>6, <1>9, <1>11
    <3> QED
      BY <3>1, Zenon DEF RowsAfter
  <2> QED
    BY <1>2, <1>3, <1>5, <1>6, <1>11, <2>1 DEF CallInv
<1>13. HintInv(c)'
  BY <1>2, <1>5 DEF HintInv
<1>14. upload[c] = NoUpload \/ upload[c].extraction = "text"
  BY <1>1, Parts DEF UploadInv
<1>15. UNCHANGED <<answers, upload>> /\ swallowed' \in {swallowed, swallowed \cup {c}}
  BY <1>5
<1> QED
  BY <1>2, <1>3, <1>4, <1>5, <1>8, <1>10, <1>11, <1>12, <1>13, <1>14, <1>15, QuietStep

LEMMA EndTransactionStep ==
  ASSUME IInv, NEW c \in Calls, EndTransaction(c), UNCHANGED upload
  PROVE  IInv'
<1> DEFINE k == [NewCall EXCEPT !.step = "over", !.mode = call[c].mode,
                                !.result = call[c].result]
<1>1. call[c] \in Call /\ call[c].step = "returned"
  BY Parts DEF EndTransaction, At
<1>2. k \in Call /\ k.step = "over" /\ ~k.in_transaction
  BY <1>1 DEF Call, Steps, NewCall
<1>3. k.result = call[c].result /\ k.mode = call[c].mode
  BY <1>1 DEF Call, NewCall
<1>4. call' = [call EXCEPT ![c] = k]
  BY DEF EndTransaction
<1> HIDE DEF k
<1>5. call'[c] = k /\ answers' = answers /\ rows' = rows /\ swallowed' = swallowed
  BY <1>4, Parts DEF EndTransaction
<1>6. free' \in Nat /\ free' + Held(k) = free + Held(call[c])
  <2>1. Held(k) = 0 /\ Held(call[c]) = IF call[c].in_transaction THEN 1 ELSE 0
    BY <1>1, <1>2 DEF Held
  <2>2. CASE call[c].in_transaction
    BY <2>1, <2>2, Parts DEF EndTransaction
  <2>3. CASE ~call[c].in_transaction
    BY <2>1, <2>3, Parts DEF EndTransaction
  <2> QED
    BY <2>2, <2>3
<1>7. (Ended(c)' <=> Ended(c)) /\ ExpectedRow(c)' = ExpectedRow(c)
  BY <1>2, <1>3, <1>4, <1>5, SameAnswers
<1>8. CallInv(c)'
  BY <1>1, <1>2, <1>3, <1>5, <1>7, Parts DEF CallInv, RowsAfter
<1>9. HintInv(c)'
  BY <1>2, <1>5 DEF HintInv
<1>10. /\ upload[c] # NoUpload /\ upload[c].extraction = "text" => Ended(c)'
       /\ upload[c] # NoUpload /\ upload[c].extraction # "text" => k.result = None
  BY <1>1, <1>3, <1>7, Parts DEF UploadInv
<1>11. /\ rows[c] \in Seq(LogRow) /\ rows' = [rows EXCEPT ![c] = rows[c]]
       /\ UNCHANGED <<answers, upload>> /\ swallowed' \in {swallowed, swallowed \cup {c}}
  BY <1>5, Parts
<1> QED
  BY <1>2, <1>3, <1>4, <1>6, <1>8, <1>9, <1>10, <1>11, QuietStep

-----------------------------------------------------------------------------
(* Every step.                                                             *)

LEMMA ProviderStep ==
  ASSUME IInv, NEW c \in Calls, Provider(c), UNCHANGED upload
  PROVE  IInv'
<1> USE DEF ResultOf
<1>1. call[c].hint \in BOOLEAN
  BY Parts DEF Call
<1>2. ASSUME NEW answer \in Answers, Answered(c, answer), Streams(c)
      PROVE  call[c].attempt = 0 /\ Bound(c) = 1 /\ ~Completes(c)
  BY <1>2, Waiting DEF Streams, Completes
<1>3. ASSUME ~AttemptsLeft(c), Completes(c)
      PROVE  call[c].attempt + 1 >= Bound(c)
  BY <1>3, Parts DEF Call, AttemptsLeft, MaxAttempts, Bound, Streams, Completes
<1>4. CASE CompleteValid(c)
  BY <1>4, LogStep DEF CompleteValid
<1>5. CASE CompleteInvalid(c)
  <2>1. CASE AttemptsLeft(c) /\ TryAgain(c, TRUE)
    BY <1>5, <2>1, TryAgainStep DEF CompleteInvalid
  <2>2. CASE ~AttemptsLeft(c) /\ LogAndGive(c, TRUE, "invalid_schema", "known", "AISchemaError")
    BY <1>3, <1>5, <2>2, LogStep DEF CompleteInvalid
  <2> QED
    BY <1>5, <2>1, <2>2 DEF CompleteInvalid
<1>6. CASE CompleteTimeout(c)
  BY <1>1, <1>6, LogStep DEF CompleteTimeout
<1>7. CASE CompleteError(c)
  <2>1. CASE AttemptsLeft(c) /\ TryAgain(c, call[c].hint)
    BY <1>1, <1>7, <2>1, TryAgainStep DEF CompleteError
  <2>2. CASE ~AttemptsLeft(c)
               /\ LogAndGive(c, call[c].hint, "failed", None, "AIProviderError")
    BY <1>1, <1>3, <1>7, <2>2, LogStep DEF CompleteError
  <2> QED
    BY <1>7, <2>1, <2>2 DEF CompleteError
<1>8. CASE Untyped(c)
  BY <1>8, UntypedStep
<1>9. CASE Delta(c)
  BY <1>9, DeltaStep
<1>10. CASE StreamValid(c)
  BY <1>2, <1>10, LogStep DEF StreamValid, Answers
<1>11. CASE StreamInvalid(c)
  <2>1. Answered(c, "invalid") /\ Streams(c)
        /\ LogAndGive(c, FALSE, "invalid_schema", None, "AISchemaError")
    BY <1>11 DEF StreamInvalid
  <2>2. call[c].attempt + 1 >= Bound(c) /\ ~Completes(c)
    BY <1>2, <2>1 DEF Answers
  <2> QED
    BY <2>1, <2>2, LogStep
<1>12. CASE StreamTimeout(c)
  <2>1. Answered(c, "timeout") /\ Streams(c)
        /\ LogAndGive(c, FALSE, "timeout", None, "AITimeoutError")
    BY <1>12 DEF StreamTimeout
  <2>2. call[c].attempt + 1 >= Bound(c) /\ ~Completes(c)
    BY <1>2, <2>1 DEF Answers
  <2> QED
    BY <2>1, <2>2, LogStep
<1>13. CASE StreamError(c)
  <2>1. Answered(c, "error") /\ Streams(c)
        /\ LogAndGive(c, FALSE, "failed", None, "AIProviderError")
    BY <1>13 DEF StreamError
  <2>2. call[c].attempt + 1 >= Bound(c) /\ ~Completes(c)
    BY <1>2, <2>1 DEF Answers
  <2> QED
    BY <2>1, <2>2, LogStep
<1> QED
  BY <1>4, <1>5, <1>6, <1>7, <1>8, <1>9, <1>10, <1>11, <1>12, <1>13 DEF Provider

LEMMA NextIInv == IInv /\ [ProcessingNext]_<<vars, upload>> => IInv'
<1> SUFFICES ASSUME IInv, [ProcessingNext]_<<vars, upload>> PROVE IInv'
  OBVIOUS
<1>1. CASE UNCHANGED <<vars, upload>>
  <2>1. call' = call /\ answers' = answers /\ rows' = rows /\ swallowed' = swallowed /\ free' = free
        /\ upload' = upload
    BY <1>1 DEF vars
  <2>2. ProcessingTypeOK' /\ ConnectionsConserved'
    BY <2>1 DEF IInv, ProcessingTypeOK, TypeOK, ConnectionsConserved, At
  <2>3. ASSUME NEW c \in Calls PROVE CallInv(c)'
    <3>1. LastAnswer(c)' = LastAnswer(c) /\ Bound(c)' = Bound(c)
          /\ (Streams(c)' <=> Streams(c)) /\ (Completes(c)' <=> Completes(c))
      BY <2>1 DEF LastAnswer, Bound, Streams, Completes
    <3>2. (Ended(c)' <=> Ended(c)) /\ ExpectedRow(c)' = ExpectedRow(c)
      BY <2>1, <3>1 DEF Ended, ExpectedRow
    <3> QED
      BY <2>1, <3>1, <3>2, Parts DEF CallInv, RowsAfter
  <2>4. ASSUME NEW c \in Calls PROVE HintInv(c)'
    <3>1. HintInv(c)
      BY Parts
    <3> QED
      BY <2>1, <3>1, Zenon DEF HintInv
  <2>5. ASSUME NEW c \in Calls PROVE UploadInv(c)'
    BY <2>1, Parts DEF UploadInv, Ended, Bound, LastAnswer, Streams, Completes
  <2> QED
    BY <2>2, <2>3, <2>4, <2>5 DEF IInv
<1>2. ASSUME NEW c \in Calls, NEW file \in Uploads, NEW held \in BOOLEAN,
             Process(c, file, held)
      PROVE  IInv'
  <2> DEFINE u == [file |-> file, extraction |-> ExtractText(file)]
  <2>1. upload' = [upload EXCEPT ![c] = u]
    BY <1>2 DEF Process
  <2>2. CASE Structure(c, held, ExtractText(file))
    <3>1. Begin(c, "complete", held) /\ ExtractText(file) = "text"
      BY <2>2 DEF Structure
    <3>2. u \in [file : Uploads, extraction : Extractions] /\ u.extraction = "text"
          /\ u.file = file
      BY <3>1 DEF Extractions
    <3> HIDE DEF u
    <3> QED
      BY <2>1, <3>1, <3>2, BeginStep
  <2>3. CASE Refuse(c, held, ExtractText(file))
    BY <2>1, <2>3, RefuseStep
  <2> QED
    BY <1>2, <2>2, <2>3 DEF Process
<1>3. ASSUME NEW c \in Calls, NEW held \in BOOLEAN, BeginStream(c, held)
      PROVE  IInv'
  <2>1. Begin(c, "stream", held) /\ upload' = upload
    BY <1>3 DEF BeginStream
  <2>2. call[c].step = "new" /\ CallInv(c) /\ upload = [upload EXCEPT ![c] = upload[c]]
    BY <2>1, Parts DEF Begin, At
  <2>3. upload[c] = NoUpload
    BY <2>2 DEF CallInv
  <2>4. upload' = [upload EXCEPT ![c] = NoUpload]
    BY <2>1, <2>2, <2>3
  <2> QED
    BY <2>1, <2>4, BeginStep
<1>4. ASSUME NEW c \in Calls, Proceed(c)
      PROVE  IInv'
  BY <1>4, ProviderStep, ResumeStep, AbandonStep, OpenLogSessionStep, LostStep,
     CommitLogStep, EndTransactionStep DEF Proceed, Client
<1> QED
  BY <1>1, <1>2, <1>3, <1>4 DEF ProcessingNext

-----------------------------------------------------------------------------
(* At every step of every call, complete or stream, the frame of the       *)
(* client agrees with the answers of the provider, the row with the frame, *)
(* and the pool with the connections the calls hold.                       *)
THEOREM SpecIInv == ProcessingSpec => []IInv
<1>1. ProcessingInit => IInv
  BY InitIInv
<1>2. IInv /\ [ProcessingNext]_<<vars, upload>> => IInv'
  BY NextIInv
<1> QED
  BY <1>1, <1>2, PTL DEF ProcessingSpec

(* The frames, answers, rows and uploads are what the code can hold.       *)
THEOREM TypeCorrect == ProcessingSpec => []ProcessingTypeOK
<1>1. IInv => ProcessingTypeOK
  BY DEF IInv
<1> QED
  BY <1>1, SpecIInv, PTL

(* The one row of a call has the outcome, the tokens and the retry_count   *)
(* of the answers the provider gave, whatever their number and order       *)
(* (complete_structured, stream_structured, _log).                         *)
THEOREM RowsTellOutcomes == ProcessingSpec => []RowTellsOutcome
<1>1. IInv => RowTellsOutcome
  <2> SUFFICES ASSUME IInv, NEW c \in Calls
               PROVE  rows[c] \in IF call[c].step \in {"returned", "over"}
                                    THEN RowsAfter(c) ELSE {<<>>}
    BY DEF RowTellsOutcome
  <2>1. call[c] \in Call /\ CallInv(c)
    BY Parts
  <2> QED
    BY <2>1 DEF CallInv, Call, Steps
<1> QED
  BY <1>1, SpecIInv, PTL

(* No path through a call, its row and the transaction of its caller loses *)
(* or doubles a connection of the pool, whatever its size.                 *)
THEOREM PoolIsConserved == ProcessingSpec => []ConnectionsConserved
<1>1. IInv => ConnectionsConserved
  BY DEF IInv
<1> QED
  BY <1>1, SpecIInv, PTL

(* A request is repeated only after invalid text or a provider error, at   *)
(* most max_retries times and never by a stream; an instance is only given *)
(* for valid text (complete_structured).                                   *)
THEOREM RetriesAreJustified == ProcessingSpec => []AttemptsJustified
<1>1. IInv => AttemptsJustified
  <2> SUFFICES ASSUME IInv, NEW c \in Calls
               PROVE  LET n == Len(answers[c]) IN
                      /\ n <= IF Streams(c) THEN 1 ELSE MaxAttempts
                      /\ \A i \in 1 .. n - 1 : answers[c][i] \in {"invalid", "error"}
                      /\ call[c].result = "validated" => LastAnswer(c) = "valid"
                      /\ call[c].result \in {"AISchemaError", "AIProviderError"} =>
                           n = IF Streams(c) THEN 1 ELSE MaxAttempts
    BY DEF AttemptsJustified
  <2> DEFINE n == Len(answers[c])
  <2>1. call[c] \in Call /\ CallInv(c) /\ answers[c] \in Seq(Answers) /\ n \in Nat
    BY Parts
  <2>2. Bound(c) \in Nat /\ Bound(c) > 0
    BY DEF Bound, MaxAttempts
  <2>3. CASE call[c].step \in {"new", "waiting", "yielded"}
    BY <2>1, <2>2, <2>3 DEF CallInv, Results, Bound
  <2>4. CASE Ended(c)
    <3>1. LastAnswer(c) \in Answers
      BY <2>1, <2>2, <2>4 DEF Ended, LastAnswer
    <3> QED
      BY <2>1, <2>2, <2>4, <3>1 DEF Ended, ResultOf, Answers, Bound
  <2>5. CASE answers[c] = <<>> /\ call[c].result \in {None, "abandoned"}
    BY <2>2, <2>5 DEF Bound, Results
  <2> QED
    BY <2>1, <2>3, <2>4, <2>5 DEF CallInv, Call, Steps
<1> QED
  BY <1>1, SpecIInv, PTL

(* The request to come carries the corrective turn exactly if the provider *)
(* has answered this call with invalid text, through any number of errors  *)
(* in between (complete_structured).                                       *)
THEOREM HintsAreJustified == ProcessingSpec => []HintAfterInvalid
<1>1. IInv => HintAfterInvalid
  BY Zenon DEF IInv, HintInv, HintAfterInvalid, At
<1> QED
  BY <1>1, SpecIInv, PTL

(* The outcome of an upload tells its cause, whatever the files are and    *)
(* however the steps of their processing fall: the provider is asked, and  *)
(* a row written, only for a sound file (process_resume).                  *)
THEOREM OutcomesTellCauses == ProcessingSpec => []OutcomeTellsCause
<1>1. IInv => OutcomeTellsCause
  <2> SUFFICES ASSUME IInv PROVE OutcomeTellsCause
    OBVIOUS
  <2>1. ASSUME NEW file \in File
        PROVE  /\ Sound(file) <=> ExtractText(file) = "text"
               /\ ~Sound(file) =>
                    ExtractText(file) =
                      IF ~file.within_limit \/ file.mime # file.extension
                           \/ file.mime = "other" THEN "InvalidFileTypeError"
                      ELSE IF file.body = "malformed" THEN "untyped"
                      ELSE "ExtractionError"
    <3>1. /\ file.within_limit \in BOOLEAN /\ file.mime \in {"pdf", "docx", "other"}
          /\ file.extension \in {"pdf", "docx", "other"}
          /\ file.body \in {"text", "blank", "encrypted", "damaged", "malformed"}
      BY DEF File, Formats
    <3>2. CASE file.within_limit /\ file.mime \in Formats /\ file.extension = file.mime
      <4>1. Sound(file) <=> file.body = "text"
        BY <3>2 DEF Sound, Formats
      <4>2. ExtractText(file) = Extracted(file.body)
        BY <3>2 DEF ExtractText
      <4>3. file.mime # "other"
        BY <3>2 DEF Formats
      <4> QED
        BY <3>1, <3>2, <4>1, <4>2, <4>3 DEF Extracted
    <3>3. CASE ~(file.within_limit /\ file.mime \in Formats /\ file.extension = file.mime)
      <4>1. ExtractText(file) = "InvalidFileTypeError"
        BY <3>3 DEF ExtractText
      <4>2. ~Sound(file)
        BY <3>3 DEF Sound, Formats
      <4>3. ~file.within_limit \/ file.mime # file.extension \/ file.mime = "other"
        BY <3>1, <3>3 DEF Formats
      <4> QED
        BY <4>1, <4>2, <4>3
    <3> QED
      BY <3>2, <3>3
  <2>2. ASSUME NEW c \in Calls, upload[c] # NoUpload, Sound(upload[c].file),
               call[c].step \in {"returned", "over"}
        PROVE  answers[c] # <<>> /\ (call[c].result = "validated" <=> LastAnswer(c) = "valid")
    <3>1. Ended(c) /\ answers[c] \in Seq(Answers)
      BY <2>1, <2>2, Parts DEF UploadInv
    <3>2. LastAnswer(c) \in Answers /\ answers[c] # <<>>
      BY <3>1 DEF Ended, LastAnswer, Bound, MaxAttempts
    <3> QED
      BY <3>1, <3>2 DEF Ended, ResultOf, Answers
  <2>3. ASSUME NEW c \in Calls, upload[c] # NoUpload, ~Sound(upload[c].file)
        PROVE  /\ call[c].step \in {"returned", "over"} /\ answers[c] = <<>>
               /\ rows[c] = <<>> /\ call[c].result = None
    <3>1. /\ call[c].step \in {"returned", "over"} /\ answers[c] = <<>>
          /\ call[c].result = None
      BY <2>1, <2>3, Parts DEF UploadInv
    <3> QED
      BY <3>1, Parts DEF CallInv, RowsAfter, Typed, Results
  <2>4. ASSUME NEW c \in Calls, upload[c] # NoUpload
        PROVE  upload[c].file \in File /\ upload[c].extraction = ExtractText(upload[c].file)
    BY <2>4, Parts DEF UploadInv
  <2> QED
    BY <2>1, <2>2, <2>3, <2>4 DEF OutcomeTellsCause
<1> QED
  BY <1>1, SpecIInv, PTL

=============================================================================
