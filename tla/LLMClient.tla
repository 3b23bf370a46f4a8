----------------------------- MODULE LLMClient -----------------------------
(***************************************************************************)
(* services/ai/llm_client.py: the structured calls every AI feature makes, *)
(* with the provider of groq_provider.py behind them, the row each call    *)
(* writes to ai_request_logs in a session of its own, and the connection   *)
(* pool (db/session.py) that session shares with the transactions of the   *)
(* callers.                                                                *)
(*                                                                         *)
(* A call is known by its request_id.  What the provider sends is reduced  *)
(* to what the client distinguishes: text that validates against the       *)
(* schema, text that does not, a timeout, a provider error (_normalize_    *)
(* error gives all of them one type, an upstream 429 or a bad key too),    *)
(* and any other exception, which GroqProvider lets through where it is    *)
(* raised outside its try blocks (building the SDK client, choices[0]).    *)
(***************************************************************************)
EXTENDS Integers, Sequences, FiniteSets

CONSTANTS
  Calls,       \* the calls, by request_id
  MaxRetries,  \* config.max_retries
  MaxDeltas,   \* bound: text chunks of one stream
  PoolSize,    \* connections of the pool, overflow included
  None         \* NULL

ASSUME ConstantsAssumption ==
  /\ MaxRetries \in Int
  /\ MaxDeltas \in Nat
  /\ PoolSize \in Nat \ {0}
  /\ IsFiniteSet(Calls)

\* _max_attempts
MaxAttempts == 1 + (IF MaxRetries > 0 THEN MaxRetries ELSE 0)

Answers == {"valid", "invalid", "timeout", "error", "untyped"}
Outcomes == {"success", "retry_success", "failed", "timeout", "invalid_schema"}
Results == {"validated", "AISchemaError", "AIProviderError", "AITimeoutError",
            "untyped", "abandoned"}

ASSUME NoneAssumption == None \notin Results

Steps == {"new",       \* not made yet
          "waiting",   \* the provider works
          "yielded",   \* the consumer of a stream has the last delta
          "logging",   \* _log asks the pool for a connection
          "writing",   \* _log inserts and commits
          "returned",  \* back in the caller, whose transaction may be open
          "over"}      \* the caller's transaction has ended

\* A row of ai_request_logs: the columns the client computes.
LogRow == [outcome : Outcomes, tokens : {"known", None}, retry_count : Nat]

VARIABLES
  call,    \* what each call's frame holds
  answers, \* history: what the provider sent to each call, in order
  rows,    \* the committed rows of ai_request_logs, by request_id
  swallowed, \* history: the calls for which _log has swallowed a failure
  free     \* connections that are not checked out

vars == <<call, answers, rows, swallowed, free>>

Call ==
  [step : Steps, mode : {"complete", "stream"},
   in_transaction : BOOLEAN,             \* the caller holds a connection
   attempt : Nat, deltas : Nat,
   hint : BOOLEAN,                       \* corrective_hint is not None
   entry : LogRow \cup {None},           \* the arguments of _log
   result : Results \cup {None}]

NewCall ==
  [step |-> "new", mode |-> "complete", in_transaction |-> FALSE, attempt |-> 0,
   deltas |-> 0, hint |-> FALSE, entry |-> None, result |-> None]

TypeOK ==
  /\ call \in [Calls -> Call]
  /\ answers \in [Calls -> Seq(Answers)]
  /\ rows \in [Calls -> Seq(LogRow)]
  /\ swallowed \subseteq Calls
  /\ free \in 0 .. PoolSize

Init ==
  /\ call = [c \in Calls |-> NewCall]
  /\ answers = [c \in Calls |-> <<>>]
  /\ rows = [c \in Calls |-> <<>>]
  /\ swallowed = {}
  /\ free = PoolSize

At(c, step) == call[c].step = step
Completes(c) == call[c].mode = "complete"
Streams(c) == call[c].mode = "stream"

-----------------------------------------------------------------------------
(* A caller makes the call, with or without a transaction open.            *)

Begin(c, mode, in_transaction) ==
  /\ At(c, "new")
  /\ in_transaction => free > 0
  /\ free' = IF in_transaction THEN free - 1 ELSE free
  /\ call' = [call EXCEPT ![c].step = "waiting", ![c].mode = mode,
                          ![c].in_transaction = in_transaction]
  /\ UNCHANGED <<answers, rows, swallowed>>

Answered(c, answer) ==
  /\ At(c, "waiting")
  /\ answers' = [answers EXCEPT ![c] = Append(@, answer)]
  /\ UNCHANGED <<rows, swallowed, free>>

\* _log is called, and then the result goes to the caller.
LogAndGive(c, hint, outcome, tokens, result) ==
  call' = [call EXCEPT ![c].step = "logging", ![c].hint = hint,
             ![c].entry = [outcome |-> outcome, tokens |-> tokens,
                           retry_count |-> call[c].attempt],
             ![c].result = result]

TryAgain(c, hint) ==
  call' = [call EXCEPT ![c].attempt = @ + 1, ![c].hint = hint]

\* Mutant: one attempt too many.
AttemptsLeftInclusive(c) == call[c].attempt < MaxAttempts

AttemptsLeft(c) == call[c].attempt < MaxAttempts - 1

\* What propagates without passing _log.
Leave(c, result) ==
  call' = [call EXCEPT ![c].step = "returned", ![c].result = result]

-----------------------------------------------------------------------------
(* complete_structured                                                     *)

CompleteValid(c) ==
  /\ Completes(c)
  /\ Answered(c, "valid")
  /\ LogAndGive(c, FALSE,
                IF call[c].attempt = 0 THEN "success" ELSE "retry_success",
                "known", "validated")

\* The hint of this failure replaces the one of an earlier attempt.
CompleteInvalid(c) ==
  /\ Completes(c)
  /\ Answered(c, "invalid")
  /\ \/ AttemptsLeft(c) /\ TryAgain(c, TRUE)
     \/ /\ ~AttemptsLeft(c)
        /\ LogAndGive(c, TRUE, "invalid_schema", "known", "AISchemaError")

\* Mutant: a timeout is raised without its row.
CompleteTimeoutUnlogged(c) ==
  /\ Completes(c)
  /\ Answered(c, "timeout")
  /\ Leave(c, "AITimeoutError")

\* The provider's own exception is raised again.
CompleteTimeout(c) ==
  /\ Completes(c)
  /\ Answered(c, "timeout")
  /\ LogAndGive(c, call[c].hint, "timeout", None, "AITimeoutError")

\* Mutant: a provider error forgets the corrective hint.
CompleteErrorForgetful(c) ==
  /\ Completes(c)
  /\ Answered(c, "error")
  /\ \/ AttemptsLeft(c) /\ TryAgain(c, FALSE)
     \/ /\ ~AttemptsLeft(c)
        /\ LogAndGive(c, FALSE, "failed", None, "AIProviderError")

\* Every AIProviderError is tried again, with the hint there was.
CompleteError(c) ==
  /\ Completes(c)
  /\ Answered(c, "error")
  /\ \/ AttemptsLeft(c) /\ TryAgain(c, call[c].hint)
     \/ /\ ~AttemptsLeft(c)
        /\ LogAndGive(c, call[c].hint, "failed", None, "AIProviderError")

\* A stream normalises what is raised once the SDK client is built.
Untyped(c) ==
  /\ Streams(c) => call[c].deltas = 0
  /\ Answered(c, "untyped")
  /\ Leave(c, "untyped")

-----------------------------------------------------------------------------
(* stream_structured: a generator, suspended at every yield.               *)

Delta(c) ==
  /\ Streams(c) /\ At(c, "waiting")
  /\ call[c].deltas < MaxDeltas
  /\ call' = [call EXCEPT ![c].step = "yielded", ![c].deltas = @ + 1]
  /\ UNCHANGED <<answers, rows, swallowed, free>>

Resume(c) ==
  /\ At(c, "yielded")
  /\ call' = [call EXCEPT ![c].step = "waiting"]
  /\ UNCHANGED <<answers, rows, swallowed, free>>

\* The consumer closes the generator: GeneratorExit is no typed error.
Abandon(c) ==
  /\ At(c, "yielded")
  /\ Leave(c, "abandoned")
  /\ UNCHANGED <<answers, rows, swallowed, free>>

StreamValid(c) ==
  /\ Streams(c)
  /\ Answered(c, "valid")
  /\ LogAndGive(c, FALSE, "success", None, "validated")

StreamInvalid(c) ==
  /\ Streams(c)
  /\ Answered(c, "invalid")
  /\ LogAndGive(c, FALSE, "invalid_schema", None, "AISchemaError")

StreamTimeout(c) ==
  /\ Streams(c)
  /\ Answered(c, "timeout")
  /\ LogAndGive(c, FALSE, "timeout", None, "AITimeoutError")

StreamError(c) ==
  /\ Streams(c)
  /\ Answered(c, "error")
  /\ LogAndGive(c, FALSE, "failed", None, "AIProviderError")

-----------------------------------------------------------------------------
(* _log: a session of its own, whose failures are swallowed.               *)

\* Mutant: a session is opened whether or not the pool has a connection.
OpenLogSessionUnbounded(c) ==
  /\ At(c, "logging")
  /\ free' = free - 1
  /\ call' = [call EXCEPT ![c].step = "writing"]
  /\ UNCHANGED <<answers, rows, swallowed>>

OpenLogSession(c) ==
  /\ At(c, "logging")
  /\ free > 0
  /\ free' = free - 1
  /\ call' = [call EXCEPT ![c].step = "writing"]
  /\ UNCHANGED <<answers, rows, swallowed>>

\* Mutant: the pool waits for ever.
PoolTimeoutNever(c) == FALSE

\* The pool gives up after its timeout when no connection came back.
PoolTimeout(c) ==
  /\ At(c, "logging")
  /\ free = 0
  /\ swallowed' = swallowed \cup {c}
  /\ call' = [call EXCEPT ![c].step = "returned"]
  /\ UNCHANGED <<answers, rows, free>>

\* The answer to the COMMIT may be lost, which _log takes for a failure.
CommitLog(c) ==
  /\ At(c, "writing")
  /\ rows' = [rows EXCEPT ![c] = Append(@, call[c].entry)]
  /\ free' = free + 1
  /\ call' = [call EXCEPT ![c].step = "returned"]
  /\ swallowed' \in {swallowed, swallowed \cup {c}}
  /\ UNCHANGED answers

\* Mutant: the session is not closed when the INSERT fails.
LogFailsLeaking(c) ==
  /\ At(c, "writing")
  /\ swallowed' = swallowed \cup {c}
  /\ call' = [call EXCEPT ![c].step = "returned"]
  /\ UNCHANGED <<answers, rows, free>>

LogFails(c) ==
  /\ At(c, "writing")
  /\ swallowed' = swallowed \cup {c}
  /\ free' = free + 1
  /\ call' = [call EXCEPT ![c].step = "returned"]
  /\ UNCHANGED <<answers, rows>>

\* get_session commits or rolls back the caller's transaction and closes it.
\* Of the frame of the call only the history is left.
EndTransaction(c) ==
  /\ At(c, "returned")
  /\ free' = IF call[c].in_transaction THEN free + 1 ELSE free
  /\ call' = [call EXCEPT ![c] = [NewCall EXCEPT !.step = "over", !.mode = call[c].mode,
                                                 !.result = call[c].result]]
  /\ UNCHANGED <<answers, rows, swallowed>>

-----------------------------------------------------------------------------
Provider(c) ==
  \/ CompleteValid(c) \/ CompleteInvalid(c) \/ CompleteTimeout(c) \/ CompleteError(c)
  \/ Untyped(c) \/ Delta(c)
  \/ StreamValid(c) \/ StreamInvalid(c) \/ StreamTimeout(c) \/ StreamError(c)

Client(c) ==
  \/ OpenLogSession(c) \/ PoolTimeout(c) \/ CommitLog(c) \/ LogFails(c)
  \/ EndTransaction(c)

Next ==
  \E c \in Calls :
    \/ \E mode \in {"complete", "stream"}, held \in BOOLEAN : Begin(c, mode, held)
    \/ Provider(c)
    \/ Resume(c) \/ Abandon(c)
    \/ Client(c)

Spec == Init /\ [][Next]_vars

\* The provider answers, if only because its timeout expires; the consumer of
\* a stream asks for more or closes it; the thread of the call is scheduled.
FairSpec ==
  /\ Spec
  /\ \A c \in Calls : WF_vars(Provider(c) \/ Resume(c) \/ Abandon(c) \/ Client(c))

-----------------------------------------------------------------------------
Typed == {"validated", "AISchemaError", "AIProviderError", "AITimeoutError"}

LastAnswer(c) == answers[c][Len(answers[c])]

\* What the row of a call must say, by the answers alone.
ExpectedRow(c) ==
  LET n == Len(answers[c]) IN
  [outcome |-> CASE LastAnswer(c) = "valid" -> IF n = 1 THEN "success" ELSE "retry_success"
                 [] LastAnswer(c) = "invalid" -> "invalid_schema"
                 [] LastAnswer(c) = "timeout" -> "timeout"
                 [] LastAnswer(c) = "error" -> "failed",
   tokens |-> IF Completes(c) /\ LastAnswer(c) \in {"valid", "invalid"}
                THEN "known" ELSE None,
   retry_count |-> n - 1]

\* What may be stored of a call that has ended.
RowsAfter(c) ==
  IF call[c].result \notin Typed THEN {<<>>}
  ELSE IF c \in swallowed THEN {<<>>, <<ExpectedRow(c)>>} ELSE {<<ExpectedRow(c)>>}

(* Every call that ends in a validated instance or a typed error has one   *)
(* row, unless _log swallowed a failure, and no other call has any (the    *)
(* row of a call in progress comes at its end).  Its outcome, tokens and   *)
(* retry_count are those of the answers the provider really gave.          *)
(* "Exactly one metadata-only ai_request_logs row is written per call"     *)
(* (llm_client.py:13) holds only so far: a call that an untyped exception  *)
(* ends (no API key, groq_provider.py:73; no choices in the response, :89) *)
(* writes no row, nor does a stream that is abandoned.                     *)
RowTellsOutcome ==
  \A c \in Calls :
    rows[c] \in IF call[c].step \in {"returned", "over"} THEN RowsAfter(c) ELSE {<<>>}

(* Attempts are bounded and justified: a further request is only sent      *)
(* after invalid text or a provider error, never after a timeout and never *)
(* by a stream; the caller gets an instance only if the last text was      *)
(* valid.  The bound is that of _max_attempts, 1 + max_retries.  The "at   *)
(* most two provider calls" of llm_client.py:11 and :163 hold for the      *)
(* default max_retries = 1 only: the setting has no upper limit.           *)
AttemptsJustified ==
  \A c \in Calls :
    LET n == Len(answers[c]) IN
    /\ n <= IF Streams(c) THEN 1 ELSE MaxAttempts
    /\ \A i \in 1 .. n - 1 : answers[c][i] \in {"invalid", "error"}
    /\ call[c].result = "validated" => LastAnswer(c) = "valid"
    /\ call[c].result \in {"AISchemaError", "AIProviderError"} =>
         n = IF Streams(c) THEN 1 ELSE MaxAttempts

(* The request carries the corrective turn exactly if an earlier answer to *)
(* the same call was invalid, also when a provider error came in between.  *)
HintAfterInvalid ==
  \A c \in Calls : At(c, "waiting") /\ Completes(c) =>
    (call[c].hint <=> \E i \in 1 .. Len(answers[c]) : answers[c][i] = "invalid")

(* No path through a call, its logging and its caller's transaction leaks  *)
(* or doubles a connection.                                                *)
ConnectionsConserved ==
  free + Cardinality({c \in Calls : call[c].in_transaction})
       + Cardinality({c \in Calls : At(c, "writing")}) = PoolSize

(* Every call that begins ends, and with it the caller's transaction, also *)
(* when the transactions of the callers have taken the whole pool.         *)
CallsEnd == \A c \in Calls : At(c, "waiting") ~> At(c, "over")

-----------------------------------------------------------------------------
(* What the texts of the repository say, and the code does not do.         *)

(* "One log row is written in all cases" of a stream                       *)
(* (llm_client.py:282-283).                                                *)
EveryStreamIsLogged ==
  \A c \in Calls :
    /\ Streams(c) /\ call[c].step \in {"returned", "over"}
    /\ call[c].result # "untyped" /\ c \notin swallowed
    => Len(rows[c]) = 1
=============================================================================
