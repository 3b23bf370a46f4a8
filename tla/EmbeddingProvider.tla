------------------------- MODULE EmbeddingProvider -------------------------
(***************************************************************************)
(* services/ai/embedding_provider.py: the provider object a process builds *)
(* when it is first asked for it, and the model that object loads when it  *)
(* first embeds something, each under a lock of its own (_provider_lock,   *)
(* self._lock).  Both functions return what they built only after they     *)
(* have left the lock.                                                     *)
(***************************************************************************)
EXTENDS Integers, FiniteSets

CONSTANTS
  Threads,   \* threads that ask for the provider and embed
  Providers, \* provider objects the process may build, in its lifetime
  MaxResets, \* bound: calls of reset_provider_singleton
  None

VARIABLES
  instance,    \* _provider_instance
  lock_holder, \* the thread inside _provider_lock, or None
  provider,    \* the state of each provider object
  user,        \* the frame of each thread
  resets       \* history: resets so far

vars == <<instance, lock_holder, provider, user, resets>>

Provider ==
  [built : BOOLEAN,
   model : BOOLEAN,                  \* self._model is not None
   lock_holder : Threads \cup {None},
   loads : Nat]                      \* history: models loaded

Steps == {"idle",
          "asking",    \* at the door of _provider_lock
          "testing",   \* inside _provider_lock
          "leaving",   \* has left it and not yet read the global again
          "wired",     \* has what get_embedding_provider returned
          "loading",   \* inside self._lock
          "encoding",  \* has the model
          "embedded",
          "failed"}    \* an exception propagates

User == [step : Steps, none_seen : BOOLEAN, using : Providers \cup {None}]

Idle == [step |-> "idle", none_seen |-> FALSE, using |-> None]

TypeOK ==
  /\ instance \in Providers \cup {None}
  /\ lock_holder \in Threads \cup {None}
  /\ provider \in [Providers -> Provider]
  /\ user \in [Threads -> User]
  /\ resets \in 0 .. MaxResets

Init ==
  /\ instance = None
  /\ lock_holder = None
  /\ provider = [p \in Providers |->
                   [built |-> FALSE, model |-> FALSE, lock_holder |-> None, loads |-> 0]]
  /\ user = [t \in Threads |-> Idle]
  /\ resets = 0

At(t, step) == user[t].step = step

-----------------------------------------------------------------------------
(* get_embedding_provider                                                  *)

Ask(t) ==
  /\ At(t, "idle")
  /\ user' = [user EXCEPT ![t].step = "asking"]
  /\ UNCHANGED <<instance, lock_holder, provider, resets>>

Enter(t) ==
  /\ At(t, "asking")
  /\ lock_holder = None
  /\ lock_holder' = t
  /\ user' = [user EXCEPT ![t].step = "testing", ![t].none_seen = instance = None]
  /\ UNCHANGED <<instance, provider, resets>>

\* Builds a provider if there was none, and leaves the lock.
Leave(t) ==
  /\ At(t, "testing")
  /\ lock_holder' = None
  /\ user' = [user EXCEPT ![t].step = "leaving"]
  /\ IF user[t].none_seen
       THEN \E p \in Providers :
              /\ ~provider[p].built
              /\ provider' = [provider EXCEPT ![p].built = TRUE]
              /\ instance' = p
       ELSE UNCHANGED <<instance, provider>>
  /\ UNCHANGED resets

\* The global is read once more: a reset in between makes it None.
Return(t) ==
  /\ At(t, "leaving")
  /\ user' = [user EXCEPT ![t] = [Idle EXCEPT !.step = "wired", !.using = instance]]
  /\ UNCHANGED <<instance, lock_holder, provider, resets>>

\* reset_provider_singleton, the other place that takes the lock.
Reset ==
  /\ resets < MaxResets
  /\ lock_holder = None
  /\ instance' = None
  /\ resets' = resets + 1
  /\ UNCHANGED <<lock_holder, provider, user>>

-----------------------------------------------------------------------------
(* embed_text, and embed_batch, which without texts returns at once        *)

\* None has no method to embed with.
EmbedNowhere(t) ==
  /\ At(t, "wired") /\ user[t].using = None
  /\ user' = [user EXCEPT ![t].step = "failed"]
  /\ UNCHANGED <<instance, lock_holder, provider, resets>>

\* Mutant: self._model is tested before the lock is taken, and not again.
EmbedTestingFirst(t) ==
  LET p == user[t].using IN
  /\ At(t, "wired") /\ p # None
  /\ user' = [user EXCEPT ![t].step = "loading", ![t].none_seen = ~provider[p].model]
  /\ UNCHANGED <<instance, lock_holder, provider, resets>>

\* _load_model takes the lock of its provider.
Embed(t) ==
  LET p == user[t].using IN
  /\ At(t, "wired") /\ p # None
  /\ provider[p].lock_holder = None
  /\ provider' = [provider EXCEPT ![p].lock_holder = t]
  /\ user' = [user EXCEPT ![t].step = "loading", ![t].none_seen = ~provider[p].model]
  /\ UNCHANGED <<instance, lock_holder, resets>>

\* The model is there, or it is loaded and stays.
Load(t) ==
  LET p == user[t].using IN
  /\ At(t, "loading")
  /\ provider' = [provider EXCEPT ![p].model = TRUE, ![p].lock_holder = None,
                                  ![p].loads = IF user[t].none_seen THEN @ + 1 ELSE @]
  /\ user' = [user EXCEPT ![t].step = "encoding"]
  /\ UNCHANGED <<instance, lock_holder, resets>>

\* Mutant: acquire and release without a finally.
LoadFailsHolding(t) ==
  /\ At(t, "loading") /\ user[t].none_seen
  /\ user' = [user EXCEPT ![t].step = "failed"]
  /\ UNCHANGED <<instance, lock_holder, provider, resets>>

\* The import or the constructor raises: the lock is left and _model stays
\* None, so the next call tries again.
LoadFails(t) ==
  /\ At(t, "loading") /\ user[t].none_seen
  /\ provider' = [provider EXCEPT ![user[t].using].lock_holder = None]
  /\ user' = [user EXCEPT ![t].step = "failed"]
  /\ UNCHANGED <<instance, lock_holder, resets>>

\* model.encode
Encode(t) ==
  /\ At(t, "encoding")
  /\ \E step \in {"embedded", "failed"} : user' = [user EXCEPT ![t].step = step]
  /\ UNCHANGED <<instance, lock_holder, provider, resets>>

\* The caller is done with the vectors, or with the exception.
Finish(t) ==
  /\ user[t].step \in {"embedded", "failed"}
  /\ user' = [user EXCEPT ![t] = Idle]
  /\ UNCHANGED <<instance, lock_holder, provider, resets>>

-----------------------------------------------------------------------------
\* What a thread does once it has asked for the provider.
Proceed(t) ==
  \/ Enter(t) \/ Leave(t) \/ Return(t)
  \/ EmbedNowhere(t) \/ Embed(t) \/ Load(t) \/ LoadFails(t) \/ Encode(t)

Next ==
  \/ \E t \in Threads : Ask(t) \/ Proceed(t) \/ Finish(t)
  \/ Reset

Spec == Init /\ [][Next]_vars

-----------------------------------------------------------------------------
Built == {p \in Providers : provider[p].built}

(* "Creates it on first call, reuses on subsequent calls" and "Load the    *)
(* model (thread-safe, once per process)" (embedding_provider.py:104, 56): *)
(* however threads race and loads fail, one provider is built unless the   *)
(* singleton was reset, each loads its model once, whoever has a model     *)
(* has the loaded one, and get_embedding_provider returns None to nobody   *)
(* unless a reset came in between.                                         *)
OneProviderOneModel ==
  /\ Cardinality(Built) <= 1 + resets
  /\ \A p \in Providers : provider[p].loads = IF provider[p].model THEN 1 ELSE 0
  /\ \A t \in Threads :
       /\ At(t, "encoding") => provider[user[t].using].model
       /\ At(t, "wired") /\ user[t].using = None => resets > 0
=============================================================================
