------------------------ MODULE RagRetrieval_proofs ------------------------
(***************************************************************************)
(* What RagRetrieval promises for any number of threads, resets, ingests,  *)
(* files and chunks: one provider and one model, however threads race, and *)
(* citations that are true of what some run ingested.                      *)
(***************************************************************************)
EXTENDS MCRagRetrieval, FiniteSetTheorems, Loops

USE ProvidersAssumption

-----------------------------------------------------------------------------
(* The provider and its model.                                             *)

\* A thread that tests the singleton is inside the lock, so what it saw holds.
DoorInv ==
  \A t \in Threads : user[t].step = "testing" =>
    /\ lock_holder = t
    /\ \/ user[t].none_seen = TRUE /\ instance = None
       \/ user[t].none_seen = FALSE /\ instance # None

\* Each provider but the present one has been reset away.
BuiltInv ==
  /\ IsFiniteSet(Embedding!Built)
  /\ instance = None => Cardinality(Embedding!Built) <= resets
  /\ Cardinality(Embedding!Built) <= resets + 1

\* A thread that loads is inside the lock of its provider.
LoadInv ==
  \A t \in Threads : user[t].step = "loading" =>
    /\ user[t].using \in Providers
    /\ provider[user[t].using].lock_holder = t
    /\ \/ user[t].none_seen = TRUE /\ provider[user[t].using].model = FALSE
       \/ user[t].none_seen = FALSE /\ provider[user[t].using].model = TRUE

ModelInv ==
  /\ \A p \in Providers : \/ provider[p].model = TRUE /\ provider[p].loads = 1
                          \/ provider[p].model = FALSE /\ provider[p].loads = 0
  /\ \A t \in Threads : user[t].step = "encoding" =>
       user[t].using \in Providers /\ provider[user[t].using].model = TRUE

\* Only a reset makes the global None again.
NoneInv ==
  \A t \in Threads :
    /\ user[t].step = "leaving" => instance # None \/ resets > 0
    /\ user[t].step = "wired" => user[t].using # None \/ resets > 0

ProviderInv ==
  Embedding!TypeOK /\ DoorInv /\ BuiltInv /\ LoadInv /\ ModelInv /\ NoneInv

\* What each part of the invariant is about.
LEMMA Typing ==
  ASSUME Embedding!TypeOK
  PROVE  /\ instance \in Providers \cup {None} /\ lock_holder \in Threads \cup {None}
         /\ provider \in [Providers -> Embedding!Provider]
         /\ user \in [Threads -> Embedding!User] /\ resets \in Nat
         /\ resets \in 0 .. MaxResets
BY DEF Embedding!TypeOK

LEMMA SameBuilt ==
  ASSUME BuiltInv, resets' = resets, instance' = instance,
         \A p \in Providers : provider'[p].built = provider[p].built
  PROVE  BuiltInv'
<1>1. Embedding!Built' = Embedding!Built
  BY DEF Embedding!Built
<1> QED
  BY <1>1 DEF BuiltInv

\* Steps of a thread that leave the lock, the global and the models alone.
LEMMA UserStep ==
  ASSUME ProviderInv, NEW t \in Threads, NEW u \in Embedding!User,
         user' = [user EXCEPT ![t] = u],
         UNCHANGED <<instance, lock_holder, provider, resets>>,
         u.step \notin {"testing", "leaving", "loading", "encoding"},
         u.step = "wired" => u.using # None \/ resets > 0
  PROVE  ProviderInv'
<1>1. /\ Embedding!TypeOK /\ DoorInv /\ BuiltInv /\ LoadInv /\ ModelInv /\ NoneInv
      /\ user \in [Threads -> Embedding!User]
  BY Typing DEF ProviderInv
<1>2. user' \in [Threads -> Embedding!User] /\ user'[t] = u
      /\ \A q \in Threads \ {t} : user'[q] = user[q]
  BY <1>1
<1>3. Embedding!TypeOK'
  BY <1>1, <1>2 DEF Embedding!TypeOK
<1>4. DoorInv' /\ LoadInv'
  BY <1>1, <1>2 DEF DoorInv, LoadInv
<1>5. ModelInv' /\ NoneInv'
  BY <1>1, <1>2 DEF ModelInv, NoneInv
<1> QED
  BY <1>1, <1>3, <1>4, <1>5, SameBuilt DEF ProviderInv

LEMMA AskStep ==
  ASSUME ProviderInv, NEW t \in Threads, Embedding!Ask(t) PROVE ProviderInv'
<1> DEFINE u == [user[t] EXCEPT !.step = "asking"]
<1>1. user \in [Threads -> Embedding!User]
  BY Typing DEF ProviderInv
<1>2. /\ u \in Embedding!User /\ u.step = "asking" /\ user' = [user EXCEPT ![t] = u]
      /\ UNCHANGED <<instance, lock_holder, provider, resets>>
  BY <1>1 DEF Embedding!Ask, Embedding!User, Embedding!Steps
<1> HIDE DEF u
<1> QED
  BY <1>2, UserStep

LEMMA EnterStep ==
  ASSUME ProviderInv, NEW t \in Threads, Embedding!Enter(t) PROVE ProviderInv'
<1> DEFINE seen == instance = None
<1>1. /\ Embedding!TypeOK /\ DoorInv /\ BuiltInv /\ LoadInv /\ ModelInv /\ NoneInv
      /\ user \in [Threads -> Embedding!User]
  BY Typing DEF ProviderInv
<1>2. /\ lock_holder = None /\ lock_holder' = t /\ UNCHANGED <<instance, provider, resets>>
      /\ user' = [user EXCEPT ![t].step = "testing", ![t].none_seen = seen]
  BY DEF Embedding!Enter
<1>3. /\ seen \in BOOLEAN
      /\ \/ seen = TRUE /\ instance = None
         \/ seen = FALSE /\ instance # None
  OBVIOUS
<1> HIDE DEF seen
<1>4. /\ \A q \in Threads \ {t} : user'[q] = user[q]
      /\ user'[t].step = "testing" /\ user'[t].none_seen = seen
      /\ user' \in [Threads -> Embedding!User]
  BY <1>1, <1>2, <1>3, ZenonT(60) DEF Embedding!User, Embedding!Steps
<1>5. Embedding!TypeOK'
  BY <1>1, <1>2, <1>4 DEF Embedding!TypeOK
<1>6. DoorInv'
  BY <1>1, <1>2, <1>3, <1>4 DEF DoorInv
<1>7. LoadInv' /\ ModelInv' /\ NoneInv'
  BY <1>1, <1>2, <1>4 DEF LoadInv, ModelInv, NoneInv
<1> QED
  BY <1>1, <1>2, <1>5, <1>6, <1>7, SameBuilt DEF ProviderInv

LEMMA LeaveStep ==
  ASSUME ProviderInv, NEW t \in Threads, Embedding!Leave(t) PROVE ProviderInv'
<1>1. /\ Embedding!TypeOK /\ DoorInv /\ BuiltInv /\ LoadInv /\ ModelInv /\ NoneInv
      /\ user \in [Threads -> Embedding!User]
      /\ provider \in [Providers -> Embedding!Provider] /\ resets \in Nat
  BY Typing DEF ProviderInv
<1>2. /\ user[t].step = "testing" /\ lock_holder = t /\ lock_holder' = None
      /\ \A q \in Threads \ {t} : user'[q] = user[q] /\ user[q].step # "testing"
      /\ user'[t].step = "leaving"
      /\ user' \in [Threads -> Embedding!User] /\ resets' = resets
  BY <1>1 DEF Embedding!Leave, Embedding!User, Embedding!Steps, Embedding!At, DoorInv
<1>3. DoorInv'
  BY <1>2 DEF DoorInv
<1>4. CASE user[t].none_seen = TRUE /\ instance = None
  <2>1. PICK p \in Providers : /\ ~provider[p].built
                               /\ provider' = [provider EXCEPT ![p].built = TRUE]
                               /\ instance' = p
    BY <1>4 DEF Embedding!Leave
  <2>2. /\ provider' \in [Providers -> Embedding!Provider]
        /\ \A q \in Providers : /\ provider'[q].model = provider[q].model
                                /\ provider'[q].loads = provider[q].loads
                                /\ provider'[q].lock_holder = provider[q].lock_holder
        /\ \A q \in Providers \ {p} : provider'[q].built = provider[q].built
        /\ provider'[p].built = TRUE
    BY <1>1, <2>1 DEF Embedding!Provider
  <2>3. Embedding!TypeOK'
    BY <1>1, <1>2, <2>1, <2>2 DEF Embedding!TypeOK
  <2>4. LoadInv' /\ ModelInv' /\ NoneInv'
    BY <1>1, <1>2, <2>1, <2>2 DEF LoadInv, ModelInv, NoneInv
  <2>5. Embedding!Built' = Embedding!Built \cup {p} /\ p \notin Embedding!Built
    BY <2>1, <2>2 DEF Embedding!Built
  <2>6. /\ IsFiniteSet(Embedding!Built') /\ Cardinality(Embedding!Built) \in Nat
        /\ Cardinality(Embedding!Built') = Cardinality(Embedding!Built) + 1
    BY <1>1, <2>5, FS_AddElement, FS_CardinalityType DEF BuiltInv
  <2>7. BuiltInv'
    BY <1>1, <1>2, <1>4, <2>1, <2>6 DEF BuiltInv
  <2> QED
    BY <1>3, <2>3, <2>4, <2>7 DEF ProviderInv
<1>5. CASE user[t].none_seen = FALSE /\ instance # None
  <2>1. UNCHANGED <<instance, provider>>
    BY <1>5 DEF Embedding!Leave
  <2>2. Embedding!TypeOK'
    BY <1>1, <1>2, <2>1 DEF Embedding!TypeOK
  <2>3. LoadInv' /\ ModelInv' /\ NoneInv'
    BY <1>1, <1>2, <1>5, <2>1 DEF LoadInv, ModelInv, NoneInv
  <2> QED
    BY <1>1, <1>2, <1>3, <2>1, <2>2, <2>3, SameBuilt DEF ProviderInv
<1> QED
  BY <1>1, <1>2, <1>4, <1>5 DEF DoorInv

LEMMA ReturnStep ==
  ASSUME ProviderInv, NEW t \in Threads, Embedding!Return(t) PROVE ProviderInv'
<1> DEFINE u == [Embedding!Idle EXCEPT !.step = "wired", !.using = instance]
<1>1. instance \in Providers \cup {None}
  BY Typing DEF ProviderInv
<1>2. user[t].step = "leaving" /\ user' = [user EXCEPT ![t] = u]
      /\ UNCHANGED <<instance, lock_holder, provider, resets>>
  BY DEF Embedding!Return, Embedding!At
<1>3. u \in Embedding!User /\ u.step = "wired" /\ u.using = instance
  BY <1>1 DEF Embedding!Idle, Embedding!User, Embedding!Steps
<1>4. instance # None \/ resets > 0
  BY <1>2 DEF ProviderInv, NoneInv
<1> HIDE DEF u
<1> QED
  BY <1>2, <1>3, <1>4, UserStep

LEMMA ResetStep ==
  ASSUME ProviderInv, Embedding!Reset PROVE ProviderInv'
<1>1. /\ Embedding!TypeOK /\ DoorInv /\ BuiltInv /\ LoadInv /\ ModelInv /\ NoneInv
      /\ resets \in 0 .. MaxResets
  BY Typing DEF ProviderInv
<1>2. /\ resets < MaxResets /\ lock_holder = None /\ instance' = None /\ resets' = resets + 1
      /\ UNCHANGED <<lock_holder, provider, user>>
  BY DEF Embedding!Reset
<1>3. resets' \in 0 .. MaxResets /\ resets' > 0
  BY <1>1, <1>2
<1>4. Embedding!TypeOK'
  BY <1>1, <1>2, <1>3 DEF Embedding!TypeOK
<1>5. DoorInv' /\ LoadInv' /\ ModelInv' /\ NoneInv'
  BY <1>1, <1>2, <1>3 DEF DoorInv, LoadInv, ModelInv, NoneInv
<1>6. BuiltInv'
  <2>1. Embedding!Built' = Embedding!Built
    BY <1>2 DEF Embedding!Built
  <2>2. /\ IsFiniteSet(Embedding!Built) /\ Cardinality(Embedding!Built) \in Nat
        /\ Cardinality(Embedding!Built) <= resets + 1
    BY <1>1, FS_CardinalityType DEF BuiltInv
  <2> QED
    BY <1>1, <1>2, <2>1, <2>2 DEF BuiltInv
<1> QED
  BY <1>4, <1>5, <1>6 DEF ProviderInv

LEMMA EmbedNowhereStep ==
  ASSUME ProviderInv, NEW t \in Threads, Embedding!EmbedNowhere(t) PROVE ProviderInv'
<1> DEFINE u == [user[t] EXCEPT !.step = "failed"]
<1>1. user \in [Threads -> Embedding!User]
  BY Typing DEF ProviderInv
<1>2. /\ u \in Embedding!User /\ u.step = "failed" /\ user' = [user EXCEPT ![t] = u]
      /\ UNCHANGED <<instance, lock_holder, provider, resets>>
  BY <1>1 DEF Embedding!EmbedNowhere, Embedding!User, Embedding!Steps
<1> HIDE DEF u
<1> QED
  BY <1>2, UserStep

LEMMA EmbedStep ==
  ASSUME ProviderInv, NEW t \in Threads, Embedding!Embed(t) PROVE ProviderInv'
<1> DEFINE p == user[t].using
           unloaded == ~provider[p].model
<1>1. /\ Embedding!TypeOK /\ DoorInv /\ BuiltInv /\ LoadInv /\ ModelInv /\ NoneInv
      /\ user \in [Threads -> Embedding!User]
      /\ provider \in [Providers -> Embedding!Provider]
  BY Typing DEF ProviderInv
<1>2. /\ p # None /\ provider[p].lock_holder = None /\ user[t].step = "wired"
      /\ provider' = [provider EXCEPT ![p].lock_holder = t]
      /\ user' = [user EXCEPT ![t].step = "loading", ![t].none_seen = unloaded]
      /\ UNCHANGED <<instance, lock_holder, resets>>
  BY DEF Embedding!Embed, Embedding!At
<1>3. p \in Providers
  BY <1>1, <1>2 DEF Embedding!User
<1>4. /\ unloaded \in BOOLEAN
      /\ \/ unloaded = TRUE /\ provider[p].model = FALSE
         \/ unloaded = FALSE /\ provider[p].model = TRUE
  BY <1>1, <1>3 DEF Embedding!Provider
<1> HIDE DEF unloaded
<1>5. /\ \A q \in Threads \ {t} : user'[q] = user[q]
      /\ user'[t].step = "loading" /\ user'[t].none_seen = unloaded /\ user'[t].using = p
      /\ user' \in [Threads -> Embedding!User]
  BY <1>1, <1>2, <1>4, ZenonT(60) DEF Embedding!User, Embedding!Steps
<1> HIDE DEF p
<1>6. /\ provider' \in [Providers -> Embedding!Provider]
      /\ \A q \in Providers : /\ provider'[q].built = provider[q].built
                              /\ provider'[q].model = provider[q].model
                              /\ provider'[q].loads = provider[q].loads
      /\ \A q \in Providers \ {p} : provider'[q].lock_holder = provider[q].lock_holder
      /\ provider'[p].lock_holder = t
  BY <1>1, <1>2, <1>3 DEF Embedding!Provider
<1>7. Embedding!TypeOK'
  BY <1>1, <1>2, <1>5, <1>6 DEF Embedding!TypeOK
<1>8. DoorInv' /\ NoneInv'
  BY <1>1, <1>2, <1>5 DEF DoorInv, NoneInv
<1>9. LoadInv'
  <2> SUFFICES ASSUME NEW q \in Threads, user'[q].step = "loading"
               PROVE  /\ user'[q].using \in Providers
                      /\ provider'[user'[q].using].lock_holder = q
                      /\ \/ /\ user'[q].none_seen = TRUE
                            /\ provider'[user'[q].using].model = FALSE
                         \/ /\ user'[q].none_seen = FALSE
                            /\ provider'[user'[q].using].model = TRUE
    BY DEF LoadInv
  <2>1. CASE q = t
    BY <1>3, <1>4, <1>5, <1>6, <2>1
  <2>2. CASE q # t
    <3>1. /\ user'[q] = user[q] /\ user[q].using \in Providers
          /\ provider[user[q].using].lock_holder = q
          /\ \/ user[q].none_seen = TRUE /\ provider[user[q].using].model = FALSE
             \/ user[q].none_seen = FALSE /\ provider[user[q].using].model = TRUE
      BY <1>1, <1>5, <2>2 DEF LoadInv
    <3>2. user[q].using # p
      BY <1>2, <3>1
    <3> QED
      BY <1>6, <3>1, <3>2
  <2> QED
    BY <2>1, <2>2
<1>10. ModelInv'
  BY <1>1, <1>5, <1>6 DEF ModelInv
<1> QED
  BY <1>1, <1>2, <1>6, <1>7, <1>8, <1>9, <1>10, SameBuilt DEF ProviderInv

LEMMA LoadStep ==
  ASSUME ProviderInv, NEW t \in Threads, Embedding!Load(t) PROVE ProviderInv'
<1> DEFINE p == user[t].using
           loads == IF user[t].none_seen THEN provider[p].loads + 1 ELSE provider[p].loads
<1>1. /\ Embedding!TypeOK /\ DoorInv /\ BuiltInv /\ LoadInv /\ ModelInv /\ NoneInv
      /\ user \in [Threads -> Embedding!User]
      /\ provider \in [Providers -> Embedding!Provider]
  BY Typing DEF ProviderInv
<1>2. /\ user[t].step = "loading"
      /\ user' = [user EXCEPT ![t].step = "encoding"]
      /\ UNCHANGED <<instance, lock_holder, resets>>
  BY DEF Embedding!Load, Embedding!At
<1>3. /\ p \in Providers /\ provider[p].lock_holder = t
      /\ \/ user[t].none_seen = TRUE /\ provider[p].model = FALSE
         \/ user[t].none_seen = FALSE /\ provider[p].model = TRUE
  BY <1>1, <1>2 DEF LoadInv
<1>4. loads = 1
  BY <1>1, <1>3 DEF ModelInv
<1>5. provider' = [provider EXCEPT ![p].model = TRUE, ![p].lock_holder = None, ![p].loads = loads]
  BY <1>1, <1>3 DEF Embedding!Load, Embedding!Provider
<1> HIDE DEF loads
<1>6. /\ \A q \in Threads \ {t} : user'[q] = user[q]
      /\ user'[t].step = "encoding" /\ user'[t].using = p
      /\ user' \in [Threads -> Embedding!User]
  BY <1>1, <1>2 DEF Embedding!User, Embedding!Steps
<1> HIDE DEF p
<1>7. /\ provider' \in [Providers -> Embedding!Provider]
      /\ \A q \in Providers : provider'[q].built = provider[q].built
      /\ \A q \in Providers \ {p} : provider'[q] = provider[q]
      /\ provider'[p].model = TRUE /\ provider'[p].loads = 1
  BY <1>1, <1>3, <1>4, <1>5 DEF Embedding!Provider
<1>8. Embedding!TypeOK'
  BY <1>1, <1>2, <1>6, <1>7 DEF Embedding!TypeOK
<1>9. DoorInv' /\ NoneInv'
  BY <1>1, <1>2, <1>6 DEF DoorInv, NoneInv
<1>10. LoadInv'
  BY <1>1, <1>3, <1>6, <1>7 DEF LoadInv
<1>11. ModelInv'
  BY <1>1, <1>3, <1>6, <1>7 DEF ModelInv
<1> QED
  BY <1>1, <1>2, <1>7, <1>8, <1>9, <1>10, <1>11, SameBuilt DEF ProviderInv

LEMMA LoadFailsStep ==
  ASSUME ProviderInv, NEW t \in Threads, Embedding!LoadFails(t) PROVE ProviderInv'
<1> DEFINE p == user[t].using
<1>1. /\ Embedding!TypeOK /\ DoorInv /\ BuiltInv /\ LoadInv /\ ModelInv /\ NoneInv
      /\ user \in [Threads -> Embedding!User]
      /\ provider \in [Providers -> Embedding!Provider]
  BY Typing DEF ProviderInv
<1>2. /\ user[t].step = "loading"
      /\ user' = [user EXCEPT ![t].step = "failed"]
      /\ provider' = [provider EXCEPT ![p].lock_holder = None]
      /\ UNCHANGED <<instance, lock_holder, resets>>
  BY DEF Embedding!LoadFails, Embedding!At
<1>3. p \in Providers /\ provider[p].lock_holder = t
  BY <1>1, <1>2 DEF LoadInv
<1>4. /\ \A q \in Threads \ {t} : user'[q] = user[q]
      /\ user'[t].step = "failed"
      /\ user' \in [Threads -> Embedding!User]
  BY <1>1, <1>2 DEF Embedding!User, Embedding!Steps
<1> HIDE DEF p
<1>5. /\ provider' \in [Providers -> Embedding!Provider]
      /\ \A q \in Providers : /\ provider'[q].built = provider[q].built
                              /\ provider'[q].model = provider[q].model
                              /\ provider'[q].loads = provider[q].loads
      /\ \A q \in Providers \ {p} : provider'[q] = provider[q]
  BY <1>1, <1>2, <1>3 DEF Embedding!Provider
<1>6. Embedding!TypeOK'
  BY <1>1, <1>2, <1>4, <1>5 DEF Embedding!TypeOK
<1>7. DoorInv' /\ NoneInv'
  BY <1>1, <1>2, <1>4 DEF DoorInv, NoneInv
<1>8. LoadInv'
  BY <1>1, <1>3, <1>4, <1>5 DEF LoadInv
<1>9. ModelInv'
  BY <1>1, <1>4, <1>5 DEF ModelInv
<1> QED
  BY <1>1, <1>2, <1>5, <1>6, <1>7, <1>8, <1>9, SameBuilt DEF ProviderInv

LEMMA EncodeStep ==
  ASSUME ProviderInv, NEW t \in Threads, Embedding!Encode(t) PROVE ProviderInv'
<1>1. user \in [Threads -> Embedding!User]
  BY Typing DEF ProviderInv
<1>2. PICK step \in {"embedded", "failed"} : user' = [user EXCEPT ![t].step = step]
  BY DEF Embedding!Encode
<1> DEFINE u == [user[t] EXCEPT !.step = step]
<1>3. /\ u \in Embedding!User /\ u.step = step /\ user' = [user EXCEPT ![t] = u]
      /\ UNCHANGED <<instance, lock_holder, provider, resets>>
  BY <1>1, <1>2, ZenonT(60) DEF Embedding!Encode, Embedding!User, Embedding!Steps
<1> HIDE DEF u
<1> QED
  BY <1>3, UserStep

LEMMA FinishStep ==
  ASSUME ProviderInv, NEW t \in Threads, Embedding!Finish(t) PROVE ProviderInv'
<1>1. /\ Embedding!Idle \in Embedding!User /\ Embedding!Idle.step = "idle"
      /\ user' = [user EXCEPT ![t] = Embedding!Idle]
      /\ UNCHANGED <<instance, lock_holder, provider, resets>>
  BY DEF Embedding!Finish, Embedding!Idle, Embedding!User, Embedding!Steps
<1> QED
  BY <1>1, UserStep

LEMMA SelectFailsStep ==
  ASSUME ProviderInv, NEW t \in Threads, SelectFails(t) PROVE ProviderInv'
<1> DEFINE u == [user[t] EXCEPT !.step = "failed"]
<1>1. user \in [Threads -> Embedding!User]
  BY Typing DEF ProviderInv
<1>2. /\ u \in Embedding!User /\ u.step = "failed" /\ user' = [user EXCEPT ![t] = u]
      /\ UNCHANGED <<instance, lock_holder, provider, resets>>
  BY <1>1 DEF SelectFails, Embedding!User, Embedding!Steps
<1> HIDE DEF u
<1> QED
  BY <1>2, UserStep

LEMMA ProceedStep ==
  ASSUME ProviderInv, NEW t \in Threads, Embedding!Proceed(t) PROVE ProviderInv'
BY EnterStep, LeaveStep, ReturnStep, EmbedNowhereStep, EmbedStep, LoadStep, LoadFailsStep,
   EncodeStep DEF Embedding!Proceed

LEMMA InitProviderInv == Embedding!Init => ProviderInv
<1> SUFFICES ASSUME Embedding!Init PROVE ProviderInv
  OBVIOUS
<1>1. \A p \in Providers : /\ provider[p].built = FALSE /\ provider[p].model = FALSE
                           /\ provider[p].loads = 0
  BY DEF Embedding!Init
<1>2. \A t \in Threads : user[t] = Embedding!Idle /\ user[t].step = "idle"
  BY DEF Embedding!Init, Embedding!Idle
<1>3. Embedding!TypeOK
  BY DEF Embedding!Init, Embedding!TypeOK, Embedding!Provider, Embedding!User, Embedding!Steps,
         Embedding!Idle
<1>4. Embedding!Built = {}
  BY <1>1 DEF Embedding!Built
<1>5. BuiltInv
  BY <1>4, FS_EmptySet DEF BuiltInv, Embedding!Init
<1> QED
  BY <1>1, <1>2, <1>3, <1>5 DEF ProviderInv, DoorInv, LoadInv, ModelInv, NoneInv

LEMMA KeepProviderInv ==
  ASSUME ProviderInv, UNCHANGED embedding_vars PROVE ProviderInv'
BY DEF embedding_vars, ProviderInv, Embedding!TypeOK, DoorInv, BuiltInv, Embedding!Built, LoadInv,
       ModelInv, NoneInv

LEMMA NextProviderInv == ProviderInv /\ [Next]_vars => ProviderInv'
<1> SUFFICES ASSUME ProviderInv, [Next]_vars PROVE ProviderInv'
  OBVIOUS
<1>1. ASSUME NEW t \in Threads, Ask(t) PROVE ProviderInv'
  BY <1>1, AskStep DEF Ask
<1>2. ASSUME NEW t \in Threads, EmbedQuery(t) PROVE ProviderInv'
  BY <1>2, ProceedStep DEF EmbedQuery
<1>3. ASSUME NEW t \in Threads, Select(t) PROVE ProviderInv'
  BY <1>3, KeepProviderInv DEF Select
<1>4. ASSUME NEW t \in Threads, Finish(t) PROVE ProviderInv'
  BY <1>4, FinishStep DEF Finish
<1>5. CASE Reset
  BY <1>5, ResetStep DEF Reset
<1>6. CASE Ingest
  BY <1>6, KeepProviderInv DEF Ingest
<1>7. CASE UNCHANGED vars
  BY <1>7, KeepProviderInv DEF vars
<1>8. ASSUME NEW t \in Threads, SelectFails(t) PROVE ProviderInv'
  BY <1>8, SelectFailsStep
<1> QED
  BY <1>1, <1>2, <1>3, <1>4, <1>5, <1>6, <1>7, <1>8 DEF Next

LEMMA SpecProviderInv == Spec => []ProviderInv
<1>1. Init => ProviderInv
  BY InitProviderInv DEF Init
<1> QED
  BY <1>1, NextProviderInv, PTL DEF Spec

\* The instance has a copy of the operator.
LEMMA SameCardinality == \A S : Embedding!Cardinality(S) = Cardinality(S)
BY DEF Embedding!Cardinality, Cardinality

(* However many threads race for the provider, fail to load its model and  *)
(* reset it, there is one provider per reset and one more, each loads its  *)
(* model once, and nobody embeds without a model (embedding_provider.py    *)
(* 56-71 and 104-119).                                                     *)
THEOREM OneProvider == Spec => []OneProviderOneModel
<1>1. ProviderInv => OneProviderOneModel
  <2> SUFFICES ASSUME ProviderInv PROVE OneProviderOneModel
    OBVIOUS
  <2>1. Cardinality(Embedding!Built) <= 1 + resets
    BY Typing, FS_CardinalityType DEF ProviderInv, BuiltInv
  <2>2. \A p \in Providers : provider[p].loads = IF provider[p].model THEN 1 ELSE 0
    BY DEF ProviderInv, ModelInv
  <2>3. \A t \in Threads :
          /\ Embedding!At(t, "encoding") => provider[user[t].using].model
          /\ Embedding!At(t, "wired") /\ user[t].using = None => resets > 0
    BY DEF ProviderInv, ModelInv, NoneInv, Embedding!At
  <2> QED
    <3>1. Embedding!OneProviderOneModel
      BY <2>1, <2>2, <2>3, SameCardinality DEF Embedding!OneProviderOneModel
    <3> QED
      BY <3>1 DEF OneProviderOneModel
<1> QED
  BY <1>1, SpecProviderInv, PTL

-----------------------------------------------------------------------------
(* Retrieval selects stored chunks, each at most once.                     *)

\* A sequence of elements of S without repetition.
Distinct(s, S) == s \in Seq(S) /\ \A i, j \in 1 .. Len(s) : s[i] = s[j] => i = j

LEMMA DistinctIndices ==
  ASSUME NEW S, NEW s, Distinct(s, S)
  PROVE  /\ Len(s) \in Nat /\ DOMAIN s = 1 .. Len(s)
         /\ \A i \in DOMAIN s : s[i] \in S
         /\ \A i, j \in DOMAIN s : s[i] = s[j] => i = j
<1>1. s \in Seq(S)
  BY DEF Distinct
<1> QED
  BY <1>1, LenProperties, ElementOfSeq DEF Distinct

\* The function Reaching is defined with, up to m.
Rule(chunks, similarity, floor, f, n) ==
  IF n = 0 THEN <<>>
  ELSE IF similarity[chunks[n]] >= floor THEN Append(f[n - 1], chunks[n])
  ELSE f[n - 1]

IsKept(chunks, similarity, floor, m, f) ==
  f = [n \in 0 .. m |-> Rule(chunks, similarity, floor, f, n)]

LEMMA KeptExists ==
  ASSUME NEW chunks, NEW similarity, NEW floor, NEW L \in Nat
  PROVE  \E f : IsKept(chunks, similarity, floor, L, f)
<1> DEFINE P == {m \in Nat : ~\E f : IsKept(chunks, similarity, floor, m, f)}
<1> SUFFICES ASSUME P # {} PROVE FALSE
  OBVIOUS
<1>1. PICK m \in P : \A n \in P : m <= n
  BY LeastNumber
<1>2. m # 0
  <2> DEFINE f == [n \in 0 .. 0 |-> <<>>]
  <2>1. \A n \in 0 .. 0 : n = 0
    OBVIOUS
  <2>2. f = [n \in 0 .. 0 |-> Rule(chunks, similarity, floor, f, n)]
    BY <2>1 DEF Rule
  <2>3. IsKept(chunks, similarity, floor, 0, f)
    BY <2>2 DEF IsKept
  <2> QED
    BY <1>1, <2>3
<1>3. m - 1 \in Nat /\ m - 1 \notin P
  BY <1>1, <1>2
<1>4. PICK f : IsKept(chunks, similarity, floor, m - 1, f)
  BY <1>3
<1> DEFINE g == [n \in 0 .. m |-> IF n = m THEN Rule(chunks, similarity, floor, f, n) ELSE f[n]]
<1>5. ASSUME NEW n \in 0 .. m PROVE g[n] = Rule(chunks, similarity, floor, g, n)
  <2>1. \/ n = 0
        \/ n # 0 /\ n - 1 \in 0 .. m - 1 /\ n - 1 \in 0 .. m /\ n - 1 # m
    BY <1>1
  <2>2. n - 1 \in 0 .. m - 1 => g[n - 1] = f[n - 1]
    BY <1>1
  <2>3. Rule(chunks, similarity, floor, g, n) = Rule(chunks, similarity, floor, f, n)
    BY <2>1, <2>2 DEF Rule
  <2>4. n # m => n \in 0 .. m - 1 /\ g[n] = f[n]
    BY <1>1
  <2>5. n # m => f[n] = Rule(chunks, similarity, floor, f, n)
    BY <1>4, <2>4 DEF IsKept
  <2> QED
    BY <2>3, <2>4, <2>5
<1>6. g = [n \in 0 .. m |-> Rule(chunks, similarity, floor, g, n)]
  BY <1>5
<1> HIDE DEF g
<1>7. IsKept(chunks, similarity, floor, m, g)
  BY <1>6 DEF IsKept
<1> QED
  BY <1>1, <1>7

\* Each step of the recursion keeps the chunks apart.
LEMMA KeptIsDistinct ==
  ASSUME NEW S, NEW chunks, Distinct(chunks, S), NEW similarity, NEW floor,
         NEW f, IsKept(chunks, similarity, floor, Len(chunks), f),
         NEW n \in 0 .. Len(chunks)
  PROVE  /\ Distinct(f[n], S)
         /\ \A i \in 1 .. Len(f[n]) : \E j \in 1 .. n : f[n][i] = chunks[j]
<1> DEFINE L == Len(chunks)
           Good(m) == /\ Distinct(f[m], S)
                      /\ \A i \in 1 .. Len(f[m]) : \E j \in 1 .. m : f[m][i] = chunks[j]
           P == {m \in Nat : m <= L /\ ~Good(m)}
<1>1. /\ chunks \in Seq(S) /\ L \in Nat /\ \A i \in 1 .. L : chunks[i] \in S
      /\ \A i, j \in 1 .. L : chunks[i] = chunks[j] => i = j
  BY DEF Distinct
<1>2. \A m \in 0 .. L : f[m] = Rule(chunks, similarity, floor, f, m)
  BY DEF IsKept
<1>3. Good(0)
  <2>1. 0 \in 0 .. L
    BY <1>1
  <2>2. f[0] = <<>>
    BY <1>2, <2>1 DEF Rule
  <2>3. <<>> \in Seq(S) /\ Len(<<>>) = 0
    BY EmptySeq
  <2> QED
    BY <2>2, <2>3 DEF Distinct
<1>4. ASSUME NEW m \in 1 .. L, Good(m - 1) PROVE Good(m)
  <2> DEFINE s == f[m - 1]
  <2>1. /\ s \in Seq(S) /\ Len(s) \in Nat /\ \A i \in 1 .. Len(s) : s[i] \in S
        /\ \A i, j \in 1 .. Len(s) : s[i] = s[j] => i = j
        /\ \A i \in 1 .. Len(s) : \E j \in 1 .. m - 1 : s[i] = chunks[j]
    BY <1>4 DEF Distinct
  <2>2. \A j \in 1 .. m - 1 : j \in 1 .. m /\ j \in 1 .. L /\ j # m
    BY <1>1
  <2>3. f[m] = Append(s, chunks[m]) \/ f[m] = s
    <3>1. m \in 0 .. L /\ m # 0
      BY <1>1
    <3> HIDE DEF L
    <3>2. f[m] = Rule(chunks, similarity, floor, f, m)
      BY <1>2, <3>1
    <3> QED
      BY <3>1, <3>2 DEF Rule
  <2> HIDE DEF s
  <2>4. CASE f[m] = s
    BY <2>1, <2>2, <2>4 DEF Distinct
  <2>5. CASE f[m] = Append(s, chunks[m])
    <3> DEFINE l == Len(s)
    <3>1. /\ f[m] \in Seq(S) /\ Len(f[m]) = l + 1 /\ f[m][l + 1] = chunks[m]
          /\ \A i \in 1 .. l : f[m][i] = s[i]
      BY <1>1, <2>1, <2>5
    <3>2. /\ l \in Nat /\ \A i \in 1 .. l + 1 : i \in 1 .. l \/ i = l + 1
          /\ \A i \in 1 .. l : i # l + 1
      BY <2>1
    <3>3. \A i \in 1 .. l : s[i] # chunks[m]
      BY <1>1, <2>1, <2>2
    <3> HIDE DEF l
    <3>4. \A i, j \in 1 .. l + 1 : f[m][i] = f[m][j] => i = j
      <4> SUFFICES ASSUME NEW i \in 1 .. l + 1, NEW j \in 1 .. l + 1, f[m][i] = f[m][j]
                   PROVE  i = j
        OBVIOUS
      <4>1. CASE i \in 1 .. l /\ j \in 1 .. l
        BY <2>1, <3>1, <4>1 DEF l
      <4>2. CASE i = l + 1 /\ j \in 1 .. l
        BY <3>1, <3>3, <4>2
      <4>3. CASE i \in 1 .. l /\ j = l + 1
        BY <3>1, <3>3, <4>3
      <4> QED
        BY <3>2, <4>1, <4>2, <4>3
    <3>5. ASSUME NEW i \in 1 .. l + 1 PROVE \E j \in 1 .. m : f[m][i] = chunks[j]
      <4>1. CASE i \in 1 .. l
        BY <2>1, <2>2, <3>1, <4>1 DEF l
      <4>2. CASE i = l + 1
        BY <3>1, <4>2
      <4> QED
        BY <3>2, <4>1, <4>2
    <3> QED
      BY <3>1, <3>4, <3>5 DEF Distinct
  <2> QED
    BY <2>3, <2>4, <2>5
<1> HIDE DEF Good
<1>5. P = {}
  <2> SUFFICES ASSUME P # {} PROVE FALSE
    OBVIOUS
  <2>1. PICK m \in P : \A k \in P : m <= k
    BY LeastNumber
  <2>2. m # 0
    BY <1>3, <2>1
  <2>3. m - 1 \in Nat /\ m \in 1 .. L /\ m - 1 <= L
    BY <1>1, <2>1, <2>2
  <2>4. Good(m - 1)
    BY <2>1, <2>3
  <2> QED
    BY <1>4, <2>1, <2>3, <2>4
<1>6. Good(n)
  BY <1>1, <1>5
<1> QED
  BY <1>6 DEF Good

LEMMA ReachingIsDistinct ==
  ASSUME NEW S, NEW chunks, Distinct(chunks, S), NEW similarity, NEW floor
  PROVE  Distinct(Reaching(chunks, similarity, floor), S)
<1> DEFINE f == CHOOSE g : IsKept(chunks, similarity, floor, Len(chunks), g)
<1>1. Len(chunks) \in Nat
  BY DEF Distinct
<1>2. IsKept(chunks, similarity, floor, Len(chunks), f)
  BY <1>1, KeptExists
<1>3. Reaching(chunks, similarity, floor) = f[Len(chunks)]
  BY DEF Reaching, IsKept, Rule
<1> HIDE DEF f
<1>4. Len(chunks) \in 0 .. Len(chunks)
  BY <1>1
<1> QED
  BY <1>2, <1>3, <1>4, KeptIsDistinct

LEMMA NearestIsDistinct ==
  ASSUME NEW rows, IsFiniteSet(rows), NEW similarity, NEW k \in Nat,
         NEW chunks \in Nearest(rows, similarity, k)
  PROVE  Distinct(chunks, rows)
<1> DEFINE m(order) == IF k < Len(order) THEN k ELSE Len(order)
<1>1. PICK order \in SetToSeqs(rows) : chunks = SubSeq(order, 1, m(order))
  BY DEF Nearest
<1> DEFINE l == m(order)
           n == Cardinality(rows)
<1>2. n \in Nat
  BY FS_CardinalityType
<1>3. order \in [1 .. n -> rows] /\ \A i, j \in 1 .. n : i # j => order[i] # order[j]
  BY <1>1 DEF SetToSeqs
<1> HIDE DEF n
<1>4. order \in Seq(rows) /\ Len(order) = n
  <2>1. order \in Seq(rows)
    BY <1>2, <1>3, SeqDef
  <2> QED
    BY <1>2, <1>3, <2>1, LenProperties
<1>5. l \in Nat /\ l <= n
  BY <1>2, <1>4
<1> HIDE DEF m
<1>6. \A i \in 1 .. l : i \in 1 .. n /\ order[i] \in rows
  BY <1>2, <1>3, <1>5
<1>7. /\ SubSeq(order, 1, l) \in Seq(rows) /\ Len(SubSeq(order, 1, l)) = l
      /\ \A i \in 1 .. l : SubSeq(order, 1, l)[i] = order[i]
  <2>1. /\ SubSeq(order, 1, l) \in Seq(rows)
        /\ Len(SubSeq(order, 1, l)) = IF 1 <= l THEN l - 1 + 1 ELSE 0
        /\ \A i \in 1 .. l - 1 + 1 : SubSeq(order, 1, l)[i] = order[1 + i - 1]
    BY <1>5, <1>6, SubSeqProperties
  <2>2. l - 1 + 1 = l /\ (~(1 <= l) => l = 0) /\ \A i \in 1 .. l : 1 + i - 1 = i
    BY <1>5
  <2> HIDE DEF l
  <2> QED
    BY <2>1, <2>2
<1> HIDE DEF l
<1> QED
  BY <1>1, <1>3, <1>6, <1>7 DEF Distinct, l

LEMMA DistinctIn ==
  ASSUME NEW T, NEW S \in SUBSET T, NEW s, Distinct(s, S) PROVE Distinct(s, T)
<1>1. s \in [1 .. Len(s) -> S] /\ Len(s) \in Nat
  BY LenProperties DEF Distinct
<1>2. s \in [1 .. Len(s) -> T]
  BY <1>1
<1> QED
  BY <1>1, <1>2, SeqDef DEF Distinct

LEMMA RetrievalsAreDistinct ==
  ASSUME NEW rows, IsFiniteSet(rows), NEW similarity, NEW k \in Nat,
         NEW chunks \in Retrievals(rows, similarity, k, Floor)
  PROVE  Distinct(chunks, rows)
<1>1. PICK top \in TopK(rows, similarity, k) : chunks = AboveFloor(top, similarity, Floor)
  BY DEF Retrievals
<1>0. PICK found \in Scans(rows) : top \in Nearest(found, similarity, k)
  BY <1>1 DEF TopK
<1>2. Distinct(top, rows)
  <2>1. found \subseteq rows /\ IsFiniteSet(found)
    BY <1>0, FS_Subset DEF Scans
  <2>2. Distinct(top, found)
    BY <1>0, <2>1, NearestIsDistinct
  <2> QED
    BY <2>1, <2>2, DistinctIn
<1>3. CASE Floor > 0
  BY <1>1, <1>2, <1>3, ReachingIsDistinct DEF AboveFloor
<1>4. CASE ~(Floor > 0)
  BY <1>1, <1>2, <1>4 DEF AboveFloor
<1> QED
  BY <1>3, <1>4

-----------------------------------------------------------------------------
(* Retrieval selects the nearest chunks.                                   *)

\* All rows, each once, the nearest first.
IsOrder(order, rows, similarity) ==
  /\ Distinct(order, rows)
  /\ \A x \in rows : \E i \in 1 .. Len(order) : order[i] = x
  /\ \A i, j \in 1 .. Len(order) : i < j => similarity[order[i]] >= similarity[order[j]]

IsStart(s, order, l) ==
  /\ l \in Nat /\ l <= Len(order) /\ Len(s) = l /\ DOMAIN s = 1 .. l
  /\ \A i \in 1 .. l : s[i] = order[i]

LEMMA NearestIsPrefix ==
  ASSUME NEW rows, IsFiniteSet(rows), NEW similarity, NEW k \in Nat,
         NEW chunks \in Nearest(rows, similarity, k)
  PROVE  \E order : /\ IsOrder(order, rows, similarity)
                    /\ IsStart(chunks, order, IF k < Len(order) THEN k ELSE Len(order))
<1> DEFINE m(order) == IF k < Len(order) THEN k ELSE Len(order)
<1>1. PICK order \in SetToSeqs(rows) :
        /\ \A i, j \in DOMAIN order : i < j => similarity[order[i]] >= similarity[order[j]]
        /\ chunks = SubSeq(order, 1, m(order))
  BY DEF Nearest
<1> DEFINE l == m(order)
           n == Cardinality(rows)
<1>2. n \in Nat
  BY FS_CardinalityType
<1>3. order \in [1 .. n -> rows] /\ \A i, j \in 1 .. n : i # j => order[i] # order[j]
  BY <1>1 DEF SetToSeqs
<1>4. \A x \in rows : \E i \in 1 .. n : order[i] = x
  <2>1. order \in Injection(1 .. n, rows)
    BY <1>3 DEF Injection, IsInjective
  <2>2. Cardinality(1 .. n) = n
    <3> HIDE DEF n
    <3>1. Cardinality(1 .. n) = IF 1 > n THEN 0 ELSE n - 1 + 1
      BY <1>2, FS_Interval
    <3> QED
      BY <1>2, <3>1
  <2>3. order \in Surjection(1 .. n, rows)
    BY <2>1, <2>2, FS_Injection
  <2> QED
    BY <2>3 DEF Surjection
<1> HIDE DEF n
<1>5. order \in Seq(rows) /\ Len(order) = n /\ DOMAIN order = 1 .. n
  <2>1. order \in Seq(rows)
    BY <1>2, <1>3, SeqDef
  <2> QED
    BY <1>2, <1>3, <2>1, LenProperties
<1>6. IsOrder(order, rows, similarity)
  BY <1>1, <1>3, <1>4, <1>5 DEF IsOrder, Distinct
<1>7. l \in Nat /\ l <= n
  BY <1>2, <1>5
<1> HIDE DEF m
<1>8. \A i \in 1 .. l : i \in 1 .. n /\ order[i] \in rows
  BY <1>2, <1>3, <1>7
<1>9. /\ Len(SubSeq(order, 1, l)) = l /\ DOMAIN SubSeq(order, 1, l) = 1 .. l
      /\ \A i \in 1 .. l : SubSeq(order, 1, l)[i] = order[i]
  <2>1. /\ SubSeq(order, 1, l) \in Seq(rows)
        /\ Len(SubSeq(order, 1, l)) = IF 1 <= l THEN l - 1 + 1 ELSE 0
        /\ \A i \in 1 .. l - 1 + 1 : SubSeq(order, 1, l)[i] = order[1 + i - 1]
    BY <1>7, <1>8, SubSeqProperties
  <2>2. l - 1 + 1 = l /\ (~(1 <= l) => l = 0) /\ \A i \in 1 .. l : 1 + i - 1 = i
    BY <1>7
  <2> HIDE DEF l
  <2> QED
    BY <2>1, <2>2, LenProperties
<1>10. IsStart(chunks, order, l)
  BY <1>1, <1>5, <1>7, <1>9 DEF IsStart
<1> QED
  BY <1>6, <1>10 DEF m

\* Of sorted chunks those that reach the floor are the first ones.
LEMMA KeptIsPrefix ==
  ASSUME NEW S, NEW chunks \in Seq(S), NEW similarity \in [S -> Int], NEW floor \in Int,
         \A i, j \in 1 .. Len(chunks) : i < j => similarity[chunks[i]] >= similarity[chunks[j]],
         NEW f, IsKept(chunks, similarity, floor, Len(chunks), f)
  PROVE  \E m \in 0 .. Len(chunks) :
           /\ IsStart(f[Len(chunks)], chunks, m)
           /\ \A i \in 1 .. m : similarity[chunks[i]] >= floor
           /\ \A i \in m + 1 .. Len(chunks) : similarity[chunks[i]] < floor
<1> DEFINE L == Len(chunks)
           Reach(i) == similarity[chunks[i]] >= floor
           Kept(n, m) == /\ f[n] \in Seq(S) /\ IsStart(f[n], chunks, m)
                         /\ \A i \in 1 .. m : Reach(i)
                         /\ \A i \in m + 1 .. n : ~Reach(i)
           Good(n) == \E m \in 0 .. n : Kept(n, m)
           P == {n \in Nat : n <= L /\ ~Good(n)}
<1>1. L \in Nat /\ \A i \in 1 .. L : chunks[i] \in S /\ similarity[chunks[i]] \in Int
  BY LenProperties, ElementOfSeq
<1>2. \A n \in 0 .. L : f[n] = Rule(chunks, similarity, floor, f, n)
  BY DEF IsKept
<1>3. \A i, j \in 1 .. L : i < j /\ Reach(j) => Reach(i)
  BY <1>1
<1>4. Good(0)
  <2>1. 0 \in 0 .. L
    BY <1>1
  <2>2. f[0] = <<>>
    BY <1>2, <2>1 DEF Rule
  <2>3. f[0] \in Seq(S) /\ IsStart(f[0], chunks, 0)
    BY <1>1, <2>2, EmptySeq DEF IsStart
  <2> QED
    BY <2>3
<1>5. ASSUME NEW n \in 1 .. L, Good(n - 1) PROVE Good(n)
  <2>1. PICK m \in 0 .. n - 1 : Kept(n - 1, m)
    BY <1>5
  <2>2. n \in Nat /\ n # 0 /\ n \in 0 .. L /\ m \in Nat /\ m \in 0 .. n /\ n <= L /\ n \in 0 .. n
    BY <1>1
  <2>3. f[n] = IF Reach(n) THEN Append(f[n - 1], chunks[n]) ELSE f[n - 1]
    BY <1>2, <2>2 DEF Rule
  <2>4. CASE ~Reach(n)
    <3>1. \A i \in m + 1 .. n : i \in m + 1 .. n - 1 \/ i = n
      BY <2>2
    <3>2. Kept(n, m)
      BY <2>1, <2>3, <2>4, <3>1
    <3> QED
      BY <2>2, <3>2
  <2>5. CASE Reach(n)
    <3>1. \A i \in 1 .. n : i \in 1 .. L /\ (i = n \/ i < n)
      BY <2>2
    <3>2. \A i \in 1 .. n : Reach(i)
      BY <1>3, <2>5, <3>1
    <3>3. m = n - 1
      <4>1. m = n - 1 \/ (m + 1 \in m + 1 .. n - 1 /\ m + 1 \in 1 .. n)
        BY <2>2
      <4> QED
        BY <2>1, <3>2, <4>1
    <3> DEFINE s == f[n - 1]
    <3>4. s \in Seq(S) /\ Len(s) = n - 1 /\ \A i \in 1 .. n - 1 : s[i] = chunks[i]
      BY <2>1, <3>3 DEF IsStart
    <3>5. f[n] = Append(s, chunks[n]) /\ chunks[n] \in S
      BY <1>1, <2>3, <2>5
    <3> HIDE DEF s, L, Reach, Kept, Good
    <3>6. /\ f[n] \in Seq(S) /\ Len(f[n]) = n /\ f[n][n] = chunks[n]
          /\ \A i \in 1 .. n - 1 : f[n][i] = s[i]
      <4>1. /\ f[n] \in Seq(S) /\ Len(f[n]) = Len(s) + 1 /\ f[n][Len(s) + 1] = chunks[n]
            /\ \A i \in 1 .. Len(s) : f[n][i] = s[i]
        BY <3>4, <3>5, AppendProperties
      <4>2. n - 1 + 1 = n
        BY <2>2
      <4> QED
        BY <3>4, <4>1, <4>2
    <3>7. \A i \in 1 .. n : f[n][i] = chunks[i]
      <4>1. \A i \in 1 .. n : i = n \/ i \in 1 .. n - 1
        BY <2>2
      <4> QED
        BY <3>4, <3>6, <4>1
    <3>8. IsStart(f[n], chunks, n)
      BY <2>2, <3>6, <3>7, LenProperties DEF IsStart, L
    <3>9. \A i \in n + 1 .. n : FALSE
      BY <2>2
    <3>10. Kept(n, n)
      BY <3>2, <3>6, <3>8, <3>9 DEF Kept
    <3> QED
      BY <2>2, <3>10 DEF Good
  <2> QED
    BY <2>4, <2>5
<1> HIDE DEF Good
<1>6. P = {}
  <2> SUFFICES ASSUME P # {} PROVE FALSE
    OBVIOUS
  <2>1. PICK n \in P : \A k \in P : n <= k
    BY LeastNumber
  <2>2. n # 0
    BY <1>4, <2>1
  <2>3. n - 1 \in Nat /\ n \in 1 .. L /\ n - 1 <= L
    BY <1>1, <2>1, <2>2
  <2>4. Good(n - 1)
    BY <2>1, <2>3
  <2> QED
    BY <1>5, <2>1, <2>3, <2>4
<1>7. PICK m \in 0 .. L : Kept(L, m)
  <2>1. Good(L)
    BY <1>1, <1>6
  <2> QED
    BY <2>1 DEF Good
<1>8. \A i \in m + 1 .. L : similarity[chunks[i]] < floor
  <2>1. \A i \in m + 1 .. L : i \in 1 .. L
    BY <1>1
  <2> QED
    BY <1>1, <1>7, <2>1
<1> QED
  BY <1>7, <1>8

\* What is returned is the beginning of the rows found, in order of nearness:
\* as many as are asked for, or all of them that reach the floor.
LEMMA AnswerIsPrefix ==
  ASSUME NEW S, NEW rows \in SUBSET S, IsFiniteSet(rows), NEW similarity \in [S -> Int],
         NEW k \in Nat, NEW floor \in Int, NEW chunks \in Nearest(rows, similarity, k),
         NEW answers, answers = AboveFloor(chunks, similarity, floor)
  PROVE  \E order, l :
           /\ IsOrder(order, rows, similarity) /\ IsStart(answers, order, l) /\ l <= k
           /\ \A i \in 1 .. l : floor > 0 => similarity[order[i]] >= floor
           /\ l = k \/ \A i \in l + 1 .. Len(order) : floor > 0 /\ similarity[order[i]] < floor
<1>1. answers = AboveFloor(chunks, similarity, floor)
  OBVIOUS
<1>2. PICK order : /\ IsOrder(order, rows, similarity)
                   /\ IsStart(chunks, order, IF k < Len(order) THEN k ELSE Len(order))
  BY NearestIsPrefix
<1> DEFINE n == Len(order)
           t == Len(chunks)
<1>3. n \in Nat /\ order \in Seq(rows) /\ \A i \in 1 .. n : order[i] \in S
  <2>1. order \in Seq(rows)
    BY <1>2 DEF IsOrder, Distinct
  <2> QED
    BY <2>1, LenProperties, ElementOfSeq
<1>4. /\ t \in Nat /\ t <= n /\ t <= k /\ (t = k \/ t = n) /\ DOMAIN chunks = 1 .. t
      /\ \A i \in 1 .. t : chunks[i] = order[i]
  BY <1>2, <1>3 DEF IsStart
<1>5. \A i, j \in 1 .. n : i < j => similarity[order[i]] >= similarity[order[j]]
  BY <1>2 DEF IsOrder
<1>6. \A i \in 1 .. n : similarity[order[i]] \in Int
  BY <1>3
<1> HIDE DEF n, t
<1>7. CASE ~(floor > 0)
  <2>1. IsStart(answers, order, t)
    BY <1>1, <1>4, <1>7 DEF AboveFloor, IsStart, n, t
  <2>2. t = k \/ \A i \in t + 1 .. n : FALSE
    BY <1>3, <1>4
  <2> QED
    BY <1>2, <1>4, <1>7, <2>1, <2>2 DEF n
<1>8. CASE floor > 0
  <2>1. \A i \in 1 .. t : i \in 1 .. n
    BY <1>3, <1>4
  <2>2. chunks \in Seq(S)
    <3>1. chunks = [i \in 1 .. t |-> chunks[i]]
      <4>1. chunks \in Seq(rows)
        BY NearestIsDistinct DEF Distinct
      <4> QED
        BY <1>4, <4>1, LenProperties
    <3>2. chunks \in [1 .. t -> S]
      BY <1>3, <1>4, <2>1, <3>1 DEF n
    <3> QED
      BY <1>4, <3>2, SeqDef
  <2>3. \A i, j \in 1 .. t : i < j => similarity[chunks[i]] >= similarity[chunks[j]]
    BY <1>4, <1>5, <2>1
  <2> DEFINE f == CHOOSE g : IsKept(chunks, similarity, floor, t, g)
  <2>4. IsKept(chunks, similarity, floor, t, f)
    BY <1>4, KeptExists DEF t
  <2>5. answers = f[t]
    BY <1>1, <1>8 DEF AboveFloor, Reaching, IsKept, Rule, t
  <2> HIDE DEF f
  <2>6. PICK m \in 0 .. t : /\ IsStart(f[t], chunks, m)
                            /\ \A i \in 1 .. m : similarity[chunks[i]] >= floor
                            /\ \A i \in m + 1 .. t : similarity[chunks[i]] < floor
    BY <2>2, <2>3, <2>4, KeptIsPrefix DEF t
  <2>7. m \in Nat /\ m <= t /\ m <= n /\ m <= k /\ \A i \in 1 .. m : i \in 1 .. t
    BY <1>3, <1>4
  <2>8. IsStart(answers, order, m)
    BY <1>4, <2>5, <2>6, <2>7 DEF IsStart, n
  <2>9. \A i \in 1 .. m : similarity[order[i]] >= floor
    BY <1>4, <2>6, <2>7
  <2>10. m = k \/ \A i \in m + 1 .. n : similarity[order[i]] < floor
    <3> SUFFICES ASSUME m # k, NEW i \in m + 1 .. n PROVE similarity[order[i]] < floor
      OBVIOUS
    <3>1. CASE m = t
      BY <1>3, <1>4, <2>7, <3>1
    <3>2. CASE m # t
      <4>1. m + 1 \in m + 1 .. t /\ m + 1 \in 1 .. t /\ m + 1 \in 1 .. n /\ i \in 1 .. n
            /\ (i = m + 1 \/ m + 1 < i)
        BY <1>3, <1>4, <2>7, <3>2
      <4>2. similarity[order[m + 1]] < floor
        BY <1>4, <2>6, <4>1
      <4>3. i = m + 1 \/ similarity[order[m + 1]] >= similarity[order[i]]
        BY <1>5, <4>1
      <4> QED
        BY <1>6, <4>1, <4>2, <4>3
    <3> QED
      BY <3>1, <3>2
  <2> QED
    BY <1>2, <1>8, <2>7, <2>8, <2>9, <2>10 DEF n
<1> QED
  BY <1>7, <1>8

(* Whatever is stored, whatever a scan of it finds, and whatever k and the *)
(* floor are: the service, which applies the floor after the LIMIT of the  *)
(* query, leaves out a stored chunk that reaches the floor only if the     *)
(* scan has missed it or k others as near are given; what it gives is in   *)
(* order.  If the scan misses none the k nearest are given                 *)
(* (rag_retrieval.py 85-97, KnowledgeRepository.top_k).                    *)
THEOREM NothingFoundIsLost == ASSUME IsFiniteSet(Chunks) PROVE NearestAboveFloor
<1> SUFFICES ASSUME NEW rows \in SUBSET Chunks, NEW k \in 0 .. Cardinality(Chunks) + 1,
                    NEW floor \in Grades, NEW similarity \in [Chunks -> Grades],
                    NEW found \in Scans(rows), NEW chunks \in Nearest(found, similarity, k)
             PROVE  LET answers == AboveFloor(chunks, similarity, floor)
                        eligible == {x \in rows : floor > 0 => similarity[x] >= floor}
                        given == ToSet(answers)
                        missed == rows \ found
                    IN  /\ IsInjective(answers) /\ given \subseteq eligible /\ Len(answers) <= k
                        /\ \A i, j \in DOMAIN answers :
                             i < j => similarity[answers[i]] >= similarity[answers[j]]
                        /\ \A y \in eligible \ (given \cup missed) :
                             Len(answers) = k /\ \A x \in given : similarity[x] >= similarity[y]
  BY DEF NearestAboveFloor
<1> DEFINE answers == AboveFloor(chunks, similarity, floor)
           eligible == {x \in rows : floor > 0 => similarity[x] >= floor}
           given == ToSet(answers)
<1>1. /\ k \in Nat /\ floor \in Int /\ similarity \in [Chunks -> Int]
      /\ found \subseteq rows /\ found \in SUBSET Chunks /\ IsFiniteSet(found)
  BY FS_CardinalityType, FS_Subset DEF Grades, Scans
<1>2. PICK order, l :
        /\ IsOrder(order, found, similarity) /\ IsStart(answers, order, l) /\ l <= k
        /\ \A i \in 1 .. l : floor > 0 => similarity[order[i]] >= floor
        /\ l = k \/ \A i \in l + 1 .. Len(order) : floor > 0 /\ similarity[order[i]] < floor
  BY <1>1, AnswerIsPrefix
<1> HIDE DEF answers
<1>3. /\ Len(order) \in Nat /\ \A i \in 1 .. Len(order) : order[i] \in found
      /\ \A i, j \in 1 .. Len(order) : order[i] = order[j] => i = j
  BY <1>2, DistinctIndices DEF IsOrder
<1>4. /\ l \in Nat /\ l <= Len(order) /\ Len(answers) = l /\ DOMAIN answers = 1 .. l
      /\ \A i \in 1 .. l : answers[i] = order[i]
  BY <1>2 DEF IsStart
<1>5. \A i \in 1 .. l : i \in 1 .. Len(order)
  BY <1>3, <1>4
<1>6. given = {order[i] : i \in 1 .. l}
  BY <1>4 DEF ToSet
<1>7. IsInjective(answers) /\ given \subseteq eligible
  BY <1>1, <1>2, <1>3, <1>4, <1>5, <1>6 DEF IsInjective
<1>8. Len(answers) <= k
  BY <1>2, <1>4
<1>9. \A i, j \in DOMAIN answers : i < j => similarity[answers[i]] >= similarity[answers[j]]
  BY <1>2, <1>4, <1>5 DEF IsOrder
<1>10. ASSUME NEW y \in eligible \ (given \cup (rows \ found))
       PROVE  Len(answers) = k /\ \A x \in given : similarity[x] >= similarity[y]
  <2>1. PICK j \in 1 .. Len(order) : order[j] = y
    BY <1>2 DEF IsOrder
  <2>2. j \notin 1 .. l
    BY <1>6, <2>1
  <2>3. j \in l + 1 .. Len(order)
    BY <1>3, <1>4, <2>2
  <2>4. Len(answers) = k
    <3> SUFFICES ASSUME l # k PROVE FALSE
      BY <1>4
    <3>1. floor > 0 /\ similarity[y] < floor
      BY <1>2, <2>1, <2>3
    <3>2. similarity[y] >= floor /\ similarity[y] \in Int
      BY <1>1, <3>1
    <3> QED
      BY <1>1, <3>1, <3>2
  <2>5. ASSUME NEW x \in given PROVE similarity[x] >= similarity[y]
    <3>1. PICK i \in 1 .. l : order[i] = x
      BY <1>6
    <3>2. i < j /\ i \in 1 .. Len(order)
      BY <1>3, <1>4, <2>3
    <3> QED
      BY <1>2, <2>1, <3>1, <3>2 DEF IsOrder
  <2> QED
    BY <2>4, <2>5
<1> QED
  BY <1>7, <1>8, <1>9, <1>10 DEF answers

-----------------------------------------------------------------------------
(* The table cites places of what was ingested.                            *)

LEMMA FileRead ==
  ASSUME NEW reading \in Readings, NEW f \in Names, reading[f] # Missing
  PROVE  /\ reading[f] \in Seq(Chunks) /\ Len(reading[f]) \in Nat
         /\ DOMAIN reading[f] = 1 .. Len(reading[f])
         /\ \A i \in 1 .. Len(reading[f]) : reading[f][i] \in Chunks
<1>1. reading \in [Names -> {Missing} \cup Seq(Chunks)]
  BY ReadingsAssumption
<1>2. reading[f] \in Seq(Chunks)
  BY <1>1
<1> QED
  BY <1>2, LenProperties, ElementOfSeq

LEMMA BaseNames == Base!Names = Names /\ Base!Place = [file : Names, index : Nat]
BY DEF Base!Names, Names, Base!ToSet, ToSet, Base!Place

LEMMA PlacesAre ==
  ASSUME NEW reading \in Readings, NEW c, NEW p
  PROVE  p \in Base!Places(reading, c) <=>
           /\ p \in Base!Place /\ reading[p.file] # Missing
           /\ p.index \in 1 .. Len(reading[p.file]) /\ reading[p.file][p.index] = c
<1>1. ASSUME p \in Base!Places(reading, c)
      PROVE  /\ p \in Base!Place /\ reading[p.file] # Missing
             /\ p.index \in 1 .. Len(reading[p.file]) /\ reading[p.file][p.index] = c
  <2>1. PICK f \in Names : /\ reading[f] # Missing
                           /\ \E i \in DOMAIN reading[f] : /\ reading[f][i] = c
                                                           /\ p = [file |-> f, index |-> i]
    BY <1>1, BaseNames DEF Base!Places
  <2>2. PICK i \in DOMAIN reading[f] : reading[f][i] = c /\ p = [file |-> f, index |-> i]
    BY <2>1
  <2> QED
    BY <2>1, <2>2, FileRead, BaseNames
<1>2. ASSUME p \in Base!Place, reading[p.file] # Missing,
             p.index \in 1 .. Len(reading[p.file]), reading[p.file][p.index] = c
      PROVE  p \in Base!Places(reading, c)
  <2>1. p.file \in Names /\ p = [file |-> p.file, index |-> p.index]
    BY <1>2, BaseNames
  <2>2. p.index \in DOMAIN reading[p.file]
    BY <1>2, <2>1, FileRead
  <2>3. p \in {[file |-> p.file, index |-> i] : i \in {j \in DOMAIN reading[p.file] :
                                                         reading[p.file][j] = c}}
    BY <1>2, <2>1, <2>2
  <2> QED
    BY <1>2, <2>1, <2>3, BaseNames DEF Base!Places
<1> QED
  BY <1>1, <1>2

LEMMA RankIsPosition ==
  /\ \A f \in Names : Base!Rank(f) \in Nat /\ Files[Base!Rank(f)] = f
  /\ \A f, g \in Names : Base!Rank(f) = Base!Rank(g) => f = g
<1>1. ASSUME NEW f \in Names PROVE Base!Rank(f) \in DOMAIN Files /\ Files[Base!Rank(f)] = f
  <2>1. \E i \in DOMAIN Files : Files[i] = f
    BY DEF Names, ToSet
  <2> QED
    BY <2>1 DEF Base!Rank
<1>2. DOMAIN Files \subseteq Nat
  BY FilesAssumption
<1> QED
  BY <1>1, <1>2

\* A chunk that is read somewhere is read somewhere first.
LEMMA FirstPlaceIsPlace ==
  ASSUME NEW reading \in Readings, NEW c, Base!Places(reading, c) # {}
  PROVE  Base!FirstPlace(reading, c) \in Base!Places(reading, c)
<1> DEFINE P == Base!Places(reading, c)
           ranks == {Base!Rank(p.file) : p \in P}
<1>1. ASSUME NEW p \in P
      PROVE  p.file \in Names /\ p.index \in Nat /\ p = [file |-> p.file, index |-> p.index]
             /\ Base!Rank(p.file) \in Nat
  BY PlacesAre, BaseNames, RankIsPosition
<1> HIDE DEF P
<1>2. PICK r \in ranks : \A s \in ranks : r <= s
  <2>1. ranks \in SUBSET Nat /\ ranks # {}
    BY <1>1 DEF P
  <2> HIDE DEF ranks
  <2> QED
    BY <2>1, LeastNumber
<1> DEFINE indices == {p.index : p \in {o \in P : Base!Rank(o.file) = r}}
<1>3. PICK i \in indices : \A j \in indices : i <= j
  <2>1. indices \in SUBSET Nat /\ indices # {}
    BY <1>1, <1>2
  <2> HIDE DEF indices
  <2> QED
    BY <2>1, LeastNumber
<1>4. PICK p \in P : Base!Rank(p.file) = r /\ p.index = i
  BY <1>3
<1>5. ASSUME NEW q \in P \ {p} PROVE Base!Before(p, q)
  <2>1. r <= Base!Rank(q.file) /\ r \in Nat /\ Base!Rank(q.file) \in Nat
    BY <1>1, <1>2, <1>4
  <2>2. CASE Base!Rank(q.file) = r
    <3>1. q.file = p.file
      BY <1>1, <1>4, <2>2, RankIsPosition
    <3>2. i <= q.index
      BY <1>3, <2>2
    <3>3. q.index # p.index
      BY <1>1, <3>1
    <3>4. p.index < q.index
      BY <1>1, <1>4, <3>2, <3>3
    <3> QED
      BY <3>1, <3>4 DEF Base!Before
  <2>3. CASE Base!Rank(q.file) # r
    <3>1. r < Base!Rank(q.file)
      BY <2>1, <2>3
    <3> QED
      BY <1>4, <3>1 DEF Base!Before
  <2> QED
    BY <2>2, <2>3
<1>6. \E o \in P : \A q \in P \ {o} : Base!Before(o, q)
  BY <1>5
<1> QED
  BY <1>6 DEF Base!FirstPlace, P

Stored == {c \in Chunks : table[c] # NoRow}

LEMMA RangeIsFinite ==
  ASSUME NEW S, NEW s \in Seq(S) PROVE IsFiniteSet(ToSet(s))
<1>1. s \in [1 .. Len(s) -> S] /\ Len(s) \in Nat /\ DOMAIN s = 1 .. Len(s)
  BY LenProperties
<1>2. s \in Surjection(1 .. Len(s), ToSet(s))
  BY <1>1 DEF ToSet, Surjection
<1>3. IsFiniteSet(1 .. Len(s))
  BY <1>1, FS_Interval
<1> QED
  BY <1>2, <1>3, FS_Surjection

LEMMA ReadIsFinite ==
  ASSUME NEW reading \in Readings
  PROVE  IsFiniteSet({c \in Chunks : Base!Places(reading, c) # {}})
<1> DEFINE G == {f \in Names : reading[f] # Missing}
           h == [f \in G |-> ToSet(reading[f])]
           T == {h[f] : f \in G}
<1>1. IsFiniteSet(G)
  <2>1. IsFiniteSet(Names)
    BY FilesAssumption, RangeIsFinite DEF Names
  <2> QED
    BY <2>1, FS_Subset
<1>2. h \in Surjection(G, T)
  BY DEF Surjection
<1>3. IsFiniteSet(T)
  <2> HIDE DEF T, h, G
  <2> QED
    BY <1>1, <1>2, FS_Surjection
<1>4. ASSUME NEW f \in G PROVE IsFiniteSet(h[f])
  BY FileRead, RangeIsFinite
<1>5. IsFiniteSet(UNION T)
  BY <1>3, <1>4, FS_UNION
<1>6. ASSUME NEW c \in Chunks, NEW p \in Base!Places(reading, c) PROVE c \in UNION T
  <2>1. /\ p \in Base!Place /\ reading[p.file] # Missing
        /\ p.index \in 1 .. Len(reading[p.file]) /\ reading[p.file][p.index] = c
    BY PlacesAre
  <2>2. p.file \in G
    BY <2>1, BaseNames
  <2>3. c \in h[p.file]
    BY <2>1, <2>2, FileRead DEF ToSet
  <2> QED
    BY <2>2, <2>3
<1> HIDE DEF T
<1>7. {c \in Chunks : Base!Places(reading, c) # {}} \subseteq UNION T
  BY <1>6
<1> QED
  BY <1>5, <1>7, FS_Subset

\* Each row cites a place at which an ingested reading has its chunk.
TableInv ==
  /\ table \in [Chunks -> Base!Place \cup {NoRow}] /\ ingested \subseteq Readings
  /\ IsFiniteSet(Stored)
  /\ \A c \in Stored : \E reading \in ingested : table[c] \in Base!Places(reading, c)

\* A stored chunk keeps its row.
LEMMA TableStep ==
  ASSUME TableInv, Base!Next
  PROVE  TableInv' /\ \A c \in Stored : c \in Stored' /\ table'[c] = table[c]
<1>1. PICK reading \in Readings : Base!Ingest(reading)
  BY DEF Base!Next
<1> DEFINE new == {c \in Chunks : Base!Places(reading, c) # {}}
<1>2. /\ table' = [c \in Chunks |->
                     IF table[c] = NoRow /\ Base!Places(reading, c) # {}
                       THEN Base!FirstPlace(reading, c) ELSE table[c]]
      /\ ingested' = ingested \cup {reading}
  BY <1>1 DEF Base!Ingest
<1>3. ASSUME NEW c \in Chunks, Base!Places(reading, c) # {}
      PROVE  /\ Base!FirstPlace(reading, c) \in Base!Places(reading, c)
             /\ Base!FirstPlace(reading, c) \in Base!Place
  BY <1>3, FirstPlaceIsPlace, PlacesAre
<1>4. ingested' \subseteq Readings /\ ingested \subseteq ingested' /\ reading \in ingested'
  BY <1>2 DEF TableInv
<1>5. ASSUME NEW c \in Chunks
      PROVE  \/ table'[c] = table[c]
             \/ /\ table[c] = NoRow /\ c \in new /\ table'[c] = Base!FirstPlace(reading, c)
                /\ table'[c] \in Base!Places(reading, c) /\ table'[c] \in Base!Place
  BY <1>2, <1>3
<1>6. table' \in [Chunks -> Base!Place \cup {NoRow}]
  <2>1. table' = [c \in Chunks |-> table'[c]]
    BY <1>2
  <2> QED
    BY <1>5, <2>1 DEF TableInv
<1>7. \A c \in Stored : c \in Stored' /\ table'[c] = table[c]
  BY <1>5 DEF Stored
<1>8. IsFiniteSet(Stored')
  <2>1. IsFiniteSet(new)
    BY ReadIsFinite
  <2>2. Stored' \subseteq Stored \cup new
    BY <1>5 DEF Stored
  <2> HIDE DEF new
  <2>3. IsFiniteSet(Stored \cup new)
    BY <2>1, FS_Union DEF TableInv
  <2> QED
    BY <2>2, <2>3, FS_Subset
<1>9. ASSUME NEW c \in Stored'
      PROVE  \E r \in ingested' : table'[c] \in Base!Places(r, c)
  <2>1. c \in Chunks /\ table'[c] # NoRow
    BY DEF Stored
  <2>2. CASE table'[c] = table[c]
    <3>1. c \in Stored
      BY <2>1, <2>2 DEF Stored
    <3> QED
      BY <1>4, <2>2, <3>1 DEF TableInv
  <2>3. CASE table'[c] \in Base!Places(reading, c)
    BY <1>4, <2>3
  <2> QED
    BY <1>5, <2>1, <2>2, <2>3
<1> QED
  BY <1>4, <1>6, <1>7, <1>8, <1>9 DEF TableInv

LEMMA InitTable == Base!Init => TableInv
<1> SUFFICES ASSUME Base!Init PROVE TableInv
  OBVIOUS
<1>1. table = [c \in Chunks |-> NoRow] /\ ingested = {}
  BY DEF Base!Init
<1>2. Stored = {}
  BY <1>1 DEF Stored
<1> QED
  BY <1>1, <1>2, FS_EmptySet DEF TableInv

-----------------------------------------------------------------------------
(* The answers.                                                            *)

CitationOf(chunks) == [i \in DOMAIN chunks |-> Citation(chunks[i], table[chunks[i]])]

\* An answer cites distinct chunks, by the rows they still have.
IsAnswer(a) == \E chunks : Distinct(chunks, Stored) /\ a = CitationOf(chunks)

AnswerInv ==
  /\ answer = [t \in Threads |-> answer[t]]
  /\ \A t \in Threads : answer[t] # None => user[t].step = "embedded" /\ IsAnswer(answer[t])

RagInv == ProviderInv /\ TableInv /\ AnswerInv

LEMMA AnswerKept ==
  ASSUME \A c \in Stored : c \in Stored' /\ table'[c] = table[c], NEW a, IsAnswer(a)
  PROVE  IsAnswer(a)'
<1>1. PICK chunks : Distinct(chunks, Stored) /\ a = CitationOf(chunks)
  BY DEF IsAnswer
<1>2. \A i \in DOMAIN chunks : chunks[i] \in Stored
  BY <1>1, DistinctIndices
<1>3. Distinct(chunks, Stored')
  <2>1. chunks \in Seq(Stored) /\ \A c \in Stored : c \in Stored'
    BY <1>1 DEF Distinct
  <2>2. chunks \in [1 .. Len(chunks) -> Stored'] /\ Len(chunks) \in Nat
    BY <2>1, LenProperties
  <2>3. chunks \in Seq(Stored')
    BY <2>2, SeqDef
  <2> QED
    BY <1>1, <2>3 DEF Distinct
<1>4. a = [i \in DOMAIN chunks |-> Citation(chunks[i], table'[chunks[i]])]
  BY <1>1, <1>2 DEF CitationOf
<1> QED
  BY <1>3, <1>4 DEF IsAnswer, CitationOf, Distinct

\* A thread that has the vectors keeps its frame until it has its answer.
LEMMA EmbeddedStays ==
  ASSUME Embedding!TypeOK, NEW t \in Threads, Embedding!Ask(t) \/ Embedding!Proceed(t),
         NEW u \in Threads, user[u].step = "embedded"
  PROVE  user'[u].step = "embedded"
<1>1. user \in [Threads -> Embedding!User]
  BY Typing
<1>2. CASE user[t].step = "embedded"
  BY <1>2 DEF Embedding!Ask, Embedding!Proceed, Embedding!At, Embedding!Enter, Embedding!Leave,
     Embedding!Return, Embedding!EmbedNowhere, Embedding!Embed, Embedding!Load,
     Embedding!LoadFails, Embedding!Encode
<1>3. CASE user[t].step # "embedded"
  <2>1. u # t
    BY <1>3
  <2>2. user'[u] = user[u]
    BY <1>1, <2>1 DEF Embedding!Ask, Embedding!Proceed, Embedding!Enter, Embedding!Leave,
       Embedding!Return, Embedding!EmbedNowhere, Embedding!Embed, Embedding!Load,
       Embedding!LoadFails, Embedding!Encode
  <2> QED
    BY <2>2
<1> QED
  BY <1>2, <1>3

LEMMA SameAnswers ==
  ASSUME AnswerInv, UNCHANGED <<base_vars, answer>>,
         \A u \in Threads : user[u].step = "embedded" => user'[u].step = "embedded"
  PROVE  AnswerInv'
<1>1. table' = table /\ answer' = answer
  BY DEF base_vars
<1>2. \A a : IsAnswer(a) => IsAnswer(a)'
  BY <1>1 DEF IsAnswer, CitationOf, Distinct, Stored
<1> QED
  BY <1>1, <1>2 DEF AnswerInv

LEMMA SelectStep ==
  ASSUME RagInv, NEW t \in Threads, Select(t) PROVE AnswerInv'
<1>0. PICK k \in Ks, similarity \in Similarities :
        \E chunks \in Retrievals(Stored, similarity, IF k = None THEN RagTopK ELSE k, Floor) :
          answer' = [answer EXCEPT ![t] = CitationOf(chunks)]
  BY DEF Select, Stored, CitationOf
<1>1. PICK chunks \in Retrievals(Stored, similarity, IF k = None THEN RagTopK ELSE k, Floor) :
        answer' = [answer EXCEPT ![t] = CitationOf(chunks)]
  BY <1>0
<1>2. (IF k = None THEN RagTopK ELSE k) \in Nat
  BY ConstantsAssumption
<1>3. IsFiniteSet(Stored)
  BY DEF RagInv, TableInv
<1>4. Distinct(chunks, Stored)
  BY <1>2, <1>3, RetrievalsAreDistinct
<1>5. IsAnswer(CitationOf(chunks))
  BY <1>4 DEF IsAnswer
<1>6. /\ user[t].step = "embedded" /\ user' = user /\ table' = table
  BY DEF Select, embedding_vars, base_vars
<1>7. \A a : IsAnswer(a) => IsAnswer(a)'
  BY <1>6 DEF IsAnswer, CitationOf, Distinct, Stored
<1> DEFINE cited == CitationOf(chunks)
<1> HIDE DEF cited
<1>8. answer' = [answer EXCEPT ![t] = cited] /\ IsAnswer(cited)
  BY <1>1, <1>5 DEF cited
<1> QED
  BY <1>6, <1>7, <1>8 DEF RagInv, AnswerInv

LEMMA FinishAnswer ==
  ASSUME RagInv, NEW t \in Threads, Finish(t) PROVE AnswerInv'
<1>1. user \in [Threads -> Embedding!User]
  BY Typing DEF RagInv, ProviderInv
<1>2. /\ \A u \in Threads \ {t} : user'[u] = user[u]
      /\ table' = table /\ answer' = [answer EXCEPT ![t] = None]
  BY <1>1 DEF Finish, Embedding!Finish, base_vars
<1>3. \A a : IsAnswer(a) => IsAnswer(a)'
  BY <1>2 DEF IsAnswer, CitationOf, Distinct, Stored
<1> QED
  BY <1>2, <1>3 DEF RagInv, AnswerInv

LEMMA SelectFailsAnswer ==
  ASSUME RagInv, NEW t \in Threads, SelectFails(t) PROVE AnswerInv'
<1>1. user \in [Threads -> Embedding!User]
  BY Typing DEF RagInv, ProviderInv
<1>2. /\ \A u \in Threads \ {t} : user'[u] = user[u]
      /\ UNCHANGED <<base_vars, answer>> /\ answer[t] = None
  BY <1>1 DEF SelectFails
<1>3. \A a : IsAnswer(a) => IsAnswer(a)'
  BY <1>2 DEF IsAnswer, CitationOf, Distinct, Stored, base_vars
<1> QED
  BY <1>2, <1>3 DEF RagInv, AnswerInv

LEMMA NextRagInv == RagInv /\ [Next]_vars => RagInv'
<1> SUFFICES ASSUME RagInv, [Next]_vars PROVE RagInv'
  OBVIOUS
<1>1. ProviderInv'
  BY NextProviderInv DEF RagInv
<1>2. ASSUME UNCHANGED base_vars PROVE TableInv'
  BY <1>2 DEF RagInv, base_vars, TableInv, Stored, Base!Places, Base!Place
<1>3. Embedding!TypeOK /\ AnswerInv
  BY DEF RagInv, ProviderInv
<1>4. ASSUME NEW t \in Threads, Ask(t) PROVE RagInv'
  <2>1. AnswerInv'
    BY <1>3, <1>4, EmbeddedStays, SameAnswers DEF Ask
  <2> QED
    BY <1>1, <1>2, <1>4, <2>1 DEF RagInv, Ask
<1>5. ASSUME NEW t \in Threads, EmbedQuery(t) PROVE RagInv'
  <2>1. AnswerInv'
    BY <1>3, <1>5, EmbeddedStays, SameAnswers DEF EmbedQuery
  <2> QED
    BY <1>1, <1>2, <1>5, <2>1 DEF RagInv, EmbedQuery
<1>6. ASSUME NEW t \in Threads, Select(t) PROVE RagInv'
  BY <1>1, <1>2, <1>6, SelectStep DEF RagInv, Select
<1>7. ASSUME NEW t \in Threads, Finish(t) PROVE RagInv'
  BY <1>1, <1>2, <1>7, FinishAnswer DEF RagInv, Finish
<1>8. CASE Reset
  <2>1. user' = user /\ UNCHANGED <<base_vars, answer>>
    BY <1>8 DEF Reset, Embedding!Reset
  <2>2. AnswerInv'
    BY <1>3, <2>1, SameAnswers
  <2> QED
    BY <1>1, <1>2, <2>1, <2>2 DEF RagInv
<1>9. CASE Ingest
  <2>1. /\ TableInv' /\ \A c \in Stored : c \in Stored' /\ table'[c] = table[c]
        /\ user' = user /\ answer' = answer
    BY <1>9, TableStep DEF RagInv, Ingest, embedding_vars
  <2>2. AnswerInv'
    BY <1>3, <2>1, AnswerKept DEF AnswerInv
  <2> QED
    BY <1>1, <2>1, <2>2 DEF RagInv
<1>10. CASE UNCHANGED vars
  <2>1. user' = user /\ UNCHANGED <<base_vars, answer>>
    BY <1>10 DEF vars, embedding_vars
  <2>2. AnswerInv'
    BY <1>3, <2>1, SameAnswers
  <2> QED
    BY <1>1, <1>2, <2>1, <2>2 DEF RagInv
<1>11. ASSUME NEW t \in Threads, SelectFails(t) PROVE RagInv'
  BY <1>1, <1>2, <1>11, SelectFailsAnswer DEF RagInv, SelectFails
<1> QED
  BY <1>4, <1>5, <1>6, <1>7, <1>8, <1>9, <1>10, <1>11 DEF Next

LEMMA SpecRagInv == Spec => []RagInv
<1>1. Init => RagInv
  <2> SUFFICES ASSUME Init PROVE RagInv
    OBVIOUS
  <2>1. AnswerInv
    BY DEF Init, AnswerInv
  <2> QED
    BY <2>1, InitProviderInv, InitTable DEF Init, RagInv
<1> QED
  BY <1>1, NextRagInv, PTL DEF Spec

LEMMA AnswerIs ==
  ASSUME RagInv, NEW t \in Threads, answer[t] # None
  PROVE  \E chunks : Distinct(chunks, Stored) /\ answer[t] = CitationOf(chunks)
BY DEF RagInv, AnswerInv, IsAnswer

(* Each variable keeps its type, whatever the bounds; an answer never      *)
(* cites more chunks than are stored, and is there only while its request  *)
(* is.                                                                     *)
THEOREM TypeCorrect == Spec => []TypeOK
<1>1. RagInv => TypeOK
  <2> SUFFICES ASSUME RagInv PROVE TypeOK
    OBVIOUS
  <2>1. ASSUME NEW t \in Threads, answer[t] # None
        PROVE  Len(answer[t]) <= Cardinality(Stored)
    <3>1. PICK chunks : Distinct(chunks, Stored) /\ answer[t] = CitationOf(chunks)
      BY <2>1, AnswerIs
    <3> DEFINE n == Len(chunks)
    <3>2. n \in Nat /\ DOMAIN chunks = 1 .. n /\ chunks \in [1 .. n -> Stored]
      BY <3>1, DistinctIndices DEF Distinct
    <3>3. chunks \in Injection(1 .. n, Stored)
      BY <3>1, <3>2, DistinctIndices DEF Injection, IsInjective
    <3>4. n <= Cardinality(Stored)
      <4>1. IsFiniteSet(Stored)
        BY DEF RagInv, TableInv
      <4>2. IsFiniteSet(1 .. n) /\ Cardinality(1 .. n) = n
        <5> HIDE DEF n
        <5>1. Cardinality(1 .. n) = IF 1 > n THEN 0 ELSE n - 1 + 1
          BY <3>2, FS_Interval
        <5> QED
          BY <3>2, <5>1, FS_Interval
      <4> QED
        BY <3>3, <4>1, <4>2, FS_Injection
    <3>5. Len(answer[t]) = n
      <4>1. DOMAIN answer[t] = 1 .. n
        BY <3>1, <3>2 DEF CitationOf
      <4> QED
        BY <3>2, <4>1
    <3> QED
      BY <3>4, <3>5
  <2> QED
    BY <2>1 DEF RagInv, ProviderInv, TableInv, AnswerInv, TypeOK, Stored
<1> QED
  BY <1>1, SpecRagInv, PTL

\* What a citation says of the row it was made from.
LEMMA CitationSays ==
  ASSUME RagInv, NEW chunks, Distinct(chunks, Stored), NEW i \in DOMAIN chunks
  PROVE  /\ chunks[i] \in Chunks /\ table[chunks[i]] \in Base!Place
         /\ CitationOf(chunks)[i].source_file = table[chunks[i]].file
         /\ CitationOf(chunks)[i].snippet = Lead[chunks[i]]
         /\ CitationOf(chunks)[i].source_id.category = Category[table[chunks[i]].file]
         /\ CitationOf(chunks)[i].source_id.index = table[chunks[i]].index
<1>1. chunks[i] \in Chunks /\ table[chunks[i]] # NoRow
  BY DistinctIndices DEF Stored
<1>2. table[chunks[i]] \in Base!Place
  BY <1>1 DEF RagInv, TableInv
<1> QED
  BY <1>1, <1>2 DEF CitationOf, Citation, SourceId

\* The reading a stored chunk came from has it at the place of its row.
LEMMA RowIsRead ==
  ASSUME RagInv, NEW c \in Stored
  PROVE  \E reading \in ingested :
           /\ reading[table[c].file] # Missing
           /\ table[c].index \in DOMAIN reading[table[c].file]
           /\ reading[table[c].file][table[c].index] = c
<1>1. PICK reading \in ingested : table[c] \in Base!Places(reading, c)
  BY DEF RagInv, TableInv
<1>2. reading \in Readings
  BY DEF RagInv, TableInv
<1>3. /\ table[c] \in Base!Place /\ reading[table[c].file] # Missing
      /\ table[c].index \in 1 .. Len(reading[table[c].file])
      /\ reading[table[c].file][table[c].index] = c
  BY <1>1, <1>2, PlacesAre
<1>4. DOMAIN reading[table[c].file] = 1 .. Len(reading[table[c].file])
  BY <1>2, <1>3, FileRead, BaseNames
<1> QED
  BY <1>3, <1>4

(* Whatever is ingested while a query is answered, each citation names a   *)
(* place where a committed run read the text it quotes, and two citations  *)
(* of one answer share a source_id only if committed runs read different   *)
(* contents of that file (rag_retrieval.py 103-124).                       *)
THEOREM CitationsAreTrue == Spec => []CitationsResolve
<1>1. RagInv => CitationsResolve
  <2> SUFFICES ASSUME RagInv, NEW t \in Threads, answer[t] # None, NEW i \in DOMAIN answer[t]
               PROVE  /\ \E reading \in ingested : Resolves(answer[t][i], reading)
                      /\ \A j \in DOMAIN answer[t] \ {i} :
                           answer[t][j].source_id = answer[t][i].source_id =>
                             \E r1, r2 \in ingested :
                               r1[answer[t][i].source_file] # r2[answer[t][i].source_file]
    BY DEF CitationsResolve
  <2>1. PICK chunks : Distinct(chunks, Stored) /\ answer[t] = CitationOf(chunks)
    BY AnswerIs
  <2>2. /\ DOMAIN answer[t] = DOMAIN chunks /\ i \in DOMAIN chunks
        /\ \A j \in DOMAIN chunks : chunks[j] \in Stored
    BY <2>1, DistinctIndices DEF CitationOf
  <2> DEFINE c == chunks[i]
             p == table[c]
             f == p.file
  <2>3. /\ c \in Chunks /\ p \in Base!Place /\ f \in Names
        /\ answer[t][i].source_file = f /\ answer[t][i].snippet = Lead[c]
        /\ answer[t][i].source_id.category = Category[f]
        /\ answer[t][i].source_id.index = p.index
    BY <2>1, <2>2, CitationSays, BaseNames
  <2>4. PICK reading \in ingested : /\ reading[f] # Missing /\ p.index \in DOMAIN reading[f]
                                    /\ reading[f][p.index] = c
    BY <2>2, RowIsRead
  <2>5. Resolves(answer[t][i], reading)
    BY <2>3, <2>4 DEF Resolves
  <2>6. ASSUME NEW j \in DOMAIN answer[t] \ {i},
               answer[t][j].source_id = answer[t][i].source_id
        PROVE  \E r1, r2 \in ingested :
                 r1[answer[t][i].source_file] # r2[answer[t][i].source_file]
    <3> DEFINE d == chunks[j]
               q == table[d]
    <3>1. /\ q \in Base!Place /\ d \in Stored
          /\ answer[t][j].source_id.category = Category[q.file]
          /\ answer[t][j].source_id.index = q.index
      BY <2>1, <2>2, CitationSays
    <3>2. q.file \in Names /\ Category[q.file] = Category[f] /\ q.index = p.index
      BY <2>3, <2>6, <3>1, BaseNames
    <3>3. q.file = f
      BY <2>3, <3>2, CategoryAssumption DEF IsInjective
    <3>4. c # d
      BY <2>1, <2>2, DistinctIndices
    <3>5. PICK other \in ingested : other[f][p.index] = d
      BY <3>1, <3>2, <3>3, RowIsRead
    <3>6. reading[f] # other[f]
      BY <2>4, <3>4, <3>5
    <3> QED
      BY <2>3, <3>6
  <2> QED
    BY <2>5, <2>6
<1> QED
  BY <1>1, SpecRagInv, PTL

=============================================================================
