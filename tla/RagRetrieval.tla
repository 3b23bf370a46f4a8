---------------------------- MODULE RagRetrieval ----------------------------
(***************************************************************************)
(* services/ai/rag_retrieval.py at work: threads of one process get the    *)
(* provider (EmbeddingProvider), embed a query, select the chunks nearest  *)
(* to it from knowledge_chunks and cite them, while runs of the ingestion  *)
(* in other processes commit what they read (KnowledgeBase, which          *)
(* KbIngestion implements).                                                *)
(***************************************************************************)
EXTENDS RagRules

CONSTANTS
  Threads, Providers, MaxResets, None,      \* of EmbeddingProvider
  Files, Chunks, Readings, NoRow, Missing,  \* of KnowledgeBase
  Similarities, \* bound: how near the chunks may be to a query
  Ks,           \* bound: the values of k, None for the default
  RagTopK,      \* settings.rag_top_k
  Floor,        \* settings.rag_min_similarity
  MaxIngests    \* bound: runs that commit

VARIABLES
  instance, lock_holder, provider, user, resets, \* of EmbeddingProvider
  table, ingested,                               \* of KnowledgeBase
  answer                                         \* what retrieve returned, or None

Embedding == INSTANCE EmbeddingProvider
Base == INSTANCE KnowledgeBase

embedding_vars == <<instance, lock_holder, provider, user, resets>>
base_vars == <<table, ingested>>
vars == <<embedding_vars, base_vars, answer>>

Names == ToSet(Files)

\* A reset makes at most one more provider.
ASSUME ProvidersAssumption ==
  /\ MaxResets \in Nat /\ None \notin Threads \cup Providers
  /\ IsFiniteSet(Providers) /\ Cardinality(Providers) > MaxResets

\* The table of ingestion lists each name once, with a category of its own.
ASSUME FilesAssumption == Files \in Seq(Names) /\ IsInjective(Files)

ASSUME CategoryAssumption == Category \in [Names -> STRING] /\ IsInjective(Category)

ASSUME ReadingsAssumption == Readings \subseteq [Names -> {Missing} \cup Seq(Chunks)]

ASSUME NoRowAssumption == NoRow \notin Base!Place

ASSUME ConstantsAssumption ==
  /\ DOMAIN Lead = Chunks
  /\ Similarities \subseteq [Chunks -> Int]
  /\ Ks \subseteq Nat \cup {None} /\ RagTopK \in Nat /\ Floor \in Int /\ EfSearch \in Nat

TypeOK ==
  /\ Embedding!TypeOK
  /\ table \in [Chunks -> Base!Place \cup {NoRow}]
  /\ ingested \subseteq Readings
  /\ \A t \in Threads : answer[t] # None =>
       /\ user[t].step = "embedded"
       /\ Len(answer[t]) <= Cardinality({c \in Chunks : table[c] # NoRow})

Init == Embedding!Init /\ Base!Init /\ answer = [t \in Threads |-> None]

-----------------------------------------------------------------------------
\* A request gets the provider for its service and begins to retrieve.
Ask(t) == Embedding!Ask(t) /\ UNCHANGED <<base_vars, answer>>

EmbedQuery(t) == Embedding!Proceed(t) /\ UNCHANGED <<base_vars, answer>>

\* retrieve after embed_text: one SELECT, and the citations of its rows.
Select(t) ==
  /\ user[t].step = "embedded" /\ answer[t] = None
  /\ \E k \in Ks, similarity \in Similarities :
       \E chunks \in Retrievals({c \in Chunks : table[c] # NoRow}, similarity,
                                IF k = None THEN RagTopK ELSE k, Floor) :
         answer' = [answer EXCEPT ![t] =
                      [i \in DOMAIN chunks |-> Citation(chunks[i], table[chunks[i]])]]
  /\ UNCHANGED <<embedding_vars, base_vars>>

\* The SELECT raises, and the exception passes through retrieve.
SelectFails(t) ==
  /\ user[t].step = "embedded" /\ answer[t] = None
  /\ user' = [user EXCEPT ![t].step = "failed"]
  /\ UNCHANGED <<instance, lock_holder, provider, resets, base_vars, answer>>

\* Mutant: the service keeps the answer for the next request.
FinishKeeping(t) ==
  /\ user[t].step = "embedded" => answer[t] # None
  /\ Embedding!Finish(t)
  /\ UNCHANGED <<base_vars, answer>>

\* The caller has the answer, or the exception.
Finish(t) ==
  /\ user[t].step = "embedded" => answer[t] # None
  /\ Embedding!Finish(t)
  /\ answer' = [answer EXCEPT ![t] = None]
  /\ UNCHANGED base_vars

Reset == Embedding!Reset /\ UNCHANGED <<base_vars, answer>>

Ingest ==
  /\ Cardinality(ingested) < MaxIngests
  /\ Base!Next
  /\ UNCHANGED <<embedding_vars, answer>>

-----------------------------------------------------------------------------
Next ==
  \/ \E t \in Threads : Ask(t) \/ EmbedQuery(t) \/ Select(t) \/ SelectFails(t) \/ Finish(t)
  \/ Reset \/ Ingest

Spec == Init /\ [][Next]_vars

\* Threads are scheduled; a lock that is released again and again is taken
\* some day by each thread that waits for it.
FairSpec ==
  /\ Spec
  /\ \A t \in Threads :
       /\ WF_vars(EmbedQuery(t) \/ Select(t) \/ SelectFails(t) \/ Finish(t))
       /\ SF_vars(Embedding!Enter(t) /\ UNCHANGED <<base_vars, answer>>)
       /\ SF_vars(Embedding!Embed(t) /\ UNCHANGED <<base_vars, answer>>)

-----------------------------------------------------------------------------
OneProviderOneModel == Embedding!OneProviderOneModel

\* A reader of the files as they were at some ingestion finds the snippet at
\* the place the citation names.
Resolves(citation, reading) ==
  \E f \in Names :
    /\ citation.source_file = f /\ citation.source_id.category = Category[f]
    /\ reading[f] # Missing /\ citation.source_id.index \in DOMAIN reading[f]
    /\ Lead[reading[f][citation.source_id.index]] = citation.snippet

(* Every citation is true of the files as some committed run read them,    *)
(* and two citations of one answer share their "stable source_id"          *)
(* (rag_retrieval.py:118) only if two committed runs read different        *)
(* contents of that file: then chunks of both are stored, and the id tells *)
(* neither which text nor which citation is meant.                         *)
CitationsResolve ==
  \A t \in Threads : answer[t] # None =>
    \A i \in DOMAIN answer[t] :
      LET cited == answer[t][i] IN
      /\ \E reading \in ingested : Resolves(cited, reading)
      /\ \A j \in DOMAIN answer[t] \ {i} :
           answer[t][j].source_id = cited.source_id =>
             \E r1, r2 \in ingested : r1[cited.source_file] # r2[cited.source_file]

(* Every retrieval ends, with an answer or an exception, also when loading *)
(* the model fails while others wait for it, the SELECT fails, or the      *)
(* provider is reset.                                                      *)
RetrievalsEnd == \A t \in Threads : user[t].step # "idle" ~> user[t].step = "idle"
=============================================================================
