# Formal model of the AI professional network

TLA+ models, TLC runs and TLAPS proofs for the backend under `src/backend`: a
Python service layer over PostgreSQL (SQLAlchemy), a local file volume and an LLM
provider. At this commit there is no web layer: the services are called by request
threads a web layer will provide, and by two operator scripts.

## 1. Inventory

| Component | State | Operations | Hard behaviour |
|---|---|---|---|
| Authentication: `auth_service`, `security`, `user_repository`, `refresh_token_repository` | tables `users`, `refresh_tokens` | `register`, `login`, `refresh`, `revoke_refresh_token` | concurrent refreshes of one token, registrations racing in the unique index, expiry, answers lost after COMMIT |
| Sessions: `db/session.py` | engine, connection pool, open transactions | `init_db`, `get_session` (commit, rollback, close) | the pool shared by callers and `_log`; a row is read at one point of a transaction and written at another |
| LLM client: `llm_client`, `groq_provider`, `ai_log_repository` | the frame of a call, `ai_request_logs` | `complete_structured`, `stream_structured`, `_log` | retries, timeouts, abandoned streams, a failed log write, pool exhaustion |
| Profiles: `profile_service`, `profile_repository` | `profiles` | `get_profile`, `update_profile` | lost updates by column, races of first accesses |
| Resume storage: `resume_repository`, `local_storage` | `resumes`, the file volume | `save_resume`, `delete_resume`, lookups | a transactional row and a file that is not |
| Knowledge base: `kb_ingestion`, `knowledge_repository`, `scripts/ingest_kb.py` | `knowledge_chunks`, files in `backend/kb` | chunking, a run of the script | overlapping runs, edits, waits in the unique index, deadlock |
| Job seeding: `seed_jobs.py`, `job_loader`, `job_repository` | `jobs` | a run of the script | overlapping runs, a failure between batches or after the COMMIT |
| Resume parsing: `resume_service`, `parsing/*` | none | `process_resume` | foreseen and unforeseen errors of the readers, before an LLM call inside the caller's transaction |
| RAG retrieval: `rag_retrieval`, `knowledge_repository` | none; reads `knowledge_chunks` | `retrieve`, `top_k` | an approximate index, floor after LIMIT, ties, a failing SELECT, citations of stale chunks |
| Embedding provider: `embedding_provider` | a lazily built singleton, its lazily loaded model | `get_embedding_provider`, `embed_text`, `embed_batch`, `reset_provider_singleton` | two locks, values read after leaving them, loads that fail |
| Types, settings, health, migrations | none | declarations, one-off reads | none |

Interactions. A request opens `get_session`, calls a service, and the service calls
repositories, which only flush; COMMIT comes when `get_session` is left. The LLM
client writes its log row through a session of its own, taken from the same pool
while the caller's session may still be open. The scripts hold one session, and so
one transaction, for the whole run. `process_resume` makes its one call to the LLM client inside the
caller's transaction. A retrieval takes the process's embedding provider and then reads
the table that runs of the ingestion script, in other processes, commit to. Nothing else
is shared: threads meet in the tables, in the pool, in the file volume and in the
embedding provider.

What makes each part correct is stated by the properties of section 4; the places
where the code is exposed are the `hazards` of `PROJECT.json`.

## 2. Modules

| Module | Models |
|---|---|
| `AuthService` | the three flows and revocation, as transactions at READ COMMITTED |
| `TokenLedger` | abstract specification: what the flows promise of refresh tokens, one atomic step per operation |
| `AuthService_proofs` | the inductive invariant of `AuthService` and what follows from it, that it implements `TokenLedger`, and the bound on a token's successors, proved with TLAPS |
| `LLMClient` | complete and streamed calls, the log row, the pool |
| `ProfileRules` | pure: completion percentage, incomplete sections, skill normalisation |
| `ProfileService` | get and update over `ProfileRules`, with the ORM's changed-column UPDATE |
| `ResumeStore` | save and delete over the table and the volume |
| `ResumeLibrary` | abstract specification: what the resume store promises its users, one atomic step per operation |
| `ChunkRules` | pure: sections, paragraphs, and packing them into chunks |
| `KnowledgeBase` | abstract specification: what ingestion promises of `knowledge_chunks`, one atomic step per committed run |
| `KbIngestion` | runs of `ingest_kb.py` over files given as sequences of chunks; implements `KnowledgeBase` |
| `ResumeProcessing` | `process_resume`: the extraction of an upload, composed with `LLMClient` |
| `EmbeddingProvider` | the provider object and its model, each built once under a lock |
| `RagRules` | pure: what a scan finds, top k, floor, citations |
| `RagRetrieval` | retrievals: `EmbeddingProvider` and `KnowledgeBase` composed, with `RagRules` |
| `JobSeeding` | runs of `seed_jobs.py` |
| `JobSeeding_proofs` | the inductive invariant of the module and its safety, proved with TLAPS |
| `ResumeStore_proofs` | the same, and that `ResumeStore` implements `ResumeLibrary` |
| `ProfileService_proofs` | the same, and both rules of `ProfileRules` |
| `ResumeProcessing_proofs` | the same for `LLMClient` and `ResumeProcessing` together |
| `KbIngestion_proofs` | that `KbIngestion` implements `KnowledgeBase`, when its runs deadlock, and the chunking of every file |
| `RagRetrieval_proofs` | the safety of `RagRetrieval` with the provider and the table it composes, and of the selection in `RagRules` |
| `Loops` | lemmas the proofs about recursive definitions rest on: induction, and what relates two loops |
| `MCAuthService`, `MCLLMClient`, `MCResumeProcessing`, `MCResumeStore`, `MCJobSeeding` | values for the constants that a `.cfg` cannot write |
| `MCProfileService`, `MCKbIngestion`, `MCRagRetrieval` | the same, and the reference definitions for `ProfileRules`, `ChunkRules`, `RagRules` with the inputs they are compared on |

Two conventions hold in all state machines.

*Transactions.* `session[w]` (or `run[r]`, `call[c]`) is the frame of a request with
what its transaction has written and not committed. A step of the model runs from
one point where other transactions can be noticed to the next: a SELECT is a step
that reads the committed tables, a flush that may wait in a unique index or for a
row lock is a step whose guard is that nobody holds the entry, COMMIT makes the
rows visible. `Fail` aborts at any point; a process crash is `Fail` in every open
session, and the files keep what was done to them. Random UUIDs and tokens are
fresh elements of a finite set; hashes are injective.

*Autoflush.* `get_session` makes sessions with `autoflush=False`, so the assignments
`refresh` makes to the presented row reach the database at COMMIT (`WriteToken`),
although the successor's row was flushed earlier (`IssueTokens`).

How state and actions correspond to the code:

- `AuthService`: `Register`/`InsertUser` are `register` up to its hash and the flush
  of `create_user`; `Login`, `Refresh` check and let a request through;
  `IssueTokens` is `_issue_tokens` with the flush of the new row; `Commit`,
  `Rollback` are the two exits of `get_session`. `parent` is history: the token each
  row was refreshed from. `delivered` are the tokens that reached a client; `Commit`
  with `answered = FALSE` is an answer lost on the way.
- `LLMClient`: `Provider(c)` is one request to the provider with its handler in
  `complete_structured` or `stream_structured`; `OpenLogSession`, `PoolTimeout`,
  `CommitLog`, `LogFails` are `_log`; `EndTransaction` is the caller's
  `get_session`. `answers` and `swallowed` are history; a COMMIT of `_log` whose answer is
  lost leaves a row and a swallowed failure.
- `ProfileService`: `Get`, `Update` are the checks and the SELECT, `Flush` the INSERT
  or UPDATE with the columns in `dirty`, `Commit` applies them to the row that is
  there. `overlapped` is history: an UPDATE met a row it had not read.
- `ResumeStore`: `Save`, `StoreFile`/`StoreFails`, `InsertRow`; `Delete`,
  `FileExists`, `Unlink`, `DeleteRow`: each call that reads or changes the table or
  the volume is a step. `saved`, `unlinked` are history.
- `ResumeLibrary`: the `shelf` holds what can be read. `ResumeStore` maps it to the committed rows
  of which no delete has taken the file, each with what its file holds, and `request` to what a
  frame has still to do. A COMMIT of `save_resume` is `Add`, an unlink `Remove`, a request that
  fails or has nothing to do is dropped, and the COMMIT of a delete is a stutter.
- `KbIngestion`: `ReadFile`, one `CheckChunk` per `chunk_exists`, `Embed`, one
  `InsertChunk` per `upsert_chunk`, `FinishFile`, `Commit`. `Edit` is the operator's
  editor. `DeadlockDetected` is PostgreSQL's detector, for cycles of any number of runs.
- `KnowledgeBase`: `Ingest(reading)` is a committed run, `reading` what it read of each
  file. `KbIngestion` maps `table` to the committed rows and `ingested` to the readings of
  the runs that are done, so its `Commit` is `Ingest` and every other step a stutter.
- `ResumeProcessing`: `Process` is `process_resume` up to the first request to the
  provider: `ExtractText` decides, then `Structure` begins a call of `LLMClient` or
  `Refuse` raises. From there on the actions are those of `LLMClient`.
- `EmbeddingProvider`: `Enter`, `Leave`, `Return` are `get_embedding_provider` up to the
  test inside the lock, to the end of the `with`, and the read of the global after it;
  `Embed`, `Load`/`LoadFails` are the same for `_load_model`; `Encode` the rest of
  `embed_text` and `embed_batch`. `loads`, `resets` are history.
- `RagRetrieval`: `Select` is `retrieve` from the SELECT to the citations, `SelectFails` the
  same when the SELECT raises; `Ingest` is a step of `KnowledgeBase`. In `RagRules`, `Scans` is
  what PostgreSQL may find of the rows: all, or, by the HNSW index on the embeddings, any of
  them up to `EfSearch`.
- `JobSeeding`: `EmbedBatch`, then `Select` and `Insert` for each record, `Commit`, and
  `Count`, which may still fail. `known`, `stored` are history.

Operators marked "Mutant" are plausible mistakes; no specification uses them. Each
is put in the place of the definition it follows to see that the property listed
with it in `PROJECT.json` notices.

## 3. Fairness

`FairSpec` of each module assumes only that a thread that has something to do is
scheduled (weak fairness of `Proceed`, or of `Provider` and `Client`: the provider
answers, if only because its timeout expires), and that PostgreSQL wakes the waiters
of a lock when its holder ends, so that a waiter is not overtaken for ever (strong
fairness of the step that may wait). No request is assumed to arrive, nothing is
assumed to succeed, the clock need not advance. For `KbIngestion` the deadlock
detector is fair, for `JobSeeding` weak fairness suffices: an INSERT waits only for
one of finitely many runs. In `RagRetrieval` a lock that is released again and again is
taken some day by each thread that waits for it (strong fairness of `Enter` and `Embed`);
no load is assumed to succeed.

## 4. Runs

| Run | Shows |
|---|---|
| `auth_concurrent` | `RotationConsistent`: rows linked by a rotation agree; `DeliveredArePersisted`; `SiblingsBounded`: a token is exchanged at most once per worker; `TokensOnlyAge`: nothing un-revokes, prolongs or reassigns a token; `ImplementsLedger`: refinement of `TokenLedger` |
| `auth_register` | `FirstRegistrationWins`, in any spelling of the address; `RequestsEnd`, for waiters of the unique index too |
| `auth_single_use` | violation, see section 6 |
| `llm_calls` | `OutcomeTellsCause`: of an upload, from its extraction to the answer of the provider; `RowTellsOutcome`: one true row per typed outcome unless `_log` swallowed a failure, and no other; `AttemptsJustified`, `HintAfterInvalid`: the retry policy; `ConnectionsConserved`; `CallsEnd`: also with the pool exhausted by callers |
| `llm_stream_log` | violation, see section 6 |
| `profile_concurrent` | `MatchesUnlessOverlapped`; `OnlyOwnUpdatesOverwrite`: a first access never overwrites; `RequestsEnd`; `CompletionAgrees`, `NormalizedOnce`: the pure rules against definitions that say what is computed and not how |
| `profile_completion` | violation, see section 6 |
| `resume_concurrent` | `ImplementsLibrary`: refinement of `ResumeLibrary`, so a row in the table means a whole file until its owner deletes it; `StoredOnce`; `DeletedIsGone`; `RequestsEnd` |
| `resume_dangling` | violation, see section 6 |
| `kb_ingestion` | `ImplementsKnowledgeBase`: refinement of `KnowledgeBase`, so committed runs are complete and rows cite a place some run read; `DeadlockNeedsEdit`: runs over the same texts never wait for each other all around; `RunsEnd`: even when they do; `ChunksPartition`: the chunking |
| `jobs_runs` | `SeededAtOnce`: nothing or everything, exactly once, also when a run fails after its COMMIT; `RefusedOnlyByOverlap`: a run alone is idempotent; `RunsEnd` |
| `rag_retrieval` | `OneProviderOneModel`; `CitationsResolve`: citations are true, and ambiguous only across editions of a file; `NearestAboveFloor`: the floor loses nothing of what the scan has found, and with an exact scan the nearest are given; `RetrievalsEnd` |

Every state machine also has its `TypeOK` (`ProcessingTypeOK` in `llm_calls`). The properties of
the pure rules do not depend on the state; written as `Init => \A ...` they are evaluated in
the initial states.

Bounds, and why they are enough:

- `auth_concurrent`: two workers and four tokens, one more than three exchanges of
  one token need, so that `SiblingsBounded` could fail; a lifetime of one tick and a
  clock that passes it. Workers and tokens are symmetric. `auth_register`: three
  spellings of two addresses, a short and two good passwords, one token.
- `llm_calls`: one upload for every way its processing can end, one of them sound; two
  calls and one connection, so that a caller can hold what another's
  `_log` needs, and its own `_log` too; three attempts, so that an error can come
  between an invalid answer and the next request; one delta.
- `profile_concurrent`: two workers on one profile; a text and a list section, so that
  two updates can change different columns and the list can be blank after
  normalisation; a second user who asks for the profile.
- `resume_concurrent`: three keys, so that an upload can follow a delete of the same
  content while another is under way; a rejected file and an empty one, which only
  the CHECK constraint refuses.
- `kb_ingestion`: two runs over two files whose editions share chunks in the same and
  in the opposite order and repeat one, a missing file, one edit at any moment: 25 knowledge bases to start from.
- `jobs_runs`: three runs, five records with one repeated reference, batches of two,
  the last of them short; each may fail at any step.
- `rag_retrieval`: two threads; two provider objects and one reset, so that a reset can
  fall between any two steps of both; two readings of two files, the second with a chunk
  replaced and one moved, so that an answer can hold chunks of both; three chunks, two of
  which begin alike; `EfSearch` is 2, so that the index can miss one of three chunks or more.
- The pure rules: all populated sets of sections (texts NULL or empty) and lists of four
  skills over three words and the blank one; files of five lines, headings with and without
  title, blank lines, texts that fit together, only alone, and not at all; tables of up to
  three chunks with four similarities, negative ones too, all floors among them, k from 0
  to one more than there are chunks.

Deadlock is checked in the runs of services, which always accept a request. It is
not checked where the system may stop: all calls or all runs are over, or all inputs
are enumerated.

## 5. Proofs

`AuthService_proofs` proves, for any sets of workers, addresses and tokens and any
lifetime, from `ConstantsAssumption` and `NoRowAssumption` only:

- `TypeCorrect`: `Spec => []TypeOK`;
- `RotationsAgree`: `Spec => []RotationConsistent`;
- `DeliveredTokensPersist`: `Spec => []DeliveredArePersisted`;
- `RegistrationsNeverOverwrite`: `Spec => FirstRegistrationWins`;
- `StoredTokensOnlyAge`: `Spec => TokensOnlyAge`.

None of the invariants is inductive alone. `IInv` adds three parts:

- `SessionInv`: what a frame knows at each step. A refresh that was let through
  presents a committed row whose owner it has copied and whose expiry is not after
  that of its successor; a register that waits for COMMIT has the only claim on a
  free address.
- `InsertsDistinct`: two open transactions never hold the same new token, and a new
  token was generated, is not committed and was not delivered.
- `TableInv`: committed and delivered tokens were generated; a token without a row
  has no parent.

`IInv` is preserved by one lemma per action; only `Commit` writes the tables, and its
proof splits on the token being the new one, the presented one or another.

The module then builds on it:

- `ServiceImplementsLedger`: `Spec => ImplementsLedger`. The initial states map to the
  ledger's, and under `IInv` every step maps to one operation or a stutter: a step that
  leaves its worker without a presented token and writes no table is a `Withdraw`, the
  check of a refresh a `Present`, issuing a token a stutter, and a commit a `Grant`, an
  `Exchange`, a `Revoke` or a `Withdraw`, according to the flow it ends. `Exchange` asks for a token that is
  in no row and for the owner of the presented one: both come from `SessionInv`.
- `ChildrenBoundedByWorkers`: `Spec => []SiblingsBounded`, with the additional
  assumption `WorkersAssumption` (finitely many workers). The bound alone is not
  inductive; `SiblingsInv` counts the children of a token together with the refreshes
  in flight that may still add one. A token can be presented only while it is unspent,
  and `RotationConsistent` says that it then has no child.

`JobSeeding_proofs` proves, for any set of runs, any seed file and any batch size, from
`ConstantsAssumption` of `JobSeeding` only, every invariant of the run `jobs_runs`:

- `TypeCorrect`: `Spec => []TypeOK`;
- `SeedIsAtomic`: `Spec => []SeededAtOnce`;
- `RefusalNeedsOverlap`: `Spec => []RefusedOnlyByOverlap`.

That a commit completes the table is decided record by record, long before the commit.
`RunInv` therefore says what an open run has done so far (every record it has passed is
committed or its own, its own rows are in no committed row, what it knew is still there)
and `InsertsDistinct` that no two runs hold a row of the same reference. At a commit both
together leave nobody else with a row, which is why a second run that was waiting can only
be refused, never add a part of the file.

`ResumeStore_proofs` proves every invariant of the run `resume_concurrent`, for any workers,
users, keys and contents: `TypeCorrect`, `UploadsAreStoredOnce` (`StoredOnce`),
`CommittedRowsAreReadable` (`RowsAreReadable`, which no run states: the refinement says it too, and
more), `FilesDoNotOutliveRows` (`DeletedIsGone`). What a
commit does to the rows was prepared in the volume steps earlier. `SaveInv` says that the key of a
save is drawn and no row has it yet, and that its file is complete before its row is inserted;
`DeleteInv` that the row a delete found is still that one or gone, and that its file is gone before
the row is deleted; `SavesDistinct` that two open uploads never meet in a key or in an entry of the
unique index.

`StoreImplementsLibrary`: `Spec => ImplementsLibrary` follows from the same invariant, step by step. The
file an upload writes is under no row, so the shelf does not notice it (`UploadKeepsShelf`); at its
COMMIT that file is whole, its key was never on the shelf and its owner has no equal resume there
(`CommitAdds`); at an unlink the row is still the one the delete has found for its owner, or it and
its file are gone (`UnlinkRemoves`); the row that a delete takes away in the end is one whose file
has left before (`CommitOfDeleteDrops`). The dangling row of section 6 is no exception: what the
library calls a resume is what can be read.

`ProfileService_proofs` proves, for any workers, users and contents, `TypeCorrect`,
`PercentageMatchesUnlessOverlapped` (`MatchesUnlessOverlapped`), `OnlyOwnersOverwrite`
(`OnlyOwnUpdatesOverwrite`) and, of the pure rules, `PercentageAndListAgree` (`CompletionAgrees`):
the percentage of every profile against the number of its sections with content; and
`SkillsAreNormalized` (`NormalizedOnce`), from `EveryListIsNormalized`: every list of skills, of any
length and over any words. After each turn of the loop the list that is kept has the words of the
turns so far, each once, in the order of their first occurrences; and a list of different words none
of which is blank is kept as it is. `SessionInv` says what
of the row a frame has read is still true, `HoldersDistinct` that one open transaction at most has a
statement on a row. What cannot be kept, that the row is still the one that was read, is what `overlapped` records.

`ResumeProcessing_proofs` proves every invariant of the run `llm_calls`, for any finite set of calls,
any number of retries, any pool and any uploads: `TypeCorrect`, `RowsTellOutcomes`, `PoolIsConserved`,
`RetriesAreJustified`, `HintsAreJustified`, `OutcomesTellCauses`. The client counts attempts while the
properties speak of answers; `CallInv` relates the two at each step of a call and says what its one
row will be long before it is written, `HintInv` does so for the corrective turn, `UploadInv` for
the file of the call. Conservation of connections is inductive with these, by counting the holders
before and after each step; it needs finitely many calls.

`KbIngestion_proofs` proves, for any runs, any table of files, any editions and any edits:

- `TypeCorrect`: `Spec => []TypeOK`;
- `Implements`: `Spec => ImplementsKnowledgeBase`. Every step maps to a whole ingestion or a
  stutter. The invariant is one of a frame and the committed rows (`RunInv`): files are taken in order;
  of a file that is done nothing is missing in what the run sees; a row it holds is new, cites the
  first place the run has read the chunk at, and lies before whatever is still to be inserted; and
  what is not seen of the file in progress is listed, in order. Together with `Exclusive` (no two
  runs hold the same chunk) this survives the commit of another run, and at a commit it is
  `Ingest` of what was read.
- `DeadlocksNeedEdits`: `Spec => []DeadlockNeedsEdit`, for cycles of every length. If a run and the
  one it waits for have read the same of the files both got to, the waiting one is at an earlier
  file, or has more of the same file before it (`WaitsBehind`). Of the runs of a cycle one is at the
  last file with the least before it, and has nobody to wait for.
- `EveryFileIsPartitioned`, for files of any length and lines of any length, and from it
  `ChunksArePartition`: `ChunksPartition`, which is the same up to a bound on the number of lines. The
  argument has three parts. Cutting keeps every line, and only the first line of a part is one the
  cut was made at; stripping a part keeps its texts and its prefix. So the sections have all texts of
  the file in order and a heading at most in front, and the paragraphs have all of a section. Of the
  packing, the invariant of the loop (`MergeInvAt`) says that the chunks made so far and the open one
  are the paragraphs read so far, that the length it keeps is that of the open chunk with its
  separators, and that a chunk is bounded. That no division has fewer chunks: a chunk was closed
  because the next paragraph did not fit, so every division into bounded chunks has to cut somewhere
  between the first paragraph of a closed chunk and that one (`CutNeeded`), and these places are
  different for different closed chunks. The proof also shows that every chunk has text, so that the
  branch `kb_ingestion.py:161-163` marks as uncovered is never taken.

`RagRetrieval_proofs` proves every invariant of the run `rag_retrieval`, for any threads, any
number of resets and any knowledge base:

- `OneProvider`: `Spec => []OneProviderOneModel`. `DoorInv` and `LoadInv` say that a thread between
  the test and the end of a `with` holds the lock, so that what it saw still holds; `BuiltInv`
  counts the providers, one fewer while there is no instance.
- `TypeCorrect`: `Spec => []TypeOK`, and `CitationsAreTrue`: `Spec => []CitationsResolve`. `TableInv`:
  each row cites a place at which some committed reading has its chunk; stored chunks keep
  their rows, so an answer remains what it was while others ingest (`AnswerInv`). Two chunks of
  one answer are different, so if one place is cited for both, two readings disagree there.
- `NothingFoundIsLost`: `NearestAboveFloor`, given finitely many chunks and for every `EfSearch`.
  Whatever the scan has found, it is ordered by similarity, so what reaches the floor is a beginning of
  what LIMIT has left. Nothing is claimed of the rows the scan misses.

Assumptions on the constants. Besides types and finiteness: markers such as `NoRow`, `None`,
`Missing` are no rows, results or texts (`NoRowAssumption`, `NoneAssumption`,
`ConstantsAssumption`); the table of ingestion lists each name once (`FilesAssumption`) and gives
each a category of its own (`CategoryAssumption`), as the literal `FILENAME_TO_CATEGORY` does; a
reading has a sequence of chunks, or nothing, for each name (`ReadingsAssumption`); there are more
provider objects than resets (`ProvidersAssumption`): the program can always build one.

Some definitions have the form they have for the sake of the proofs. `OutcomeTellsCause` once was a `CASE`
with overlapping guards, of which TLC takes the first and the logic any; it now says in which order
they are meant. `Reaching`, `NormalizeSkills`, `Cut`, `Total` and `MergeParagraphs` are recursive
functions of the number of turns of a loop, where a fold or `SelectSeq`, of which the provers know
nothing, would say the same. The library's induction principles take a predicate as a parameter and
cannot be instantiated. `Loops` states induction for a set instead of a predicate: a subset of
`0 .. n` that has 0 and, with each number, the next one has all of them, because the set of those that
are missing would have a least element (`LeastNumber`, from well-foundedness). Over sequences it is
`SeqInduction`. The turn of a loop is a parameter of its lemmas as a function: a loop has a value after each turn
(`LoopRuns`), and two loops whose turns agree have the same (`LoopsAgree`), which is what relates the
loop over a longer list to the one over its beginning. `FlattenSeq` of the library is such a loop too.

Model-checked only: liveness (`RequestsEnd`, `CallsEnd`, `RunsEnd`, `RetrievalsEnd`). It rests on
fairness, and the prover has no `ENABLED`.

## 6. What the code does and its texts do not say

Runs with expectation `violation` show four disagreements (the `findings` of
`PROJECT.json`):

- two overlapping refreshes both exchange one token (`auth_service.py:14` says
  single-use): the check at line 189 locks nothing;
- a stream abandoned by its consumer leaves no row (`llm_client.py:282`);
- two overlapping updates leave a completion percentage that does not match the
  sections, because the UPDATE writes only changed columns;
- a failed or crashed delete leaves a row without its file.

Others were noticed while modelling. The models contain the behaviour, but no run is
spent on it:

- "exactly one metadata-only row is written per call" (`llm_client.py:13`) fails not only for
  abandoned streams: an exception that is none of the typed ones passes every handler and
  leaves no row. `GroqProvider` raises such where the SDK client is built without a key
  (`groq_provider.py:73`) and where the response has no choices (`:89`). `RowTellsOutcome`
  demands no row there: it describes the code;
- "at most two provider calls", "exactly one retry" and a `retry_count` of 0 or 1
  (`llm_client.py:10-11`, `:163-166`; `ai-service-architecture.md:117`, `:128`) hold only while
  `max_retries` has its default of 1. `_max_attempts` (`llm_client.py:368`) takes any number
  the setting `llm_max_retries` has (`settings.py:86`); `AttemptsJustified` states the bound
  of the code, and `llm_calls` checks it with 2;
- the chunks of a file do not overlap, where `rag-pipeline.md:83-84` and `:117` want about 15%,
  and a single paragraph becomes one chunk of whatever length, where `rag-pipeline.md:84` and
  `kb_ingestion.py:10` want a hard ceiling of about 1000 tokens. `ChunksPartition` says that no
  line is repeated and that only a lone paragraph exceeds the limit: it describes the code;
- `retrieve` "returns k KnowledgeChunks" and an empty context "when the KB is empty or no chunk
  passes the similarity floor" (`rag_retrieval.py:77-79`). The HNSW index
  (`0001_initial_schema.py:413-417`) makes the query of `top_k` approximate, and no code sets
  `hnsw.ef_search`: with it near chunks can be missed, fewer than k found, and an answer be
  empty although a stored chunk passes the floor;
- a seeding run whose count of the jobs fails after the COMMIT, or whose COMMIT takes effect
  without an answer, logs "Seed failed, rolling back" (`seed_jobs.py:81`) and exits with 1,
  although its rows are stored;
- `AITimeoutError` reaches the caller with the placeholder request id
  (`groq_provider.py:27` says the client re-wraps it; `llm_client.py:216` raises it
  again as it is);
- the timeout is per attempt, not per call (`ai-service-architecture.md:135`), so
  slow failures and their retries add up to several timeouts;
- provider refusals (rate limit, authentication) are retried like other errors
  (`ai-service-architecture.md:124`);
- an update that omits a section clears it (`profile_service.py:71` says unchanged), and its
  `full_name` is checked and then dropped;
- two racing first accesses of a profile: one fails with `IntegrityError`;
- two racing deletes of a resume: the slower one may fail with `FileNotFoundError`
  (`local_storage.py:34` says no-op);
- `source_id` is called stable (`rag_retrieval.py:118`), but after an edit of a file and a
  second run an answer can cite an old and a new chunk under one id; `CitationsResolve`
  says that nothing else makes ids ambiguous;
- `get_embedding_provider` returns None when a reset falls between its lock and its
  `return` (`reset_provider_singleton` is for tests only);
- an exception of the PDF or DOCX reader outside the listed types, such as an XML syntax
  error inside a sound archive, reaches the caller untyped (`resume_service.py:48-53` lists
  the types);
- the ingestion report counts a chunk that a file repeats twice
  (`kb_ingestion.py:264`);
- two overlapping seed runs: the slower one fails with `IntegrityError` and rolls back
  (`job_repository.py:72` says insert or skip); `RefusedOnlyByOverlap` says when.

## 7. Not modelled

- Access tokens: stateless, nothing to go out of step. Hashing and JWT encoding are
  library calls.
- `full_name`: no code writes the column. The check of its length refuses an update as that of
  any text does, and is the same refusal in the model.
  Formatting, logging and the texts of prompts carry no state.
- Jobs without an `external_ref`, which `upsert_job` always inserts (`job_repository.py:75`): only
  `seed_jobs.py` calls it, `JobRecord` types the field `str`, and each of the 600 records of the
  seed file has a reference of its own. `SeededAtOnce` speaks of jobs with a reference.
- Retries inside the provider's SDK and per-read timeouts of a stream: not visible to
  the client except as the answers the model has.
- `init_db` called again, the health query, settings, DTOs, the migration: one-off or
  declarative.
- What the libraries read from a PDF or DOCX, the vectors of the embedding model and cosine
  similarity: library code and floating-point arithmetic. The models have their outcomes:
  text, no text, damaged; a number for each chunk. The zero vector, for which PostgreSQL
  and the service would disagree, does not occur among normalised embeddings.
- The web layer and frontend: specified in `src/specs`, not implemented.

## 8. Plan

1. Done: the core (`AuthService`, its ledger, the theorems about both; the theorems about `JobSeeding`); `LLMClient`,
   `ProfileService`, `ResumeStore`, `KbIngestion`, `JobSeeding` and the pure rules; then the
   composed modules `ResumeProcessing`, `EmbeddingProvider`, `RagRetrieval` and the abstract
   `KnowledgeBase`.
2. Done: the theorems about every state machine and every pure rule: all invariants and action
   properties of the passing runs.
3. Done: the abstract specification of the resume store, and the proofs of all three refinements.
4. What would come next with a web layer: its sessions as the workers of `AuthService`, `ProfileService`
   and `ResumeStore` together, over one pool, as `ResumeProcessing` has it for the calls.
