# Need U AI server: models and proofs

Need U is a chat server (FastAPI, one uvicorn process) that talks with a user about their tastes,
turns the conversation into a profile, and recommends products from a catalog that batch jobs keep
up to date. This directory holds TLA+ models of it, the TLC configurations that check them, and TLAPS
proofs about them. Paths below are relative to `src/`.

## The system

| Component | Source | State it keeps | Operations |
|---|---|---|---|
| Chat session | `app/application/chat_use_cases.py`, `app/api/routes/v1_chat.py`, `conversation_state_store.py`, `redis_session_store.py` | one record per room in Redis with a TTL; an `asyncio.Lock` per room in the process | create, send, stream, analyze, correct, close |
| Policy and turn | `app/domain/conversation/policy.py`, `energy.py`, `guards.py`, `app/application/conversation_service.py` | fields of the session record | choose the goal and move of a turn, wrap up, clean up and stream a reply, record a turn |
| Extraction, taste judgment | `conversation_service.py`, `taste_judgment.py` | none | model output to items and withdrawals, with retries under one timeout |
| Profile merger | `app/domain/profile/merger.py`, `keywords.py` | the profile in the record | merge what was extracted from a turn; rank it, and make keywords of it for an analysis |
| Search intents | `app/application/search_intent_service.py` | keys in flight, two slots, background tasks, a Redis cache | lookup, prepare, schedule, aclose |
| Recommendation | `recommendation_service.py`, `recommendation_engine.py`, `recommendation_reason_service.py`, `domain/recommendation/` | none | queries, vector searches, exclusions, ranking, reasons |
| Model gateway | `infrastructure/model_gateway/failover.py`, `runpod_locator.py`, `openai_compatible.py` | cooldown, failed probes, address of the current pod | complete, structured, stream; refresh |
| Catalog jobs | `catalog_sync_service.py`, `catalog_enrichment_service.py`, `jobs/`, three repositories | `catalog_products`, `catalog_product_documents`, `catalog_sync_runs` | sync (full, incremental), enrich (requeue, release, claim, save), import |
| AI Lab | `admin_api/`, `benchmarks/` | SQLite: runs, samples, chats | queue, claim, execute, cancel, finish, delete, recover; lab chats |
| Around them | `dashboard/`, `notebooks/`, `monitoring/`, `scripts/` | none of the server's | |

How they meet:

* The backend calls the chat routes. A handler takes the room's lock, loads the record, awaits the
  model gateway (reply and extraction at the same time) and saves the record. A stream asks outside
  the lock first whether its message was answered before. A close leaves the lock while the
  recommendation is made and takes it again.
* Within a turn: the policy decides before the reply, the reply is streamed through the guards, the
  extraction becomes a delta that the merger takes in, and the policy books an end for the next turn.
* After a saved turn, search intents are scheduled in the background; the recommendation reads them
  and schedules those it misses.
* All models are reached through one `FailoverModelGateway`; the locator's loop changes the address
  under it.
* The sync, enrichment and import jobs never call each other: they meet in the rows of the catalog,
  which the recommendation reads.
* The AI Lab's API and its worker are two processes that meet in an SQLite file.

What is hard, and what would make each part correct:

* **Chat session.** Read, await for a minute, write back: the lock has to cover it. Clients retry,
  disconnect in the middle of a stream and race each other; the process restarts; the record expires. No
  session takes a turn too many, and one that was answered must be kept, never repeated and never answered
  with another turn's reply; an analysis must cover all turns; what was recommended must belong to the
  session that is closed, which the code does not always keep (see below); every call must end.
* **Turn.** A reply is shown while rules that cut or replace it wait for text to come; an end is
  booked in one turn and carried out in the next; topics must change.
* **Profile.** Likes, dislikes and withdrawals of one thing arrive in any order, from what is said
  now, what was said before and what a model guesses. Nothing may be liked and disliked, a guess may
  not outrank the user's words, and what was taken back stays away.
* **Search intents.** No interest generated twice at once or again when it is stored; keys and slots
  given back on failure and cancellation.
* **Recommendation.** Several searches with different filters feed one list: exclusions must hold on
  every path, each interest must get its place, and a gift list must not tell the giver's wishes.
* **Catalog jobs.** Jobs are killed between transactions, the source changes under them, rows are
  released by age. A job may lose its lock and go on beside the next one. A ready row must be searchable
  whoever wrote it, a row must not be stuck, and only products that are gone may be taken down.
* **Model gateway.** Calls decide at their start and report at their end. One answer must have one
  author, and a server that recovered must be used again within the stated delay and what the calls
  under way add to it.
* **AI Lab.** No paid request is sent twice, a run that has ended stays as it ended, and its summary
  accounts for what was sent.

The hazards, each at its line with the properties that cover it, are listed in `PROJECT.json`.

## Modules

| Module | What it is |
|---|---|
| `ChatSession` | one room: lock, record, every handler of `ChatUseCases` split at its awaits, clients and environment |
| `SessionLifecycle` | the promise of a room's record: open, turns, review, at most one correction, close; implemented by `ChatSession` |
| `ConversationPolicy` | operators: `decide_goal` and all it reads, energies, topics, the record of a turn |
| `ReplyGuards` | operators on texts as sequences of symbols: cleaning (line by line where the code's regular expressions go through the text), the closing reply, the prefix that may be shown |
| `ConversationTurn` | the turns of one session on top of both: decide, stream token by token, record or abandon |
| `ProfileMerger` | `merge`, one step per item, with the choice of the entries that count |
| `TasteJudgment` | operators: what a judgment or an extraction becomes |
| `TasteTurn` | composes the two: the models answer anything, the result is merged, turn after turn |
| `AnalysisKeywords` | operators on that profile: which analysis is refused, the keywords and the clues of the summary of one that is made |
| `SearchIntents` | jobs, generations, slots, the cache and the shutdown |
| `SearchQueries`, `Ranking` | operators: profile to queries; search results to exclusions, scores and lists |
| `RecommendationRequest` | one request: searches, explore searches, lists, rewritten reasons |
| `CatalogPipeline` | the source table, the catalog rows, and the sync, enrichment and import jobs, one action per transaction |
| `ModelFailover` | the cooldown, the choice of route, calls in flight, and the pod locator |
| `LabRuns` | the table of runs, the management API, worker processes and the execution of a run |
| `*Proofs` | theorems about the module they extend |
| `MC*` | instances for TLC: values, symmetries and, where named below, restrictions of the next-state relation |

A definition named `X_something` is `X` with a plausible mistake in it; nothing uses it. Putting it
in the place of `X` must break the property that `PROJECT.json` pairs it with.

### ChatSession and the code

`store` is the room's Redis key, `holder` and `waiters` the room's lock, and `pc`, `job`, `copy` and
`shown` the point, the call, the loaded `ConversationState` and the recommendation payload of each
handler. A payload keeps the generation, turns, level and age of the session it was made from, and ages
with the clock; its summary is left out. `answered` is a history of what streams were answered. `pc` goes
through the awaits: `confirm` (the GET of `find_confirmed_turn`, outside the lock), `open` (between it and
`stream_message`), `waiting` (for the lock), `load` (the GET), `model`, `delete`, `save` (the SET before
it takes effect), `saved` (before its acknowledgement), `recommend`.

| Code | Actions |
|---|---|
| `lock.locked()`, `async with lock` | `SendCall`, `StreamCall`, `OpenStream`, `QueuedCall`, `Enter`, `Wake`, `Leave` |
| `find_confirmed_turn` | `ConfirmTurn` |
| `create_session` | `LoadToCreate`, `Greet`, `Save`, `Answer` |
| `send_message`, `stream_message` | `LoadToSend`, `LoadToStream`, `CompleteTurn`, `Save`, `Answer` |
| `analyze_session` | `LoadToAnalyze`, `FinishAnalysis` or `DeleteSession`, `Save`, `Answer` |
| `update_analysis` | `LoadToPatch`, `Save`, `Answer` |
| the close route | `LoadToRecommend`, `Recommended`, `LoadToClose`, `Save`, `Answer` |
| timeouts, model and store errors | `ModelFails`, `StoreFails` |
| client gone, process restarted, time | `Disconnect`, `Crash`, `Tick` |

Abstractions: an utterance matters by whether it makes the policy wrap up (`tired`) and a profile by
what it is good for (`Levels`), so a merge may lead from any level to any other. A reply is named by
the message it answers. The keywords of an analysis are one set. A plain send is cancelled by nobody
(its route runs to its end); a stream is. `CompleteTurn` is one step although reply and extraction
run in parallel, because nothing else may happen to the record in between, which is what
`CopyIsCurrent` says, and why `ConversationTurn` and `TasteTurn` may look at one session alone.

### Policy, guards and turn

`session` is the part of `ConversationState` the policy reads and writes. `BeginTurn` is
`prepare_turn` (with `decide_goal`), `Token` one piece of the reply and the prefix shown with it,
`FinishTurn` `complete_turn` with the extraction that has come back, `AbandonTurn` a turn that fails
or whose client left: the copy is thrown away and the message may be sent again. An utterance is its
energy and whether it asks back, evades or says goodbye, the four things the policy looks at; how
words make up these is not modelled, so any utterance may have any. A profile is the counts that
`recommendation_readiness` reads. A text is a sequence of symbols, each for the characters that the
regular expressions of `guards.py` treat alike; a tail is too long when it has a symbol that stands for
many letters, or more symbols than `COMPANION_TAIL_CHARS`, which no reply of the run has.

### Profile

`ProfileMerger` keeps the stored `profile`, the `delta` being merged, the copy `merged` and `at`, the
item the loop has come to. `StartMerge` is everything before the loop (withdrawals first),
`MergeItem` one round of it with its early `continue`s (`Reject`, `Contradicted`, `Recall`, `Repeat`,
`Add`), `FinishMerge` the working set. A value stands for its normalized text; `said` tells where an
item's evidence was found: in this turn's utterance, in the context or nowhere. `TasteTurn` offers
the merger only what the two extraction paths can produce from model answers that may be missing or
malformed: `ExtractByJudgment` (candidates, judgment, rementions, retractions), `ExtractItems` (one
model and the repair of its items) and `ExtractionFails`. The profile's axes, up to three
phrases that are shown and that no decision reads, are not modelled.

`AnalysisKeywords` is what `analyze_session` makes of that profile: `ProfileTooSparse`,
`RankedFriendSignals`, `Keywords` with `ComposedKeywords` (what stands of the model's answer) and
`FallbackKeywords`, and the clues of the summary. The model's answer is any member of `Answers`; one
that is late or malformed is an empty one. A label is a name and `CutLabel` what is left of it without the
names of its targets, because the code cuts them out in the order of a Python set. The scores shown
beside the keywords are left out. An analysis reads the profile between two turns, under the lock, so
`AnalysisShows` is a state property of `TasteTurn`, stated for every answer.

### SearchIntents

A job is one task made by `schedule`, or one recommendation that looks its intents up first (`Ask`,
`Plan`). `Begin`, `Lookup`, `Start`, `Release` and `Finish` are the segments of `prepare`, `Acquire`,
`Answered`, `Fails`, `Save` and `SaveFails` those of `_generate`, `GiveUp` and `Drop` what happens to
a job that `Close` (`aclose`) cancels. `blind` remembers a job whose lookup failed and which the code
then lets generate everything.

### Recommendation

`Receive` builds the queries from the profile, the onboarding and the intents that happen to be
stored; `Search`, `SearchDislike`, `SearchPreference` and `SearchExplore` are single vector searches;
`Judge` finds the interests the catalog has nothing for; `RankLists` makes both lists; `Answer` is one
rewritten gift reason. How near a product is to a text is the embedding model's affair: every search
may meet any of the given shapes of `Nearness`. The searches run together in the code and in order in
the model, which is the same because they only read a catalog that is taken as fixed during a
request. Scores are the code's times a constant, to keep them integers.

### CatalogPipeline and the code

Each action is one transaction of `postgres_catalog_sync_repository.py`,
`postgres_catalog_document_repository.py` or `jobs/catalog_import.py`, or one page read from MySQL. A
row's `version` stands for `source_hash`, `DocInput` for `doc_input_hash`; price bands, labels and
themes are folded into `Inputs`, `Prices` and `Categories`. `aged` stands for `updated_at` older than
`stale_processing_seconds`; `Age` makes all rows in processing old at once. `lock` is the
advisory lock of `_exclusive`: it belongs to a connection of its own, so a job that loses that
connection loses the lock and works on (`LoseLock`), and another may start beside it; `StopJob` gives
it back however a job ends. The import takes no lock. Claims take any pending rows, up to the size of a
batch: the order by `updated_at` and the rows skipped because another transaction holds them are left
open.

### ModelFailover and the code

Pods are numbered in order of creation. `wait` is what is left of `_primary_down_until`, `down` is
`_down_since`, `lookup` is the pod between the two requests of `refresh`. A call has reached a live
server (`live`) or not, and then fails within the read timeout; a server that is up answers within
it. A call ends in one step, so `Tick` cannot pass a call whose time is up. `MaxExponent` is 1024 in
the code, the least `n` for which `cooldown * 2**n` is no float.

### LabRuns and the code

`status`, `mode`, `cancel_requested` and `samples` are the tables of `store.py`; each method of `Store`
is one transaction. `lock` is the file lock of `benchmarks/worker.py`; a worker's `pc` is `idle`
(polling), `claimed`, `running` (the loop of `execute` or `execute_needu`), `ending` (their `finally`)
and `finish` (the second `finish` of a run whose error was raised again). `queue`, `active` and
`raised` say where the requests of its run are. `sent` counts what was paid for, which no table does.

## Runs

| Run | Instance | Shows |
|---|---|---|
| `chat_turns` | 3 handlers, 2 messages, 3 turns, 2 sessions; create and stream | types, the limit of turns, wrap-up at 100 %, answered turns kept, no turn repeated, each answered with its own reply |
| `chat_close` | 2 handlers, 2 turns, 2 sessions; create, send, analyze, patch, close; fair | no lost update, analysis covers all turns, a close returns the recommendations of its session unless that one expired and was followed, refinement of `SessionLifecycle` (with the generation of the session), every call ends |
| `chat_mixed_retry` | 1 handler; create, send and stream | *violation*: a streamed message is repeated after a plain one and gets the wrong reply |
| `conversation_turns` | 2 topics, 2 scenes, 7 turns, replies of up to 4 symbols | what was shown is the beginning of the reply stored; topics and choices vary; an announced end comes |
| `profile_turns` | 4 values (one a variant of another, one generic), 3 turns, limits 2, 1, 1 | sides, entries, confidence, limits, dislikes and withdrawals of the profile; with 16 answers of the keyword model in each state, what an analysis shows |
| `search_intents` | 2 jobs, 3 keys, 1 slot, 1 expiry, a shutdown; fair | one maker per key, nothing made that is stored, jobs end and give their keys back |
| `recommendation` | 5 products, 9 profiles, 3 shapes of nearness, lists of 3 | order and mixture of a list, exclusions on every path, a place for each query, reasons of a gift list |
| `catalog_jobs` | 2 products on 2 pages, 1 sync, 2 enrichment jobs, 1 file, 2 runs, 1 change or import, 1 crash or lost lock; fair | types, ready rows searchable, only gone products taken down, rows leave processing |
| `catalog_stale_documents` | 1 product, 1 change | *violation*: a change during generation is hidden by ready |
| `catalog_returned_product` | 1 product, 3 runs, 2 changes | *violation*: a product that comes back unchanged stays inactive |
| `failover_calls` | 2 calls, 2 models (one without fallback), 2 pods, cooldown 1 to 2, read timeout 1; fair | one author per answer, bounded return, the newest pod that is up is used |
| `lab` | 2 runs of 3 requests, 2 worker processes, 2 consumers, 3 starts | nothing sent twice, a run's samples account for what was sent, what ended stays |

Why the bounds are enough:

* chat: two handlers inside and one queued are what the lock has to tell apart, and a third stream of
  the same message is needed for a retry to meet both its predecessor in `saved` and a competitor;
  three turns let the limit, the turn before it and the first differ; two sessions let a handler
  outlive the session it loaded.
* conversation: seven turns reach every streak and limit of the policy but one, which no session can
  reach (see below). Four symbols hold a label, a quotation, a question and a tail, in any order.
  `MCConversationTurn` lets only the reply to two of the first utterances, one that ends the session,
  be any text, and all others be empty: texts and moves read nothing of each other.
* profile: three turns let a thing be said, taken back and seen again; a limit of one or two makes
  entries compete; each remark of `MCTasteTurn` stands for one outcome of the thresholds;
  the answers name sources that are there and not, two groups of one axis, labels that are cut down to
  nothing and one that is too long.
* intents: two jobs share a key and one has a key of its own; one slot makes them wait for each other.
* recommendation: each profile exercises one rule of the queries (a situation, a taste of a thing,
  a deferred wish, an old interest, a dislike, the onboarding's exclusions, two interests of the same
  weight and different confidence); the shapes of nearness put products on either side of each
  threshold. `MCShortValues` makes one private value too short for `valid_reason` to look for, so that a
  rewritten reason can name it.
* catalog: two pages and two runs let a product be seen by one run and missed by the next; one crash is
  spent on a job that is killed, or on one that loses its lock: then `w2` starts beside `w1`, releases
  the row `w1` has in hand once it is old, claims it, and both save it, in either order.
  `MCCatalogPipeline` lets `w1` start where no job is on (`InOrder`), which loses nothing because the jobs
  differ in their names only. It does lose what follows: the second product starts with a label and the
  first without one, both with the same price, and the backend changes the price or the labels of a
  product in one step but not both (`OneThing`). The proofs have none of these restrictions.

* gateway: two calls let a late failure meet a recovery, two pods let the old one be up beside the new.
* lab: three starts are a worker, one that takes over after a crash, and one beside it; three
  requests are one under way for each consumer and one left.

What does not depend on the bounds is proved, see below.

Deadlock is checked except where the modelled program ends: a session that is over or whose
environment has nothing left to say (`conversation_turns`, `profile_turns`), a process that was shut
down (`search_intents`), a request that was answered (`recommendation`), and runs and starts that are
used up (`lab`). Symmetry is used over handlers, runs and workers, only in runs without liveness.

## Fairness

* `ChatSession`: weak fairness of each handler's own steps. Every await ends: model calls run under
  `asyncio.timeout`, the requests of a recommendation under timeouts of their own, and the Redis client
  raises when it loses its connection. The event loop runs whatever is ready. Clients, crashes and the
  clock owe nothing.
* `SearchIntents`: weak fairness of each job's own steps, strong fairness of each generation's: the
  slot it waits for comes and goes, and `asyncio.Semaphore` serves its waiters in order. Calls end by
  their timeout. Scheduling, shutting down and expiry owe nothing.
* `CatalogPipeline`: weak fairness of an enrichment job's steps and of starting a job (it is
  scheduled again and again, `CLOUD_CATALOG_DEPLOYMENT_REQUEST.md`), and time passes. Sync runs, the
  import and `--retry-failed` are owed to nobody.
* `ModelFailover`: calls end, the locator's loop goes on after every exception
  (`runpod_locator.py`, `run`), and time passes. Nobody has to make a call and no pod has to come up.

## Proofs

All proof modules follow one pattern: an inductive invariant `IInv` is true initially, is preserved by
each action (one lemma per action), and implies the properties. Each holds for every value of the
constants that satisfies the module's assumption, which TLC evaluates for the instances.

* `ChatSessionProofs` (from `ChatConstants`). The properties alone are not inductive: they speak of
  `store`, and the next value of `store` is what some handler holds in `copy`. So `IInv` says of
  *every* session, stored or held, that it is sound (`SoundSession`: turn limit, fresh analysis,
  booked wrap-up), says where a handler stands and what it must hold there (`SoundHandler`: only the
  holder of the lock is inside), and that a loaded copy is still what the store holds while the model
  is awaited (`CopyIsCurrent`). Mutual exclusion gives that no other handler can save in between;
  `Tick` ages store and copies alike. Theorems: `TypeCorrect`, `TurnLimit`, `AnalysisCovers`,
  `ReadyConversationEnds`, `NoLostUpdate`.

  Its second part is about a session's past. `HInv` adds to `IInv` what the turns of a record say of each
  other (`last_user_message_id` names the last of them, no two in a row are the same), what a held copy is
  to the record (the same session at an earlier or its next turn, `SameTurns` and `TookTurn`), and what
  streams and closes have shown of it (`AnswersStand`, `ShownStands`: until the session that was shown
  expires it is the stored one), which stays true because a record only ever grows by the turn of the
  handler inside. Theorems: `HistoryInvariance`, `AnsweredTurnsStay`, `NoTurnTwice`,
  `CloseShowsItsSession` (of the stored session, or of an earlier one that had expired), and `OwnReply`,
  which has the hypothesis `OneAnswerPath` (a room is talked to by streams only): without it the property
  is false, as the run `chat_mixed_retry` shows. `LifecycleKept` is the refinement `Spec =>
  Lifecycle!Spec`: every step of every handler either leaves the record's view alone or is one step of
  `SessionLifecycle`.
* `ConversationTurnProofs` (from `TurnConstants`). A turn keeps nothing but its decision, and the
  session stands still until it ends, so `IInv` says that a decision is the one `DecideGoal` makes of
  the session it will be recorded in; what turns do to the records (`Varied`, `BestKnown`,
  `TurnLeft`) follows from that and from what `CompleteTurn` records. Theorems: `Invariance`,
  `TopicsVaryHolds`, `AnnouncedEndHolds`, `TypesKept`.

  That what was shown stands has two halves. `Shown`, proved as `ShownHolds`, says of the turn that
  what was emitted is `StablePrefix` of *some* beginning of the raw reply. The other half is a lemma on
  texts alone, of any length over any of the symbols (`ShownIsStored`): `StablePrefix` of a beginning is
  a beginning of `FinalReply` of the whole. It goes through the steps of `sanitize_response` one at a
  time and says of each what more text can still change: stripping, the speaker's label, a leak that
  may be half there, the joining of lines (an induction along the recursive function `OneParagraph`
  is made of), quotation marks, the tail after a question and the question a last reply loses.
  Theorem: `StreamedTextStandsHolds`.
* `ModelFailoverProofs` (from `FailoverConstants`). `ReturnBounded` compares two clocks, so `IInv`
  bounds their sum: whatever is left of the cooldown plus the time the server has been good for is at
  most `Bound`, and a call that can still fail was begun before the server became good, hence has at
  most the rest of its read timeout to live. Theorems: `TypeCorrect`, `NoMixedAnswers`,
  `BoundedReturn`.
* `SearchIntentsProofs` (from `IntentAssumption`). `IInv` says which job owns which key in flight, that
  generations exist only inside their job's gather, and that the slots out are the calls under way,
  counted with the cardinality lemmas of the library. That nothing is made again follows because only
  the owner of a key can store it. Theorems: `TypeCorrect`, `KeysAndSlots`, `PaidOnce`.
* `ProfileMergerProofs` (from `MergerConstants`). The state properties are an invariant of the copy that
  the loop works on: every item leaves it one-sided, single and earned. The action properties relate
  two stored profiles, between which lies a whole merge; `IInv` therefore relates the copy to the
  profile it was made from, up to the item the loop has come to (`DislikesHeld`, `EndedKept`,
  `NewFounded`, `Counted`), and the last step of a merge, which only sorts entries into active and
  inactive, turns these into the properties. `LimitsMetHolds` is about that last step: the entries of a
  kind are ranked by a strict total order (`Precedes`: turns of the fields, then the sort key), in such
  an order every place is taken by exactly one entry, and so the first `limit` places are `limit`
  entries or all of them. Any delta over any values, not only those the extraction can produce, so
  that every profile of `TasteTurn` is among those the theorems speak of. Theorems: `TypeCorrect`,
  `OneSideHolds`, `OneEntryHolds`, `ConfidenceHolds`, `DislikesHoldAlways`, `TakenBackStaysAlways`,
  `MentionsSpokenAlways`, `LimitsMetHolds`.

  Its last part is about `AnalysisKeywords` (with that module's own assumptions). The keywords are folds:
  it says what a fold over a sequence is, a function of the number of steps made, gives the induction
  along it, and then each fold its invariant (every keyword made so far stands on showable entries; the
  first showable entry leaves a keyword). Theorem: `AnalysisShowsHolds`, for every answer of the keyword
  model.
* `RecommendationProofs` (from `QueryConstants`, `RankingConstants`, `RequestConstants`: the limits are
  numbers, a profile is finite, its weights, confidences and ages are numbers, similarities lie between -100 and
  100). Most of it is about operators, in the order a request uses them. Everything that is sorted goes
  through one lemma (`OrderedFacts`): a finite set with a strict total order has each of its elements at
  exactly one place. From it come the queries, which a kind and a number tell apart (`Queried`), hence
  the matches, which a query and a product tell apart (`Told`), hence the candidates, one for each
  product (`Rankable`). `SelectDiverseFacts` follows the rounds of the selection one by one (`Served`:
  after n steps each of the first n queries has a product, as long as there is room), and `JoinedFacts`
  and `RankFacts` say what the two parts of a list are (`TwoParts`, `ListOf`). `NearestFound` says when
  a search for a dislike misses a product, `ReasonFacts` and `CluesFacts` what a reason may name.

  The invariant of the request, `SearchInv`, is that everything the lists are made of is there before
  they are: nothing is found before the queries are known, what is found is some products of a known
  query, every dislike has been searched before the lists are ranked, and there is no list and no
  rewritten reason before the answering. `ReasonsInv` adds that each product of the gift list was found
  by signals of this request and that what the model rewrote was valid for the clues of its own product.
  Theorems: `ListsInOrderHolds`, `NothingExcludedHolds`, `QueriesServedHolds`, `GiftKeepsSecretsHolds`.
* `CatalogPipelineProofs` (from `CatalogConstants`). What keeps a ready row searchable has to survive
  any job being the next to write it, so `Searchable` is said of a row and its documents alone, and
  is stronger than the property: as long as the documents are those of the row, it has a category,
  *and* one that is marked as inferred when its labels name none, for otherwise the next sync would
  erase it. `HandsFree` and `InHand` say of what a job has in hand that it has a row, and nothing
  of the lock: no theorem needs it, as it may be lost. `OnlyGoneAreTakenDownHolds` needs
  in addition `AllStillListed`: a product listed since a run began is, if the run's cursor has passed it,
  in the batch in hand or marked as seen by this run. It has the hypothesis `OneSync`, which is the
  schedule's and not the code's: nothing in the code keeps two sync runs apart, and the property is
  false of two that overlap. Theorems: `TypeCorrect`, `ReadyIsSearchableHolds`,
  `OnlyGoneAreTakenDownHolds`.
* `LabRunsProofs` (from `LabAssumption`). One worker holds the lock, and what it has not sent is in its
  queue, and what it has sent is under way, raised or recorded (`Held`, `Tracked`); a run in its hands
  is `running` in the table, where neither a cancellation nor a deletion touches it. Theorems:
  `TypeCorrect`, `SentOnceHolds`, `AccountedHolds`, `FinishedStaysAlways`.

Only model-checked: all liveness (`CallsEnd`, `JobsEnd`, `Unstuck`, `PodIsUsed`; the prover has
neither fairness nor `ENABLED`). That `TasteTurn`'s deltas are among those `ProfileMerger` takes is by its
definition and not a theorem. Where the models recurse (`OneParagraph`, the folds of the keywords, the
rounds of `SelectDiverse`, the half-lives of `Decayed`) the proofs use recursive functions and an
induction over the numbers below a bound, stated for sets.

## What the runs found

1. A streamed message repeated after a plain message is answered with the plain message's reply
   (`send_message` leaves `last_user_message_id` alone): run `chat_mixed_retry`.
2. A product changed while its documents are generated is marked ready with the old documents
   (`_MARK_READY_SQL` is unconditional): run `catalog_stale_documents`. It can go further: when the
   change removed the labels, the job marks the category it saves as the labels' own, and the next
   change of the price alone erases it (`_UPSERT_SQL` keeps only inferred categories), so that a ready
   row has no category. This takes three sync runs and two changes. `ReadyIsSearchable` says what is
   left, and is proved: a row may lack its category only while its documents are not its own.
3. A product taken down and listed again unchanged stays inactive (the upsert skips it and
   `_TOUCH_SEEN_SQL` does not set `is_active`): run `catalog_returned_product`.

Met on the way, without a run of their own:

* `2**failed_probes` times a float raises `OverflowError` at the 1024th failed probe, about a day and a
  half into an outage, and calls then fail instead of falling back (`failover.py:88`).
* A dislike keeps out at most `EXCLUSION_TOP_K` products: the 41st that is near enough comes through
  (`recommendation_engine.py:31`). `NothingExcluded` says so.
* The lock is free while a close waits for its recommendations. If the session expires in the
  meantime, and another one is opened, talked to and analysed in the room, the close closes that one and
  answers with the recommendations of the first (`v1_chat.py:487`: user and room are compared, the
  session is not). `CloseMatchesRecommendation` says that this is the only way: what is returned is of
  the session that is closed, as it is, or of an earlier one that had expired.
* The docstring of `recommendation_reason_service.py` says of a gift list that no private value leaks
  (line 6). `valid_reason` looks only for hidden values of two characters or more (line 58), so the
  model may name a wish of one character, which in Korean is a word (a car). `GiftKeepsSecrets` and its
  theorem except these values (`ShortValues`), and only in reasons the model wrote; without the exception
  the instance of `recommendation` violates it. Besides, `reason_clues` forbids the model the private
  values of the matches a product is shown for, not those of its explore matches (`reasons.py:131`);
  `GiftKeepsSecrets` is stated for the former.
* The comment on `_CLAIM_SQL` says that with several batches the same product is not processed twice
  (`postgres_catalog_document_repository.py:16-17`). A row that is put back to pending while a job works
  on it can be: the import and a sync that changes the product do that at any time, and the release by
  age when a job has lost the connection that holds its lock and another has started. The saves are
  whole, so `ReadyIsSearchable` and `Unstuck` hold all the same.
* The maximum cooldown is called the longest delay before the primary is used again (`config.py:75`). A
  call that was under way when the server came back may fail after it and start the last cooldown:
  `ReturnBounded` allows one read timeout more. It also takes for granted that a server that is up
  answers: the code marks it down as well for a 5xx or a slow answer of a healthy pod, and then the
  delay starts anew.

* The scores of an analysis are one table by label: when a taste and an interest keyword have the same
  label, the taste is shown with the interest's score (`chat_use_cases.py:519`). Before the last turn an
  analysis is let through on private entries alone, and then shows neither keywords nor a summary
  (`chat_use_cases.py:477`).
* With `COMPANION_WRAP_STREAK` at 4, a listless user is offered a choice before, and the answer to a
  choice never counts as listless, so the streak is not reached and the session ends in another way
  (`policy.py`).
* `store.runs()` returns the newest 100 rows, so older queued runs do not count towards the limit of ten;
  the limit is checked and the run inserted in two transactions (`admin_api/main.py:212`).
* A load run whose consumer raised is finished twice, the second time with an empty summary; a run of
  the conversation kind does not look for a cancellation after its last step (`benchmarks/`).
* The import's comment that a file is never half loaded holds of its validation; when the embedder
  fails, rows stay `pending` with the documents they had (`jobs/catalog_import.py:238`).

Real, but of too little weight for a property: a stream cancelled during its SET is logged as cancelled
and may be saved (`v1_chat.py:355`); the lost response of a close cannot be asked for again (`:491`); a
plain send has no message id, so that a repeated one is a second turn (`chat_use_cases.py:242`); the
summary's timeout is shorter than the primary's read timeout, so a primary that hangs is not reported
by it (`config.py:96`); the success of an old call clears the cooldown (`failover.py:92`); the gather of
the enrichment has no `return_exceptions` (`catalog_enrichment_service.py:70`; the model's `KillJob`).

## Not modelled

Texts, prompts, parsing and validation; tables of words, labels and the taxonomy; the profile's axes;
the `categories` parameter of a recommendation, which the chat routes never set; more than one
rewritten reason per request; HTTP, authentication and configuration; the dashboard, notebooks,
monitoring and scripts. In the AI Lab, `chat.py` checks and takes its lock without an await in
between, so that its calls are serial, `model_evaluations.py` makes tables of stored samples, and a
failing SQLite file is left out. A rolling deployment in which two server processes overlap is outside
`ChatSession`: the room's lock is local to a process, and the `Dockerfile` starts one worker.
Overlapping sync runs, which only the schedule prevents, are outside `catalog_jobs`:
`OnlyGoneAreTakenDown` is false of them.

## Plan

What is left, in order of use:

1. `WrapReason` of `ChatSession` as an abstraction of `ConversationPolicy!Wrap`, as a refinement.
2. The axes of the profile, and the repeated answer's `inputLocked` as a property of `ChatSession`.
3. An abstract request, which a list of products answers, refined by `RecommendationRequest`.
