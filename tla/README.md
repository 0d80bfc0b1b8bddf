# Formal models of the sales inbox task router

The program reads batches of sales e-mails (`POST /ingest`), asks a language
model what each one wants, and keeps one task per e-mail thread in PostgreSQL.
The same tables are written by a public Task API (`POST`, `PATCH`, `DELETE` of
`/tasks`) and read by a chat endpoint, statistics and a React front end.

This directory holds TLA+ models of its core, the TLC instances that check them
and TLAPS proofs about them. `PROJECT.json` maps every definition to the lines
it models and lists runs, mutants, hazards and theorems.

    tlc -workers 2 -config MCReconciler.cfg MCReconciler      # one run
    tlapm ReconcilerProofs.tla                                # one proof module

## 1. Inventory

| Part | State | Operations | Hard because | Correct when |
| --- | --- | --- | --- | --- |
| `services/ingestion_service.py` | a request's queues, wave, prepared messages, counters; its row in `ingest_runs` | `ingest`, `_handle_error` | requests run in parallel threads of the server; an error ends a run half way; some exceptions are caught by nobody | replies follow predecessors, nothing is dropped silently, counters agree with deliveries, the run's row is finished |
| `services/reconciler.py` | none of its own; works inside `thread_lock` | `reconcile` | decides from a snapshot read before the lock; must be idempotent under races | one task per thread, one outcome per e-mail, task and mapping agree |
| `repositories/postgres_store.py`, `alembic/versions` | `emails`, `decisions`, `ingest_deliveries`, `task_events`, `threads`, `tasks`, `ingest_runs` | `inspect_email`, `thread_lock`, `save_outcome`, `record_delivery`, `create_task`, `patch_task`, `delete_task`, `start_run`, `finish_run`, queries | read committed transactions, row locks in two orders, UNIQUE constraints, lost connections | what commits together is consistent in every state |
| `api/grader_tasks.py`, `api/tasks.py` | none | `POST`, `GET`, `PATCH`, `DELETE` of `/tasks` | no thread lock; changes tasks under ingestion | does not break ingestion's mapping |
| `domain/email_models.py`, `services/email_normalizer.py`, `services/quote_parser.py` | none | validation, content hash, quote stripping | unique keys of a request; what is quoted and what is forwarded look alike | a request is free of clashes with itself; history is not taken for news |
| `domain/routing_policy.py`, `domain/confidence.py` | none | `route_email` and its helpers | thresholds, preservation of prior fields | operation, owner and priority as documented |
| `services/gemini_extractor.py`, `services/gemini_rate_limiter.py` | a window of call times | `extract_many`, `_remote_batch`, `acquire` | omitted or repeated ids, retries, shared limiter | one result per e-mail, bounded calls |
| `services/suppression.py`, `heuristic_extract` | none | `deterministic_suppression`, the answer without a model | keyword tables that overlap, whose verdicts other rules correct | thanks and decoys move no task |
| `repositories/store.py` (`MemoryStore`) | the same tables in dictionaries, one lock table | as the PostgreSQL store | the lock table is itself unlocked; create and save are two steps | as the PostgreSQL store |
| `db/pool.py` | a lazily opened pool of at most five connections | `open`, `connection`, `close` | exhaustion by waiters on a row lock | opened once, always returned |
| `services/chat_*.py`, `services/answer_renderer.py`, `domain/chat_models.py` | an audit row per answer | `plan`, `execute`, `answer` | model output must be validated, fallbacks | answers come from the rows only |
| `services/stats_service.py`, `api/decisions.py`, `api/stats.py` | none | counts and scoped queries | latest delivery of an e-mail in a scope | counts agree with the rows |
| `config.py`, `dependencies.py`, `main.py` | settings, cached singletons | start-up checks | - | production has a database |
| `frontend/src` | React state | load, edit, route, ask | late answers after an edit | shown results belong to the shown input |
| `scripts` | files | generate, validate, migrate, smoke tests | - | not part of the running system |

How they interact: a request's thread runs `ingest`, which calls the store for
the pre-check and the thread's snapshot, the extractor for all messages of a
wave at once, `route_email`, and then `reconcile`, which opens one transaction
(`thread_lock`) and makes every other store call inside it. The Task API calls
the store directly. Nothing but the database is shared between requests, apart
from the limiter, the pool and, in development, the in-memory store.

## 2. Modules

| Module | What it is |
| --- | --- |
| `ThreadLedger` | the abstract specification: an e-mail is decided once, for one run, in one step that may give its thread a task if it has none; a deletion takes a task away |
| `Reconciler` | requests, message by message, over the PostgreSQL store, with the Task API, lost connections and deadlocks; implements `ThreadLedger` |
| `IngestionRun` | the loop around it: waves, order, counters, errors, the run's row |
| `GeminiExtractor` | `extract_many` on one wave: nested retries, the split, the fallback |
| `RateLimiter` | the limiter that the extractor's calls wait for, over time |
| `RoutingPolicy` | `route_email` on the e-mails of one thread: corrections, rules, the merge with the prior task |
| `Heuristics` | what `RoutingPolicy` is given without the model: `latest_reply`, `deterministic_suppression`, `heuristic_extract` |
| `MemoryStore` | ingestion and the Task API over the in-memory store, with its table of locks |
| `ChatPlanner` | `plan_question`: from the phrases of a question to a plan |
| `Chat` | `POST /chat` over a store that changes meanwhile: plan, reads, execution; `GET /stats` |
| `Workspace` | the browser: input, route, refreshes and chat, with answers that come late |
| `MCReconciler`, `MCIngestionRun`, `MCRoutingPolicy`, `MCMemoryStore`, `MCChat`, `MCWorkspace` | instances for TLC; `GeminiExtractor` and `RateLimiter` need none |
| `ReconcilerProofs`, `IngestionRunProofs`, `GeminiExtractorProofs`, `RateLimiterProofs`, `RoutingPolicyProofs` (and `Heuristics`), `MemoryStoreProofs`, `ChatProofs`, `WorkspaceProofs` | theorems |

The modules meet at their edges. `IngestionRun` has `reconcile` as one step, whose
steps are `Reconciler`; the verdict that both leave open comes from
`GeminiExtractor` (is there an answer?), `Heuristics` (what is read without one?)
and `RoutingPolicy` (what follows from it?); and the snapshot that `Reconciler`
keeps as a `Content` is the `prior` of `RoutingPolicy`, of whose merge `Reconciler`
has the part that preservation needs: field by field, evidence or the prior value. `Heuristics`
extends `RoutingPolicy` and is checked with it: a text goes all the way to the
thread's task. `Chat` extends `ChatPlanner`, and has ingestion as one step, as
`Workspace` has the server's work on a chunk.

### Reconciler

The variables `emails` ... `tasks` are tables; `drawn` is the set of task ids
used so far (uuid4 does not repeat). A worker `w` is one request; `pc[w]` is the
place of its thread in `ingest` and `reconcile`:

| `pc` | code | actions that leave it |
| --- | --- | --- |
| `idle` | between two messages | `Inspect` (pre-check, `inspect_email`) |
| `replay` | about to `record_delivery(..., "unchanged")` | `RecordReplay` |
| `prior` | about to read the thread | `ReadPriorAndRoute` (`get_thread`, model, `route_email`) |
| `lock` | in `thread_lock`, before `FOR UPDATE` returns | `LockThread` |
| `locked` | start of the critical section | `FoundUnchanged`, `FoundConflict`, `KeepTask`, `Refuse`, `StageCreate`, `StagePatch` |
| `patch` | before `UPDATE app_private.tasks` | `PatchTask` |
| `save` | before `save_outcome` and COMMIT | `SaveOutcome`, `SaveClash`, `SaveUnacknowledged` |
| `done`, `failed` | response sent | - |

A transaction's writes are invisible to others until COMMIT, so they are
buffered in `staged[w]` and applied together. Row locks follow from `pc`,
`staged` and `deleting`: `HoldsThread` and `RowLocked`. `delete_task` is two
steps, since it holds the task row while it waits for thread rows; the others
of the Task API are single statements. The reads of `reconcile` before it
writes (`inspect_email`, `get_thread`, `list_tasks`, `get_task`) are one step:
the first two read rows that only a holder of the thread row writes, or that
`save_outcome` checks again by its UNIQUE constraint; and a task that
`list_tasks` or `get_task` returned and that is deleted afterwards is the 404
of `PatchTask`. A task posted after `list_tasks` is `PostTask` after
`StageCreate`.

What is abstracted: an e-mail is its id, its thread and its index (the content
hash covers the whole e-mail, so an edited resend is another `Message` with the
same key); the material fields of a task are a function from `Field` to `Value`
(`Content`), what a message says of them is such a function on some fields
(`Evidence`), and which ones it says is any, as is the verdict of the model and of
suppression. `PlannedContent` is evidence over the prior snapshot. `StagePatch` stages
the row as `list_tasks` read it, and `PatchTask` writes the fields in which the plan
differed from that row (`Patched`): a field that a `PATCH` changes between the two
statements, and in which they did not differ, survives as it does in the code.
Descriptions differ from each other without a material field differing, which is why
`StagePatch` may choose an update of equal content. A replay is the same message in
another request.

### IngestionRun

`reconcile` is one step with all its results; errors of any message are
possible at any time. Threads are numbered since waves are taken in the order of
their ids. `reading` separates `inspect_email` from `get_thread`, between which
other requests run. `Escape` is every exception that the code handles nowhere
(the calls outside a `try` in the first loop of `ingest`, `extract_many`,
`finish_run` itself) and the death of the process. `record_delivery` is part of
the step that calls for it: it adds one row that no other request reads or
writes.

### GeminiExtractor

One step is one call of the model with all the code up to the next call.
`_remote_batch` calls itself for each omitted e-mail, within its own attempt:
`batch` is the activation for the wave and `single` the one for an e-mail, inside
the batch or after the split. A wave is never longer than `gemini_batch_size`, so
there is one chunk. An answer may name any of the e-mails asked for; an answer
that is no valid JSON, a timeout and an error of the service are one outcome, as
they are in the code's `except`. The wait of the limiter and the pauses between
attempts take no step here. Abstracted: the prompt, and what the answer and the
heuristic say.

### RateLimiter

A caller arrives, takes the lock, sleeps with it, stamps and leaves. `Tick` is the
clock, and a sleep may last longer than it was asked to. Only differences of times
matter: `since` is the time since the last stamp, and stops growing at the
interval. `recent` remembers the admissions of the last minute.

### RoutingPolicy

`Receive` is the extractor's result for the thread's next e-mail, `Dismiss` and
`Route` are the two ways through `route_email` with the write of the snapshot that
follows, `Delete` is what the deletion of the task does to the thread. Everything
else is pure: `Intents`, `Amounts` and `Deadlines` are what
`_normalize_extraction_policy` makes of an e-mail, `Owner`, `Priority` and
`Confidence` the rules, `Merged` the merge. A text is the set of phrases that the
code searches it for, the amount and the delivery times that its regular
expressions find in it. Intents, roles and phrases that no rule distinguishes are
one value. At most one amount is written out in a text. A value that makes
`route_email` raise (an impossible date, an amount that is no number) is an error
of `IngestionRun`, and changes no thread.

### Heuristics

A text is the set of terms that its subject and the parts of its body contain;
`Says` has the tables in which each term is found, so that "immediately" is found
where the code looks for "media". A part begins with a header of a quoted or
forwarded message, or is in angle brackets; `LatestReply` is which parts
`latest_reply` keeps. `Prepared` is what `ingest` hands to `route_email`: the
verdict of `deterministic_suppression`, or the result of `heuristic_extract`, both
degraded or, with a client, the former not. It is a set of the e-mails that
`RoutingPolicy` receives, in one thread with those a model has read. Left out:
company, direction, topics, markup, truncation, and the dates' formats.

### MemoryStore

The reconciler is the same code as in `Reconciler`, without a transaction: each
call of the store is an action and nothing is rolled back. `LookUp`, `MakeLock` and
`InsertLock` are the three steps in which a `defaultdict` with a Python factory
comes by a thread's lock. `made` remembers every lock that was handed out for a
thread; the properties hold for threads with one.

### ChatPlanner and Chat

A question is a set of phrases, and `Hits` says which of the planner's tables each
phrase is found in. `Rules` are the planner's families in their order: the first
whose guard holds makes the plan. `Chat` runs a plan as `execute_plan` does: a read of
the decisions, one of the threads, one of the tasks, then the rest, and the store
changes between them. The model is any plan from a set (`ModelPlan`), of which
`ValidPlan` keeps those that the code's validators accept. Rows are functions from
fields to tagged values, since the code's filters compare whatever a field holds.
Figures are what `render_answer` states, in the order in which it states them, so that a
place in the sequence says what a figure counts; the response has them as data beside
the text. The text, which a model may word otherwise, is left out.

Ingestion is one step for each e-mail. `Takes` refuses an id or a place that is taken,
and has a run take the e-mails of a thread in order; another run may be ahead of it.
`IngestDismissed` is SKIP and NOOP with any reason, `Orphan` the reply that is refused.

### Workspace

`route` is a coroutine: its variable `at` is the `await` it is at. `polls` are the
refreshes in flight, of this and of earlier routes, each with what the server
answered when it was read; `PollArrives` is the code after the `await`. `upload` is
a file being read, whose handler belongs to an earlier render and calls a
`changeText` that saw no route. `sent`, `delivered` and `late` are history and the
server's side.

### Faulty versions

An operator whose comment begins with `Fault:` is not part of a model. It is a
version of the operator after it with one plausible bug. Put in its place, TLC
finds the property that `PROJECT.json` names beside it violated.

## 3. Runs

| Run | Config | States | Shows |
| --- | --- | --- | --- |
| `reconcile` | `MCReconciler.cfg` | 347 425 | tables agree in every state; implements `ThreadLedger` |
| `reconcile_live` | `MCReconcilerLive.cfg` | 176 427 | runs and deletions end |
| `stale_prior` | `MCReconcilerStale.cfg` | violation | finding 1 |
| `ingest` | `MCIngestionRun.cfg` | 622 755 | order, completeness, counters; a run leaves "processing" |
| `extract` | `MCGeminiExtractor.cfg` | 10 077 | retries end; who is degraded was asked for to the end |
| `extract_preserve` | `MCGeminiExtractorPreserve.cfg` | violation | finding 2 |
| `limiter` | `MCRateLimiter.cfg` | 13 803 | calls per minute; nobody waits for ever |
| `routing` | `MCRoutingPolicy.cfg` | 590 046 | sequences of replies keep a task consistent, with and without the model |
| `tender_to_rohit` | `MCRoutingPolicyTender.cfg` | violation | finding 3 |
| `memory` | `MCMemoryStore.cfg` | 1 139 144 | the store without a database, while each thread has one lock |
| `chat` | `MCChat.cfg` | 1 506 568 | data comes from the rows; statistics agree with them |
| `workspace` | `MCWorkspace.cfg` | 6 529 994 | what the screen shows belongs to the batch it names |

**reconcile**: `OneIngestedTask` (one task per thread), `IngestedTaskMapped`
(mapping and task come and go together), `LedgerAgrees` (a thread's counters
against the rows they summarise), `CreditedOnce` (one run is credited with an
e-mail), `TaskHasItsCreateEvent` (the audit trail explains each task),
`ReplayNeverClashes` (a replay never meets a UNIQUE constraint),
`ThreadIsolation` (a commit touches its own thread), `LedgerSpec` (refinement).
**reconcile_live**: `RunsEnd`, `DeletesEnd`.
**ingest**: `CompletedMeansDecided` (nothing dropped silently), `CountersAddUp`
(counters against deliveries, of which neither reads the other),
`RepliesSeePredecessors`, `DeliveredInOrder`, `RunSettles`.
**extract**: `CallsBounded` (the bound of the nested retries, which is reached),
`DegradedAfterRetries`. **limiter**: `AdmittedPerMinute`, `EachIsAdmitted`.
**routing**: `OwnerHasCategory`, `ValueWasStated` (no invoice, pipeline or foreign
amount ever becomes the deal's), `NearDeadlineIsHigh`, `TriageIsUncertain`,
`PriorKept` (finding 1 shows that the same promise fails across requests),
`AmountsMoveSalesOnly`, `DecoysStayWithAarti` (a formal request without an
independent ask is Aarti's, also without the model), `ThanksKeepTheTask` (a reply
that only thanks changes nothing, whatever it quotes).
**memory**: `OneTaskWhileOneLock`, `RowAgreesWhileOneLock`,
`DecisionKeptWithinThread`: what the database's transactions and UNIQUE constraints
give in `reconcile`, as far as one lock for each thread gives it here.
**chat**: `OwnersKept` (no family of questions drops an owner),
`CurrentTasksWereCurrent` (an answer mixes moments, and yet each task in it was so),
`SameQuestionSameData` (a question that the planner knows has the same data twice,
figure by figure), `StatsAgreeWithChat`.
**workspace**: `UnlockedMeansConfirmed`, `PreviewIsTheBatch`,
`OneStaleAnswerAtMost`.

Some rules are stated as far as the code keeps them. `NearDeadlineIsHigh` speaks of
the last deadline of an e-mail, since `_priority` looks at no other; the rule of the
problem statement speaks of any. `TriageIsUncertain` leaves out a reply without
intents, which keeps the prior task's confidence whoever owns the task now.
`AmountsMoveSalesOnly` says nothing of where in sales a task goes, so that the boundary of Rs 10 lakh itself is
met in finding 3 only. `OwnersKept` speaks of the owner that `plan_question` finds, the
first in the order of its aliases: a question that names two owners is answered for one.
`RunSettles` leaves out requests that are lost, and an exception that nobody catches
loses its request. The properties of `memory` say what holds while a thread has one
lock, and among the requests of one thread; two locks are what `LookUp` allows.
`ThanksKeepTheTask` only speaks of the owner where the subject nominates for an award
or invites to a roundtable, and not at all where such a subject asks for a product too
and an amount is named, which changes the size of a deal. `StatsAgreeWithChat` lets chat count a task that was
deleted, `OneStaleAnswerAtMost` one late answer, and `PreviewIsTheBatch` leaves out
the routes during which a sample or a file arrived: the code lets all of these happen.

### Bounds

- Two requests: every race in this code is between two transactions, or between
  one and a deletion. A third request adds no new pair of lock orders. The
  proofs do not depend on it.
- Three messages: a first message and a reply on `t1`, and one on `t2` with the
  reply's e-mail id. These give replay, reply before its predecessor, orphan
  reply, two threads in one run, and a clash of ids across threads, which no
  thread lock excludes. `IngestionRun` has a fourth, so that a wave of two
  leaves a thread over and a thread takes two waves.
- Two ids for ingestion's tasks and one for the API's: a thread may lose a task
  and get another, or get a posted one besides. An id is never reused, so
  `PostTask` and the creation of a task stop when ids run out; two creations per
  behaviour are what the two messages of a thread can use.
- Two deletions in `reconcile`. One field of one value there, for no property of that
  run compares contents; one field of two values in `reconcile_live`, so that an update
  may be one or none; two fields of two values in `stale_prior`, one that a message
  speaks of and one that it does not, with three messages of one thread.
- Three e-mails and two retries in `extract`: an e-mail that is omitted first, in
  the middle or last, in an attempt that is not the first and not the last. The
  bound of 39 calls is reached.
- Three callers with two calls each in `limiter`, an interval of two ticks, three
  calls a minute: six calls may fall into one window, twice what is allowed.
- Two requests over `MemoryStore` with the same three messages, and a place apart
  for each lock: two of a race and one more. Four ids for ingestion, so that no
  creation after a deletion, or in a race for a lock, lacks one.
- Questions of one and two phrases in `chat`, and a comparison of three, each put twice,
  over a batch that has all runs, and over a run. The store changes three times around the question for current tasks, which
  reads all tables, once or twice around one question of each other kind, and not
  around the rest, whose execution the same operators make. Three phrases give no
  pair of rules that two do not. The comparisons have figures of two kinds: with one
  request for proposals and nothing else they differ, so that an exchange would show.
- Two routes in `workspace`, of one and of two chunks of two, and an invalid text:
  a refresh of the first route may arrive during the second. Two questions.
- Some 200 e-mails in `routing`: what decides the owner (intents, amounts, changes,
  unclear texts) and what decides priority and date (deadlines, urgency, phrases)
  are varied separately, for no rule of one half reads the other; a thread mixes
  both. Amounts are at the threshold and one rupee above it, deadlines at 72 and 73
  hours. Some 70 texts are read without the model: each kind of formal request with
  decoys, each suppression with and without what prevents it, thanks under each kind
  of subject and above each kind of quotation, forwarded requests, and each kind of
  time and amount.
- Symmetry is used in the runs without liveness only, over workers, deleters and
  ingestion's ids. No `CHOOSE` ranges over a symmetric set with more than one
  candidate where the choice matters: `Remote` chooses from a set that
  `RefusalOf` has shown to be a singleton.

### Fairness

`FairSpec` of `Reconciler` assumes that a request's thread that can take a step
takes one (weak fairness of `Step`), that a deletion can too, and that
PostgreSQL's deadlock detector runs. A waiter on a task row needs strong
fairness of `PatchTask`: PostgreSQL grants a row lock to waiters in order, so
repeated deletions or patches do not overtake it for ever. Nothing is assumed of
clients or faults. `FairSpec` of `IngestionRun` is weak fairness of each run's
steps; `Escape` is not fair, and `RunSettles` leaves out runs that it ends. `FairSpec` of `RateLimiter` lets time pass and callers'
threads run. The lock is an ordinary `threading.Lock`, which promises no turn: that
nobody waits for ever rests on callers making finitely many calls (`MaxCalls`, a
bound), as every wave does by `CallsBounded`.

## 4. Proofs

Every safety property of the passing runs, invariant or action property, and the
refinement are theorems. They hold for every value of the constants that satisfies
the named assumptions of the module, none of which bounds a number of requests,
threads, messages, tasks, e-mails, texts or questions: `None` is apart from all that
it is compared with, the ids of ingestion and of the API are disjoint, numbers are
naturals and divisors are positive, messages, texts and scopes are records over the
other constants, and messages are finitely many where sets of them are counted. The
assumptions of `MaxCalls`, `MaxChanges` and `Questions` only say that they are numbers.

- `ReconcilerProofs`. `TypeCorrect` rests on `TInv`, which adds what `pc` says of a
  request's locals. `SInv` is the invariant behind `OneTask`, `Mapped` and
  `ReplaySafe`. The properties are not inductive alone; they need that no two
  workers hold one thread (`LockInv`), that ids which exist or are mapped are drawn
  (`DrawnInv`), that mapping and snapshot name the same task (`SnapshotInv`), that a
  mapped task exists until its deletion commits (`MappedInv`), and what a staged
  write presupposes until it commits: a staged creation, that its thread still has
  no task of ingestion; a staged update or noop, the mapping it will write
  (`StagedInv`). The thread lock keeps other requests from disturbing what was
  staged, and the wait of `FinishDelete` for the thread row keeps deletions from it.
  `Implements` proves the refinement under `ledger <- LedgerOf`,
  `owned <- OwnedTasks`: a commit is `Keep` or `Give`, the end of a deletion is
  `Remove`, all else stutters; `DecidedInv` (a decision's e-mail is stored) turns
  the UNIQUE check into the guard of `Decide`. `LedgerOneTask` and
  `LedgerDecidedOnce` prove the ledger's own promises from the ledger alone, and
  `Promised` carries them over to the tables. `Agrees`, `Credited` and `Explained`
  add `LInv`: the e-mails of a thread are its decisions, a replay's e-mail is stored,
  creation events name drawn ids. The counters are cardinalities, and the work is
  that one commit adds one element to the sets they count.
- `IngestionRunProofs`: `RunInv` says that an e-mail of the request is at one place
  of the run's work or settled, that what precedes an e-mail of the wave in its
  thread is settled, and that counters count deliveries, up to one whose commit was
  not acknowledged. `Completed`, `CountsAgree`, `RepliesWait` and `InOrder` follow,
  whatever the size of a wave and wherever errors strike.
- `GeminiExtractorProofs`: `Bounded` gives, for any number of retries and e-mails,
  the bound of the nested loops. `SpentInv` says at each place how many calls can
  have been made; `PlaceInv` what the two activations have of each other;
  `RefusedInv`, behind `Degraded`, which attempts an e-mail has lost alone.
- `RateLimiterProofs`: `LInv` says that who sleeps has the lock, that it sleeps at
  least until the interval since the last stamp is over, and that any two admissions
  are an interval apart. Dividing ages by the interval gives each admission of a
  minute a number of its own below `requests_per_minute`: `PerMinute`.
- `RoutingPolicyProofs`: `RInv`, types, owner and category, and the amount's origin,
  which are inductive together. The work is in the lemmas before: the corrections
  return sequences of the right type (`AmountsType`, `DeadlinesType`), a set of
  positions has a last one (`LastMember`, by well-foundedness), the selected amount
  was stated, confidence stays in its bounds. The end is about texts without the
  model. `PreparedType` closes the seam between the modules: what `heuristic_extract`
  and suppression give is of the type that the assumption on `Email` asks for.
  `Decoyed` and `Thanked` need which parts `latest_reply` keeps (`ThanksReply`) and
  which words stand for the phrases that the corrections look for (`SaysWhere`).
- `MemoryStoreProofs`: while one lock was made for a thread, one request at a time is
  between inspection and `save_outcome` in it (`Alone`). So the place and the
  decision it inspected are free when it saves, and the only task the thread may have
  is the one it knows. `OneTask`, `RowAgreement`, `DecisionsKept`.
- `ChatProofs`: `LinkInv` is what the store keeps between decisions, threads, tasks and
  deliveries, for `StatsAgree`. `ReadInv` connects the reads of one question: a task
  that a thread was read to have is still its task, or is gone for good and the
  thread was without one; from it `WereCurrent`. `RepeatInv` follows a question that is
  put twice, for `Repeats`. `Owners` is about `plan_question` alone, by cases on the
  families of rules.
- `WorkspaceProofs`: `RouteInv` follows the request of the route on the server: it has
  delivered the first e-mails of the batch and has the rest of the chunk to do.
  `Confirmed` says that what is shown unlocked was read after that and that no refresh
  is polling, `NewInv` that a batch not yet drawn is unknown to the server. `Unlocked`, `Previewed`, `OneStale`.

What the attempts showed of the models: `None` has to differ from more than it was
compared with in the small instances, and a reply of thanks may change a task if its
subject says three things at once, which no text of the instance said (it has one now,
and `ThanksKeepTheTask` leaves it out).

Model-checked only: the liveness properties `RunsEnd`, `DeletesEnd`, `RunSettles` and
`EachIsAdmitted`, since the prover has no rule for fairness and ENABLED. The three
violations are counterexamples, which a run shows and a proof could not.

## 5. Findings

1. **A reply undoes what another reply set** (`stale_prior`). The snapshot from which
   `route_email` merges is read before the model call and outside the lock
   (`ingestion_service.py:56`), and `reconcile` patches every field in which the merge
   differs from the task under the lock. The trace has two requests and no `PATCH`: a
   reply of one commits a field while the other, which says nothing of it, waits for
   its model; the other then patches the field back. The comment in
   `routing_policy.py:382` promises to preserve prior fields. `PriorPreserved` speaks
   only of commits at which the thread's snapshot is what the task says, so that no
   `PATCH`, of which the snapshot does not know, can be the counterexample.
2. **Valid answers are discarded** (`extract_preserve`). Omitted ids are asked for
   inside the batch's attempt; when one of them cannot be had alone, the exception
   discards the answers for the others, and the whole batch is asked for again
   (`gemini_extractor.py:337`), against the comment at line 333. An e-mail that a
   valid answer named may end with the heuristic's.
3. **A tender goes to Rohit** (`tender_to_rohit`). When a reply changes the value of
   a task of a sales category, size decides, after and in place of the rules
   (`routing_policy.py:408`): a PSU tender of at most Rs 10 lakh leaves Aarti, whom
   `PROBLEM_STATEMENT.md:123` gives it to "irrespective of deal value".

Observations on the way, which no run states as a violation:

- A reply undoes a `PATCH`. `PATCH /tasks` (`postgres_store.py:93`) does not change the
  thread's snapshot, so the next reply merges from what the task was before and patches
  it back, with one request and nothing at the same time.
- A wording may exchange figures. `phrase` compares the numbers of the model's wording
  with those of the grounded answer as a `Counter` (`chat_answer_service.py:130`), and
  asks for a word of each subject: "0 proposals and 1 sponsorship" passes for "1 proposal
  and 0 sponsorships". Two answers to one question may then contradict each other in
  their text, which `PROBLEM_STATEMENT.md:637` calls "an instant flag", while the data
  beside the text is the same (`SameQuestionSameData`). Numbers in words are not looked
  for at all.
- A decision may say update where a task was created, when the task was deleted
  after the snapshot was read (`reconciler.py:59`; `DATASET.md:53` says that an
  update changes the existing task with a `PATCH`).
- A sample or a file that arrives while a batch is routed replaces the preview,
  although "Input is locked while this batch is routing" (`App.tsx:61`,
  `JsonInput.tsx:8`); a chat answer that arrives after the batch changed joins the
  new conversation (`ChatPanel.tsx:29`).
- Chat counts a task that was deleted as long as a decision names it, `GET /stats`
  does not (`chat_executor.py:42`).
- The older families of questions drop every filter but an owner
  (`chat_planner.py:230`).
- Terms are looked for inside words: "immediately" contains "media", and a "purchase
  order" is also a purchase. A formal request is protected from this; an e-mail that
  asks to pay an invoice immediately goes to triage when the model does not answer
  (`gemini_extractor.py:155`).
- A reply of thanks on a thread whose subject nominates for an award is an update of
  the task (`routing_policy.py:177`), and "tomorrow EOD" in its subject counts from
  the day of the thanks. If that subject also asks for a product ("product chahiye") and
  an amount is named, the thanks may move a task of sales by its size.
- Below a forwarded message a quoted reply under a header of the same kind counts as
  new, since each kind is looked for once (`quote_parser.py:23`).

## 6. Plan

Done: all modules of section 2 and the proofs of section 4. What is left:

1. Proofs: that `MemoryStore`, while each thread has one lock and nothing fails between
   two calls, implements `ThreadLedger` too; the lemmas about `LatestReply` for texts
   that say more than thanks.
2. Models: the remaining counters of the statistics, the front end's start-up.
3. Hazards without a property: `POST /tasks` without the thread's lock, a mapping of a
   posted task that dangles, chat outside the limiter, a call without a timeout, the
   last of several deadlines. The code is so; a property could only state it.

## 7. Not modelled, and why

Alembic's environment, the migration runner, generated data, evaluation and
smoke-test scripts: offline and run alone. Half of the repository's lines are these.
Logging, health, samples and the presentational components of the front end: no
state that could go wrong. Configuration and start-up: guards over settings,
evaluated once. The connection pool: a library's; a request that holds a connection
never asks for a second one, so that it cannot wait for itself. The words of prompts,
answers and descriptions, and the regular expressions that find amounts and dates:
data, of which the models keep what is found. Authentication: a guard on every route,
without state. In PROJECT.json each component says what is modelled of it.
