# Formal models of the chat, streaming and ingestion pipeline

This directory holds TLA+ models of this repository's API, worker and web client, the
TLC configurations that check them on small instances, and machine-checked proofs about
the central ones. Paths are relative to the repository root; `api/` stands for
`apps/api/src/` and `web/` for `apps/web/src/`.

    tlc -config ChatOneRun.cfg MCChatInference.tla      # model-check one run
    tlapm ChatSafetyProofs.tla                          # check the proofs of a module

## 1. The system

Three processes: the **API** (NestJS, one Node process), the **worker** (BullMQ
consumer and nightly clean-up, another Node process) and the **web client**. API and
worker share PostgreSQL (through Prisma) and Redis (through BullMQ).

| component | state it keeps | operations | talks to |
|---|---|---|---|
| ChatService (`api/modules/chat/chat.service.ts`) | locals of one async function per inference: content so far, first-token time, whether a closing event went out | `startInference`, `requestCancel`, `runInferenceInBackground`, `runAttempt`, three finalizers | database, providers, both registries, inference logger |
| CancellationRegistry (`.../cancellation-registry.ts`) | map of abort controllers, set of early cancels | `register`, `requestCancel`, `release`, `wasCancelled` | shared by runs and cancel calls |
| StreamRegistry (`.../stream-registry.ts`) | map inference -> buffer, emitter, ended flag; a timer per ended entry | `open`, `publish`, `end`, `get` | shared by runs and SSE handlers |
| SSE and cancel endpoints (`.../chat.controller.ts`) | one subscription per connection | replay of the buffer, then live events | StreamRegistry, ChatService |
| InferenceLoggerService (`api/sdk/inference-logger`) | none (rows of `inference_requests`) | `markFirstToken`, `complete`, `fail`, `cancel`, `emit` | database, ingestion |
| LLM providers (`api/providers/llm`) | one remote stream per attempt, usage so far | `stream` yields tokens, then completed, error, or just ends | ChatService, vendor SDKs |
| Ingestion (`api/modules/ingestion`) | rows of `ingestion_logs`, jobs in Redis | guard, validation, `receive` (look up, insert, enqueue), `status` | database, BullMQ |
| Pipeline worker (`api/modules/logging-pipeline`) | jobs in progress, detached failure handlers | `process`, `handleFailed` | database, BullMQ |
| Admin (`api/modules/admin`) | none | list failed jobs, retry one, retry all | BullMQ |
| Retention (`api/modules/retention`) | none | delete old events, strip old payloads | database |
| Conversations (`api/modules/conversations`) | rows of `conversations` and `messages` | create, list (keyset cursor), get, update | database |
| Dashboard (`api/modules/dashboard`) | none | summary, list (keyset cursor), detail | database |
| Bootstrap and seeding (`api/main.ts`, `api/common/seeding`) | the seeded rows | build, seed, listen | database |
| Web chat client (`web/hooks`, `web/lib`, the chat view) | the hook's state, a reference to one EventSource, the list of messages | send, cancel, reset, render, unmount | HTTP, SSE |
| Redaction, health, pages and layout | see section 7 | | |

Calls go client -> HTTP handlers -> services -> database. Callbacks go the other way:
provider chunks drive a run, the run publishes into a stream entry, its emitter drives
the handlers that subscribed, the response drives the browser's EventSource, and its
events drive the hook's state, which React renders later. The closing step of a run
hands a log event to ingestion, which is the producer's side of the pipeline.

### What is hard, and what makes each part correct

* **A background run interleaves with cancels, the grace timer and other runs at every
  `await`.** Each awaited database call can succeed, fail, or be applied and still
  reject. Correct means: one closing event per stream, the stream agrees with the
  rows, a told verdict is final, nothing is left in the registries.
* **Cancel acts on a row that was read before an await** and may come before the run
  has registered, or after it has released its entry.
* **The finalizers write two rows and one ingestion event without a common
  transaction**, and the catch block may rewrite what a finalizer wrote.
* **The handler looks up, then subscribes; the browser reconnects by itself** and gets
  the whole buffer again. Correct means: each connection carries the whole stream, and
  the page shows each message once, in order, with its stored verdict.
* **The hook's callbacks do not know which inference they are called for**, and state
  takes effect before it is rendered.
* **Three adapters turn three different SDK protocols into one**: empty deltas, usage in
  pieces, several shapes of errors or none, abort by exception, by return, or not at all.
* **The sequence number is read outside the transaction that uses it.**
* **Delivery of logs is at least once**: producers retry, BullMQ redelivers stalled
  jobs, `handleFailed` updates the row without being awaited, operators retry failed
  jobs, and the clean-up removes what a retry needs.
* **Cursors are positions in a list that others re-sort**, by timestamps read before
  the write is applied.
* **Several replicas seed the same empty tables at once** and are restarted when they
  fail.

`PROJECT.json` lists every such hazard at its line, with the properties that cover it.

## 2. Modules

| module | models |
|---|---|
| `CancellationRegistry` | the two collections of the registry and its four operations, as operators on a record |
| `StreamRegistry` | one entry of the stream map: absent, open or ended, with its replay buffer |
| `ChatInference` | a chat turn from POST to the end of its stream, for several inferences and cancel calls |
| `ChatInferenceProperties` | its types, invariants, action and liveness properties, and two refinement mappings |
| `InferenceLifecycle` | abstract: at most one verdict is told, as recorded, final, and logged as recorded |
| `StreamSource` | abstract: the streams that subscribers rely on |
| `ChatRedisOutage` | `ChatInference` while the connection to Redis comes and goes |
| `StreamRelay` | the SSE handler, the response and the EventSource over `StreamSource` |
| `ChatClient`, `ChatClientProperties` | the hook, the page and their requests over `StreamRelay` |
| `ProviderStream` | the three LLM adapters and the loop that consumes them |
| `AttemptContract` | abstract: what a run assumes of one attempt at a provider |
| `ConversationTurns` | racing posts to one conversation: numbering, storing and reading the context |
| `ConversationLedger` | abstract: an append-only list of turns |
| `Listings` | the two keyset-paginated lists and the dashboard's summary, under concurrent writes |
| `IngestionPipeline`, `IngestionProperties` | guard, validation, enqueuer, `receive`, the queue, the worker, admin retries, retention |
| `ApiBoot` | several replicas that seed and start |
| `ChatSafetyProofs`, `ChatStreamProofs` | theorems about `ChatInference`: rows, verdicts and the lifecycle; the streams (section 5) |
| `ClientProofs` | theorems about `ChatClient` and the `StreamRelay` under it |
| `ProviderProofs` | theorems about `ProviderStream` |
| `TurnsProofs` | theorems about `ConversationTurns` |
| `IngestionProofs` | theorems about `IngestionPipeline` |
| `ListingsProofs` | theorems about `Listings` |
| `ApiBootProofs` | theorems about `ApiBoot` |
| `MC...` | instances and symmetry sets for TLC |

The chat modules form a chain from the provider to the screen. `ProviderStream`
implements `AttemptContract`, which is what the awaits `nextChunk` and `markFirstToken`
of `ChatInference` take a provider to do; `ChatInference` implements `StreamSource`;
`StreamRelay` extends `StreamSource`, and `ChatClient` extends `StreamRelay`. So the
client is checked over every stream the API can produce without carrying the API's
state.

### How the models correspond to the code

**Steps.** JavaScript runs without preemption between awaits, so one action is the code
from one `await` to the next. In `ChatInference`, `run[i].pc` names the await:
`committed` (the transaction of the POST), `loadContext` (the context query),
`nextChunk` (the `for await`), `markFirstToken`, `fallback` (update before the second
attempt), `saveMessage` and `saveRequest` (the finalizer's two writes), `emitLog`,
`finally`. `idle`, `rejected`, `done` and `lost` (process died) are not awaits. The
`finally` block contains no await; it is a step of its own because `EmitLog` and
`Raise` reach it from different places, which only adds interleavings.

**Writes.** A write action chooses `ok` and `applied` with `ok => applied`: it
succeeds, fails without effect, or is applied and reported as failed. A failure is a
`Fault`, counted per inference. The finalizers share one shape, so they are one chain
parameterised by `outcome`; `Verdict` and `ClosingEvent` say what each writes and
publishes. `outcome = "exception"` is the catch block's `finalizeFailed`; a failure
there (`Raise` with that outcome) only falls through to `finally`.

**Data.** Content is its number of tokens, a token carries the provider that produced
it (a ghost of the model: the wire format has no such field), timings, previews and
error texts are left out. `call[c].runAt` and `seen` are history variables that no
action reads. `internal_error` is separated from other error events because only the
`finally` block sends it; the client cannot tell, and `wireType` merges them again.

**Relay.** A connection is `handler` (between look-up and subscription it is `resolved`
and holds the entry by reference, so `kept` remembers an entry the grace timer has
deleted), `wire` (written and not yet dispatched) and `received`. `Subscribe` is one
step because replay and registration are one synchronous callback. An ended response or
a broken connection makes the browser reconnect, a 404 closes the EventSource.

**Client.** `SetState` takes effect at once and makes a render due (`dirty`); the render
with the effect that copies the hook's state into the messages is `Commit`. The user acts
on what is rendered, that is, when no render is due. This assumes that React renders a
discrete update before the next click, which it does. A message, its placeholder, its
inference and its EventSource share a name. `Patient` says whether the user sends
another message while the POST of the previous one is pending; the composer allows it,
because `isStreaming` becomes true only with the answer, and then both streams write
into one state. The properties on shown text are stated for a patient user.

**Providers.** Texts are the positions at which the provider sent them, so "once and in
order" can be said. `SdkItem`, `SdkEnds`, `SdkRaises`, `SdkRaisesAbortError` and
`SdkAborts` are all an SDK may do to an adapter that waits for it. An error has a shape
(a status field, a bracketed prefix, a JSON body, or no status at all, as a network error,
a timeout or an error event after a 200 has none) that `StatusOf` reads the way the
adapter's parser does. Gemini's prefix is searched for in the whole message, so any status
may be read there, whatever was answered. Which errors are retryable is therefore the
adapter's word; no property says when it should be (section 4).

**Ingestion.** A delivery is one call of `receive`; the row, the job and the event rows
it gives rise to carry its name. `Post` is the guarded endpoint, `Enqueue` the API's own
way in. BullMQ, which is not part of the repository, is modelled from the options and
calls the code uses: a waiting job is fetched and locked; a lock may expire while its
holder still works, after which the holder can neither complete nor fail the job;
`MaxStalls` expirations fail it for good; failed jobs stay (`removeOnFail: false`) and
`job.retry()` does not reset the attempts. The stored payload is `full`, `with nulls`
(what `buildRawPayload` makes of an omitted field) or `{}` (what the clean-up leaves),
and `Parses` says which of them the worker's schema accepts.

**Listings.** A row's key is the timestamp its list is sorted on. A write reads a clock
first and takes effect later (`Commit`), so keys may go backwards. `moved` and `lowered`
are ghosts that say which rows a walk may miss or show twice.

**Boot.** `pc` is where a replica's `bootstrap()` is. `Upsert` and `Insert` are two
steps, as an upsert with an empty update that Prisma runs as a select and an insert; a
native upsert is the special case without a step in between.

**Seeded faults.** An operator whose comment says *Seeded fault* is a wrong version of
the definition after it, written the way a plausible bug would be. Nothing uses it; it
serves to confirm that the property named in `PROJECT.json` would notice that bug.

## 3. Runs

| run | instance | shows |
|---|---|---|
| `ChatOneRun` | 1 inference, 2 providers, 2 cancels, 2 tokens, 3 faults, 1 crash | the stream, the rows and the log agree, a told verdict is final, nothing leaks; refines `InferenceLifecycle` and `StreamSource`; every run ends and a cancelled one settles |
| `ProviderStreams` | 3 adapters, 3 items, 2 counts, a cancel at any time | a completed attempt is faithful, one that breaks off keeps its text and fails over only without any; refines `AttemptContract`; a cancelled attempt ends, with Gemini at its next item |
| `ClientChat` | 2 messages, 1 token each, a cancel each, one trouble (break, crash, lost request, reload) | what is shown is what was stored, settled messages stay, no placeholder streams for ever |
| `TurnsRacing` | 4 posts, a context of 3 | numbering, adjacency, the context window; refines `ConversationLedger` |
| `PipelineSafety` | 2 deliveries of 3 kinds of event, 2 slots, 2 attempts, 1 of each trouble | one row per key, nothing accepted is lost, no verdict without a cause, duplicates bounded |
| `PipelineLiveness` | 1 delivery, 2 slots, 1 of each trouble | an accepted log settles |
| `ListingPages` | 3 rows, pages of 1, 4 writes, 3 ticks | what a walk may skip or repeat; the summary's parts cover its total |
| `ApiBoot` | 2 replicas, 4 seeds, 2 kills, 1 outage | a listening replica has its seeds, edits survive, all come up |
| `ChatCancelReply`, `PipelineRetries`, `ClientReload`, `ChatRedisOutage` | the smallest that shows it | counterexamples, section 4 |

**Bounds.** Two tokens are enough for "the first" and "a later" one, and for a fallback
to be refused after the first. A run writes at most two rows per finalizer and enters
the catch block once, so three faults reach every combination of failing calls that
changes where control goes. Two cancels cover an early and a late one. One inference is
enough for the model checker because inferences meet only in the registries, which are
keyed by inference; that they do not interfere is not taken from the instance but from
the theorems, which hold for any number. In the relay a stream of start, token and
closing event has a first, a middle and a last event for every step to fall between. Two
messages let a late event of one meet the other; more than one trouble at once
multiplies the states without a new meeting of steps. Four posts let three lose to one
and two more race afterwards, and a context of three can be filled with or without the
own prompt. For the pipeline, two attempts separate "attempts left" from "none left",
one stall separates "redeliver" from "give up", two slots let a late worker meet its
successor. Three SDK items allow a text, an empty delta and counts in any order. Three
rows and pages of one give a page before, at and after the cursor, and four writes let
two be on their way at once and overtake each other.

**Fairness.** `FairSpec` of `ChatInference` makes each run and each cancel reply weakly
fair: an awaited Prisma call settles, Redis answers, the provider eventually yields or
ends, and the event loop resumes continuations. Nothing obliges a fault, a crash, a
request or the grace timer. Two of these assumptions are real ones. The code sets no
timeout on providers, so one that never yields blocks its run. Redis may stay away; that
case is `ChatRedisOutage`, whose `OutageSpec` makes a run strongly fair and assumes
nothing of Redis. `ProviderStream` assumes nothing of the provider, only that an SDK
that was given the signal reacts to it; Gemini's is not given the signal, and
`AbortEnds` excepts a silence of its provider that lasts for ever. `FairClientSpec`
assumes that requests settle, runs end (`EveryRunEnds`), the browser dispatches what has
arrived and reconnects, React renders and the grace timer fires; the user owes nothing.
`FairSpec` of `IngestionPipeline` makes the running processes, the fetching of waiting
jobs and BullMQ's stalled-job check weakly fair. In `ApiBoot` the restart policy of the
compose file brings a process back, and the configuration is taken to parse: that the
replicas come to listen is shown of a complete environment, which the compose file alone
does not give them (section 4).

Systems that may stop (all inferences done, all posts settled, all logs processed) are
checked with `CHECK_DEADLOCK FALSE`; `ProviderStreams` and `ApiBoot` are checked for
deadlock.

## 4. Where the code and its documentation differ

| run | documentation | code |
|---|---|---|
| `ChatCancelReply` | AGENT.md:1007, phase-1.md:951: a cancel after completion returns the final status; the row of a cancelled inference says cancelled | the answer `cancelled` is given on a row read before an await, or while the finalizer is already writing `completed` |
| `PipelineRetries` | README.md:135: with the key, retries are safe | a retry after a failed `queue.add` is answered `duplicate`, and no job exists |
| `ClientReload` | phase-1.md:1242: refreshing mid-stream resumes from the buffer | `ChatView` starts with `streamingId` null and only `send()` opens an EventSource: the message shows as streaming until it is loaded again |
| `ChatRedisOutage` | architecture-notes.md:71: with Redis unavailable the enqueue throws, is caught, and chat succeeds anyway | with `maxRetriesPerRequest: null` the command waits: the rows are settled but the closing event is withheld as long as the outage lasts |

Other differences met while modelling, without a run of their own:

* README.md:143 says the maximum of the sequence numbers is read in the transaction that
  uses it. It is read before; the loser of a race gets an error from the unique index
  (`ConflictHasWinner` is what holds).
* phase-1.md:824 says the context includes the message just written. Posts committed in
  between can push it out of the window (`ContextKeepsOwnPrompt` is what holds).
* architecture-notes.md:21 says duplicates short-circuit on the second insert. The
  unique violation is not caught; the second caller gets an error.
* architecture-notes.md:72 calls a duplicate event row the worst case of a redelivery.
  A processed log can also be marked failed, by a `handleFailed` that was started before
  an operator's retry succeeded. architecture-notes.md:89 promises one event row per
  processed log, which line 72 already relativises.
* phase-1.md:1003 expects a page walk without overlap. A row can be shown twice when a
  write with an older clock overtakes a newer one (`ShownOnce` says exactly when). A
  cursor that does not parse restarts at the first page.
* phase-2.md:956-958 expects the readiness probe to answer "degraded" without Redis; its
  `ping()` waits for the reconnect for the same reason as in `ChatRedisOutage`.
* phase-3.md:260: Gemini's adapter may still yield `completed` after an abort. The loop
  in `runAttempt` discards it, so `ImplementsAttempt` holds all the same.
* architecture-notes.md:76 says an exhausted quota or a rate limit is treated as retryable
  and falls over. The adapters call an error retryable only from status 500 on
  (anthropic.provider.ts:64, openai.provider.ts:75, gemini.provider.ts:92), so a 429 fails
  the inference, as line 67 of the same file says.
* architecture-notes.md:66 lets network errors, and AGENT.md:947 timeouts, be retried. An
  error that carries no status is not retryable in the code (anthropic.provider.ts:59,
  openai.provider.ts:70): neither a network error, nor a timeout, nor a server fault that
  the SDK reports from an event of a stream answered with 200.
* Gemini's pattern for a status (gemini.provider.ts:82) is not anchored and takes the first
  three digits of a longer number: a message with `[8192` in its text reads as status 819
  and is retryable.
* architecture-notes.md:69 says that a cancel severs the provider's HTTP request. Gemini's
  call is not given the signal; it is left at its next item (`AbortEnds`).
* `api-env.ts:34` requires `GEMINI_API_KEY`, which `docker-compose.yml` passes neither to
  the API nor to the worker. Unless an `apps/api/.env` was copied into the image when
  it was built, the API fails at the parsing of its environment, the restart policy starts
  it again for ever, and the worker waits for an API that never becomes healthy.
* Anthropic's adapter forwards empty deltas, which stamp `firstTokenAt` and with it rule
  out the fallback although no text was received.
* The dashboard's filter chip `google` never matches rows, whose provider is `gemini`.
* `NewConversationButton` stays pending after success until the navigation unmounts it.

## 5. Proofs

`ChatInference`, for every set of inferences, providers and cancel calls, and every
value of the bounds:

* `TypeCorrect`: `Spec => []TypeOK`. `TypeOK` is not inductive: a token is admitted
  below `MaxTokens` before the first-token write and appended after it, so `RunInv`
  remembers the bound across that await; and a cancel call that has read a row has a
  target (`CallInv`). There is one lemma per group of actions.
* `MessageSettledFirst`, `LogMatchesRow`, `OneFaultIsTolerated`, `NothingLeaks`: the
  invariants `SettledMessageFirst`, `LoggedEventMatchesRow`, `OneFaultTolerated` and
  `NoLeakedRun`, from the inductive invariant `SafetyInv`. Its core is `Story(i)`, which
  ties the place a run has reached to its rows and to the faults spent: before the
  outcome is decided no row is terminal; the message holds the verdict from
  `saveRequest` on and the row from `emitLog` on; an exception costs one fault, ending
  without a told verdict two. None of the four is inductive alone: that the row write
  keeps the message settled, for example, needs to know what `saveMessage` wrote.
  `NoLeakedRun` is inductive with the types.
* `VerdictIsFinal`: the action property `ToldVerdictIsFinal`. `TellInv` says that a
  closing event in a buffer means that the run has told a verdict or is over; `Story`
  places such a run after its last write, so no step writes its rows.
* `ChatImplementsLifecycle`: `Spec => ImplementsLifecycle`, the refinement of
  `InferenceLifecycle`. `SafetyInv` is all it needs: one lemma per abstract action says
  what must change in one inference's view for it to be that action, and one lemma per
  group of code steps shows that it does. `SaveRequest` is `Record`, `EmitLog` is
  `Settle`, the `finally` block is `Abandon` or nothing, a crash is `Lose`.
* `StreamsMatchStore` and `OneProviderStreams`, from `TapeInv`: a buffer is
  `message_start`, one token of the row's provider for each that the run has counted, and,
  when the run has told a verdict or is over, one last event. The finalizer's first write
  stores that count, so a told verdict finds it in the row. Both need `Locals`, which says
  that a fallback is only reached before the first token.
* `CancelledOutputStops`, from `CancelInv`: a run that has not decided its outcome has no
  completed message, and a cancel that reached the registry before the decision has
  silenced its target: the signal is set or will be when the run registers, and what the
  run may still append is the token it is about to write, if any.
* `ChatImplementsSource`: `Spec => ImplementsSource`. The refinement reads each buffer
  through `wireType`; one lemma says what appending does to the mapped buffer, one per
  group of steps which action of `StreamSource` it is.

`StreamRelay` and `ChatClient`, for any messages and any breaks, crashes, lost requests
and reloads, all over `ClientSpec`:

* `RelayTypeCorrect`, `ConnectionsMissNothing` (`NothingMissed`) and `NoSubscriberHangs`
  (`NobodyHangs`), from `LinkInv`. Its core is `LinkOf`, a relation between the values of
  one inference: its entry, its EventSource, the handler, the entry the handler kept, what
  was dispatched, what is on the wire, and its row. It says that a tape has the shape of a
  stream, that a verdict on it is stored with all its tokens, and that what a live or
  finished connection has and will get is the buffer. Each step of the relay is first a
  lemma on these values (`LinkPublished`, `LinkSubscribed`, ...), then one on the state.
  The theorems are about the client and not the bare `RelaySpec`, in which a stream may
  be opened a second time under a connection to the first; in the API a message is accepted
  once, which `Posted` says.
* `SettledBubblesStay` (`SettledViewIsFinal`), for any user, from `PageInv`: the page's
  streaming message is one that streams, so no render writes on a settled one.
* `BubblesShowTheirOwnText` and `BubblesAgreeWithRows`, for a patient user, from `HookInv`.
  `OneAtATime` says that at most one request is pending and then no EventSource is open;
  `Follows` that a streaming hook has exactly the tokens its open EventSource dispatched,
  unless that connection has just broken; `HookState` and `Shows` carry this to the page
  across renders. A dispatched event is therefore of the hook's own inference
  (`DispatchFollows`) although the callback does not ask, and a closing event finds the
  hook with the whole text (`VerdictStored`, by the shape of the tape).

`ProviderStream`, for any adapters, any length of the SDK's stream and any counts:

* `ProviderTypeCorrect`, `CompletedAttemptFaithful`, `FailedAttemptKeepsText`, from
  `AttemptInv`, which follows each text and count from the SDK through the chunk in
  flight into the content and the outcome. That an attempt is faithful is said by
  positions (the set of texts, in increasing order), not by filtering a sequence, since
  what a filter returns would need induction over sequences.
* `AdaptersImplementAttempt`: the refinement of `AttemptContract`.

`ConversationTurns`, for any number of posts and any context limit:

* `TurnsTypeCorrect`, `NumbersAreContiguous`, `TurnsStayAdjacent`,
  `ConflictsHaveWinners`, `ContextIsRecent`, from the inductive invariant `TurnsInv`. The
  number a request has read is even and all numbers below it are taken
  (`BeforeCommit`): together with the unique index this is why a stale number either
  fails or is exactly the next one, although the read is outside the transaction.
  `ContextIsRecent` needs a fact about numbers: if a completed message is not among
  the `ContextLimit` latest, there are that many and all are later (`ContextIsFull`,
  from the greatest element left out and the least element taken in).
* `TurnsImplementLedger`: `Spec => ImplementsLedger`. Storing a turn appends it, and
  nothing else touches the list.

`IngestionPipeline`, for any deliveries, slots, attempts and numbers of troubles:

* `IngestTypeCorrect`, from the types and `BusySlots` (a busy slot has a job).
* `OneRowPerKey`, `AcceptedIsKept`, `EventsComeWithVerdicts`, `FailedIsExhausted`, from
  the inductive invariant `PipelineInv`. Its parts are `RowStage` (what a row and its job
  are at every stage of the call that stored it), `RowCause` (a mark of failure or a
  pending failure handler means exhausted attempts, an event row means a verdict),
  `SlotStage` (a slot works on a stored row, and acknowledges a settled one) and
  `OneRow`. None is inductive alone: that an accepted log keeps its job, for example,
  needs that a completed job is settled, which needs that only a settled row is
  acknowledged. The queue's steps share one argument (`MovedJob`, `HandedOn`): they
  settle a row or leave it, and hand the job on or leave it.
* `DuplicatesAreBounded` by counting: `PaidFor(d)` says that the event rows of a log and
  the slots that may still write one are together at most the dispatches of its job.
  Fetching adds one to both sides, a commit turns a writer into an event row, and a
  stall pays for the worker that lost its lock. It needs finitely many slots.
* `FailuresHaveCauses`, from `CauseInv`: a failed row and a pending failure handler have a
  cause, and a stripped payload stands beside a clean-up (so what a slot parses is what
  `receive` stored, or there is a cause). It needs `MaxStalls # 0`, as BullMQ's option is:
  with no stall allowed, a job could fail with no attempt and no stall counted.

`Listings`, for any rows, page size, filter and number of writes:

* `ListingTypeCorrect`, `RowsShownOnce`, `PagesAppend`, `NoRowSkipped`, from `WalkInv`:
  what the pages show comes before the cursor or is it; a shown row is still stored, not
  below the key it was shown with unless it was lowered; and a row that matched at first
  and was not moved is shown or lies after the cursor. The sizes of pages do not
  matter, only that a page is the first so many after the cursor.
* `BreakdownCovers`: what the totals counted is still in the range of the second query.

`ApiBoot`, for any number of replicas and seeds:

* `BootTypeCorrect`; `SeededBeforeListening` from `BootInv`, which says of every place
  in `bootstrap()` which rows exist by then, and holds because no step removes a row;
  `EditsAreKept`, since no step of a replica writes a row that exists.

The proofs rest on the named assumptions of the modules they are about, and on nothing
else. Every inductive invariant was model-checked before it was proved.

Model-checked only: liveness (`EveryRunEnds`, `CancelledRunSettles`, `AcceptedSettles`,
`PlaceholderSettles`, `AbortEnds`, `EveryReplicaListens`), which is outside the prover's
reach because it rests on fairness. Every other property of a passing run is a theorem. The
properties of the violation runs are false of the code (section 4).

## 6. Plan

1. (done) Registries, `ChatInference`, its properties and refinement; `ConversationTurns`;
   `IngestionPipeline`; type correctness and row safety proved.
2. (done) The way to the screen: `StreamSource`, `StreamRelay`, `ChatClient`. The way
   from the provider: `ProviderStream`, `AttemptContract`. The lists and the summary, the
   start of the API, Redis outages, the pipeline's guard, validation and payloads. Proved:
   the safety of the pipeline, of the numbering and of the start, and the refinements of
   `InferenceLifecycle` and `ConversationLedger`.
3. (done) Proved: the stream protocol (`ImplementsSource`) and what follows for the relay
   and the client, the adapters and their contract, `FailureHasACause`, the page walks. Left
   to prove: types of the client's remaining variables with the bounds `ClientTypeOK` puts
   on texts.
4. Left to model: `ChatInference` and `IngestionPipeline` composed through `emit` as one
   state machine. Today they meet in the assumption that a call of `enqueue` is a delivery
   with a key, which `Enqueue` states, and that `emit` catches its error.

## 7. Not modelled, and why

* Redaction: four regular expressions and the Luhn check, over characters, without state.
  A model would repeat the code.
* Health probes, configuration and wiring: they read, or run once. The bounds of the
  environment schema appear as the assumptions on the constants.
* Pages, layout, settings and the preferences panel: rendering of loaded data, filters
  over a list already in memory, and a panel in `localStorage`; none has a protocol with
  another component. The dashboard's percentiles and rates are SQL aggregates over one
  snapshot.
* `begin()` of the inference logger: it has no caller.
* Redis losing data, and several replicas of the API behind one address (both registries
  are per process, and so is what a cancel can reach). Throttling.
* String formats: validation is whether a request is valid.
* Latencies, previews, titles and `lastMessageAt`, a sort key that racing runs may set
  backwards.
* An entry in `preRegisteredIntent` left behind by a late cancel: ids are never used
  twice, so no behaviour depends on it; it is memory that is not given back.
