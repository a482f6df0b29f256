# Clario ticket triage: TLA+ models, checks and proofs

Clario takes a customer's ticket (typed, dictated, or with a screenshot), saves it in
Postgres, hands it through a Redis list to a Python worker, and runs it through a
LangGraph of agents that classify, route, draft, validate and either answer the ticket
or escalate it to a human. This directory holds TLA+ models of that core, the TLC
configurations that check them, and TLAPS proofs of the results that matter most.

All paths below are relative to `src/`; `orchestrator/` stands for
`services/ai-orchestrator-service/app/` and `core/` for
`services/ticket-core-service/src/main/java/com/clario/`.

## 1. Inventory

| Part | State | Operations | Hard behaviour | Makes it correct | Model |
|---|---|---|---|---|---|
| **Ticket graph** `orchestrator/graph/`, `orchestrator/agents/` | one `TicketState` per run: classification, drafts, attempts, routing decision, failure type, result | one node per step; conditional edges after cache, validation, reflection and aggregation | three loops (one reroute, redrafts per failure type and per judge), dictionaries whose first key decides, a judge that may put an old draft back | it ends; HR and rerouted tickets and dead dependencies reach a human, but for what the cache answers; what is sent was written by the routed specialists | `Routing`, `TicketPipeline` |
| **Circuit breakers** `orchestrator/tools/circuit_breaker.py` and its users (`llm_client`, `rag_tool`, `cache_check_node`) | state, deque of outcomes, `_opened_at`, `_half_open_in_flight` | `allow_request`, `record_success`, `record_failure` | unlocked, called from threads (ChromaDB) or the event loop (drafts), late outcomes, cancelled probes | one probe per window, cooldown kept, it recovers | `CircuitBreaker` |
| **Ticket intake** `core/services/TicketDispatcher.java`, `TicketService.java`, `core/controllers/TicketController.java` | row in Postgres, executor with a bounded queue, `running` flag | `createTicket`, `submit` after commit, `dispatchToSidecar`, `stop` | requests overlapping shutdown, CallerRunsPolicy, drain timeout, Redis failing | every saved ticket gets handed over or leaves a trace | `TicketDispatcher` |
| **Queue and worker** `orchestrator/worker.py` | `ticket_queue`, `ticket_queue:processing` | recover at start, BLMOVE, handle, LREM, log and sleep on error | crash at any point, several workers during a deploy, lost reply, poison message | at-least-once | `TicketQueue` |
| **Persistence** `orchestrator/main.py`, `precedent_store` | `tickets`, `ticket_classifications`, `ticket_drafts`, `response_evaluations`, `resolutions`, `human_reviews`; `active_tasks`; ChromaDB precedents | `background_orchestration`, `process_ticket`, `delete_customer_ticket`, reload | rows first and status last, redelivery duplicates rows, deletion racing the run, two runs of one ticket sharing one `active_tasks` key | a final status has its rows, a deletion stops the run, only vetted precedents | `TicketRecords` (rows; not precedents) |
| **Staff and customer API** `frontend/src/app/api/tickets/**` | `tickets`, `resolutions`, `human_reviews` and the rows a deletion cascades to | PUT (answer, approve), DELETE, thread messages | check-then-insert, compensation after a failing second write | no answer silently overwritten | `TicketRecords` |
| **Message thread** `frontend/src/app/api/tickets/[id]/messages`, `useTicketThread` | `ticket_messages`; per open panel its bubbles, reloads and Realtime channel | post, retry, reload, echo, merge | inserts between a load and the channel, an answer lost after the insert, retries, panels that close | nothing missed, no bubble that lies | `TicketThread` |
| **Voice** `services/voice-to-text-service`, `frontend/src/hooks/useVoiceInput.ts`, `frontend/src/lib/voice` | session (audio window, committed and tentative words), handler's list, recognizers, microphone graph | audio in, decode, finalize; start, stop, fallback, unmount | local agreement over a moving window, two tasks on one socket, coroutines that resume after the world has changed | committed words never change, all audio is in the final text, the microphone follows the status | `StreamingTranscript`, `VoiceSocket`, `VoiceInput` |
| **Failed-auth alerts** `FailedAuthTracker` in three services | failures and last alert per source | record a failure, purge | bounded memory, window boundaries | one alert per window and source, none missed | `FailedAuthTracker` |
| **Trace relay** `Visualizer/relay`, `Visualizer/viewer` | capped store, subscribers, pending sends | post, merge, evict, subscribe, snapshot | producers that do not wait, a snapshot overtaken by live events | each event once, one row per event | `TraceRelay` |
| **Gemini key pool** `orchestrator/tools/gemini_pool.py` and its callers | cycle, `_dead` keys | take a key, mark it dead, retry | threads and the event loop at once | keys in turn, none that is dead | `GeminiPool` |
| **Learning jobs** `orchestrator/jobs/`, `frontend/src/app/api/customer_feedback` | `customer_feedback`, `human_reviews`, `evaluation_score_overrides` as they are stamped; Chroma exemplars, the file of disagreements | three jobs every 24 h | the same jobs in two processes, rows seen later than they were stamped, late and skipped runs, restarts, half-done rows | a row is missed for a known cause only, a disagreement is not logged again and again | `LearningJobs` |
| **Attachments** `orchestrator/main.py`, `orchestrator/jobs/delete_old_attachments.py`, the console's DELETE | object in the bucket `ticket-attachments`, `tickets.image_storage_path` | upload and path, cleanup every 6 h, forced deletion, console deletion | two stores without a transaction, five writers | an object without a row that names it has a known cause, what expired goes | `AttachmentCleanup` |
| **Account administration** `frontend/src/app/api/admin/users` | `public.users`, the ban in Supabase Auth, `admin_audit_log` | change of role or status, undo | three writes without a transaction, several administrators | banned exactly if not active, audited, an administrator left | `AccountChanges` |
| **Sign-in state** `frontend/src/contexts/AuthContext.tsx` | user, role and their two loading flags | session read at mount, changes of session, role lookups | answers that overtake one another | no page decides on a role that is not the user's | `AuthSession` |
| Redaction, reply judge, few-shot selection, OCR, classifier | none of their own | calls | model output | outside TLC: their results are inputs of the graph | as inputs only |
| Gateway, authentication filters, review service, pages, reports, charts | HTTP plumbing and display | – | – | – | no |
| `clario-ml-sidecar`, `clario-app`, `legacy`, `ml_finetuning`, test reports | copies and research code | – | – | – | no |

How they interact: the browser calls the gateway, which calls ticket-core-service.
`createTicket` commits the ticket row and, after the commit, `submit`s the hand-off;
a pool thread LPUSHes the message. The worker BLMOVEs it to the processing list, runs
`background_orchestration` (graph, then rows, then status) and LREMs it. Within the graph
the breakers are shared by all tickets of the process. Staff and customers read and write
the same rows through the Next.js API. Deleting a ticket calls the orchestrator, which
cancels the task of that ticket if this process runs it. Around this path stand parts that
are modelled without it and without one another: the message thread (a table of its own),
voice input (its text ends up in the form), the breakers (their answers are choices of the
graph), the alerts, the tracer, the accounts and the sign-in state. The learning jobs and the
attachments do share rows with it: a rating, a review and a ticket's row are written and
deleted by requests that `TicketRecords` has too. Their modules have those requests again,
as far as they touch the columns in question (`Stamp`, `Commit`; `ForceDelete`,
`ConsoleDelete`, `Upload`, `SetPath`), and nothing else of the records.

`PROJECT.json` lists the hazards of this code at their lines. The properties below were
chosen from that list.

## 2. Modules

| Module | What it is |
|---|---|
| `Routing` | `explain_routing`: the keyword scores of a ticket and the classifier's labels give the rule and the decision. Pure operators |
| `TicketPipeline` | the graph: one action per node, with the edge taken after it |
| `TicketPipelineProofs` | the inductive invariant and eight theorems |
| `CircuitBreaker` | the breaker and its callers, attribute access by attribute access |
| `CircuitBreakerProofs` | the invariant of the event-loop breaker, and the threaded one's flag |
| `TicketMessages` | the two Redis lists and the commands both sides use |
| `TicketDispatcher` | request threads, executor, `stop` |
| `TicketQueue` | the workers |
| `TicketHandover` | abstract: a waiting ticket is let go only after a reaction |
| `TicketDelivery` | dispatcher and queue over shared lists, refined to `TicketHandover` |
| `TicketDeliveryProofs` | lemmas on the lists, the invariant of dispatcher and workers, four theorems with the refinement |
| `TicketRecords` | one ticket's rows and everyone who writes or deletes them |
| `TicketRecordsProofs` | the invariant of runs and PUTs, and seven theorems |
| `StreamingTranscript` | the transcript of a recording while it is made: windows, agreement, trimming, finalize |
| `VoiceSocket` | `ws_transcribe` with its two tasks, the socket's two directions, the browser's recognizer |
| `VoiceInput` | `useVoiceInput` over `VoiceSocket`: start, fallback, stop, unmount |
| `VoiceProofs` | the coroutines of a recording, its frames, its text, its microphone and its transcript: six theorems |
| `TicketThread` | the messages route and every panel that shows a ticket |
| `ViewProofs` | the invariants of `TicketThread` and `TraceRelay`, and three theorems |
| `FailedAuthTracker` | sliding windows of failures in bounded memory |
| `TraceRelay` | the store of the tracer, its subscribers and a viewer |
| `LearningJobs` | the three learning jobs and the requests that write their rows |
| `AttachmentCleanup` | a ticket's picture: upload, cleanup and deletions |
| `GeminiPool` | the keys shared by concurrent calls |
| `OrchestratorProofs` | the invariants of `LearningJobs`, `AttachmentCleanup` and `GeminiPool`, and what follows |
| `AccountChanges` | PATCH of an account, write by write, with its undo |
| `AuthSession` | who is signed in and as what, in the browser |
| `AccessProofs` | the invariants of `AccountChanges`, `AuthSession` and `FailedAuthTracker`, and what follows |
| `MCDeliveryAndVoice` | the delivery of tickets and voice input, side by side |
| `MCServices` | the components that are modelled without one another, side by side |
| other `MC...` | small sets of values for TLC |

### 2.1 `Routing` and `TicketPipeline`

`Classification` is a record `[points, confidence, critical]`: the domains that the labels
name, the confidence in percent and the critical flag. A text is its `Scores`: the four
keyword scores of `explain_routing` (technical, billing, hr, weak hr), and `hrCanonical`, the
score of its hard HR phrases after `canonicalize_ticket_text`, which puts a blank for every
apostrophe and other punctuation mark. The two HR scores are independent: "isn't for me"
scores in the text as written only, "bank-slip" once it is canonicalized. `cache_check_node`
asks `has_hr_hard_trigger` of the canonicalized text (`Canonicalized`), routing of the other.
What the keywords are is data, and redaction is assumed not to remove one. The reasons
`no_category` and `text_tie` cannot be reached from the graph, `category` and `category_tiebreak` are one, and the
branch for a free-text category is left out (the classifier only returns known ones).

One action per node: `CacheCheck`, `Redact` (two nodes that change no control),
`Classify`, `Route`, `Supervise`, `Specialize`, `Validate`, `Reflect`, `Judge`,
`Aggregate`, `Escalate`, `Resolve` (two nodes). `Raise` is an exception or cancellation
at any node, which `background_orchestration` turns into an escalation. A draft is
`[rules, judge]`: whether it would fail the policy rules, and the judge's score class.
`Missing` is a key whose value is `None` (generation failed), `Absent` no key at all.
`first` is the first key of `agent_drafts`: Python dictionaries keep insertion order, and
`validation_node` and `main.py` both read "the first draft". `generate_draft` never
returns an empty text, and the text of a cached precedent is taken to be non-empty. The
judge always runs on a low score, so `all_judges_unavailable` is merged with a kept draft.

`BoundedPath` allows `17 + 4 * MaxReflectionAttempts` nodes. It is a property, not a guard:
nothing in the model stops a longer path. LangGraph's own recursion limit (default 25) is a
library default and happens to equal the bound at the repository's setting of 2.

### 2.2 `CircuitBreaker`

A call is: read and write the attributes of `allow_request` one at a time, call the
dependency, then the attribute accesses of `record_success` or `record_failure`. The variable
`onEventLoop`, which no step changes, says which breaker of the process it is: `TRUE` is the
draft breaker, where a method runs in one piece (no `await` inside); `FALSE` the ChromaDB
breaker called from `asyncio.to_thread`, where any other caller may run between two accesses.
`Searchers` are callers that hold `_search_lock` while they use ChromaDB. The cache check
may report a success and then a failure in one call, when reading the answer raises
(`AfterSuccess`). `sum(1 for ok in self._outcomes ...)` over a deque
another thread appends to raises `RuntimeError`: that is `FailSumTorn`. `Cancel` (event
loop only) is the cancellation of a ticket's task while it awaits the model: neither
outcome is recorded. Time is the age of the opening, capped at the cooldown; `_opened_at`
`None` counts as 0, the code's `opened_at or 0`.

### 2.3 Delivery

`TicketDispatcher` follows one hand-off per ticket through the places listed in its
header. `ThreadPoolExecutor.execute` (add, look at the run state again, remove or not) and
`CallerRunsPolicy` are JDK code, modelled from their documented behaviour and marked
external. The web server shuts down before the dispatcher stops, but its drain times out
after 20 s (`server.shutdown=graceful`), so request threads may overlap `stop`. After
`stop` the Redis client is closed, and the process may be killed at any time. A failing
push may or may not have reached Redis. One life of the service is modelled: the
repository has no outbox and no sweep for tickets left in status `received`.

`TicketQueue` has several workers, because a deploy starts the new one before the old one
is gone. `Recover` at start moves the whole processing list back, message by message,
including those another worker is handling. A BLMOVE's reply can be lost after Redis moved
the message; LREM can fail; a worker can crash at any step. `MaxFaults` bounds lost
replies, failed commands and crashes together. Redis itself is assumed not to lose its lists.

### 2.4 `TicketRecords`

The rows of one ticket. `Deliveries` are runs of `background_orchestration` in worker
processes (a redelivery is a second one), `ApiRuns` those of `/process_ticket` in the API
process. A run goes `preparing` (attachment), `graph`, `finished`, and then through its
`Plan`: the rows its outcome needs and the status last. The classification and the drafts
are one table, `details`; a run after a cache hit has no classification row, which makes
no difference to anyone here. Supabase calls are synchronous, so from the moment an API
run resumes after its graph to its last write nothing else runs on the API's event loop
(`LoopFree`); worker processes, the Next.js server and Postgres go on meanwhile.

`active_tasks` is one variable, `active`: the API process's entry for this ticket. A
worker has such a dictionary too, but no endpoint that reads it. `SoftDelete` and
`ForceDelete` are the orchestrator's DELETE; `StartDelete`, `DeleteTable` and
`DeleteTicket` the Next.js one, whose first four results are not looked at. A PUT is
`Check` (one select), `InsertAnswer`, `ResolveTicket`, and then `DecideReview` or, when
the status update reported an error, `Undo`. The message thread does not write the
status: `statusAfterReply` returns null.

Any write may fail without effect, or fail with its effect (the reply was lost), and any
process may crash: `MaxFaults` bounds them together. `doubt` remembers that a failed write
took effect or that a compensation failed; properties that such a case breaks exclude it
by name.

### 2.5 Voice

`StreamingTranscript`: audio is a length in ticks, speech a sequence of words with their
times. Whisper is external: it reports the words that lie wholly in its window, right and
with exact times, and of a word that the window's edge cuts nothing, something garbled, or
the word. Of speech the module assumes what the code relies on without saying so
(`SpeechAssumption`): words follow one another and none is longer than the audio a decode
waits for (`OneByOne`), and nothing is said over and over so often that a window matches
what is committed in two ways (`NoStutter`); and of the settings that the words a window
keeps are no more than those that are compared (3 and 8). `Receive` and `Decode` of the
socket, the agreed prefix of two hypotheses, the filter of what is committed already (by
time, then by text), the trim to the context words, the hard cap and `finalize` are the
code's. In `VoiceSocket` what the session makes of audio
does not matter, a transcript is the number of frames it covers; a send takes two steps, so
that two senders could meet. `VoiceInput` adds the hook: `start`, `stop` and the failure
handler are coroutines whose place is a variable (`starting`, `stopping`, `swapping`).
`Disturbances` names what may happen at a bad moment: a click or a leave while an engine
starts, a lost connection then, a recognizer that delivers late, a browser that cannot
restart. `delivery_and_voice` runs without them, since each of them breaks a property (section 5);
`mic_left_open` has one.

### 2.6 The message thread

A message is its `client_msg_id`. `Mine` are those typed in a panel here, the others are
written elsewhere. A reload is asked for (`Open`, `Subscribed`), read (`ReadRows`) and
merged (`Reload`) in three steps, and answers may overtake one another; `"live"` marks the
reload of the SUBSCRIBED callback. `PostFails` covers a refusal, an error after the insert,
and a lost request or answer: the message may still arrive (`stray`). `statusAfterReply` is
a stub that returns null, so no status is written. The channel may be lost at any time while
it is live (`ChannelLost`), also with reloads under way; those were then asked for before it
is live again.

### 2.7 Alerts, relay, keys

`FailedAuthTracker` is one synchronized class; `counted` and `alerts` are history, against
which the property judges what the purged map did. `TraceRelay` follows events from
producers that post in the background and never retry: any order, or never. A handler runs
up to its next `await`, and each broadcast task sends on its own. Its `OrderedDict` is the
`order` of the rows and the events `filed` under each. `GeminiPool` takes the
pool's lock twice per failed attempt; drafts and judgements try three times, classification
and `llm_invoke` once. Any attempt may succeed, fail, or be refused for good, which marks its
key; a marked key may still be handed out when all are marked, and may then succeed.

### 2.8 Learning jobs and attachments

Both the API process and the worker hold the lifespan, hence the scheduler. In
`LearningJobs` a row is stamped by the request that writes it (`Stamp`: `updated_at`,
`reviewed_at`, or the database's `created_at`) and can be seen later (`Commit`). A run is due
an interval after the one before, counted from the process's start. It may start up to
`Grace` late (APScheduler's `misfire_grace_time`), or be skipped (`Skip`); its cutoff is
taken when it does start. It fetches the rows stamped since the cutoff and goes through them
one by one; fetches and rows may fail, processes restart. `Grace` is at most a unit of the
model's clock while the real one is a second of 24 h: more lateness than the code has.
The three jobs of a process read different tables, so that their fetches are one step; and
the clocks of Next.js, Postgres and the processes are taken to agree.

`settled` remembers rows whose last write a run has gone through, `hurt` and `restarted` the
processes that had a disturbance, and a row's `crossed` the processes that started a run, or
were set up, within the grace before its stamp or between its stamp and its commit. These are the
ways in which the code does miss a row, the lookback being exactly the interval; the property
says there is no other.

`AttachmentCleanup` has the object in the bucket and the path in the ticket's row apart, and
everyone who writes them: a run, in either process and once more on a redelivery, uploads and
then sets the path; the cleanup removes the object and then clears the path; a forced DELETE
reads the path, removes the object, and deletes the row whatever came of it; the console's
DELETE deletes the row alone. Every request may fail, with or without its effect, and
processes die between any two steps. `exposed` remembers the pictures to which something
happened that may orphan the object; each action that does so sets it, and no cleanup does.

### 2.9 Accounts and sign-in

`AccountChanges` has one request per administrator through `authorize`, lookup and
validation, update, ban, audit, and the undo. A failing write may have had its effect;
`doubted` and `overlapped` remember what the properties exclude: a write in doubt, or two
requests at once with an account in common. `AuthSession` has the session of the Supabase
client, the read at mount and the listener, which both ask for the role without waiting for
an earlier answer; `lookups` counts questions by the session they were sent under.

## 3. Runs

| Run | Question | Bounds | Result |
|---|---|---|---|
| `ticket_pipeline` | does every path end, answered or reviewed as the policy says? | 2 redrafts (the repository's value), texts, labels and drafts chosen so that every branch of routing and validation occurs | passes |
| `hr_from_cache` | does every ticket that routing gives to HR reach the review? | the same | violated: finding |
| `cancelled_probe` | does the draft breaker recover when calls can be cancelled? | threshold 2, window 3, cooldown 2; 3 callers | violated: finding |
| `delivery_and_voice` | does every ticket reach a worker, once, dispatcher and two workers end to end? and is what was said shown once, and the microphone released? | 2 tickets, one too long; pool 1, queue 1; 2 faults; five speeches of up to 24 ticks, windows of 14; 3 frames of which the service takes 2, 2 recordings | passes |
| `silent_drop` | is a hand-off ever lost without a trace? | 4 tickets, pool 2, queue 1 | violated: finding |
| `ticket_records` | do status, answers and rows stay consistent whoever writes and fails? | one delivery, one API run, two agents, one fault | passes |
| `processing_stopped` | does a deletion stop the processing? | the same with one agent | violated: finding |
| `one_answer` | can two agents both answer? | as `ticket_records` | violated: finding |
| `mic_left_open` | is the microphone released also when the user leaves early? | the same recordings with `"leave"` | violated: finding |
| `word_said_again` | is every word in the transcript, also one said again after a pause? | one speech of five words with a pause longer than the window | violated: finding |
| `services` | the ten components of section 2 that stand alone, each with its own question | below | passes |
| `restart_unlearned` | is a restart between two runs harmless? | one override, two processes with an interval of 2, runs on time, two restarts | violated: finding |

`delivery_and_voice` explores the delivery of tickets and voice input side by side: one runs
while the other rests, and no step of the one that rests is asked for by fairness.
`services` explores ten components side by side: `part` says which one runs, the others
rest in their initial states. That is sound because no module of them has a variable of
another. Bounds: three tickets, a pool of one, a queue of one and `stop` at any point (all of
running, queued, rejected and inline occur at once); one panel, a message typed in it and one
written elsewhere; three sources of failures, of which two are tracked, a threshold of two and
a window of two ticks; the five events of one ticket under two ids and of another ticket, in a
relay of two rows with one viewer that selects twice; one rating, one edit and one override,
two processes, an interval of two with a grace of one, two and a half intervals, one touch,
one failure, misfire or restart;
one attachment, two schedulers, two uploads, two faults; three keys, three calls with 3, 3 and
1 attempts; four accounts with two administrators, two changes, one fault; two users, three
sign-ins or sign-outs, one failed request; three calls of either breaker with a threshold of
2, a window of 3 and a cooldown of 2. `LearningJobs` was also run once with two touches (9.8
million states), with the same result.

Why these bounds: a threshold of 2 in a window of 3 is the smallest in which an outcome
falls out of the window before the threshold is met, a cooldown of 2 the smallest with a
tick before the end, and three callers the smallest with two racing and one arriving
late. The pipeline's own limits (one reroute, 2 redrafts) are the code's. A pool of 1 and
a queue of 1 with three tickets fills both and rejects one; two faults let a crash hit a
recovery. One touch is enough for a row to be crossed, missed, learned or cut off; the proof
covers any number. In `TicketRecords` every race is between two writers of one ticket: two runs of
which one shares the event loop with the deletions, and two agents, who are alike
(symmetry; the run has no liveness property). A crash ends a run, so one fault covers a
delivery that died and the other run that repeats it. The module was also run once with
two API runs and one agent (19 million states), with the same result.

What the passing properties say:

- `ticket_pipeline`: `NoInvalidState` (no node raises `ValueError`), `BoundedPath`,
  `ResolvedHasReply`, `DependencyFailureReviewed`, `FailedOnlyAtCap`, `HrReviewed` (but for
  tickets answered from the cache that have no HR phrase left without punctuation;
  `hr_from_cache` shows one), `RerouteReviewed`. Deadlock is checked: with the bound, every run ends.
- `delivery_and_voice`, delivery: `OneMessage` (a ticket is in Redis at most once, recovery and
  redelivery included), `AtLeastOnce` (refinement of `TicketHandover`), `Served`.
- `delivery_and_voice`, voice: `TranscriptTrue` (while the recording runs, what is committed is
  what was said from its start, and no audio goes before its words are committed; at its end
  every word is there, in order, and nothing else but a guess at the word that the end cuts;
  after a hard cut only that every word is there). The speeches of the run are words said on
  end, words with pauses of which two are longer than the window, and words said up to four
  times in a row; `word_said_again` shows what the second kind leaves out. `FinalHoldsAll`
  (every frame sent before the end), `OneWriter` (two coroutines never write to the socket at
  once), `MicFollowsStatus`, `TextOnce` (across a fallback nothing is lost or repeated),
  `StopAnswered` (stop ends without its timeout).
- `ticket_records`: `FinishedIsComplete` (a run that ended well has all its rows, whatever
  the others did), `ResolvedIsAnswered`, `FailedPutLeavesNothing` (else a retry gets 409
  for good), `AnswerKept` (no other PUT or run removes an agent's answer), `ActiveIsLive`
  (a cancellation never hits a run that is writing), `EndIsVisible`. Deadlock is checked:
  `Quiet` lets the system rest only when no run and no PUT is under way.
- `services`: `DrainComplete` (a drain that did not time out leaves no task in the pool or
  the queue) and `HandOffEnds`; `NoneMissed` (a live panel has every saved message) and
  `BubblesTrue`; `AlertsExact`; `TimelineWhole`; `LearningAccounted` (a process misses a row
  for the causes of 2.8 only, and logs a disagreement once); `OrphansHaveCauses` (an object
  that no row names was left by a deletion or a broken-off run of 2.8, never by the cleanup)
  and `AttachmentsExpire`; `KeysShared`; `ChangesWhole`; `KnowsWho` (a page that may decide has
  the right user and role) and `SessionSettles`. Of the breakers, `FlightOwned` (in threads, a
  set flag belongs to a call that will clear it) and `Recovers` (in threads, once ChromaDB
  answers for good the breaker closes); `StateAccounted` (on the event loop, between two
  methods a half-open breaker has its slot taken and an open one has just seen a failure) and
  `CooldownKept`.

Types are checked by TLC in `ticket_records` only; those of the other proved modules are
theorems (section 4).

Fairness. `TicketPipeline` and `TicketRecords` have none: termination of the graph is a
bound, and nothing in the records must happen. `CircuitBreaker` assumes
that time passes and that a started call goes on (threads and tasks are scheduled, the
clients have timeouts); in `services` only while the breaker is the part that runs.
`TicketDispatcher` assumes that request, pool and shutdown threads
are scheduled; nothing forces a shutdown, a kill, a failing push or a new request.
`TicketQueue` assumes that each worker goes on, and that a stopped one is started again:
the compose file has no restart policy, so this is the operator's `start-all.sh`.
`InputFairness`: the service's tasks run, messages arrive, a recognizer that was stopped
ends; no timeout, no user. `CleanupFairness`: the scheduler comes round every six hours,
requests return, and a run that has uploaded goes on to its next write.
`SessionFairness`: requests return or fail, and events are delivered.
`BubblesTrue`, `AlertsExact` and `KeysShared` are invariants and action properties and need
none, as do the components they speak of. Faults are not fair.

The configurations of delivery, voice, services and the learning jobs say `CHECK_DEADLOCK FALSE`: when all tickets
are handled, the process is killed or the bound on recordings, touches, the clock, selections
or changes is used up, nothing is left to do.

Findings (details with quotes in `PROJECT.json`):

1. A cancelled half-open probe leaves the flag set: that breaker denies all calls for good.
2. A hand-off that read `running = true` before `stop` is discarded by `CallerRunsPolicy`
   without an exception or a log line.
3. Deleting a ticket answers "processing stopped", but cannot reach a run in the worker
   process, nor one that is still reading its attachment.
4. Two agents can both answer a ticket: PUT looks first and inserts later, and
   `tickets.version` is never compared.
5. A user who leaves while the browser asks for the microphone, and then allows it, leaves it
   open and recording behind the unmounted component.
6. A word that is said again after a pause longer than the window is stripped as overlap: the
   committed words have left the window, and the match is by text alone.
7. A ticket whose HR phrase has an apostrophe ("can't be matched") can be answered from a
   precedent unreviewed: the cache check looks for the phrase in a text without apostrophes.
8. A row written after the last runs and before all processes restart is never learned, where
   a comment calls a restart harmless.

## 4. Proofs

TLAPS proves these for every value of the constants under their named assumptions.

**`TicketPipelineProofs`** (`PipelineAssumption`: sets of texts, labels and drafts of the
right type, any `MaxReflectionAttempts` in `Nat`). None of the properties is inductive: each depends on
which path led to a node. `Inv` adds what is true at each node:

- `PathInv` counts nodes: each node has a base position, a reroute and each redraft of
  either kind add four; `CapInv` bounds those counters. Together they give `PathsBounded`.
- `RouteInv`: what routing decided is what the specialists and flags follow.
- `FlagInv`, `HrInv`: the flags escalation reads are set when their cause occurred, and no
  later node clears them. They give `HrTicketsReviewed` and `ReroutesReviewed`. The first
  excepts what the cache answers, as the code does: a text that has lost its HR phrases.
- `FirstInv`, `MissingInv`: the first key is a key, and a missing draft forces the
  dependency failure through every later validation. They give
  `DependencyFailuresReviewed` and, with `ReplyInv`, `ResolvedTicketsHaveReplies`.

**`CircuitBreakerProofs`** (any set of callers, any threshold, window and cooldown allowed
by `BreakerAssumption`). `TypeCorrect` holds for both kinds. `FlagHasAProbe` is for
threads: the flag is set only by a call that has not yet reached its outcome, and
cancellation does not exist there. For the event loop, `LoopInv` joins the type invariant
with: no caller is inside a method (`HereInv`), an open breaker has an age and its
latest outcome is a failure (`AgeInv`, `LastInv`, `FailInv`), and a half-open one has its
flag set (`SlotInv`). It is needed because `CooldownKept` speaks of a step whose guard
reads the age set several calls earlier. `StatesAccounted` and `CooldownPasses` follow.

**`TicketDeliveryProofs`** (`DispatcherAssumption`, `QueueAssumption`: any set of tickets
and of workers, any pool, queue and number of faults). The commands are first described
once, as what they do to a list of distinct messages (`ConsList`, `FrontList`, `TailList`,
`AppendList`, `RemoveList`, `MoveList`): LREM removes one occurrence, which is all of the
message only because there is one. `Inv` is then

- `PendingInv`: the executor's queue holds exactly the tickets whose place says so, each
  once. It carries `DrainsComplete`: at the end of a drain nothing can be queued unseen.
- `PlaceInv`: Redis and the workers know a ticket only after its hand-off was tried. So
  LPUSH never adds a second copy, and with `ListInv` (no ticket twice in Redis) this gives
  `TicketsOnce`.
- `HeldInv`: a message under way is in Redis or was reacted to by another worker, and one
  being removed was reacted to. It makes each step a step of `TicketHandover` or a
  stutter: `DeliversAtLeastOnce`.

**`TicketRecordsProofs`** (`RecordsAssumption`: any runs, agents and number of faults).
Each property depends on steps taken long before, so `Inv` records them:

- `PlanInv`: the outcome by which a run writes is one its graph gave. `RunInv`: the rows a
  run has written when it comes to a stage, which at `done` is `FinishedRunsComplete`.
- `EarlyInv`: a run has no answer row before its graph ended, so a graph's end never turns
  the row of an escalated run into an answer.
- `PutInv`: a PUT's answer row is there while the PUT goes on with it, and gone once it has
  failed: `FailedPutsLeaveNothing`.
- `AnswerInv`: a resolved ticket has the answer of a run, or of a PUT that will not take it
  back. `ResolvedIsAnswered` alone is not inductive: the one answer it speaks of might be
  one that a compensation is about to remove.

`ActiveRunsLive` and `EndsVisible` are inductive with the types; `AnswersKept` is an action
property over the same steps.

The next modules speak of a component by itself: its initial states and its steps, which
`services` and `delivery_and_voice` run beside others that share no variable with it.

**`ViewProofs`**, message thread (`ThreadAssumption`: any panels and messages, any authors).
`NoneMissed` is not inductive: it speaks of a panel whose reload has come back. `Covered`
speaks of every live panel: a row it does not show is in an echo, in the answer to the
reload of the live channel, or that reload has not been read, and then it will read the
row too. A message merged, sent, downgraded or echoed never takes a row out of all of
these. `Saved` and `Pending` say what bubbles, echoes and answers owe to the table and to
the requests under way; with `Covered` they give `NoneMissed` and `BubblesTrue`.

Trace relay (`RelayAssumption`: any events, rows and viewers, any cap of at least one row;
`IdsAssumption`: a row that is folded into another, a correlation id, is never a row that
others are folded into, a ticket id). `StoreSound` says of any rows and their order that an
event is filed once, in a listed row, and in a correlation id's row only under that id; it is
kept by a merge (`MergedStore`) and by an insertion with its eviction and pruning
(`AddedStore`), each taken alone, and then by the handler that does both. A merge brings a
row no event posted under the row's own id, so a viewer of it, who got those at subscription
or since (`RowSeen`), misses none; `SentOnce` keeps what is shown, in the snapshot and in the
broadcasts apart, in whatever order they are sent. Without `IdsAssumption` an event could be
folded away before a viewer subscribes and folded back afterwards; TLC finds that `TimelineWhole`
does not survive it.

**`AccessProofs`**, account changes (`AccountAssumption`: any accounts, any of them
administrators but at least one, any number of requests and failed writes). `Orderly` holds
until two requests meet or one leaves a doubt: requests involve disjoint accounts (`Apart`),
whoever has a request under way is an administrator, and `Progress` says for each stage what
the row, the ban and the log of its target are. A step of one change touches its target alone
(`ElsewhereWhole`), so each of its steps is judged by what it does there. An administrator is
left because the one who changes another is one.

Sign-in state (`SessionAssumption`: any users, any roles). `KnowsWho` speaks of a moment at
which nothing is awaited; `SessionInv` says what is under way before it: all that was asked
and is yet to be announced is about the session that is held (`AsksForSession`), and what is
shown is that session's as soon as it is (`ShowsSession`). This gives `PageKnowsWho`.

The failure tracker (`TrackerAssumption`: any finite set of sources, threshold, window and
room). `AlertsExact` compares the deque and the last alert with every failure counted and
every alert raised, most of which have been dropped. `Tracks`: a deque holds all of its
source's failures but the first few, and those have left the window, as has every alert but
the last; `Forgotten`: of a source that is not tracked nothing is in the window. The deque is
in the order of the clock, so that the head that `Expired` drops is all that has left the
window, and the newest failure of a stale source speaks for the others. From a full map it
follows that as many sources have failed within the window (`AlertsAreExact`).

**`OrchestratorProofs`**, key pool (`PoolAssumption`: any number of keys, calls and
attempts). `InTurn`: of the keys that are not dead, those before the cycle's index have been
handed out once more than the others. `SkippedIs` shows that the pool's loop finds the first
key that is not dead (from the library's theorem that the natural numbers are well-founded),
`LiveKeyChosen` that it misses none, and `TurnTaken` that the turns survive the end of the
cycle. Keys that die only leave the comparison.

Learning jobs (`LearningAssumption`: any tables, any finite set of processes, any interval and
grace). `MissesHaveCauses` speaks of a row that has left the lookback; until then `LeftTo`
says who will go through it: of every process without a disturbance that did not cross the
row, the next run, however late, still looks back far enough (`InReach`), or a run under way
has the row as it is now (`Fetched`). `PendingInReach` says the same of a row that is stamped
and cannot be seen yet: a run that starts meanwhile crosses it, and otherwise the next one
reaches it. For the log, `LinesHaveOwners` finds for each line a process that will not append
another. Together `LearningIsAccounted`.

Attachments (any tickets and processes, any number of uploads and faults). `CrossedExposed`
is what `OrphansHaveCauses` lacks to be inductive: an object whose row is gone or about to go, or
has a cleanup about to clear its path, is among those to which that has been done knowingly,
since the cleanup and the deletion remove the object first and only an upload can bring it
back. It gives `OrphansOnlyExposed`.

**`VoiceProofs`**, recording (`SocketAssumption`: any lengths; a chunk has at least one frame,
without which the decoder could speak before the greeting). `TakeTurns`: until the greeting
nothing is queued, and afterwards the receive loop writes only once the decoder has ended.
It gives `OneWriter` over every sequence of recordings and every disturbance.

`FinalHoldsAll` speaks of a message on its way back, several hand-overs after the frames it
covers. `StreamInv` follows them: frames under way, in the handler's list and in the session
add up to those sent (`Underway`) until what ends the recording is read, which is behind all
of them; from then on the session, or the list and the session, have as many as there will be
(`Ended`, `Complete`), because nobody speaks into that socket any more (`Speaking`). It holds
under every disturbance.

For `TextOnce`, `TextInv` says which engine may still add to the text: while the browser's
recognizer runs no socket can deliver (`Dead`), and when one can, `sessionBaseRef` is all that
the browser recognised (`OneSpeaks`); `start`, `stop` and the failure handler do not overlap
(`TakesItsTurn`). For `MicFollowsStatus`, `MicInv` adds that the graph follows the coroutines
(`GraphFollows`), that a service which is awaited has only greeted (`Greets`), and that it
does not close a socket on which somebody speaks without an error ahead of the close
(`Warns`), so that the hook has given up before the socket goes. `TextShownOnce` assumes no
`"click"` and no `"late"` among the disturbances, `MicrophoneFollows` none at all: TLC shows
that each disturbance excluded does break the property (section 5), the others do not.

Transcribing (`TranscriptAssumption`, `SpeechAssumption`: any speeches of words that follow
one another, of any length and with any pauses; any windows and intervals). `TranscriptTrue`
is not inductive: it says nothing of the tentative words that the next decode may commit, nor
where the window begins. `Following` does, until the hard cap cuts: the committed words are
the first L of the speech, the window begins at the onset of the last three of them, and the
tentative words are those that had ended at the last decode, as they were said, with perhaps
a reading of the one it cut. Then

- the window begins between two words, so a hypothesis is the context and the words after it
  (`WindowStart`, `HypothesisIs`);
- its overlap with the committed words is the context and no more: a longer match would make
  the words repeat themselves as `NoStutter` excludes (`OverlapIs`), so what is left after
  the stripping is new (`FreshWords`);
- what two hypotheses agree on has ended by the second of them: the word that the first one
  cut is whole in the second, since no word is longer than a chunk (`AgreedEnded`). So only whole words are committed
  (`CommittedOn`), and the trim leaves the window on the context again (`TrimIs`);
- `finalize` adds what had ended and at most a guess at the word it cuts (`EndingIs`).

`CommittedAsSaid` is `LiveTranscript`, `TranscribedAsSaid` the whole of `TranscriptTrue`, both
up to the hard cap. Each assumption is needed: without `NoStutter`, without the bound on a
word's length, or with more context than is compared, TLC finds a speech that breaks
`TranscriptTrue`.

Only model-checked: liveness (`Recovers`, `HandOffEnds`, `Served`, `StopAnswered`,
`AttachmentsExpire`, `SessionSettles`), which is out of the prover's reach; and
`EverythingCommitted` once the hard cap has cut. After a cut the window begins anywhere, and
no statement for every speech is true (`word_said_again` is one that fails, and a left edge
that is read differently each time keeps two hypotheses from agreeing on anything); the run
shows it for five.

## 5. Observations

Behaviour the models contain and no property forbids, because nothing in the repository
promises otherwise, or because a property names it as an exception.

Tickets:

- After a reroute, validation and the review look at the first draft of the dict, the
  abandoned specialist's (`validation_node.py:184`, `main.py:364`), so every rerouted ticket
  goes to a human whatever the second draft is worth. The judge may put a draft from before
  the reflection back after validation (`response_judge_node.py:113`).
- Two threads can both be given the half-open probe (`circuit_breaker.py:34`); and since
  `record_success` keeps the window of outcomes, one failure after a recovery may reopen it.
- A text of 5000 to 20000 characters is accepted by ticket-core-service, rejected by
  `TicketRequest` in the worker and removed from Redis (`worker.py:100-106`). A JVM that dies
  between the commit and the LPUSH leaves the ticket in status `received`.
- When only the reply of PUT's status update is lost, the compensation leaves a resolved
  ticket without an answer (`route.ts:233`).

Voice:

- The overlap with the committed words is matched over up to eight words though the window
  holds three: of a word said five times in a row, or of two words said in turn for seven
  words, too many are stripped (`transcriber.py:208`; `config.py:58` says "stripped
  exactly"). `NoStutter` is the condition under which none is.
- A word that takes longer than the audio a decode waits for may be cut by two decodes on
  end, and is committed as they read it if they read it alike. A setting of more than eight
  context words would commit the words over eight twice.
- A forced cut inside a committed word commits it twice (`transcriber.py:254`). The hard cap
  cuts after the decode that it should have bounded (`transcriber.py:276`).
- A second click while an engine starts, a connection lost then, a late recognizer and a
  browser that cannot restart each break `MicFollowsStatus` or `TextOnce`.

Thread, tracer, keys, jobs:

- A reload that succeeds after the live one failed clears the error although messages may be
  missing. All failures behind the gateway share one remote address in the trackers of the
  services behind it.
- An event posted under the correlation id after the merge opens a second row, and a viewer
  that is connected before a merge does not get the merged events.
- A retry may get the same key again when other callers move the cycle on in between.
- Two processes may log the same disagreement. A row that is stamped just before a run and
  written after it is older than the next run's cutoff, and a run that starts later than the
  one before leaves a gap between their lookbacks: with two processes the other one's cycle
  usually covers it. An exemplar stays when the customer lowers the rating.
- Objects are orphaned by the console's DELETE (`route.ts:147-153`), by a forced DELETE whose
  removal failed (`main.py:477-479`), which the comment above it (`main.py:468-471`) foresees,
  and by a run that fails or dies between upload and path (`main.py:211-216`); nothing else
  looks for them.

Accounts:

- Two administrators may demote each other at the same time and leave none. The undo of one
  request writes what it had read over another's change, so a row may be active while the
  account is banned.
- After a quick change of user the role answer of the first may land last.

## 6. What is left out, and why

- Texts, prompts, retrieval, redaction patterns, scoring and OCR: their results are
  inputs, all of whose classes are enumerated.
- Trace payloads, MDC, metrics and logging, except that a log line counts as a trace in
  `NeverSilentlyDropped`.
- `stop` interrupted while it waits (`InterruptedException`): nothing interrupts Spring's
  shutdown thread.
- Precedents (`rag_tool.add_precedent`, `embed_resolved_ticket`), the cached ticket lists
  (Redis behind GET, 30 s of `sessionStorage` in the console), evaluations of drafts.
- Tasks left in an executor's queue when the process is killed, and Redis losing its
  lists: no code here reacts to either.
- The one-shot transcription endpoints and the Whisper model; `detect_kb_gaps`, which no
  process schedules; the pages, reports and charts, which keep no state of their own.
- `clario-ml-sidecar` and `clario-app` (a near-copy of the orchestrator and an older
  monolith), `ml_finetuning` with its notebooks, `legacy` and the test reports. They make up
  most of the repository's lines, and a model of a copy would say nothing new.

## 7. Plan

Done: 1. `Routing`, `TicketPipeline` and proofs. 2. `CircuitBreaker` and proofs.
3. `TicketDispatcher`, `TicketQueue`, `TicketHandover`, `TicketDelivery` and proofs.
4. `TicketRecords` and proofs. 5. The voice modules. 6. The modules of 2.6 to 2.9.
7. Proofs about `TicketThread`, `AccountChanges`, `GeminiPool`, `VoiceInput`, `LearningJobs`,
`AttachmentCleanup`, `AuthSession`, `FailedAuthTracker`, `TraceRelay` and `StreamingTranscript`.

Next:

8. The precedent a resolved run stores (its gate differs from the graph's validation), as a
   further row of `TicketRecords`.
