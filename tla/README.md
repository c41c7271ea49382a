# claude-code-router-rust: a TLA+ model

Claude Code Router (CCR) is a local HTTP server between AI coding clients and the
providers of models, with a desktop UI, a tray icon and a command line that
configure and control it. These modules specify its state and its protocols, check
them with TLC on small instances, and prove the most important theorems for all
instances with TLAPS.

Run `tlc -config X.cfg MC<module>.tla` for a check and `tlapm <name>Proofs.tla`
for the proofs (section 6). `PROJECT.json` lists the components, the runs, the correspondence
of every definition to the source lines it models, the hazards, the findings, and
for each checked property a *mutant*: a changed definition, kept in the module under
the comment `Mutant:`, with which TLC finds the property violated.

## 1. Inventory

| Component | State it keeps | Operations | Interacts with |
|---|---|---|---|
| **Route Pool** (`ccr-server/src/runtime/route_pool.rs`, `route_pool_config.rs`) | per route: failure count, end of the ban, last error; a bounded event history; both behind mutexes of their own | the fail-over loop of a request; record success or failure; clear a ban; reset a route | the configuration each request started with; metrics; the upstreams; the admin API |
| **Configuration store** (`ccr-config`) | `config.json`, a directory of backups, the copy the server serves from (`RwLock`) | load, save (backup, clean up, merge, temporary file, rename), reload | written by the tabs, the tray and the server, read by all programs; no lock between them |
| **Server** (`ccr-server/src/main.rs`, `handlers`) | holds the former two | messages, responses, count_tokens, admin API | everything |
| **Bodies** (`protocol/body_mapping.rs`, `ccr-transformer`, `provider_kind.rs`) | none | from the request of a client to that of a provider, and which protocol the answer has | the server |
| **Streams** (`ccr-sse`, `responses_stream.rs`, `main.rs`) | a parse buffer, the block being buffered, the kinds of the blocks begun | feed, intercept, translate, continue | the body of each upstream answer, the agent |
| **Image agent** (`ccr-agent`) | a cache of pictures | detect, modify the request, execute its tool | bodies and streams |
| **Client activation** (`ccr-app-core/src/client_config`) | two files of each of Claude Code and Codex, their backups, "it was missing" markers | activate, deactivate, status | called by tabs, tray and CLI; the user and the clients write the same files |
| **Official providers** (`official_provider.rs`) | none of its own | read a login from the client's file or its backup | the files of the activation, which another process moves |
| **Additive clients** (OpenCode, OpenClaw, Hermes) | one file each, without backup | add, remove and look up the CCR provider | as above; the pool's first route |
| **Server lifecycle** (`ccr-app-core/src/status.rs`, `ccr-cli`, tray) | `.ccr.pid`, the process table, the port | start, stop, restart, status | three programs, and processes that outlive them |
| **Runtime metrics** (`ccr-app-core/src/metrics.rs`, `runtime/metrics.rs`) | two bounded windows in memory, two JSONL files with a size limit | record, load, compact in a background thread, summaries | every request; two servers while one drains |
| **Status page** (`ccr-ui/src/status_tab.rs`, `app.rs`) | the last snapshots, a "busy" flag per kind of task, a channel of results | refresh, operations in background threads | lifecycle, activation, admin API |
| **Settings and route editing** (`settings.rs`, config, router and settings tabs, tray, `ccr-preset`) | a copy of the configuration per tab, a selection | edit, save, reload, install a profile, switch the provider | configuration store |
| **Endpoint tests** (`endpoint.rs`) | none in use | build a test request, classify the answer | the Config tab, the providers |
| **Log** (`logging.rs`, `logs_tab.rs`) | a text file, a window of it | append, query, trim | all programs |
| **Token counting** (`ccr-router`) | a cache of counts | count | count_tokens |
| **Plugins** (`ccr-plugin`) | a registry | register | nothing in the server |

What is hard in it:

* **Concurrency.** Requests interleave at every `await` and between the lock
  sections of the pool; reloads change the configuration under them. Three programs
  write the same files and signal the same processes without any lock.
* **Failure and crash.** Each file operation is a chain of steps without undo; any
  step can fail or be the last of its process.
* **Time.** Bans are compared with a clock that is read before the lock is taken;
  backups are named by the second.
* **Order.** Late successes, events recorded after the changes they report, results
  of background tasks that overtake each other.
* **Protocols.** A conversation crosses three protocols and twenty transformers, and
  its answer arrives in chunks cut anywhere; tool calls and their results must stay
  paired through all of it.
* **Copies.** Every tab of the UI saves a whole configuration that it read some
  time ago; lists are edited by position and sorted by number.

What makes each part correct: a route that keeps failing is banned, for a bounded
time, and each change of it is told; fail-over follows the priorities, ends, and
accounts for each attempt; the configuration file is always whole and a save can
be undone; a deactivation puts back what the activation found; a server that serves is
never believed stopped; what a client says reaches the provider, and what comes back
is well-formed in the client's protocol; what the UI shows is what is. Section 3
states these as formulas.

## 2. Plan

Done:

1. `RoutePool`, the core, with its abstract specification `CircuitBreaker`, its
   properties and its proofs.
2. `ConfigStore`, `ClientActivation`, `ServerLifecycle`, `RuntimeMetrics`, and the
   proofs about the first three.
3. `StatusPage`: threads whose answers overtake each other.
4. `AdditiveClients`; `OfficialCredential`, composed with `ClientActivation`, and its proof.
5. `Providers`, `RequestMapping`, `EndpointTest` and `Gateway`: conversations; `Streams`:
   answers; `Exchange`, which composes the last two.
6. `DesktopTabs`: copies of the configuration, positions and priorities.
7. Proofs about the fail-over and the history of the Route Pool, `AdditiveClients`,
   `StatusPage`, `RuntimeMetrics`, `DesktopTabs`, lone saves of `ConfigStore`, and in
   `Exchange` the requests, what they have of the conversation, the SSE parser, the
   translated and the intercepted stream.

Next, in this order:

8. A second actor in `ClientActivation`: the tray and the command line activating the
   same client at once.
9. The look-up of "provider,model" strings; the token cache; the log's trim.

Each module takes its sizes as CONSTANTS with named assumptions and has one action
per step of the code; no module uses RECURSIVE operators.

## 3. Modules

### RoutePool, RoutePoolProperties, CircuitBreaker

A slot of `req` is one run of `send_with_route_pool`. Its `pc` names the point
between two atomic steps: `filter` (the loop that drops banned candidates, one lock
section per candidate), `skipped` (the event of one that was dropped), `try` (the
head of the attempt loop), `sending` (the upstream has the request), `failing`
(a failure has its time stamp and waits for the lock), `reportFailed`,
`reportBanned`, `reportRecovered` (the breaker has been changed, its event has
yet to be recorded), `deliver` (the body is on its way to the client),
`reportExhausted`. `routeState` is the map of breakers, `events` the history, `admin`
the operator's request between its two lock sections, `config` what a reload
installs; each request keeps the configuration it started with (`cfg`). `Cancel`
is the client closing its connection, at any await, `Restart` a new process.

* `TypeOK` also bounds the history by its limit.
* `BreakerConsistent`: the fields of a breaker tell one story, although failures
  are stamped before the lock.
* `TripsAtThreshold`: a breaker at the threshold of every configuration holds a ban,
  running or expired, unless the operator lifted it.
* `ChangesAreReported`: every failure, ban and recovery is told exactly once, a failure
  before its ban, however few events the history has room for. The history variable
  `unreported` counts the changes that no event has told yet.
* `FailoverOrder`, `AttemptsAccounted`, `LastTriedIsBlamed`: the loop takes the
  candidates in order and none twice, records each attempt once, and blames the
  last one tried.
* `EveryRequestEnds`: liveness.
* `ImplementsBreaker`: with `failures` and `bannedUntil` of `routeState`, the pool
  implements `CircuitBreaker`, which says when a breaker may open and close.

### ConfigStore

A task is a save of the UI, or a request of the server that saves and reloads, or only
reloads. Its `pc` follows `save_config` (`backup`, `copy`, `cleanup`, `merge`, `write`,
`rename`) and `reload` (`load`, `apply`). `disk` is `config.json`; `backups` the
backup files from the oldest to the youngest, named by the second of `clock`; `mem`
the server's copy. Configurations are abstracted to an identity, one optional section
and whether `validate_config` accepts them; the file also has unknown keys.

* `WholeFileOnDisk`: no reader ever finds `config.json` torn or gone.
* `SoloSaveLosesNothing`: a save nothing overlaps finds what it replaces among the
  backups that the clean-up kept, and keeps unknown keys.
* `ServedWasPublished`: what the server serves has been in the file.

### ClientActivation

One client at a time, Claude Code or Codex, which differ in the two respects that
`Claude` and `Codex` name. `op` is the operation under way, `live` the client's files,
`backup` and `marker` what an activation left to restore them from. Contents are the
user's (that parse, or are `Blank`, or are `Bad`), `Ours`, or `Torn`. Blank contents are
where the two uses of a file differ: a new file is built from them (`Builds`), but as
JSON they do not parse (`Parses`), so that a backup of them is refused. `Stop` ends an operation at any step:
an I/O error or the end of the process. The history variable `found` is what
the activation found; `leftover` names the generated files that a deactivation could not
delete and said nothing of. The paths are assumed not to be reconfigured while a client
is activated, and one operation runs at a time.

* `OriginalKept`: while CCR's file is in place, what was there is in the backup, or the
  marker says that nothing was.
* `RestoresWhatWasFound`: a deactivation writes nothing else.

### OfficialCredential

`ClientActivation` with a second actor, `reader`: the server or the status page that
looks for the client's login. It reads the client's own file and then, if that did
not help, the backup: two steps, between which any steps of an activation or a
deactivation may come. `secret` is what it found. A login is a user's content
(`Keyed`); the `any` that CCR writes in its place is none. `CredNext` is a step of the
activation or of the reader; their composition needs no change of either.

* `CredentialIsTheUsers`: what is read is a login of the user's, the one in the file or
  the one the activation found, and while the generated file is in place the latter is
  found, wherever an operation is or stopped.

### AdditiveClients

`file` is the whole document of one of the three clients: whether it parses, the table or
list of providers (`Absent`, `Wrong`, or entries), and the default model. Adding and
removing are read, change, write to a temporary file, rename, as `op`; the three clients
differ in what they refuse and in who chooses the default. The user edits the file at any
moment; history variables: `own` is what he put there (`Own`: his providers, and
whether the default is one he chose), `raced` that somebody wrote during an operation,
`byHand` that he took CCR's provider out himself.

* `OwnKept`: his providers and his default model stay, whoever wrote in between; lost is
  only what he writes while an operation is under way.
* `DefaultIsServed`: the default refers to CCR only while CCR is among the providers,
  unless he took it out by hand.
* `RemovedForGood`: after a removal nothing leads to CCR.

### ServerLifecycle

Controllers (threads of the UI, runs of the CLI) take the steps of `start_server`,
`stop_server` and the restarts: look at the pid file and the process table, spawn,
write the file; signal, unlink. Processes bind the port or fail to, serve,
drain after SIGTERM, end; those of the UI become zombies until the UI ends; ids are
used again. `disturbed` records that two operations overlapped, or one was cut
short between spawning and writing.

* `StoppedIsTrue`: without such a disturbance, a server that serves is never shown as
  stopped or stale. The other direction is not true of the code (a zombie is shown as
  running), and neither is either of overlapping operations.

### RuntimeMetrics

One of the two pairs of window and file (attempts, requests: the code is the same).
`file` is the sequence of what is written: records, line feeds, parts of records (`Torn`, or
`Broken` inside a character: the file is read as one text, so that a broken character
anywhere makes every line unreadable, `IsText`). Each
process has the step of the append under the mutex of its store (`append`: `line`,
`feed`, `check`), the step of who rewrites the file (`keeper`: `load` for a server that
starts, `read` for a retention thread, then `truncate` and `fill`), the number of
retention threads that wait for the mutex, and the window (`memory`). Two processes may
be up, as when one drains; no mutex is between them. The history variables: `log` is
what was written, `cuts` counts lines that were not finished, `raced` records that
two processes were at the file at once, or that a rewrite was cut, `ignored` that an
error hid the size of the file, `sole` that a server was alone.

* `KeepsTheRecent`: the readable lines are the latest records, and those that fit.
* `CutsAreLocal`: an unfinished line costs the file at most two records. It speaks of what
  is in the file (`Whole`): after a cut inside a character nothing is read of it and it is
  never compacted again, but it is not taken for empty and overwritten either.
* `WindowIsRecent`: a restart shows nothing that the window did not.
* `OversizeIsNoticed`: a file that is too large has a retention thread coming.

### StatusPage

`tasks` are the threads under way, each before its operation (`act`), before its look at
the world (`look`) or before its answer (`send`); `answers` is the channel, which only a
`Frame` of the page that is drawn empties. `page` has the busy flags, the last view, the
fetched routes and what `Frame` fetches anew every two seconds (`Tick`). `world` is
what there is to see: the session of the server that runs, the setting of the pool, the
state of each client; others change it at any moment. A session is a number, so that
what is shown of an earlier server can be told from what belongs to this one. `calm`
records that the last look was alone and nobody interfered. A frame takes the answers
of the channel one after the other: `Taken` is the recursive function that does.

* `OneOfEach`: a button is disabled exactly as long as its task is under way, as a
  thread or as an answer that waits in the channel (`UnderWay`), and it has one.
* `CalmIsTrue`: after a calm look the page shows the world.
* `NothingOfTheStopped`: with a stopped server, nothing of its routes and bans is kept.
* `ButtonsComeBack`, `RoutesCatchUp`: liveness.

### Providers, RequestMapping, EndpointTest, Gateway

`Providers` has the kind of a provider (given or inferred from its transformers, name and
URL) and every transformer as a function on the fields of a request. `RequestMapping`
is `build_upstream_request`: contents, messages, calls and their results, tools, system
prompts, limits and models between the protocols of Claude, of Responses and of
chat completions, with every conversion that refuses. `EndpointTest` builds the test
request of the Config tab and classifies its answer. `Gateway` is the only one with
state: a client says something (`messages`, the whole conversation), the server makes the
request (`sent`), the provider answers and the client appends that. Words, pictures and
calls are numbered in the order in which they were said (`told`), which is all that the
properties need of texts. A text is a sequence of words, and a word has a kind: it was
said, belongs to a system prompt or to the result of a call, or stands for a picture. The
properties compare the parts of the messages that are sent (`All`: message, block, place and
number) with what was told: the numbers are all there, and they ascend.

* `ContentArrives`: every word once and in order, every picture or its placeholder.
* `CallsArePaired`: what the provider sees in the form of its own protocol (`FormOf`). Where
  the code converts: its calls, all of them and in order, and the answers after them, once
  and in order; a chat provider gets the first answer of each message (`told.firsts`), the
  other providers all. Where it does not: no call and no answer.
* `StreamsAreUnderstood`, `StreamsAsAsked`: a stream goes to a client that asked for one,
  in its own protocol.
* `TestedAsServed`: a request for a provider whose test succeeds is in the protocol and has
  the authorization that were tested; it is refused if it asks for a stream that the
  provider's protocol cannot give the client, and for nothing else. The fields of the body are
  compared for providers without transformers, because the test applies none.

### Streams, Exchange

`script` is what the provider writes: events of up to two blocks, an error, an end or
a break anywhere. `wire` are the bytes under way; `Chunk` takes some of them, as many as it likes,
into `buf` and parses what is complete (`heard`). `handling` says what becomes of the
events: for a Claude client whose request the agent has changed, calls are buffered,
executed and answered by a continuation (`intercept`); for a Responses client of another
provider, events are translated (`translate`). `Exchange` composes `Gateway` and
`Streams`: it decides the handling from the request that was sent (`Handling`) and
begins the stream in the state of the conversation.

* `ChunksDontMatter`: the parse does not depend on how the text was cut.
* `ItemsAreClosed`: the translated stream is well-formed.
* `CallsAreTaken`: interception takes calls out whole, and nothing else.

### DesktopTabs

`copy` holds the configuration of each of the three tabs; `file` the one on disk, in one
step (how it is written is the subject of `ConfigStore`). An action is a frame with one
click. A route pool has two limits and a list of candidates with numbers; the Router tab
sorts it by number in each frame (`ByPriority`), the server by number and name (`Served`),
and the server takes the white space off each route and passes over what is blank
(`InUse`). The tab's selection is a position. The fields of the limits bring what they
show into their range in each frame (`InRange`), whether it was edited or not. Presets and the tray load, change and save at once. History:
`fresh` says whose copy is from the file as it is, `edited` whose was changed, `picked`
which route the user selected, `arranged` that a pool has been put in order by hand.

* `SelectionStays`: the position keeps pointing to the route that was selected, except
  after an addition to a pool whose numbers have gaps, where it does not.
* `ArrangedOrderIsServed`: the order the user gave a pool is the order of the attempts,
  blank routes left out. It does not say that the tray's switch keeps the order of the
  other routes: the first one goes to where the chosen one was.
* `SavesAreFaithful`: a tab with a fresh copy changes only what was edited in it, but the
  Router tab may bring the limits into range. Tabs with old copies are left out.

## 4. Runs

| Run | Question | Bounds |
|---|---|---|
| `route_pool_races` | the breaker under races, and the refinement | 1 route, 2 requests, 3 configurations (thresholds and ban times 1 and 2, pool off), counter to 2, history of 2, clock to 2 |
| `route_pool_failover` | fail-over, and that every request ends | 2 routes, 2 streaming requests, configurations of two routes, a standing clock, weak fairness |
| `config_store` | saves, crashes, edits, reloads | a tab and a server request, 1 backup kept, 2 seconds, 2 replacements of the file |
| `client_activation` | failures at any step; the login | both clients, 2 contents of which one has a login, 3 edits |
| `additive_clients` | the user's share of a shared file | the three clients, 2 ports, 2 models |
| `server_lifecycle` | the pid file is right | 2 UI threads, 1 CLI, 3 process ids |
| `runtime_metrics` | the file and the window keep the recent records | 2 processes, 4 records of which the third is larger than the file may be, a file of 2, a window of 2, 1 waiting thread |
| `status_page` | late answers, buttons, and what is shown | 1 client of each sort, 2 sessions of the server, 2 presses or changes by others, 3 threads when a button is pressed |
| `exchange` | conversations and their streams | 16 providers, 3 and 11 ways to ask, conversations of 5 messages, answers of 2 blocks, chunks of 1 to 3 bytes, wide characters in the third and sixth event |
| `desktop_tabs` | copies, positions, priorities | 2 providers, one pool or none: tied numbers larger than it, white space, limits out of range; 2 edits and 2 writes of the file |

The breaker of a route shares no state with those of other routes, so one route and two
requests show its races; threshold 2 is the smallest that counts. The fail-over
properties relate several candidates of one request, and a second request to
disturb it; there the clock stands, because to a request a ban that has run out
looks like one that the operator has lifted, which that run has, and the races run has
the clock. A backup limit of 1 makes every save delete one. Three process ids are one
serving, one starting and one that was forgotten. With four records the file overflows
by small records, by one that is too large by itself, and by one after that. Two moves
and the two tasks with which the page begins give three answers that can arrive in any
order. Five messages are a question, a call, its answer, and one more exchange after it,
so that a conversion is applied to what an earlier one produced the answer to. Three
bytes are enough to cut an event, its separator and a wide character, and to take the end
of one event with the start of the next. Two edits and two writes suffice for an edit of a
copy that is stale by then.

`exchange` and `config_store` say `CHECK_DEADLOCK FALSE`: conversations and saves end.

Two runs (`expect: violation`) show where the code does something else than its
documents say; the findings in `PROJECT.json` quote both sides:

* `config_reload`: of two overlapping updates the older may be installed last.
* `client_reversible`: an activation or deactivation that stops between its two
  files leaves a client that can be neither activated nor deactivated.

**Fairness.** `EveryRequestEnds` needs weak fairness of the steps of each
request (`RequestStep`), which the async runtime gives to a task whose futures complete.
That an upstream answer, or its failure, arrives eventually is part of it: it is
justified by the timeout of 300 seconds of the HTTP client. The liveness of
`StatusPage` needs weak fairness of the thread that began first (each of its calls has
a timeout, so that every thread gets to be the first), of `Frame` (the page asks to be
drawn again while it waits) and of `Tick` (time passes). Both properties are conditional:
they say what happens if the page is shown again and again. Nothing is assumed of
users, operators, other programs, reloads or clients.

## 5. What the models showed

Besides the two findings, writing the models brought out behaviour of the code that the
models have as it is. Properties are stated so that they hold with it, and say which
case they leave out.

*Route pool and metrics.* Bans are looked at once, before the first attempt: a request
can be sent to a route that has been banned meanwhile. A failure to build the request,
caused by what the client sent, counts against every route. Attempts whose body yields
no chunk are never recorded. Retention truncates the file before it writes: a crash in
between loses the history. A write that is cut inside a character makes the whole metrics
file unreadable for good; the documents promise that retention drops bad lines
(`provider-runtime-metrics.md:350`), but it never gets to them, and the file grows.

*Configuration.* Of two overlapping saves one may replace a file that nobody backed
up. An optional section that a user removed is merged back from the file, like an unknown
key. A file that cannot be read is shown as the defaults and replaced by them on the
next save. A tab with an old copy undoes what others have written. A preset replaces the
whole pool. The tray's switch leaves a disabled candidate disabled. The Router tab and
the server order candidates of equal priority differently. The Router tab shows a blank
route, which is never tried, and its next save cuts limits that are out of the range of
its fields: a ban of a week becomes one of a day. After adding to a pool whose
numbers have gaps the selection is another route. An inferred kind stays when the URL is
edited.

*Lifecycle and clients.* A dead server that the UI started is a zombie and still shown
as running; the process id in the file may belong to another program by the time of
the signal. The reader of a login finds nothing if a deactivation runs between its
two looks, and after a backup was left behind it may find one that the user has removed.

*Bodies.* Pictures never reach a provider from Claude Code, and the analysis request has
only the text of the task. The agent intercepts calls of every tool; those that are not
its own get "Tool execution failed". A system prompt that is a string gets no addition of
the agent's. Chat providers get no tools, no `instructions`, only the first system block,
and only the first tool result of a message. Calls and results of Codex stay items of
Responses on their way to the other two protocols, and those of Claude Code stay blocks on
their way to a Responses provider; nothing refuses such a request, although
`plan-009-tool-call-tool-result-cross-protocol-mapping.md:66-67` demands a conversion or an
error. `forcereasoning` does nothing to a Claude
body. `vertex-claude` drops `stream`. Answers that are no streams are passed on in the
provider's protocol. The names of transformers are compared in lower case to infer a
kind, but not by the registry that applies them. `transform_response` is never called.

*Streams.* A character of several bytes that a chunk cuts is damaged in a translated
stream. Separators of `\r\n\r\n` are not found. The events of a continuation are
appended after those of the first answer, and the continuation's request omits what the
assistant said beside its calls.

*Endpoint tests.* A chat provider is tested without a stream and shown as available, and
every streamed request to it is refused, like those of Claude Code to a Responses or
`BasicPost` provider. The test applies no transformers. Two providers with the same name and URL share a result. An answer
that mentions `"type"` is taken for a stream. `EndpointTestState` is used by nothing.

## 6. Proofs

`RoutePoolProofs` proves, for any routes, number of requests, configurations and
limits that satisfy `ConstantsAssumption` and `BoundsAssumption`:

* `TypeCorrect`: `Spec => []TypeOK`
* `BreakersConsistent`: `Spec => []BreakerConsistent`
* `BreakersTrip`: `Spec => []TripsAtThreshold`

None of the three is inductive alone: a failure is applied with a time stamp and a
configuration that the request took earlier. The inductive invariant `IInv` adds
`RequestInv`: the stamp of a request is not in the future, and the request is
at a route it may touch. The lemmas about `AfterFailure`, `AfterSuccess`
and `AfterClear` say what each change of a breaker preserves; one step per action
shows that nothing else touches `routeState`.

The same module proves `PoolImplementsBreaker`: `Spec => Breaker!Spec`. Each step that
changes a breaker is mapped to `Failure`, `Close`, `LiftBan` or `Restart` of that route,
and every other step stutters; `IInv` supplies the types.

And it proves what a request does with its candidates, and what the
history says of it:

* `FailoverIsOrdered`: `Spec => []FailoverOrder`
* `AttemptsAreAccounted`: `Spec => []AttemptsAccounted`
* `TheLastTriedIsBlamed`: `Spec => []LastTriedIsBlamed`
* `EveryChangeIsReported`: `Spec => []ChangesAreReported`

`FailoverInv` says of each request alone that the routes it has tried, those it still
may try and those it has yet to look at follow each other as in its configuration
(`InOrder`), and, at each point of the loop, how many attempts are recorded and whose
error is remembered (`Accounts`); nothing that others do touches it. `ChangesAreReported` counts requests: a step
moves one of them into or out of the `Reporters` of one change of one route, and the
lemmas about their number say that `unreported` follows, whatever others do between the
change of the breaker and the record of its event.

`ServerProofs` proves, of `ConfigStore`, `OnlyThePublishedIsServed`: `Spec => []ServedWasPublished`
and `FileStaysWhole`: `Spec => WholeFileOnDisk`, for any tasks, configurations, edits
and bounds that satisfy `ConfigStoreAssumption`. What is inductive is what a task holds
between its steps: a save that is about to rename has merged a whole file (`MergedType`),
and a reload that is about to install its settings has read them from a file that was
published, so it does not matter what happened to the file since (`Sound`).

It also proves `SoloSavesLoseNothing`: `Spec => SoloSaveLosesNothing`, for any
number of backups kept. `Solo` says, of a save that nobody has overlapped so far, where the contents
of the file are at each of its steps: in its hands (`copy`), in the youngest backup
(`cleanup`; `WrittenIsLast`), among those that the clean-up kept (`merge`, `write`, `rename`);
and that nobody else is at a step that could touch them. Backups of the same second have one
name, so a save may replace the backup of another; the lemmas about `Written` and the
clean-up show that it is never the youngest that goes, because at least one is kept.

Of `ServerLifecycle` it proves `TypeCorrect` and `StoppedIsAlwaysTrue`:
`LifecycleSpec => []StoppedIsTrue`, for any controllers and process ids
(`ServerLifecycleAssumption`). The invariant `Track` says where the live servers are
while nothing is disturbed: between operations the file names the only one, and during
an operation the only one is the child of a controller about to write the file, so that
a start, a stop or a restart never leaves a second one behind.

`ClientActivationProofs` proves `TypeCorrect`, `OriginalAlwaysKept`:
`Spec => []OriginalKept` and `OnlyTheFoundIsRestored`: `Spec => RestoresWhatWasFound`,
for any contents and any number of edits (`ClientActivationAssumption`).
`OriginalKept` alone says nothing of the steps before a file is rewritten: `OpInv`
adds that an operation rewrites files only when all of them are backed up or marked,
and begins or removes a backup only of a file that is not the generated one;
`BackupInv` adds that a complete backup is what was found.

The same module proves `CredentialIsAlwaysTheUsers`:
`CredSpec => CredentialIsTheUsers`, for any contents and any set of logins among them
(`OfficialCredentialAssumption`). The reader changes nothing of the activation, so
`IInv` of the latter is an invariant of the composition (`CredInvariant`): by `BackupInv`
a backup that parses is what was found, and by `OriginalKept` there is one to be read
while the generated file is in place.

`AdditiveClientsProofs` proves `OwnIsKept`: `Spec => []OwnKept`, `TheDefaultIsServed`:
`Spec => []DefaultIsServed` and `RemovalIsForGood`: `Spec => RemovedForGood`, for any
ports and models. `FileInv` is what the properties say of the file; `OpInv` says the same of
the document that an operation is about to install, as long as nobody wrote the file
since it was read.

`DesktopProofs` proves, of the status page, `ButtonsAreAccounted`: `Spec => []OneOfEach`,
`TheCalmPageIsTrue`: `Spec => []CalmIsTrue` and `NothingIsKept`:
`Spec => []NothingOfTheStopped`, for any clients and any number of threads, answers and
restarts of the server. `FlagInv` relates each busy flag to its one task or answer;
`CalmInv` says that all that looks have brought back is the world as it is: in a
thread, in the channel, or, if nothing is under way, on the page. What a frame does with all the
answers is shown by induction over their number (`InductionUpTo`): the induction
theorems of the library take an operator, and here a set of numbers takes its place;
its least missing number, which exists because `<` is well-founded, gives the
contradiction.

Of the tabs it proves, for configurations, pools, presets and sets of names of any size
(`DesktopTabsAssumption`: a file read from elsewhere is well-formed, and was not arranged
with the buttons):

* `TheSelectionStays`: `TabsSpec => []SelectionStays`
* `TheArrangedOrderIsServed`: `TabsSpec => []ArrangedOrderIsServed`
* `TheSavesAreFaithful`: `TabsSpec => SavesAreFaithful`

They need to know what sorting does. `Before` is a strict total order of the
candidates (`RouteOrder`, `CandidateOrder`), and the places that a strict total order gives are a
bijection (`Ranking`), so `Arranged` is the list in that order and nothing else is
(`Sorting`, `SameOrder`). From this follows that sorting what is in order changes nothing
(`SortedStays`), that names decide nothing where all numbers differ (`NamesDoNotMatter`),
and that to sort by number first, as each frame of the Router tab does to its copy,
does not change the order the server finds (`SortingFirst`). `DataInv` is the invariant of the file and
the copies: what was arranged is `Tidy`, it has a number of its own for each candidate and none
above the length, which is why a candidate appended with the next number comes last; and a
fresh copy means the same as the file (`Alike`) but for the section that was edited.
`LimitsInv` says of the limits that a fresh copy has those of the file, or, if it is the
Router tab's, those brought into range; it is kept because doing this twice changes
nothing more (`Ranges`, `FramedLimits`). `SelectionInv`
adds to `SelectionStays` that what is selected on the left is not in the pool, so that a
frame that finds it there has forgotten it. That an installed preset is well-formed
is an induction over its providers (`InstalledType`).

`RuntimeMetricsProofs` proves `TypeCorrect`, `TheRecentAreKept`:
`Spec => []KeepsTheRecent`, `OversizeIsAlwaysNoticed`: `Spec => []OversizeIsNoticed` and
`WindowIsAlwaysRecent`: `Spec => []WindowIsRecent`, for any number of processes, records
and threads and any sizes. The invariant has a part for each thing that holds between two
steps: who is at which step and what it carries (`StepsInv`); who rewrites
the file has read all that it is about to truncate, and only one does (`RewriteInv`);
the next line begins at the beginning of a line (`EndInv`); what is in the file, or is
carried while it is empty, is an end of the log that leaves out nothing that fits
(`RecentInv`); somebody is at a file that is too large (`BusyInv`); the end of the
file is the end of the window, with the record that is under way (`WindowInv`). The
lemmas about `Size`, `Whole`, `Kept` and `Lines` say what an appended token and a rewrite
do to them, by the same induction over the length of a file.

That a file in which no line was cut is text is an invariant of its own (`TextInv`), so that
the first and the last speak of what is read and not only of what is there.

`CutsStayLocal`: `Spec => []CutsAreLocal` counts the records that are lost to lines that
were cut. The invariant `CutInv` tells apart the lines that stay whatever is appended
(`Safe`) and the last one, which has no end yet: a cut pays for two records, the one of
the line that was cut and the one that will be appended to it (`Open`). What a rewrite drops
does not count any more, because what is left is in the order of the log (`Ordered`) and
no record is written twice (`LogInv`).

`ExchangeProofs` proves, for any providers with any transformers, any ways to ask and
conversations of any length (`GatewayAssumption`: the transformers of a provider are a
sequence of names, what a client asks for besides its messages has no messages in it, and
what Claude Code sends as system prompt is a text, blocks of text, or nothing the server
reads):

* `StreamsUnderstood`: `ExchangeSpec => []StreamsAreUnderstood`
* `StreamsComeAsAsked`: `ExchangeSpec => []StreamsAsAsked`
* `TestedIsServed`: `ExchangeSpec => []TestedAsServed`
* `ChunksAreParsed`: `ExchangeSpec => []ChunksDontMatter`, for answers and chunks of any length
* `ItemsAreDone`: `ExchangeSpec => []ItemsAreClosed`, for answers with any number of blocks
* `CallsAreIntercepted`: `ExchangeSpec => []CallsAreTaken`, for answers with any number of calls

The second follows a field through a whole request: each transformer but `vertex-claude`
leaves it as it is (`TransformerKeeps`), so does a chain of any length (`ChainKeeps`, by
induction along the function with which `FoldLeft` is defined, `ChainSteps`), and so does
each of the conversions. The third needs that no conversion refuses words. `ConversationInv`
says what the messages of a client are made of: every content is a text or a list of
blocks, and a block with a text is one of the three types of text; it is inductive
because a turn appends only such messages. With it, what is prepared of a conversation in
words holds nothing refused, in each of the three protocols
(`ClaudePreparedIsFine`, `CodexPreparedIsFine`), it has the fields that the test of the provider
has (`PreparedFields`, `TestedFields`), and of all reasons to refuse a request one is left, a
stream that the provider's protocol cannot give.

The fourth needs to know where the events are. `ParserInv` says it: what is in the buffer
and what is on the wire together are the events that have not been heard, one after the
other (`Layout`), byte by byte as they were sent but for characters that have been cut, and
the first of them is not complete in the buffer (`Pending`). The provider's next event goes
to the end (`Appended`); a chunk, decoded, moves the border between buffer and wire, and what
it damages is no line feed (`Decoded`, `FeedsAre`); so the ends in the buffer are those of the
events before its last one (`EndsAre`), in their order (`Ranked`), which the parser takes
(`ParsedAre`) and which leave the buffer (`Dropped`).

The fifth rests on the fourth: the events that are translated are the first ones of the
provider, so what the provider keeps to counts for the translation. `ScriptInv` is what it
keeps to: each event follows from the one before it (`InProtocol`), and the index of a block
is the number of blocks before it. `TranslationInv` says that what the client has
been sent is made of the events heard (`Made`): it is `Formed`, that is, it has an item for
each block, announced first, with events of the kind of the block, and done last unless the block
is open; and the last event tells whether it is, so that a stop finds an item that is not
done, and the end of the message none. `EventTurns` is the step of one event,
`EventsTurn` that of all events which one chunk completes, by induction along the fold of
`Translated` (`TranslatedSteps`). A provider that breaks Claude's protocol is not in the model,
and the theorem says nothing of what its clients get.

The sixth starts where the fourth does: until the interception, buffer and wire together are
all that was written, and after it nothing is written any more (`InterceptionInv`), so what
is heard is the whole answer. The events with an index
are those of the blocks (`IndexInv`), and an index belongs to one block (`IndicesGrow`,
`CallsHaveIndices`), hence it tells whether an event is about a call (`OfCall`), though the
rewriter decides it from whether it is buffering. What the rewriter
has after some events (`RewroteUpTo`) is the block it buffers (`BuffersAt`), the events it has let through,
each in its place (`ForwardsUpTo`), and the calls it has taken (`TakesUpTo`); `EventIsFetched` is the
step of one event, `AllAreFetched` the induction along the fold (`RewrittenSteps`). What follows
keeps it: an execution changes only the result of a call, the continuation only appends.

`ConversationProofs` proves, with the same assumption:

* `ContentIsDelivered`: `ExchangeSpec => []ContentArrives`
* `CallsStayPaired`: `ExchangeSpec => []CallsArePaired`

Both have one argument. `TalkInv` is the invariant of the conversation:
the words, pictures, calls and answers of the client's messages, in the order of the messages and
within each in the order of its blocks, are numbered as `told` has it (`CountedTo`), and every
answer comes after its call (`AnswersFollow`); the first answers of the messages are those that
`told` has (`FirstAnswers`), and what Codex calls and answers is in the form of Responses
(`OfClient`, `InForm`). What a turn appends has the next numbers
(`NextNumbers`, `TalkGrows`), so each action keeps it (`UserTalks` and the lemmas after it). The
rest is about one request. A list of messages `Follows` another if, after some messages that
say nothing of the conversation (the system prompts), each message says as much as its counterpart:
the same numbers, in the same order, though in other blocks and other fields, and of
several results in one message, for a chat provider, only the first (`SaysAsMuch`), and all in one
form, that of the target or, unconverted, that of the client (`FormSent`); what is
counted in the one is counted in the other, wherever its parts are. What the server sends to
follow is the conversation as the client has it, or, if the image agent handles it, with a text for each
picture, whose number is right because `TalkInv` counts the pictures of the user as the agent does
(`PictureHasItsNumber`); either is `Sound`. That a request follows it is shown for each
conversion of a message between protocols (`ChatMessageSays` and its neighbours, over `Selected`,
which picks the blocks of some types in their order: `SelectedAre`), for each transformer
(`Carries`: a body has its messages under the name its protocol has for them, and no
other list that a later transformer could take instead), and for a chain of transformers by
the induction of `ChainKeeps`. `HeardInv` puts this together: every request that was made follows a
sound list, until the next one is made.

The assumptions of all proofs are those named in the modules, and the runs evaluate them.

Only model-checked are the liveness properties `EveryRequestEnds`, `RoutesCatchUp` and
`ButtonsComeBack`: liveness under fairness is outside the prover's reach, like everything that
depends on ENABLED.

## 7. Not modelled

The texts of messages, logs and errors; authentication; the read-only handlers; token
counting and its cache, on which nothing but speed depends; the application log, which
no other part reads; plugins, which nothing registers; export, listing and deletion of
presets (single files without shared state); the cache of the image agent, of which
nothing gets into a request; `EndpointTestState`, `transform_response` and
`restore_backup`, which nothing calls; Windows variants of the lifecycle, which answer
that they are unsupported; tables of platforms. Of the plain settings one stands for
all. A thread that panics sends no answer and leaves its button disabled; panics are not in
the models. Two operations on the same client at once are left for later. The wall clock is taken not
to go back.
