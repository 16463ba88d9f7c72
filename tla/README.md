# TLA+ models of OpenMate

OpenMate keeps a tree of work (topics and nodes), schedules the nodes onto
agent processes, and lets the agents call language models through a shared
pool of provider APIs. The parts run as separate processes (HTTP server,
command-line tools, Python workers) that meet in SQLite files and one JSON
file. These modules model the parts whose correctness depends on that
interleaving. `PROJECT.json` lists components, runs, mutants, the source lines
behind every definition, findings, hazards and theorems.

Run a model with `tlc -config PoolGateway_faults.cfg MCPoolGateway` (the
configurations of a module are named after it, the module to run is `MC` and
its name), check a module of proofs with `tlapm PoolGatewayProofs.tla`. The
proof modules are `PoolGatewayProofs`, `ScheduleEngineProofs`,
`FileToolsProofs`, the `Vos...Proofs` and the `Chat...Proofs`.

## 1. Inventory

| Component | State | Operations | What is hard | Modelled |
|---|---|---|---|---|
| LLM pool (`internal/poolgateway`: `store.go`, `gateway.go`, `retry.go`, `config.go`) | SQLite tables `apis`, `invocations`, `invocation_attempts`, `meta`; `model.json`; per call: configuration, attempt number, reservation | reserve a slot, complete, fail an attempt, retry, finalize, synchronise the configuration | calls of several processes between each other's transactions, cancelled contexts, crashes, stale configurations, retries on another API | yes |
| Provider clients (`providers.go`, `openai_responses.go`) | none | one HTTP call; error classification | unbounded streams | by outcome |
| Scheduler (`internal/schedule`: `engine.go`, `planner.go`, `runtime_store.go`, `types.go`) | SQLite tables `topic_runtime`, `node_queue`, `dispatch_history` | enqueue, tick: promote, select, priority node, plan, dispatch, finish, apply priority plan, demote | a tick is a dozen separate statements around a worker that runs for minutes; enqueues and other processes in between | yes |
| Schedule CLI, gateways, worker (`cli.go`, `shell_gateways.go`, `direct_vos_gateway.go`, `openmate_agent/worker.py`) | none | run ticks, call the vos, run a worker process, make a priority plan | errors halfway through a dispatch | by effect |
| VOS tree (`internal/vos/service/service.go`, `store/json_store.go`) | one JSON file | create, move, update, delete topics and nodes | Load, change, Save by many processes with no lock; versions | yes |
| VOS sessions (`session_service.go`, `store/session_store.go`) | SQLite `sessions`, `session_events`, and references in the JSON file | create a session, append and list events | two stores, compensation, sequence numbers, status | yes |
| Permissions, audits (`permission_service.go`) | topic metadata, user skills | add, delete, audit | same file, read-modify-write, replaced as a whole by topic updates | yes |
| Memory proposals, compaction, decomposition (`memory_proposal_service.go`, `process_service.go`, `decompose_service.go`) | topic and node metadata | apply results, decide a proposal, create children | an agent runs between read and write | yes |
| Context snapshots (`context_service.go`) | none | read | fails on a session without a row | as a step of the above |
| Chat API (`httpapi/chat.go`) | registry of runs, subscriber channels, session of a turn | start, subscribe, cancel, wait | bounded channels, closing once, clients that leave, chats that tick the scheduler for each other | all but `/chat/result` |
| HTTP API, command-line front ends | none of their own | the operations above | | as writers of the file |
| Runtime wiring | none of its own | | | no: opens and closes stores |
| Agent runtime (`openmate_agent`) | one process per dispatch | writes parts, a final message or an error to the session | | by effect |
| Agent file tools (`tooling/tools.py`, `tooling/file_state.py`) | the user's files, `filetime.json`, lock files | read, write, edit, patch | several workers in one workspace, locks of dead processes, a baseline file nothing locks | yes |
| Other agent tools, permission gateway, approvals | approval requests | shell, search, query; allow or ask | | no |
| Pool client, desktop shell, web client | none or UI | | | no |

How they interact: the chat API enqueues a node and then keeps calling
`Engine.Tick` (under `scheduleMu`) while it polls the session's events; a tick
starts a worker, which appends events to the session through the `vos` binary
and calls models through the `openmate-pool` binary; the workers of different
nodes may work on files of one workspace; the streaming chat calls
the pool in process and cancels its context when the user does.

What makes each part correct:

* pool: slots are neither lost, freed twice nor granted above a limit; the
  status of an API follows its counters; one attempt of a call at a time and no
  more than its budget; a call that returned is settled; every call ends;
* scheduler: no node is started twice or when it must not be; strict priority
  layers; priority work alone and first; no topic starves; bookkeeping
  (running list, labels, switch count) matches the rows;
* tree and sessions: the file stays a tree whatever saves overwrite each other,
  the references `CreateSession` leaves resolve, versions tell what changed, event
  numbers let a reader miss and repeat nothing;
* chat: a subscriber gets the whole stream and its end, channels close once, a
  cancelled run ends, a turn ends with the outcome of its own session;
* file tools: one writer of a file at a time, an edit keeps what others wrote, a
  refused patch has changed nothing, nobody waits in a circle, every call ends.

## 2. Plan

1. `SlotPool`, `PoolGateway`, `MCPoolGateway`, `PoolGatewayProofs`: done.
2. `DispatchPlanner`, `WorkQueue`, `ScheduleEngine`, `MCScheduleEngine`,
   `ScheduleEngineProofs`: done.
3. `VosTree`, `VosDocument`, `VosService`, `MCVosService`, `VosServiceProofs`,
   `VosSessionProofs`, `VosVersionProofs`: done.
4. `ChatSession`, `ChatStream`, `ChatTurn`, their composition `Chat`, `MCChat`,
   `ChatProofs`, `ChatEventProofs`: done.
5. `FileLocks`, `FileTools`, `MCFileTools`, `FileToolsProofs`: done.
6. Left: the tool loop of the agent with its approvals, which leaves a session
   waiting.

## 3. The LLM pool

`PoolGateway` has the three tables, the configuration file with what the
`meta` table holds of it (`applied`), and for each call of `Gateway.Invoke` its
local variables. A store operation runs in one `BEGIN IMMEDIATE` transaction
and is one action, with the `syncConfig` at its start and the check of the
context; loading the file, the provider's call and the backoff are steps of
their own. `pc` names where a call stands:

    idle -Begin-> reserve -ReserveInvocation-> invoke -ProviderSucceeds-> succeeded -> returned
                                                 |    -ProviderFails---> failed -CompleteAttemptFailure-> backoff | finalize
                                                 |                       internal -FinishInternalFailure-> finalize ...
    backoff -ReserveRetryAttempt-> invoke        backoff -GiveUpRetry-> finalize -CompleteInvocationFailure-> returned

`ReturnContextError` is a transaction that meets a cancelled context;
`Cancel` and `Crash` can come at any point of a call. `AdminLoad` and
`AdminSync` stand for `cap`, `records`, `usage` and `sync`, which load the file
and apply it in a transaction some time later.

Abstractions: payloads, prices, tokens, latencies and texts are left out; an
error is one of the kinds that `shouldRetry` and `countsTowardOffline` tell
apart; `stream` covers both what switches the retry off and what switches the
client timeout off; a busy database that outlasts its retries is not modelled
(its outcome is that of a cancelled context). `InvokeRequest` keeps its route
and its form.

`SlotPool` is the abstract specification: calls hold slots, granted below the
capacity of the moment; a success is recorded by a holder as it gives the slot
back; outcomes are final. The mapping reads the holder of a slot from the
running attempts, so it also says that a cancelled or dead call still holds one.

| Run | Instance | Shows |
|---|---|---|
| `pool_faults` | 2 calls, 2 APIs (1 and 2 slots), 2 configurations, every class of error, cancel, crash | `TypeOK`, `StatusAgreesWithCounters`, `LeaseCountsRunningAttempts`, `OneOpenAttempt`, `RetryBudget`, `OnlyCancelledLeak`, `QuotaRespected`, `HealthChangesForCause`, `ImplementsSlotPool` |
| `pool_settles` | 2 calls, any route and stream, one API of each mode, edits of the file, fairness; no cancellation | `ReturnedCallIsSettled`, `EveryCallEnds` |
| `pool_cancelled` | one configuration, cancellation | violated: `ReturnedCallIsSettled` |
| `pool_stale_config` | one configuration disables an API | violated: `DisabledApiStaysUnassigned`, by the first reservation of a call that loaded its configuration before the file was edited and an administrator's sync took the API out |

Bounds: with two APIs and two attempts a retry can change API; with two
configurations a limit can fall below what is in use, an API can disappear and
come back, and a stale configuration can return; the thresholds 1 and 2 make an
API go offline at once or after two counted failures. Two calls are two
processes: under one configuration the quota of one makes them compete, under
the other, with a quota of two, the single slot of the only API. Calls are symmetric; `SYMMETRY` is
used in `pool_faults` only, where no property is about liveness.

Fairness: a goroutine of a call keeps running, so its own steps are weakly
fair; a provider's answer is weakly fair only for requests without a stream,
which have a client timeout (`providers.go`, 30 s by default). Nothing is
assumed of the operator, of cancellation or of streaming providers, and
`EveryCallEnds` speaks only of calls without a stream.

### Proved

For every set of APIs and calls, every set of configurations and requests the
assumptions allow, with cancellation and crashes, `PoolGatewayProofs` proves
`Spec => []TypeOK`, `[]OneOpenAttempt`, `[]RetryBudget`,
`[]StatusAgreesWithCounters`, `[]LeaseCountsRunningAttempts` and
`[]OnlyCancelledLeak`, the action properties `QuotaRespected` and `HealthChangesForCause`, that the gateway
implements `SlotPool`, and, where nobody cancels, `[]ReturnedCallIsSettled`.

None of these is inductive alone. `TableInv` adds, for each call, what the
tables hold for it at each `pc` (`CallInv`): for instance a call in `invoke`
has a running invocation on `reserved`, whose last attempt runs on the same
API and whose earlier attempts are closed. The frame lemma shows that a call's
part of the invariant depends only on its own rows and variables, so a step of
one call needs a proof for that call only (`ReserveStep`, `SuccessStep`,
`FailureStep`, `FinalizeStep`, `LocalStep`). `CountInv`, the two statements on
the counters, is then inductive relative to `TableInv`: a reservation adds one
call to `Holders(a)` and one to the lease, a completion removes the same call,
and a sync changes neither.

The others rest on these:

* `SettledInv`: a call whose context is not cancelled reaches `returned` only by
  the transaction that records its outcome, and nothing writes to its rows after
  that. So a call that returned and still holds a slot was cancelled
  (`OnlyCancelledLeak`), and where nobody cancels every call that returned is
  settled.
* A row turns to running in a reservation only (`RunsByReserving`), which has
  compared the number of running rows with the limit it has just applied.
* `InternalInv`: a call on its way through `finishInternalFailure` carries an
  error that does not count against the API; the counters that go up do so for
  an error that does, and go back to zero for a success.
* The refinement maps the tables to slots and outcomes: `SlotOf` reads the slot
  of a call off the calls' part of `TableInv`. A reservation is then a grant below
  the capacity, because the lease it compares counts the holders (`CountInv`); a
  completion is a release or a success, finalizing a failure, and every other
  step leaves slots and outcomes alone.

The assumptions are those of `PoolGateway`: API ids are naturals, the set of
calls is finite (lease counts are cardinalities), configurations are what
`LoadModelConfig` accepts.

## 4. The scheduler

`DispatchPlanner` is `planTopicDispatch` as operators on a snapshot; the plan
gives each node to be started its place. `ScheduleEngine` has the tables
`topic_runtime` (`topics`) and `node_queue` (`nodes`) and, for each process that
ticks, where its tick stands:

    idle -PromoteAgedTopics-> select -SelectTopic-> [priority -> priority_ready ->] plan
    plan -PlanTopic-> dispatch -MarkNodeRunning-> prepare -StartWorker-> execute
    execute -WorkerAnswers-> [apply | clear ->] dispatch (next node) | served -EndTick-> idle

and early returns to `idle`: no runnable topic, `PriorityWaits`, nothing to
dispatch, a call to the vos that fails, a worker that fails, a crash. `Enqueue`
comes between any two steps. The server's ticks are serialised by `scheduleMu`,
so one `Ticker` is one process; two of them are the server and
`openmate-schedule run`.

The priority worker is modelled too: `PriorityPlan` is `_build_priority_plan`
of `worker.py`, taken from the candidates read before the worker starts and
applied when it ends.

Abstractions: the reads of a topic selection, the statements that make the
priority node, the promotions of one tick, and touch-check-demote at its end
are one action each. Instants are kept as their order (`Renumber`), which is
all the code asks of them. Session ids, agent specs, error texts, the plan
version, `switch_count` and `dispatch_history` are read by no step of a tick and
are left out. Node ids sort as numbers.

`WorkQueue` is the abstract specification: one node is worked on at a time; a
node starts when it waits and nothing better that is still open was there
before it; the ranks are changed by enqueues and by priority work, which has
its topic to itself and gives each node a place of its own. Plans, ticks and
the running list do not occur in it, so it also says that a plan made earlier is
as good as one made at the start of the node. Whose place is newer is a relation
there, and an order of instants in the tables.

| Run | Instance | Shows |
|---|---|---|
| `schedule_faults` | 1 topic, 3 business nodes, 2 slots, vos errors, failing priority workers, crashes, any answer class | `TypeOK`, `RunningListed`, `LayerOrder`, `StartsOnlyWaiting`, `PriorityFirst`, `ImplementsQueue` |
| `schedule_served` | 2 topics, fairness, enqueues at any time, failing workers | `TopicsAreServed` |
| `schedule_stuck` | same, with finitely many vos errors | violated: `TopicsServedAfterFaults` |
| `schedule_two_processes` | 2 tickers | violated: `OneWorkerPerNode` |
| `schedule_labels` | enqueue during priority work | violated: `LabelsAreUnique` |

Bounds: three business nodes and two slots give ranks 1 to 3 with two labels, a
layer of several nodes, and a plan whose second node is started long after it
was made. A worker of a business node that exits with an error leaves what an answer
that ends the node and a crash leave, so that error is left to `schedule_served`.
Two topics and the four queue levels are what starvation needs. The
passing runs have one ticker, because with two `OneWorkerPerNode` fails and
with it what a start may assume. `LayerOrder` and `StartsOnlyWaiting` are about
plans that age while enqueues, errors and crashes happen.

Fairness: somebody keeps ticking (a chat waiting for its answer ticks every
interval; `openmate-schedule run` loops) and a worker ends. The code does not
enforce `timeout_ms`, so the second is an assumption about workers;
`TopicsAreServed` depends on it.

### Proved

For every finite set of topics and nodes, any number of processes, any answers
of the workers, failing calls and crashes, `ScheduleEngineProofs` proves
`Spec => []TypeOK` and `[]RunningListed`; the second is thus known for two and
more processes too, which the runs that check it do not cover. For one process
that ticks (`OneProcess`; with two, `OneWorkerPerNode` is violated) it proves
`[]LayerOrder`, `StartsOnlyWaiting`, `PriorityFirst` and that the engine
implements `WorkQueue`.

Neither is inductive alone. A start or a finish writes the status of one node
and rebuilds the running list of the *selected* topic, so a row could say
running in a list that is not rebuilt if a tick ever touched a node of another
topic. `OwnTopic` says it does not: what is planned or dispatched belongs to
`sel`, and nothing is while the next topic is being selected. It is proved with
the types of the local variables (`FrameInv`), from what the planner's
operators return (`PlanType`, `PriorityPlanType`); `ListInv`, the types of the
tables with `RunningListed`, is inductive relative to it. The steps that write
other columns go through one lemma per column (`WriteDirty`, `WriteCurrent`, ...).

The order of starts depends on a plan that ages while it is carried out.
`OrderInv` says what stays true of it: what is planned still waits and what is
in hand is not closed (`HandInv`); a priority node is in hand alone, business
nodes only while it is closed (`AloneInv`); an open node of a smaller rank than
a planned one entered the queue after it (`Layered`). The last holds when the
plan is made because the planner returns nodes of the smallest open rank, and
is kept because a node that opens or changes its rank later enters with the
largest instant (`BeforeNow`) and ranks are rewritten by a priority tick only,
which has no business node in hand. `RankInv` adds that rank 0 is the priority
node's and that it never waits beside a running node.

The refinement needs `DutyInv` beside it: a topic is dirty when its priority work
is called, nothing else of it runs until the ranks are set, and the ranks in
hand are distinct. The last holds because the priority worker compares by
bucket, rank, entry and id, which is a linear order (`PlannedBeforeLinear`), so
no two candidates have equally many before them (`PlanRanksApart`). Numbering the
instants again keeps their order in both directions (`EnterOrder`), which makes
the relation of the queue change by the entering nodes only.

### What is not claimed

By design of the code, a node whose worker succeeds is `ready` again, so lower
ranks wait until it is finished otherwise; no property says they are reached.

## 5. The VOS service

`VosTree` is the document of the state file and, for each operation of the
service, when it is accepted (`Can...`) and what it makes of a copy (`...In`).
`VosService` has the file, the sessions of the database (`rows`) and a number
of writers: HTTP handlers, `vos` commands and tools of agents, each of which
loads the file, changes its copy and saves it a step later.

    idle -an operation-> save -Save-> idle              SaveFails, Crash -> idle
    idle -CreateSession-> insert -InsertSession-> save -SaveFails-> rollback -DeleteSession-> idle
    idle -GetNode-> read -UpdateExpected-> save
                    read -GetContextSnapshot-> context -ListNodeProcesses-> compact -ApplyCompactionResults-> save
                                               context -DecomposeAnswer-> tasks -CreateTaskNode-> save -> tasks ...

Nothing locks the file in the code, so a save replaces it whatever was saved
since the load; `raced` remembers that this happened, because some properties
hold only of files that no save overwrote. The document holds what the
properties tell apart; names, texts, statuses, tags and workspaces are left
out. Creating a node without a topic is `CreateTopic` followed by `CreateNode`
by the same writer; an update of a topic's fields or workspace is a save of the
unchanged copy.

The service does not check what callers send, and neither does the model:

* a topic is created and patched with any metadata map (`CallerMetadata`). The
  document remembers, as history, the map a topic was last given and how often
  it was (`given`, `replaced`);
* an update of a node appends any session identifiers (`CallerUpdates`), and
  tests rely on identifiers that were never created being kept. In the code one
  list holds them and the references `CreateSession` leaves; the model keeps
  them apart (`appended`, `refs`) because only the latter promise a row. A
  context is refused when either lacks its row (`ContextComplete`);
* an update may list an item under an identifier made for another node
  (`ProcOf`); two nodes then name one item, and an update of the one deletes it
  under the other. Such items are remembered (`strays`).

So `SessionsExist` speaks of `refs`; `MetadataAgrees` counts from the map that
was given: topic memory and summary have grown by exactly the decisions and the
audits since, and the decisions and audits given are kept; `VersionNamesContent`
and the compaction of `VosDocument` leave stray items aside; and `SavesAdvance`
lets a topic's metadata change in two ways only, by going on from what it was
(`MetadataAdvances`: decided proposals stay decided, audits and memory stay) or
by becoming the very map the saved request was sent with.

`VosDocument` is the abstract specification: one document, which each request
changes at once, as it is then. Loads, copies, saves, crashes and agents do
not occur in it. It promises this until a save overwrites one that its writer
had not seen (`overwritten`, which is `raced` below), and from then on only
that the document is one the service can work on. That `VosService` implements
it is what the version check of compaction results is for: the processes they
carry were read in a later load than the version, long before the save. It
also shows where that check ends: a node removed and made again has old version
numbers again (`deleted`), so results for the old node may be applied to it.

| Run | Instance | Shows |
|---|---|---|
| `vos_writers` | 2 writers, 2 topics, 3 nodes, one session, process, rule, tag and proposal, two maps and three updates that callers send, three initial files | `TypeOK`, `TreeWellFormed`, `SessionsExist`, `MetadataAgrees`, `VersionNamesContent`, `SavesAdvance`, `ImplementsDocument` |

Bounds: the file is replaced twice. The initial files (empty, a root with a
child, a chain of three with a proposal to decide) are what earlier saves
leave, so two racing saves meet a tree deep enough for a cycle, an orphan or a
second root. Callers send the map the chain's topic had before the decision,
and one with memory no proposal brought, a decision and a summary without
audits; a node gets the item with its identifier, whatever the node, or none, or
a session identifier that may have no row;
two writers are enough to overwrite a save, and the second one's long
operations (compaction, the two tasks of a decomposition) meet a change between
any two of their reads. Deadlock is not checked: at the bound no request comes.
No property is about liveness here: requests may fail at any time.

The saves that are lost, which the documents exclude, are under findings.

### Proved

For any sets of topics, nodes, items, sessions and writers and any number of
saves:

* `VosServiceProofs`: `TypeOK` and `TreeWellFormed`. The tree is not inductive
  alone: what is saved next is a copy made of some earlier file. `FileInv` says
  that the file and every copy that waits to be saved satisfy `FileOK`, so
  losing a save loses its change but never the tree; there is one lemma per
  operation that it leads from `FileOK` to `FileOK`. The one with an argument
  is the move: a set of nodes closed under the new parents is closed under the
  old ones or holds the way from the new parent up, which `Above` excludes.
* `VosSessionProofs`: `SessionsExist`. `SessionInv`: a session between its
  insertion and its save belongs to one writer, and no reference of the file or
  another copy names it, so its rollback leaves none without a row. Identifiers
  callers append are not part of it and may name anything.
* `VosVersionProofs`: `SavesAdvance` and `VersionNamesContent`. `AdvanceInv`: a
  copy whose base is the present file advances it, with one lemma per operation
  (`GivenMetadata` for those that put a caller's map in place, `SameMetadata`
  for those that leave the metadata alone); `VersionInv`: without a race a node
  whose version is the one that was read has the content that was read.

* `VosVersionProofs` also has `SerialRequestsNeverRace`: with a single writer no
  save ever overwrites one it had not seen, so there the conditions of the other
  properties always hold.
* `VosServiceProofs` also has `MetadataAgrees`, whose parts belong to `FileOK`
  as well. It holds for any maps callers send: right after one is put in place
  nothing has been decided or recorded since (`ReplaceMetadataOK`,
  `NothingCounted`). `audits` is the list the code appends to, and
  `TallyAgrees` says how many positions of it, beyond those given, bear a tag;
  one more audit adds its position to those of each of its tags (`Bearers`,
  `AuditCounted`), so this is a fact on cardinalities and needs no induction
  over the list.
* `VosVersionProofs` also proves that the service implements `VosDocument`.
  `RequestInv`: without a race, a copy whose base is the present file is what
  one request makes of that file. A request that changes its copy establishes
  it from the guards it passed, compaction results by `VersionInv`; saves of
  others take the base away; so the save itself is the request, and every other
  step a stutter.

## 6. The chat API

`ChatSession` is what chats and workers do to sessions and their events.
`ChatStream` is `POST /chat/stream`: the handler that makes a run and
subscribes to it, watchers of a run under way, the goroutine of the run, and
what `publish`, `close` and `unsubscribe` do under `run.mu` and after it.

    handler    idle -> message -> prepared -OpenRun-> subscribe -> start -StartChatRun-> stream -> leave [-> close] -> done
    watcher    idle -FindRun-> subscribe -> stream -> leave [-> close] -> done
    goroutine  invoke -> answered -> append_reply -> summary -> close -> closing -> ended
                      -> failed -> fatal -> close ...

`ChatTurn` is `POST /chat`: the chat enqueues its node, then ticks the
scheduler, lists new events, reads the session's status and sleeps, until the
session is settled. A tick works on any node that is runnable
(`ScheduleEngine` says which) under the context of the request that ticks, and
all requests wait for `scheduleMu`. `Chat` composes both over one store.

Abstractions: an event is its kind; a session that waits for something counts
as active; a client that leaves a waiting chat is `WaitFails` or `TickFails`;
the command mode of the scheduler, where a tick is a process, is left out.
`published`, `first`, `seen`, `missed`, `read` and `unsaved` are history.

| Run | Instance | Shows |
|---|---|---|
| `chat_requests` | a streamed chat with a watcher; two waiting chats about two nodes; two about one node | `TypeOK`, `NoPanic`, `StreamsComplete`, `EndsAreRecorded`, `EventsReadOnce`, `CancelledRunsEnd`, `TurnsAnswered` |

Bounds: a channel holds 2 events and a run publishes up to 3, so channels fill
up or not as the client reads; a poll lists 2 events and a session gets up to 5,
so several polls are needed; a session is dispatched once. Which requests meet
is chosen at the start (`Waves`): streamed and waiting chats share nothing but
the store, whose transactions concern one session each. Deadlock is not
checked: requests end.

Fairness: handlers and goroutines that can go on do; a client that stays
connected reads its stream (EndStream and Receive are steps of the handler); a
provider's call returns once its context is cancelled, and only then is it
assumed to; polls go on and workers end. Nobody has to leave or to cancel.
`TurnsAnswered` speaks of sessions that end up settled: a worker that is killed
leaves one that never does.

### Proved

For any chats, watchers, nodes, capacity and poll limit:

* `ChatProofs`: `TypeOK`, and `NoPanic` by `ChannelInv`: a channel that a run
  has listed or has yet to close is open, is that of a request streaming this
  run, and is not about to be closed by its handler.
* `ChatEventProofs`: `EventsReadOnce`, since a log only grows, and
  `EndsAreRecorded`. For the latter `RunInv` says what the run has published
  and recorded at each of its steps, and that nothing writes to the session of
  a run that is over; what waits in channels is then as true as what was read.
* `ChatEventProofs` also has `StreamsComplete`. `StreamInv`: a client that missed
  nothing has read and has waiting, together, exactly the events since its
  first, and all of them while the run lists it or it still reads; a client
  that reads a run which is not closed is listed. A handler that finds its
  channel closed and empty has therefore read the last event, which for a
  closed run (`RunInv`) is the summary or the fatal event.

The two liveness properties stay with TLC.

## 7. The file tools of the agents

Workers of different nodes use `read`, `write`, `edit` and `patch` on the files
of one workspace. `FileTools` has the files (`disk`, and who made the present
version), `filetime.json` with the baselines, the lock files, and for each agent
where its call stands:

    idle -Begin-> lock -EnterLock, for each file-> check -CheckFreshness-> [apply ->] write
    write -WriteFile-> stat -LoadBaselines-> truncate -TruncateBaselines-> save -SaveBaselines->
          next file of a patch, or idle
    a read: idle -Begin-> stat ...       LockTimeout, RefuseStale, MatchFails, WriteFails, Crash -> idle

A version stands for the content and the modification time of a file. Writing
`filetime.json` is two steps, since emptying it is one: in between whoever loads
it sees no baselines. Writing a file of the user is one step, and so are
reading the files of a patch, checking their baselines, and leaving the blocks
of several locks. Texts are left out, so whether a replacement matches is a
choice; calls refused before anything is read are not begun. Lock names are a
constant (`LockOf`), because two paths can have the same one.

| Run | Instance | Shows |
|---|---|---|
| `files_agents` | 2 agents, 3 files of which two share a lock name; every tool, patches of two files in either order; crashes, failing writes, edits from outside; fairness | `TypeOK`, `LocksExclude`, `NoCircularWait`, `PatchesAreAtomic`, `EditsKeepOthers`, `ToolCallsEnd`, `ImplementsLocking` |

Bounds: two patches that name the same two files are the smallest circle there
could be. A patch of the first and last file, which share a lock name, waits for
itself; one of the second and the last takes lock names in the other order than
one of the first two, so these two can wait for each other. `NoCircularWait`,
which is about files, does not exclude that; `ToolCallsEnd` says that the
timeout ends it. Each agent makes one call, but the baselines may be those of
earlier calls, and a crashed call leaves its locks to the other; the other's
call falls between any two steps of a patch or an edit. Deadlock is not checked: agents stop calling.

`EditsKeepOthers` holds because `edit` reads under the lock. `write` and `patch`
take their content from before it and depend on the baseline, which all agents
share: what the code calls a conflict check notices editors outside, not other
agents. `PatchesAreAtomic` is about patches that are refused; one whose second
file cannot be written has changed the first.

`FileLocks` is the abstract specification: a lock belongs to one call, which
takes it when it is free and gives it back; a crashed call keeps its locks, and
no lock that was lost is ever free again. Files, baselines and calls do not
occur in it.

Fairness: a process that runs goes on, and `with_lock` gives up after ten
seconds; `LockTimeout` is possible at once, since nothing bounds the other
steps. Nothing is assumed of crashed processes.

### Proved

For any agents, files, lock names and calls and every fault, `FileToolsProofs`
proves `[]TypeOK`, `[]LocksExclude`, `[]NoCircularWait`, `PatchesAreAtomic`,
`EditsKeepOthers` and that the tools implement `FileLocks`. `ToolInv` adds to the first two, for each call, what it has
still to write at each step (`TodoInv`), that its locks are a beginning of its
files in their order and all of them while it writes (`OrderInv`), and that an
edit about to write has read what is there (`ReadInv`). The last is kept because
whoever writes a file has its lock. A circle of waiting calls is impossible
because the call that waits for the greatest file waits for one that waits for
a greater one; `Greatest` gives the maximum of a finite set of numbers. In the
refinement the locks of a call are those `entered` counts, and a lock file that
no running call holds is one a crash has left.

## 8. Findings

Each violated run is a disagreement between the code and a document of the
repository, quoted in `PROJECT.json` under `findings`: slots leaked by
cancellation, a disabled API enabled again by a call that began before, a topic starved by a
dispatch that broke off in another, two agents on one node, and a label conflict
that an enqueue was meant to exclude. Three of them have one cause: a
dispatch, like an invocation, is not one transaction, and nothing repairs one
that broke off.

Smaller disagreements that need no model to be seen: `switch_count` never goes
up, because `MarkNodeRunning` moves `current_node_id` before `MarkNodeFinished`
compares it (`runtime_store.go:622`, against section 4.4 of the queue design);
no 5xx answer counts towards taking an API out (`retry.go:63` with
`providers.go:1263`, against `Agent池.md:98`); the announced conversion of a
Responses request for a `chat_completions` API is unreachable, because
`validateInvokeRequestForMode` refuses the request first (`gateway.go:76`,
against `对接协议.md:129`); once a priority plan has labelled rank one `now`,
every enqueue of another business node of the topic is refused
(`runtime_store.go:1129`).

And in the services, the chat and the tools (an action named at the end of an
item is where the models have it):

* two saves that overlap lose the earlier one, also when both carried
  `ExpectedVersion` (`json_store.go:47`, against the optimistic locking of
  `虚拟文件系统.md:129`); in the model this is every `Save` with
  `base # saves`;
* a `PATCH` of a topic replaces its whole metadata (`service.go:200`): one made
  from a map read before a proposal was decided makes it pending again, drops
  rules and audits recorded since, and can bring topic memory and summaries that
  no decision or audit is behind, all without two saves overlapping. The
  confirmation has a way of its own to avoid just this
  (`sharedInfo/Process.md:299`), the patch is still open: `UpdateTopic`;
* an update appends session ids nobody looks up (`service.go:748`); a node that
  names one without a row can be neither read as a context, compacted nor
  decomposed, and no operation takes the id out again: `UpdateNode`,
  `ContextComplete`;
* process ids in an update are not compared with those of other nodes
  (`service.go:1011`): an item listed in two nodes disappears from the file when
  one of them drops it: `SyncNodeProcesses`, `strays`;
* an enqueue while the node's worker runs is overwritten when that worker fails
  (`runtime_store.go:602`, against `调度队列/Process.md:118`): `FinishTick`;
* `/chat/result` looks an invocation up under the pool's id, while the stream
  gives its client the id of the run, so it is never found
  (`Agent池/Process.md:22`);
* the compaction command hands over a type of its own that the service does not
  accept (`cli/process_cli.go`);
* a chat that waits ticks the scheduler with the context of its own request, so
  a client that leaves can kill the worker of another chat: `TickFails`;
* a chat that waits lists at most 200 events and then reads the status of its
  session: one that has completed meanwhile is answered without the message
  that completed it (`chat.go:1022`, against `虚拟文件系统/Process.md:770`):
  `ListSessionEvents` followed by `GetSession`;
* a patch that fails to write its second file has landed in part
  (`tools.py:930`, against its description in line 848): `WriteFails`;
* an agent's `write` replaces what another agent's tool wrote since it read the
  file, because that write refreshed the baseline they share
  (`file_state.py:29`, against `Agent能力/Process.md:234`), and two tools that
  save `filetime.json` at once lose a baseline (`file_state.py:21`, against
  line 236): `LoadBaselines`, `SaveBaselines`.

## 9. Checked only, or not covered

* Liveness (`EveryCallEnds`, `TopicsAreServed`, `CancelledRunsEnd`,
  `TurnsAnswered`, `ToolCallsEnd`) is checked on the instances above only.
* `LayerOrder`, `StartsOnlyWaiting`, `PriorityFirst` and `ImplementsQueue` are
  proved for one process that ticks, `ReturnedCallIsSettled` for calls nobody cancels: without
  these conditions they are false, or what they rest on is.
* Every property has a mutant: a definition `Fault...` beside the one it
  replaces, under which the property fails in the same run.
* Hazards without a property are listed in `PROJECT.json` with the reason.

Not modelled:

* what only reads or converts: payloads and SSE parsing of the providers, the
  tree view, `/chat/result`, context projection, prompt building, command-line
  parsing, wiring;
* the agent's other tools (shell, search, query), which keep no state, its tool
  loop and approvals, the Python client of the pool, the desktop shell and the
  web client;
* the second write of `Save` on Windows, where a rename cannot replace a file:
  a reader can then find no file at all;
* what the operations leave behind on purpose (processes and sessions of
  deleted nodes, the memory a parent keeps of a moved child, a row left by a
  crash between insert and save): no document says who cleans up, so no
  property is stated.
