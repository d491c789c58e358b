# OMAI control plane: specifications, model checking and proofs

This directory holds TLA+ modules for the parts of the OMAI platform whose
correctness depends on the order in which several actors take steps: replicas
of the control plane that share one Redis, goroutines that outlive the request
that started them, browser clients that reconnect and merge what they missed, processes that crash. Paths
below are relative to `services/omai-control-plane/` unless they begin with
`packages/`.

| module | what it is |
| --- | --- |
| `TurnOrchestrator` | prompt admission, turn execution, lease renewal, clean-up and cancel on several replicas |
| `SessionDeletion` | `DeleteSession` beside those turns (EXTENDS `TurnOrchestrator`) |
| `EventStream` | what the event stream of a session promises its clients (abstract) |
| `RedisEvents` | the Redis adapter, the server stream and the resubscribing client, which implement `EventStream` |
| `PreviewManager` | the preview of a workspace: start, stop, reaper, supervisor and public route |
| `Interactions` | permissions and questions: asking, answering, deletion, over compare-and-set scripts |
| `PermissionDocks` | one browser's permission docks and automatic answers over `Interactions` (EXTENDS it) |
| `ChatView` | the transcript a browser page shows: optimistic rows, history and event stream merged |
| `MC*` | the definitions TLC's instances need: symmetry sets, sets of failures, functions |
| `TurnOrchestratorProofs`, `SessionDeletionProofs`, `RedisEventsProofs`, `EventOrderProofs`, `PreviewManagerProofs`, `InteractionsProofs`, `PermissionDocksProofs`, `ChatViewProofs` | theorems, checked by TLAPS |

Run `tlc -config X.cfg MCModule` for a run and `tlapm ModuleProofs.tla` for the
proofs.


## 1. The system

A Go control plane (`cmd/omai-server`) serves Connect RPCs to the web
application (`packages/app`) and other clients. It resolves chats to sessions,
sends prompts to agent runtimes, stores conversations and events, runs previews
of the generated code and issues voice leases. State lives in Redis (production)
or in process memory (development). Workspaces and processes are local or
behind a remote executor (`cmd/omai-workspace-executor`). A voice gateway
(`cmd/omai-voice-gateway`) connects a browser's microphone to a speech model and
calls the control plane's tools.

### Inventory

| component | source | state | operations | what is hard |
| --- | --- | --- | --- | --- |
| Turn orchestration | `internal/application/orchestrator.go`, `adapter/redisstore/turn_leases.go` | `cancels` and `leases` tables per replica, one lease key per session in Redis, a goroutine per turn and one per renewal | Prompt, run, renewTurnLease, finish, Cancel, Active | lease expiry, lost replies, replica crashes, a run that unwinds slowly |
| Sessions and conversations | `adapter/redisstore/sessions.go`, `conversations.go` | session hash, external-id mapping, message hash and order list | Resolve, Update, Touch, Delete, Append, AppendText, List | several keys per call, deletion beside use |
| Session deletion | `application/platform.go:186` | none of its own | DeleteSession: check, then four deletions | check-then-act over five calls |
| Event stream | `adapter/redisstore/events.go`, `transport/connectapi/platform.go:186`, `packages/app/src/rpc-chat/bridge.ts:484` | bounded list, cursor, subscribers counter with TTL, pub/sub, goroutine cursor and channel, client cursor | Publish, Subscribe, stop, DeleteSession | replay-to-live hand-over, loss, overflow, reconnect, expiry |
| Preview | `application/preview.go`, `adapter/preview/publisher.go` | `instances`, per-workspace locks, routes by owner, processes | Start, Stop, Get, Watch, reapIdle, closeAll, supervise/markExited; Publish, Unpublish | three actors that do not share a lock, partial failure of Start |
| Permissions and questions | `application/interactions.go`, `adapter/redisstore/interactions.go` | records and two indexes | Ask, Respond, Reply, List, DeleteSession | concurrent answers, scripts the Redis client repeats, publication after the decision |
| Permission docks | `packages/app/src/context/permission.tsx`, `permission-auto-respond.ts`, `global-sync/bootstrap.ts` | docks, switches, answered ids, lists under way | switch on and off, list, check the lineage, answer, reload | answers of several lists and one stream about one request, switches set while a call runs |
| Voice leases and dispatch | `application/voice.go`, `adapter/redisstore/voice.go` | tickets, leases, active set, dispatch records with TTL | Mint, Redeem, Heartbeat, Release, Dispatch | idempotence under timeouts and expiry, two clocks |
| Voice session | `internal/voice/session/session.go` | five loops, four bounded queues, the active tool call | audio, tool calls, confirmation, cancellation | cancellation racing dispatch, full queues |
| Process manager | `adapter/process/manager.go` | processes, bounded output, subscribers | Start, Stop, Remove, Watch, Write, Resize | slow watchers, the limit, removal beside exit |
| Harness runtime | `adapter/harness/*.go` | active sessions, session mapping file, model capabilities | Run, Cancel, Issue, Revoke | shutdown of a child, persistence |
| ADK runtime, runtime registry | `integration/adk`, `adapter/runtime` | none that outlives a call | Run, Cancel, Health | an external party to the orchestrator |
| Files, Git, commands, LSP, detector, catalog, reflection | `adapter/osfs`, `gitcli`, `command`, `lsp`, `projectdetector`, `modelcatalog`, `internal/reflection` | the file system; immutable snapshots | one call, one result | I/O and parsing, not protocols |
| Transport, auth, limits, configuration | `internal/transport`, `internal/platform` | none | translation | none here |
| Chat view | `packages/app/src/rpc-chat`, `components/prompt-input/submit.ts` | message rows, parents, optimistic ids, open turns, cursor | send, visit and restore, applyEvent, runSubscription, page load | three sources of one transcript: rows drawn before the server knows, history, replay and live events |
| Web application, UI, SDKs | `packages/*` | rendering state, generated clients | | not a protocol of its own |

How they meet: Prompt writes the conversation and publishes events while
DeleteSession removes both; the browser reads the conversation once and then
follows the stream; permissions, questions and previews publish on the same
stream; a preview runs its services through the process manager, possibly across
the executor's RPC; the voice gateway reaches tools only through Dispatch.

### What would make each part correct

* Turns: never two turns of a session at work, on one replica or on two; the
  conversation is a sequence of whole turns; what the session shows agrees with
  what runs; nothing stays locked after a crash.
* Deletion: lets no running turn through its check, leaves the mapping and the
  record consistent, leaves no history behind.
* Events: every client sees 1, 2, 3 ... from where it starts, across reconnects,
  or is told that it cannot; clients catch up; an abandoned stream can be deleted.
* Preview: the public URL leads to a live preview or nowhere, a ready preview can
  be reached, no process is forgotten, a crash closes the route.
* Interactions: one decision per request, and everybody who answers learns the truth.
* Docks: what is hidden is answered, once, and nothing is answered unasked.
* Chat view: no row doubled or lost, an answer whole and under its question.
* Voice: a tool call runs at most once per key, sessions keep to the limit.
* Processes: a watcher sees a run of chunks and the exit last; the limit holds.


## 2. The modules and the code

### TurnOrchestrator

A *turn* is one call of Prompt with the goroutine it starts; `home` is the
replica that serves it. One external chat is modelled: `current` is the session
id it resolves to, `stored` the ids that have a record and `retired` those that
were deleted (ids are random and never drawn twice).

| state | code |
| --- | --- |
| `lease`, `age` | the `turn-lease` key of a session and the age of its TTL |
| `table` | `cancels[session]` and `leases[session]` of a replica, always written together |
| `transcript`, `status` | the conversation's order list; the turn whose `session.status` or `session.error` was published last |
| `pc`, `cancelled`, `clock` | where the turn is, its context, time since the step that timers count from |

| action | code |
| --- | --- |
| `Resolve`, `Update` | `sessions.Resolve` and the model update of Prompt, orchestrator.go:56-75 |
| `Acquire` | SET NX PX, with and without its reply, orchestrator.go:80-91 |
| `Claim` | the section under `o.mu`, 92-101; a turn in the table wins and the new lease is given back |
| `AppendUser`, `Announce` | 103-112: each may be applied and still report an error, which ends the turn through `finish` |
| `Emit`, `Return`, `Report`, `Settle` | the runtime's text, and whatever status or error it reports, published as it is while the run goes on; its return; the error of a run that failed and the terminal status, whose publications are not checked, 156-196 |
| `Renew` | one tick of renewTurnLease, 207-224: anything but a confirmed renewal cancels the run |
| `Finish`, `Release` | 226-248: own table entry only, context ended, compare-owner DEL whose failure is ignored |
| `Cancel` | 135-154, on the replica whose table has the turn |
| `Crash`, `Tick` | a replica dies; time passes and keys expire |

Time is discrete. A turn that owes a step may be late by `Slack`; a run comes
back at most `UnwindBound` after it is cancelled. Nothing is said about how the
constants relate: `Slack >= LeaseTTL` is a replica that stalls longer than its
lease. What depends on punctuality says so: `TimersPunctual` is
`RenewEvery + 2 * Slack < LeaseTTL`, and `UnwindPunctual` adds the unwinding,
`RenewEvery + 3 * Slack + UnwindBound < LeaseTTL`. The code renews a lease of two
minutes every quarter of it, 30 seconds (`NewOrchestrator`, 17-36). The remote
runtime's Run returns as soon as its context ends, which is the reason for a
small `UnwindBound`; until then nothing makes it return (`adapter/runtime/remote.go:210-242`
puts no deadline on it), and the renewal goroutine keeps its lease for as long.

A status is represented by the turn that published it, because its text is the
runtime's own: `running`, but also `step_started` or `step_finished`
(`adapter/harness/opencode.go:265-268`), and an error in the middle of a run.

Left out: the session's provider, model and title (whether a prompt names a model is a
choice of `Update`); the Cancel RPC to the runtime; message timestamps; the single-process mode without leases. A Redis
call takes effect at one moment, with or without its reply.

### SessionDeletion

Each of the calls of DeleteSession is an action: read the session, look into the
local table, look at the lease, delete the events, the conversation and the
interactions, read the record again, run the erase script. `DeleteAbandon` ends
it at any point. The interactions have no state here.

### EventStream and RedisEvents

`EventStream` has three variables: the last sequence `next`, what each client
applied (`seen`) and what it gets next (`due`). A client joins after its last
event or at the oldest retained one, and is never given anything but the
successor.

`RedisEvents` has what the code has: the joined pub/sub channel (`mailbox`), the
subscribers counter with its key's TTL, the goroutine's `cursor`, the `replay`
the handler sends first, the bounded `channel`, and the stops under way
(`leaving`, `clearing`: DECR and DEL are two calls). Subscribe is five steps
(`Listen`, `Register`, `Lease`, `ReadCursor`, `ReadEvents`). Each of the last four
has branches for a call that fails, for `Register` and `Lease` also after it was
applied; a PSUBSCRIBE that fails leaves nothing behind and is no step. `Forward` is
one message of the goroutine; `Deliver` one event sent and applied; `FallBehind` the closed channel, after which the client comes back with
its last sequence. `Faults` says which kinds of failure a run allows and
`MaxFaults` how many:

* `lost`: pub/sub does not deliver; `setup`: a call of Subscribe fails;
* `orphan`: a failure or a crash that leaves INCR without EXPIRE and without DECR,
  so that the counter stays with no time to live (events.go:82-92);
* `cut`: the connection breaks; `crash`: the replica dies at any other moment;
* `heartbeat`: the goroutine's EXPIRE fails, which ends the subscription (174-176);
* `cleanup`: a call of stop fails; `delete`: DeleteSession runs (not a failure).

An event is its sequence number. Tenants, payloads and the in-memory adapter are
left out; of the counter's refresh only its failure is a step, and its success is
"does not expire under a live subscription" (`ExpireCounter`).

### PreviewManager

One workspace. `lock` is its mutex, held by Start and Stop. A start call names
the processes, the route and the instance it makes, so `route = s` reads "the
public URL leads to what call s started". Others reach the same state without
the lock: the supervisor of an instance (`MarkExited`), the idle reaper
(`Reap`), shutdown (`CloseAll`). They take or mark the instance under the
manager's mutex and go on outside it: `job` holds what they still have to do,
first `WithdrawJob` (Unpublish by owner), then `RetireJob` (Stop and Remove of
the processes).

Kinds of failure: a process starts but the reply is an error (`reply`), Stop or
Remove fail (`retire`), no random token can be drawn (`identify`), the watch of
the supervisor is refused or dropped (`watch`). `faults` records which kinds have
happened, and the properties name the kinds they exclude.

Ports, preparation commands and HTTP readiness are outcomes of `Launch` and
`Probe`. A plan is its fingerprint; `force` is a choice of `Analyze`. Preview
events and the proxying of requests are left out.


### Interactions and PermissionDocks

`Interactions` is one session with its requests. `record` holds what Redis holds
for an id, `projectIds` and `sessionIds` the two indexes, `log` the
`permission.asked` and `permission.replied` events or those of questions. Permissions
and questions run the same scripts and the same loop, and differ in how a repeated
answer is recognised: `questions` says which requests are questions, and
`Recognised` that the rejection of a question is stored with an empty list of
answers and repeated with none, which `reflect.DeepEqual` tells apart
(adapter/redisstore/interactions.go:223-230, 327-333): it is refused with a conflict.

| action | code |
| --- | --- |
| `AskBegin`, `AskCreate`, `AskPublish` | AskPermission, interactions.go:33-68; a call that finds the request already there does not publish |
| `AnswerBegin`, `AnswerLoad`, `AnswerResolve`, `AnswerPublish` | RespondPermission, ReplyQuestion, and the loop of Respond and Reply with its `Tries` attempts; the script may be applied without a reply, and repeated by the client |
| `DeleteList` ... `DeleteRecord`, `DeleteAbandon` | deleteRedisInteractions id by id, then the session's record |

`Faults` names two kinds of failure: `reply` (a script is applied, its reply
lost) and `publish`. `LateAsks` says whether a request may be asked while the
session is being deleted. Ask has no caller in the repository outside of tests;
a runtime is expected to be one.

`PermissionDocks` adds one browser. The two switches of automatic acceptance
(`own` for the session, `shared` for its directory), each of which is on, off or
never set and starts as the browser's storage has it (`Saved`), the version that tells a
list of an earlier switch-on from a current one, the ids answered by itself
(`responded`), the calls about to be sent (`outbox`) and bootstrap's list are
the variables of `permission.tsx` and `bootstrap.ts`. A directory whose
configuration allows everything is switched on without a list
(`EnableConfigured`). Every automatic answer prunes `responded` of ids that are an
hour old or beyond a thousand: any ids may go (`RespondOnce`, and
`PruneResponded` for the permissions of other sessions, which share the set);
`forgotten` is a history variable that names them. The effect that answers
what the docks show is not an action: it runs with every step that changes what
it reads (`React`). `known` says that the session's lineage is cached, without
which the directory's switch cannot be consulted; an answer that waits for it is
in `checking`. Sessions with parents, a thousand docks at once and question docks,
which have no automatic answers, are left out; the answers to questions are not.

### ChatView

One session, one page, one clock. The server part is what the orchestrator does
for each prompt, one turn at a time: the message is stored and then announced
(`Store`, `Start`), a chunk is stored in the conversation and then published
(`AppendText`, `PublishChunk`), a run that failed announces an error before its
idle (`Announce`, `Finish`). The runtime may report a status or an error and run
on (`Report`), and it may never return. Every publication may be made twice
(`Publish`): the script is not idempotent and the Redis client repeats it when a
reply is lost (events.go:29, voice.go:29). It may also fail, made or not: that of
`running` then ends the request (`StartFails`) and that of a chunk the run
(`PublishFails`); that of the last error and idle changes nothing, so a turn may
end without them. The log is an `EventStream` with everything retained.

| action | code |
| --- | --- |
| `Submit`, `SubmitNew`, `Reply`, `ReplyNew`, `Refuse`, `Lose` | handleSubmit, submit.ts:434-492: in an open session the optimistic row precedes the request, in a new one it follows the reply; a failure withdraws it |
| `Visit`, `VisitFails`, `Restore` | restore of provider.tsx before and after its await: restoreHistory, dedupeOptimistic, ensureSubscription |
| `Deliver` | one event through applyEvent: `ApplyState`, `ApplyChunk`, `ApplyTool` |
| `Drop`, `Reconnect` | runSubscription, bridge.ts:484-516 |
| `Reload` | the page is loaded again and forgets everything |

A row is `Sent(m)` (optimistic), `Real(m)` (the stored message), a turn's answer,
or `Shared`: no event of a tool carries a message id, so the cards of all turns
are in the row "assistant". Chunks of a turn share one message id, as the go-adk
runtime sends them. `restored` is a history variable that says which answers a
restore drew. Switching the runtime, the session list, stop, and the eviction of
cached sessions are left out, and so is the difference between the browser's and
the server's clock.


## 3. The runs

Every run is exhaustive within its bounds.

| run | instance | what it shows |
| --- | --- | --- |
| `turns_punctual` | three turns, two replicas, TTL 6, renewal 1, slack 1, unwinding 1, one chunk each | `TypeOK`, `OneWriter`, `TranscriptSerial`, `RunningTurnShown`, `LeaseHeld`, `LeaseOutlivesUnwinding`: with punctual timers the lease keeps turns apart through crashes, lost replies, failed renewals and cancels |
| `deletion` | a deletion beside two turns, two replicas, two session ids, TTL 2 with runs that unwind longer than their lease, fairness | `DTypeOK`, `MappingIntact`, `ActiveCheckSound`; `OneTurnPerReplica`, `TableHolds`, `OnlyOwnerReleases` hold though turns overlap across replicas; `LeaseFreed`, `TableFreed`: nothing stays locked for longer than a runtime works on it |
| `deletion_race` | one deletion, one turn | **violated** `DeletedLeavesNothing`: see 5 |
| `events_promise` | two clients, four events, two retained, a channel of one, two failures of any kind but a lost message | `ETypeOK`, `DeliveryContiguous`, `NoGap`, `ImplementsEventStream` |
| `events_live` | one client, four events, all retained, three failures, deletion of the stream included, lost messages and orphaned counters not, fairness | `AppliesForward`, `CatchesUp`, `StreamDeletable` |
| `events_stuck` | one retained event, fairness | **violated** `CatchesUp`: see 5 |
| `preview` | two starts, one stop, reaper, two services, one kind of failure, fairness | `PTypeOK`, `RouteOwned`, `ServedWhileRouted`, `ProcessesOwned`, `CrashClosesRoute`, `LockReleased` |
| `preview_unreachable` | two starts, one service, no failure | **violated** `ReadyReachable`: see 5 |
| `permissions` | one permission or question, a user's answer and two automatic ones, three saved positions of the switches, two changes of them and a configured directory, pruned ids, one reload, a deletion, lost replies and publications | `PTypeOK`, `AnswersTruthful`, `IndexesAgree`, `ErasureRepeatable`, `AnsweredOnce`, `HiddenAnswered`, `Consented` |
| `docks_left` | one request, no failure, fairness | **violated** `DockSettles`: see 5 |
| `chat` | two prompts, one with two chunks, two visits, one failure, repetition or report of any kind, fairness | `CTypeOK`, `LiveExact`, `NoDuplicateRow`, `ParentsKept`, `RowsStay`, `CatchesUp` |
| `chat_relink` | the same | **violated** `TurnsRelinked`: see 5 |

Why the bounds are enough for what they are used for. *Turns*: a conflict needs
two turns; the third lets one turn take a lease that a second lost while the
first still unwinds. One chunk is what an interleaving of transcripts needs.
TTL 6 is the smallest that `UnwindPunctual` admits with slack 1. *Events*: four
events over a window of two make a replay too old, a channel of one overflows at
the second event, and two failures let a reconnect fail again. `events_live`
has one client because `MaxStops` bounds the stops of all clients together: with
two, the refused resubscriptions of one would use up the stops of the other,
which the code does not bound; three failures are a deletion, a crash and a cut
in any order. *Deletion*: TTL 2 against an unwinding of 1 lets a key expire
under a turn that still unwinds, a successor take the lease on the other
replica, and the deletion run beside both. *Permissions*: docks of different
requests do not meet, except in `responded` and the lists, which are sets by id;
two automatic calls are what a second answer for one request needs, two changes of
a switch set and take back an acceptance while its list is under way. The
constraint `DeletedApart` explores a deletion beside answers and docks, and not also
beside changes of the switches, reloads and pruned ids, which it does not read. *Chat*: two prompts
that say different things make every merge of an optimistic row with the wrong
or the right copy; two chunks are the shortest answer that can lose, repeat or
swap one; two visits are the second restore into a page that has rows; `Window`
3 is passed by rows and copies on either side. A failure is a request, a run, a
publication or a stream that fails, a publication made twice, a status or error the
runtime reports, or a page load, so one of each kind is tried at every point. Five
constraints keep the state space at 1.5 million: an answer begins with a thought
(`ThoughtFirst`; one that begins with text is its mirror image), the turn without
chunks neither fails nor repeats an event (`SecondPlain`), there is one tool
event (`OneTool`; a second finds the shared row there), what a runtime reports in
mid-run is an error (`ReportsError`: an idle is applied as an error is, and a running
finds the session busy), and only chunks are published twice (`ChunksTwice`: a status
changes nothing the second time). *Preview*: two
starts are one replacement; two services give an order in which the first runs
while the second fails; each call is made once, and a second restart only
repeats the first with other names.

`MaxEvents`, `MaxChunks`, `MaxFaults`, `MaxStops`, `MaxAsks`, `MaxToggles`,
`MaxLoads` and `MaxVisits` bound counters that the code does not bound; the theorems hold for every value of them. Turns, starts, stops,
callers and prompts are sets of calls, each made once.

Deadlock is checked in the turn and deletion runs, where `Done` is the one state
that may stop. The other runs turn it off: a stream nobody publishes to, a workspace
nobody calls, a request nobody answers or a chat nobody writes to rests.

Symmetry is used for turns, replicas, sessions, clients, deleters and callers in
the runs that check safety; runs with liveness use none. `deletion` has both, so
`MCSessionDeletion` places the deleter and the first turn on one replica in the
initial state instead (`MCInit`): every other placement is a renaming of one of
these.

### Fairness

The fair specification of each module assumes weak fairness of steps that are already under
way, never of requests.

* Turns: every call a handler makes goes to Redis with a deadline and returns; the
  renewal ticker fires; time passes. Nothing puts a deadline on `Run`, so `Return`
  is owed only by a run whose context was cancelled (`WF(cancelled[t] /\ Return(t))`),
  and `LeaseFreed` and `TableFreed` except a turn whose runtime works on for ever.
  Prompts, cancels and crashes need not happen.
* Events: calls of Subscribe return, goroutine and handler run, the client's loop
  (`while (!signal.aborted)`) resubscribes, keys with a TTL expire. Publishing,
  closing and failures need not happen.
* Preview: Start's waits have timeouts (PreparationTimeout, StartupTimeout), the
  executor's calls have theirs, and clean-up has five seconds. The reaper's tick
  is not assumed, since no property needs it.
* Permissions (`PFairSpec`): a call that was made goes on and comes back, its
  reply is handled, the stream delivers, and the lineage the effect asked for
  arrives. Nobody has to ask, answer or switch.
* Chat (`CFairSpec`): the stream delivers and a broken one is opened again. Nothing
  is assumed of the server: a turn may stop anywhere, a runtime need not return,
  and the last event of a turn may be missing. Visits, sends, failures and page
  loads need not happen.


## 4. Proofs

All theorems hold for every value of the constants under the modules'
assumptions (`TurnsAssumption`, `TimeAssumption`, `EventsAssumption`,
`PreviewAssumption`, `InteractionsAssumption`, `ChatAssumption`), so for any number of turns, replicas,
sessions, deletions, clients, previews, services, requests, callers and prompts,
any TTL, window and channel size.

### Turns (`TurnOrchestratorProofs`)

| theorem | premise | states |
| --- | --- | --- |
| `TypeCorrect` | | `[]TypeOK` |
| `TableCorrect`, `LocalExclusion` | | `[]TableHolds`, `[]OneTurnPerReplica` |
| `OwnerReleases` | | `OnlyOwnerReleases` |
| `LeaseCorrect`, `WriterExclusion` | `TimersPunctual` | `[]LeaseHeld`, `[]OneWriter` |
| `TranscriptsSerial` | `TimersPunctual` | `[]TranscriptSerial` |
| `LeaseUnwinds`, `StatusCorrect` | `UnwindPunctual` | `[]LeaseOutlivesUnwinding`, `[]RunningTurnShown` |

`TypeOK` carries the bound on a key's age and is inductive by itself.
`TableHolds` is inductive with it, and gives local exclusion at once: two claimed
turns of one replica and session are both the one table entry. The exclusion
*across* replicas needs a fact about time, since no replica sees the other's
table: `LeaseHeld` says that a turn at work owns its lease and that the lease is
no older than the turn's clock plus the delay of set-up. `Tick` cannot let the
key expire while that clock is within its deadline, because the sum stays below
the TTL; this is where `TimersPunctual` is used. `OneWriter` follows: one key has
one owner. For the status event the turn must own the lease until it has written
its idle, so the invariant is extended over the cancelled part of a run
(`LeaseOutlivesUnwinding`), with `UnwindPunctual`; then a turn that publishes,
whatever it publishes, is the only one of its session between its announcement
and its idle (`PublisherAlone`), and `RunningTurnShown` is inductive.

`TranscriptSerial` speaks of a whole history and is not inductive either.
`LastIsOwn` adds what the next write relies on: a turn that may still write
assistant text wrote the last entry of its session. A user message may follow
anything, text only its own turn's entry (`WriteSerial`); and the writer is the
only one (`OneWriter`), so afterwards every turn that may still write finds its
own entry last (`WriteOwn`). A run that has been cancelled writes nothing more,
so the statement needs no bound on how long it unwinds.

### Deletion (`SessionDeletionProofs`)

| theorem | premise | states |
| --- | --- | --- |
| `DeletionTypes` | | `[]DTypeOK` |
| `MappingStays` | | `[]MappingIntact` |
| `TableBesideDeletions`, `ReplicaExclusionBesideDeletions` | | `[]TableHolds`, `[]OneTurnPerReplica` |
| `OwnerReleasesBesideDeletions` | | `OnlyOwnerReleases` |
| `WriterExclusionBesideDeletions` | `TimersPunctual` | `[]OneWriter` |
| `CheckSound` | `TimersPunctual` | `ActiveCheckSound` |

Every step of `SessionDeletion` is a step of the turns with the deletions at
rest, or a step of a deletion, which leaves leases, tables and turns alone. So
the step lemmas of `TurnOrchestratorProofs` are used as they are
(`TurnsUndisturbed`): what a replica's table says, who may end a lease and who
may write hold beside any number of deletions. `CheckSound` follows from
`LeaseHeld`, because a check that finds neither a table entry nor a lease finds
no turn at work. What a deletion does break is the conversation, which it
removes under a turn admitted after its check (section 5); `TranscriptsSerial`
is therefore stated without deletions.

### Events (`RedisEventsProofs`, `EventOrderProofs`)

| theorem | premise | states |
| --- | --- | --- |
| `EventTypes` | | `[]ETypeOK` |
| `Contiguous` | `Lossless` | `[]DeliveryContiguous` |
| `NothingSkipped` | `Lossless` | `NoGap` |
| `StreamPromiseKept` | `Lossless` | `ImplementsEventStream` |
| `NeverTakenBack` | | `AppliesForward` |

`Lossless` says that pub/sub loses no message and the stream is not deleted; all
other failures may happen without bound. The inductive invariant is
`DeliveryContiguous`: the mailbox ends with the last event; the channel ends at
the goroutine's cursor; the replay ends where the channel begins; the client is
where the replay begins; and the mailbox reaches back at least to the cursor.
`NoGap` alone is not inductive: that the next event is the right one depends on
three queues fitting together. The last conjunct is what joining the channel
*before* reading the list is for.

The refinement maps `due` to the head of the replay, or to the successor of what
the client applied once the replay is used up, and to 0 without a subscription.
`ReadEvents` is the abstract `Join`, `Deliver` is `Apply`, every way of losing
the subscription is `Leave`, `Publish` is `Append1`, and all other actions
stutter.

`NeverTakenBack` has no premise, so contiguity is not available: after a loss the
queues have gaps, after a deletion the stream is shorter than the clients'
cursors. What remains is order. The invariant (`AheadOK`) is that replay and
channel rise, that the replay lies before the channel, and that both lie between
what the client applied and the goroutine's cursor.

### Preview (`PreviewManagerProofs`)

| theorem | states |
| --- | --- |
| `PreviewTypes` | `[]PTypeOK` |
| `RouteNeverOutlives` | `[]RouteOwned` |
| `RouteServed` | `[]ServedWhileRouted` |
| `NoProcessForgotten` | `[]ProcessesOwned` |

None of the three is inductive, because the actors know different things. The
invariant says what they rely on: whoever is inside Start or Stop holds the lock
(`LockHeld`); the instance, the target of a job and what a restart replaces were
recorded (`Recorded`), so nobody retires what a Start is still launching; the
route is that of the recording call or of a recorded one, and never that of a job
that has withdrawn it (`Routed`), because Unpublish by owner also takes away a
newer route, which is safe here and the reason for `ReadyReachable` failing; a
supervisor has at most one job (`Supervised`); and the references an error path
holds are those of all its processes (`Launched`, `Counted`), unless the reply of
a launch was lost. `Owned` is `ProcessesOwned` without the calls that have
recorded their instance, whose processes must have another owner already.

### Interactions (`InteractionsProofs`)

| theorem | states |
| --- | --- |
| `RequestTypes` | `[]ITypeOK` |
| `DecisionsFinal` | `DecisionFinal` |
| `ListsAgree` | `[]IndexesAgree` |
| `CallersLearnTheTruth` | `[]AnswersTruthful` |
| `ErasureCanRepeat` | `[]ErasureRepeatable` |

`AnswersTruthful` says what each outcome of a call means; for a conflict that is
that another decision stands, or that the call rejects a question. It also says
that nobody is told "kept changing", which needs a fact about
attempts: a call that has used one has met a decision, and decisions are final,
so its next attempt ends at the head of the loop (`FirstAttempt`). An erasure can
be repeated because the index goes last: what a deletion has still to remove is
in `left` or gone, and the records of what it took from the index are gone.

### Permission docks (`PermissionDocksProofs`)

| theorem | states |
| --- | --- |
| `DocksUseInteractions` | `ISpec`: the browser is one more client of `Interactions` |
| `AutomaticAnswersTruthful`, `ListsAgreeBesideDocks`, `ErasureBesideDocks` | `[]AnswersTruthful`, `[]IndexesAgree`, `[]ErasureRepeatable` for it too |
| `DockTypes` | `[]PTypeOK` |
| `AnswersOnce` | `[]AnsweredOnce` |
| `HiddenDocksAnswered` | `[]HiddenAnswered` |
| `AnswersConsented` | `Consented` |

A step of the browser either begins an answer, which `Interactions` allows any
caller, or leaves the requests alone; so every theorem about `ISpec` holds beside
it, and the three of the second line are corollaries.

The rest is about the browser. Seven different steps can make it answer by itself
(the switches, the stream, lists, lineage, bootstrap), and each is brought to one
form (`Reacts`): it answers a set of ids once (`RespondOnce`), all of them allowed
and pending at that moment (`Allowed`), and all docks are among them unless nothing
about the docks has changed (`Covered`). `Allowed` is `Consented`. `HiddenAnswered`
needs more than `Covered`, because an id among the docks may be in `responded`
already and is then not answered: that such an id has an answer, about to be sent
or begun, is `RespondedGiven`, and that an answer once given stays given, whatever
is pruned, is `GivenKept`. `AnsweredOnce` needs the link from calls back to ids: an
answer under way, or one that succeeded, is remembered in `responded` unless its id
was pruned (`LiveResponded`), and a caller that was used has begun (`UsedBegun`), so
only a call that fails and a pruning make an id answerable again.

### Chat (`ChatViewProofs`)

| theorem | states |
| --- | --- |
| `AnswersExact` | `[]LiveExact` |
| `ChatTypes` | `[]CTypeOK` |
| `RowsSingle`, `ParentsShown` | `[]NoDuplicateRow`, `[]ParentsKept` |
| `RowsLeaveForCause` | `RowsStay` |

*Text.* An answer drawn from the stream shows one chunk for each event that carried
it, in their order. It would be simple if every chunk were appended; but `applyChunk`
ignores chunks of an answer that counts as complete, and `completeOpenTurns`
completes *every* open turn at any idle or error, also one the runtime reports in
the middle of its run. So the statement first says which events carry a chunk
(`Carried`): those up to the cursor that no idle or error precedes after the
answer's first chunk. The invariant (`LInv`) ties what the page remembers to the
log: which turns it follows, and which of them it completed, is decided by the
events up to the cursor (`Followed`), so a row that was completed is one whose next
chunk is dropped. The text is tied to the events by an increasing map onto them
(`Spells`), which appending an event extends by one or leaves alone
(`SpellsMore`, `CarriedNext`). That no chunk is shown after a later one then follows
from the log, where the numbers of a turn's chunks never fall (`LogNumbers`),
published twice or not. Nothing is assumed about how the events of turns lie in the
log. Reconnecting keeps the cursor, a page load forgets text and cursor together,
and a restored row is outside the statement.

*Rows.* The invariant (`RInv`) adds what a restore relies on. `Begun`: what the
conversation, a listing or the page holds of a stored message exists only after
the prompt was stored, and that after it was sent; so a row is never drawn for a
send whose copy is already there. `Drawn`: the row of a send is among
`optimisticIDs`, so the next restore compares it; what `ChatState` still knows
though the page does not show it belongs to a send that failed, which is why an
answer can be hung under such a row; and a page without a session has drawn
nothing.

What a restore does is stated once (`RowsRestored`) and used for all three
properties: it draws the stored messages R, withdraws the rows W, each of which
says the same as a message of R, and for each of R whose own row is on the page
and near, W has that row or one that says the same. That is a fact about a loop
over the listing, `Deduped`, and is proved for listings of any length
(`DedupedExact`): one pass (`DedupeStep`) takes out the first row that fits, and
what it has done after k messages (`DedupedTo`) carries over to k + 1. The
library's induction theorem takes an operator, which the installed provers
cannot instantiate, so induction is stated for a set of numbers (`SetInduction`,
from the least element of its complement, from the well-foundedness of the
naturals); the set is the k for which the loop has done what it should, and
another use of it shows that the recursive function exists at all
(`LoopDefined`). The same least element gives `LatestUserBefore` a newest
message (`LatestKnown`).

`ChatAssumption` has one conjunct that only these proofs need: ids of user rows
and of answers differ: a user row has the id its stored message got from the
server or a new one (`Identifier.ascending`, submit.ts:442), an answer the id the
runtime drew for it or the word "assistant" (bridge.ts).

### What is only model-checked

Liveness under fairness (`LeaseFreed`, `TableFreed`, `CatchesUp` of the events and
of the chat, `StreamDeletable`, `CrashClosesRoute`, `LockReleased`) is beyond the
proof system as installed, which has no rule for fairness and ENABLED. Every other
property that a passing run checks is a theorem. The properties of section 5 are
violated, and their counterexamples are TLC's.


## 5. Where the code and its documents disagree

Each is a run whose property the documents state and the code violates.

* **A deleted session leaves history** (`deletion_race`, platform.go:190).
  `api/omai/platform/v1/platform.proto:146` promises "Delete an idle OMAI session
  and its local history". A turn admitted after the idle check writes messages
  and events for a record that is then removed.
* **A client left behind retries for ever** (`events_stuck`, bridge.ts:511).
  The server tells a slow client to "reconnect with the last sequence"; when the
  window has moved on, the answer is the same error every second, and nothing
  reloads the session.
* **A ready preview without a route** (`preview_unreachable`, preview.go:427).
  `docs/PREVIEW.md:83` describes a restart that replaces an instance safely. The
  supervisor of a crashed preview calls Unpublish by owner after releasing the
  mutex; a Start that publishes in between loses its new route while its instance
  stays ready and is reused.
* **A dock that nothing takes away** (`docks_left`, interactions.go:68).
  `docs/ARCHITECTURE.md:138` has decisions "durable, tenant-scoped and idempotent;
  their typed events update the existing SolidJS docks". A request is listed
  before it is announced, so its reply can be published first, and the late
  announcement puts up a dock for a decided request; bootstrap's list does the
  same when the reply overtakes it. No later event removes it.
* **Answers left under a withdrawn prompt** (`chat_relink`, submit.ts:486).
  `bridge.ts:291` says "Assistant turns that referenced the optimistic id are
  re-linked to the real id." When the reply of a send is lost, the catch branch
  removes the row from the store and not from `ChatState`: the answer hangs under
  a row that is gone, and the stored message, when it is drawn, is compared with
  rows on the page only.

Some that no run states, or that the models show without a property of their
own. *The lease does not fence*: `docs/ARCHITECTURE.md:136` says that a lease
"fences concurrent turns across control-plane replicas", and a replica paused
past the TTL writes its text into the next turn until its next renewal tick
(orchestrator.go:180; `TurnsPunctual.cfg` with `Slack` 6 shows it). *A lost
pub/sub message is skipped*: `docs/ARCHITECTURE.md:133` promises OUT_OF_RANGE
"instead of an incomplete history", and the goroutine tests `Sequence <= cursor`
only (events.go:182; `EventsPromise.cfg` with `lost` among its failures shows
it). *Previews and sessions*: `docs/PREVIEW.md:95` "emits `preview.failed`" (the event has no session id and every store rejects it); `docs/PREVIEW.md:82`
"any failure rolls back new processes" (not one whose Start reply was lost);
`docs/ARCHITECTURE.md:131` on the terminal status of a turn (published once, error
ignored). *A repeated rejection of a question* is answered with a conflict, though
`docs/ARCHITECTURE.md:138-139` has decisions idempotent
(adapter/redisstore/interactions.go:223-230). *A counter without an end*: a failure
or a crash between INCR and EXPIRE (events.go:82-92) leaves a subscribers key that
never expires, and the session can never be deleted (`StreamDeletable` without its
premise, with `orphan` among the failures of `EventsLive.cfg`, shows it). *A publication made twice* by the Redis client's retry
(events.go:29, voice.go:29) has two sequence numbers, and its chunk is shown twice.
*A chunk after an error*: an error the runtime reports in the middle of its run
(orchestrator.go:190) completes the answer on the page, which drops the chunks that
follow (bridge.ts:383). *A pruned id*: a dock that stayed after its automatic answer
is answered again once its id has been dropped (permission.tsx:233-243, 257).

*The chat page* shows things about which nothing in the repository says what they
should be. After a load in the middle of a go-adk turn that began with a thought,
a restored row holds the first part only, or holds what the replay from 0 then
appends a second time; a row that is not the newest counts as complete and shows
only its first part. Tool cards of all turns share one row. Two prompts that say
the same within a minute can lose a row. A restore whose `listMessages` is
rejected never subscribes. Parents are found by comparing the browser's stamps
with the server's.


## 6. What is not modelled, and the plan

Not modelled because there is no protocol to check: files, Git, commands, LSP,
project detection, catalog, reflection, transport, authentication,
configuration, the rendering side of the web application, generated SDKs. The
ADK and remote runtimes appear as the environment of `TurnOrchestrator`, the
remote executor as the outcomes of calls in `PreviewManager`. The in-memory
adapters serve a single process under one mutex each.

These parts are most of the repository by lines: the TypeScript is largely
generated SDK types and clients, translations, components and styles, and the
model covers the few hundred lines of it in which events, history and user
actions meet. A share of its lines would say nothing about how much of the
system's behaviour is checked; the Go control plane, where the protocols are, is
not counted in it.

Known hazards of parts without a module, for whoever models them: the limit of
voice sessions is computed with a replica's clock while their keys expire by
Redis' (`adapter/redisstore/voice.go:56`); the second SET of Redeem may fail after the ticket is used
(same file, 87); a voice tool may time out while it waits for confirmation
(`voice/session/session.go:273`); the process limit is read and used under separate locks
(`adapter/process/manager.go:206`) and a slow watcher is dropped (517); messages are
sorted by the clock of the replica that wrote them (`adapter/redisstore/conversations.go:101`);
shutdown does not wait for closeAll (`cmd/omai-server/main.go:201`).

Done, in this order: turns, deletion, events with their abstract specification,
preview, interactions with the docks that depend on them, the chat view; proofs
of all their safety properties. Next, in the order of what they add:

1. `VoiceDispatch`: Begin, Invoke, Complete and Abort with retries, timeouts and
   expiry, against an abstract "at most once per key" that the code keeps only
   for tools whose failure means that nothing happened. Theorem: a record that is
   done is only ever answered with its result.
2. `VoiceLeases`: tickets are redeemed once, the active set keeps to its limit
   with the two clocks apart.
3. `ProcessManager`: a watcher's chunks are a run that ends with the exit; limit
   and history; refinement of an abstract output log in the manner of
   `EventStream`, with proofs along the same lines.
4. `VoiceSession`: loops, queues, cancellation and confirmation of tool calls.
5. Proofs under the premises that make violated properties of section 5 true: a
   ready preview is reachable as long as no process of it has exited, and a
   deletion leaves nothing when no prompt arrives after its check.
