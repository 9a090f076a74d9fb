# TLA+ models of the MCP access stack

The MCP access stack gives an MCP client (ChatGPT) controlled access to a Windows
machine: files, Git, shells, long-running commands and a browser. This directory
holds TLA+ modules for the protocols the stack is built on, TLC configurations that
check them on small instances, and proofs checked by TLAPS. Paths below are relative
to `mcp-access-stack/` in the repository.

`PROJECT.json` is the index: for every definition the lines it models, for every run
the properties it checks, for every property a mutated definition under which it
fails, the hazards of the code with the properties that cover them, and the theorems.

## 1. The system

    MCP client
      -> Cloudflare Worker, one Durable Object McpSession      services/mcp-edge-gateway
     <-> WebSocket, dialled by the Windows side
      -> Edge Connector                                        services/mcp-gateway/src/edge
      -> MCP gateway on loopback                               services/mcp-gateway
     <-> WebSocket (agent relay), dialled by the agent
      -> workspace agent                                       services/workspace-agent
      -> Browser Worker over loopback HTTP                     services/browser-worker

### 1.1 Inventory

| Component | State it keeps | Operations | What is hard about it | What makes it correct |
|---|---|---|---|---|
| Agent relay, gateway side (`relay/service.ts`, `request-manager.ts`, `relay-retry-policy.ts`) | current socket, generation, ready/alive flags, heartbeat interval, ready waiters, pending requests | upgrade, hello, call with one recovery, watchdog, abort, response, close, heartbeat, shutdown | old and new sockets overlap; responses, timers, aborts and closes race; a retry may repeat work | an operation is started at most once (twice if retryable); what a call reports is true; every call settles |
| Agent relay, agent side (`connection/*.ts`) | one connection, active requests with watchdogs, shell leases | dial, execute, cancel, abort all, stop | cancellation lost with its connection; crash | operations end; one synchronous shell per workspace |
| Background tasks (`tasks/background-task-manager.ts`) | record files, records map, write chains, start queue, executions, controllers | start, execute, cancel, list/wait/read (refresh), recovery, pruning | I/O between decision and write; failed writes; restart with surviving processes | a command runs once; records tell the truth; cancellations are final; tasks end |
| Edge session (`mcp-session.ts`, `connector-handover.ts`, `connector-telemetry.ts`) | WebSocket attachments, telemetry in storage, pending relays, cutover flag | upgrade, ready, disconnect, relay, timeout, client abort | several connector processes at once; close events late and in any order; hibernation and restarts | the newest capable connector serves; requests are answered; a lost connector is waited for |
| Contract rollout (`contract-compatibility.ts`, `active-catalog.ts`) | active, candidate and previous revision; catalog snapshots | reconcile at start, promote, roll back | builds deployed in any order over a half-done rollout; cached compatibility | the stored state stays acceptable; a contract becomes active only when somebody serves it |
| Edge connector (`edge/connector.ts`) | socket, generation, active requests | reconnect loop, hello, forward, cancel, stop | a connection is lost with requests in the gateway; requests still arrive on a closing socket | a request nobody waits for is aborted |
| Edge owner OAuth (`control-plane/owner-oauth.ts`, `auth.ts`) | clients, codes, refresh tokens, revocations | register, authorize, token, revoke, import | waits between reading and deleting | codes and refresh tokens are used once |
| Gateway owner OAuth (`auth/owner-*.ts`) | token tables and their file | issue, refresh, revoke, restart | file write fails after the tables changed | memory and file agree |
| MCP operation registry (`mcp/operation-registry.ts`) | active and pending operations per scope | register, begin, cancel, release | a cancellation overtakes the start of its call; ids are reused | no cancellation is lost; nothing leaks |
| Gateway HTTP application (`app.ts`, `http/mcp-middleware.ts`, `mcp/browser-legacy-fast-path.ts`) | sessions, places reserved for sessions, abort signals | POST, GET, DELETE, expiry, close | clients leave at any point; sessions are closed while they are created or used | capacity and use counts are exact; abandoned operations end |
| Source-control mutations (`source-control/*.ts`, `local-agent.ts`) | receipt files, store queues, confirmations; the repository and GitHub | reserve, confirm, execute, complete, reconcile; the typed Git and GitHub operations | crash or failed write between the backend call and the receipt; others change the repository between check and change | one backend call per idempotency key; "completed" is true; no history is lost |
| Tool catalog and handlers (`mcp-tool-manifest.ts`, `mcp-workspace-tools.ts`, `local-agent.ts`, `ssh-workspace-executor.ts`) | none of their own | 22 workspace tools over two executors | a call goes on after its answer; the client repeats it | hints are true; refusals change nothing |
| Shell confirmation (`shell/*.ts`) | pending confirmations, child process | ask, consume, run, expire | two calls with one confirmation; restart | confirmations are used once, for what they were given |
| Browser queue, idempotency (`services/browser-operation-queue.ts`, `browser-idempotency-registry.ts`) | tails per key, slots, waiters, entries | run, cancel, replay | wakeups, cancellation while queued, capacity; an answered operation goes on | one operation per key, bounded in all; none starves |
| Browser runtime (`browser-runtime.ts`, `domain/*.ts`, `direct-playwright-driver.ts`) | tasks, leases, tabs, grants, confirmations, the driver's current page, the lifecycle lock | the operations of `BrowserCatalog`, finish, reaper, idle shutdown | the end of a task against its operations; one current page for many tabs | a task ends alone and leaves nothing; leases are exact |
| Paths and command risk (`path-security.ts`, `shell/command-risk.ts`, `trusted-workspace-authorization.ts`) | none | pure functions | edge cases | agree with a reference definition |
| Validation, GPT actions | little | one external call each | partial failure | as the operations they call |
| Policies, contracts, generated catalog, diagnostics, deployment scripts, tooling | none that others decide on | - | - | - |

The components interact as follows. A tool call enters the edge
session, which relays it over the connector's WebSocket; the connector forwards it
to the gateway, where it becomes an operation of the registry and, for workspace
tools, a call of the agent relay; the agent executes it, directly or as a background
task. A disconnect at either WebSocket, a restart of the Durable Object or of the
agent, a deployment of another build and a client that goes away can come between
any two of these steps; none of the parties is told what the others had done. Browser tools go
from the gateway to the Browser Worker by one HTTP call each.

### 1.2 Where the difficulty is

The hazards, each at its line, are listed in `PROJECT.json`. Four patterns recur:
shared flags read for the wrong connection (relay, telemetry); a decision taken
before a wait and acted on after it (background tasks, legacy relay, OAuth codes);
something done on the other side of a connection that is lost before the answer
(relay retries, receipts); and what is cached about a contract while contracts change
(edge session).

## 2. Modules

| Module | Models |
|---|---|
| `RelayWire` | the agent's WebSocket: two ends with their own readyState, a FIFO each way |
| `RelayGateway` | `AgentRelay` and `AgentRelayRequestManager` |
| `RelayAgent` | `AgentConnection`, `AgentRequestExecutor`, `SynchronousShellConcurrency` |
| `AgentRelay` | the two composed over the wire; properties, fairness, inductive invariant |
| `AgentRelayProofs` | its theorems |
| `BackgroundTasks`, `BackgroundTasksProofs` | `BackgroundTaskManager` with its process runner; its theorems |
| `ContractRollout` | the pure functions of `contract-compatibility.ts` |
| `EdgeSession` | `McpSession` over `ContractRollout`, with telemetry and request routing |
| `EdgeSessionProofs` | its theorems |
| `OperationRegistry` | `McpOperationRegistry`, its scopes and the operation context |
| `EdgeConnector` | the connector's connection and table of requests |
| `McpGateway` | the MCP endpoint over the registry, its sessions, and its two fronts: the connector, or clients with tokens |
| `McpGatewayProofs` | its theorems |
| `SourceControlBase`, `MutationReceipts`, `GitRepository`, `GitHubService` | the receipt store, the typed Git operations, the GitHub operations |
| `SourceControl` | a source-control call from arrival to answer, composed of the four |
| `SourceControlProofs`, `SourceHistoryProofs` | theorems about receipts and confirmations; about repositories and GitHub |
| `MutationOnce` | what the receipts promise, abstractly |
| `ToolCatalog` | the announced tools with hints, inputs and answers |
| `ToolHandlers` | which method a tool calls, its permission and its effect, for both executors |
| `WorkspaceCalls` | calls of the workspace tools by clients that follow the catalog |
| `WorkspaceCallsProofs` | its theorems |
| `BrowserCatalog` | the worker's operations as programs of steps |
| `BrowserOperationQueue`, `BrowserRuntime`, `BrowserFinalization` | queue and slots; state and steps; the end of a task |
| `BrowserWorker` | the worker's application over the three, and the world around it |
| `BrowserWorkerProofs` | its theorems |
| `MC*` | instances for TLC |

Definitions marked "Mutant" are plausible mistakes in the definition that follows
them. No specification uses them; they show that the properties can fail.

### 2.1 Agent relay

`RelayWire` names a connection by the generation the gateway gives it. It states what
the `ws` library guarantees: order and no duplication per direction, frames delivered
to an end that is CLOSING, nothing sent by an end that is not OPEN, `close` as the
last event, and the loss of everything not delivered by then. An end notices a reset
(`GwBreak`, `AgBreak`) or does not: a silent loss is a behaviour in which it never does.

`RelayGateway` keeps one `pc` per call of `AgentRelay.call` (its states are listed in the
module). A promise continuation is a step of its own, since further frames of the same
chunk can be delivered before it runs. Time is abstract: an armed timer (`HelloTimeout`,
`Watchdog`, `WaiterTimeout`, `HeartbeatTick`) may fire at any moment while it is armed.
`heartbeat` and `beats` are separate because the code holds one interval handle and can
have several intervals running. `CanAttempt ... RequestSent` are the parts of
`AgentRelayRequestManager.call`, in its order of checks; `CatchGivesUp` and
`CatchRecovers` are the catch block of the retry loop.

`RelayAgent` has at most one connection at a time. `starts` and `okDone` are history:
how often the operation of a request was started, and which ones returned a result.
An operation settles with one of the kinds of response that the gateway tells apart. One of
them, `notStarted`, is `AGENT_UNAVAILABLE` with the outcome `not_started` in its details, which the GitHub
clients of the agent send after the operation was started (`github-http-client.ts`,
`ssh-github-api-client.ts`); the gateway keeps the outcome (`service.ts`, `details?.outcome ?? "unknown"`).
`denied` is history: the requests of which the agent has said so. What the GitHub client knows when it
says it is not modelled: the relay can only carry the agent's word.
`Crash` replaces the agent process; the gateway is not told.

### 2.2 Background tasks

A step is one event together with the microtasks it drains, because Node finishes
these before the next event. A file write is an event, so the chain of writes of each
task is a sequence of (record, who waits for it); a reader (`readPersistedRecord`)
counts the writes queued before it and continues in the drain of the last of them
(`ExecuteDue`, `CancelDue`, `Drained`). Actors are the start queue, `execute()`, cancel
calls, pollers (`Refresh`) and the operating system. `WriteFails` fails a write and
everything chained behind it; `Restart` loads what is on disk, while the children may
survive. Deduplication looks only at the tasks of the caller's owner scope (`Accessible`), so
two owners may run one command at a time. `TerminateFails` is `terminateProcessTreeByPid` throwing: the cancel
call fails and the process lives. `disowned` and `cancelled` are history.

### 2.3 Edge session and contract rollout

`ContractRollout` has no state: `Reconcile`, `MayPromote`/`Promoted`,
`MayRollBack`/`RolledBack`, `Compatible`, `IsRolloutState`. `EdgeSession` holds their state.

A step is what the object does between two waits that let other events in. Storage
operations are not such waits (the runtime delivers no event to the object while one
is under way), so a promotion, an upgrade and a queued telemetry record are single
steps. Reading a body, authenticating and the delays of the reconnect grace are such waits:
a request rests in a phase meanwhile (`reading`, `routing`, `waiting`), then `pending`.

A socket is `<<p, g>>`, connection g of connector process p; its record is the WebSocket's
attachment and readyState. `Selection` follows `getPreferredExecutionReadyConnector`,
including the question asked at a disconnect with the closing socket still counted.
Between legacy connectors the code takes the first one listed; the order of
`getWebSockets` is not specified, so the model takes any. Telemetry keeps the fields that
decide the grace. `Restart(b)` is a crash or the deployment of build b: sockets and relays are
lost without an event, and the write of the cutover flag, which nobody awaits, may be lost.
A wake from hibernation is not an action: `WakeRestores` shows that it changes nothing.
`owed` is history: the last serving connector was lost by a disconnect.

### 2.4 Source control

`SourceControl` follows `executeSourceControlMutation`: the receipt of the key is looked up, a
confirmation asked for or consumed, the key reserved, the receipt marked executing, the backend
called once, the receipt completed or marked for reconciliation. `MutationReceipts` keeps the
queue of promises per key (a store operation reads, decides and may write, and the next one
waits for it) and the files, which alone outlive `Crash`. A Git operation is the
sequence of its git processes: questions first, then the change, with other calls, an editor and
other users of the remote (`Others`) between them. A GitHub request is sent once; GitHub may
handle it later, also when nobody waits, and the service looks at what is there when the answer is lost.
Over SSH only GitHub mutations have receipts, as in `SshWorkspaceExecutor`.

`MutationOnce` has a phase per key: free, claimed, tried, settled. `SourceControl!Phase` computes it from
the receipt and from `attempts`, the number of backend calls (history); a second call would map
to a phase that `MutationOnce` does not have.

### 2.5 Workspace tools

`ToolCatalog` is the generated manifest reduced to what a client decides on: hints, required and
accepted inputs, and the fields of the answers from which later calls can be built. `ToolHandlers` gives each
tool its method and each method, per executor, its permission and effect. In `WorkspaceCalls` a client
follows a list of tools; an attempt passes the handler, the executor, the file or shell service
and the audit entry. `Timeout` answers the client while the attempt goes on, and what the client
repeats is decided by the hints. A file is the sequence of the edits that made it.
An aborted attempt is refused before it consumes a confirmation or starts a command by the local executor only:
the SSH executor looks at the signal first when it invokes the remote command (`NotInvoked`). All
clients are of one owner scope, so a command started in the background by one is found by the others.
`Restart` replaces the agent: confirmations lapse, commands are killed, and attempts under way are interrupted.
No client's list names a tool twice; what is called again is a repeated call.

### 2.6 Browser worker

`BrowserCatalog` gives each operation its steps between two waits; `BrowserRuntime` says what a step
does to tasks, tabs, driver and permissions. The driver has one current page, as in the code.
`BrowserFinalization` is `finishTask` and the reaper under the lifecycle lock. `BrowserWorker` adds
admission, idempotent replay, the time limit (`Abort` answers a request and leaves its operation running)
and `Disturb`: ageing, closed pages, a dying browser, a failing driver. A browser that comes back
without a tab gets a blank one, so `Reconnect` needs a tab that has not been used: that guard is the
bound on how many there are. It is one step for the waits of `connectInternal`: callers share the one
attempt (`connectPromise`). An extraction has no next pages, and `frameSequence` and `navigatePath` run their steps once,
where the code runs a sequence again after its authorization and checks the elements again at each step;
no property depends on either.

A confirmation is bound to what `sameBinding` compares: the action, its target (the request's
`deed`; the category goes with the action) and the tab. `click` and `sequence`, or `press` and
`sequence`, bind alike, so a confirmation asked for by one is accepted from the other.
`ConfirmedOnce` therefore speaks of the action and not of the operation.

A recording is kept twice: a mark of the task for each kind (`perm.recording`), and what the
driver records (`drv.live`). A start marks the task first (`record`), then starts (`roll`); when it
fails it takes the mark away, also that of an earlier recording which made it fail.
A stop with nothing to stop fails and keeps the mark. `finishTask` asks for marks only, so a
task can end while its trace goes on; the hazard is listed without a property, since nothing in the
repository says otherwise, and `NothingAfterEnd` promises only that no mark is left.

A confirmation for a tab that was closed before its task ended stays until it is too old; `NothingAfterEnd` says that it is for no tab that is still registered.

### 2.7 Gateway and connector

`McpGateway` has one `at` per HTTP request (its states are listed in the module) and one `op` per
tool call. A call is registered as pending and the cancellations of the same body applied in one
step; the operation begins later, inside the MCP SDK, or at once on the browser fast path. `Notice` is
the abort listener of the handler: a client that leaves while its token is verified comes too
early for it (`LeavesUnseen`). Sessions are those of `stateful-experiment`; one is
named after the request that creates it. `EdgeConnector` sends what it takes from the connection as
HTTP requests and aborts them when the connection closes or the process stops. The MCP SDK is
external: it may abort the calls of a session that is closed (`SdkAborts`), and is not relied on to.
A DELETE uses its session while the transport handles it; the transport may end the session meanwhile
(`SessionDeleted`, the `onsessionclosed` callback), and the handler closes it at the end in any case.
`due` is history: calls that a client has cancelled when a transport had them or the fast path ran
them. A call whose token is still being verified then is in no scope yet, and its cancellation is not heard.

## 3. Runs

| Run | Instance | Properties |
|---|---|---|
| `relay_safe` | a retryable read over two connections (a third while it goes on and was started on both), or two shell commands for one workspace over one connection, with a read when the pending map is full, or a change on GitHub over two connections; all kinds of response, both agent builds | `NotStartedIsTrue`, `NoStrandedWaiter`, `OkWasExecuted`, `ExecutedAtMost`, `ShellLeaseExact`, `SettledIsFinal` |
| `relay_live` | a retryable read over two connections, with the answers that send it back into its loop or say that nothing was begun | `Inv`, `CallsSettle`, `OperationsEnd` |
| `tasks` | two start calls for one command, a cancel call each, one retained record, one restart, one fault | `OneProcessPerCommand`, `QuietCancelIsFinal`, `CancelEndsProcess`, `TasksEnd` |
| `tasks_cancel` | one task | `CancelledIsFinal` is violated |
| `edge_safe` | handover between two processes of one build around a tool call; or a rollout between two builds with two changes and one restart | `WakeRestores`, `CompatibilityFresh`, `Inv`, `PendingIsLive`, `GraceUnlessChanged`, `ActiveChangeIsServed` |
| `edge_live` | a legacy and a current connector, a tool call and a session request, one restart | `EveryRequestAnswered` |
| `scm` | two or three calls with shared and separate keys and confirmations, each kind of mutation, local and over SSH, a crash, a fault | `CompletedIsReal`, `OneChangePerConfirmation`, `TriedOnce` (refinement), `NoHistoryLost`, `CallsEnd` |
| `tools` | every workspace tool alone on both executors and two profiles; pairs at one file, command or task; a client that explores the catalog | `ConfirmedOnce`, `RefusalIsClean`, `RepeatIsHarmless`, `EveryToolReachable` |
| `browser` | every operation on a tab beside the end of its task; confirmations, repeated calls, more operations than slots, opening, the private site, the reaper | `OneAtATime`, `LeaseExact`, `FinalizesAlone`, `NothingAfterEnd`, `ConfirmedOnce`, `NoTwinRuns` |
| `browser_live` | operations that wait for slots, turns, leases and the lifecycle lock while one thing goes wrong | `EveryOperationEnds`, `LockComesBack` |
| `browser_tab` | two operations on two tabs | `ActsOnItsTab` is violated |
| `gateway` | three requests: calls, fast calls, batches, cancellations, initialize, GET and DELETE, by one or two clients, behind the connector and without it | `CancelIsHeard`, `NothingLeftBehind`, `AbandonedEnds` |

### 3.1 Bounds, and why they are enough

*Relay.* A call recovers once, so two requests are the most it can make; `MaxAttempts` is
3 so that a third would be a visible violation and not a bound. Two generations give the overlap
of an old and a new socket; the third is there because a retry could in principle be repeated
on it. Two shell commands compete for one workspace with `MaxShells = 1`, which exercises both
reasons for being busy. Shell commands are interchangeable (symmetry; used only with safety
properties). `Edits` is a call that is neither retryable nor a shell command, of which the agent can say that it
began nothing. `Explored` separates the three: they share only the connection and the
pending map, and meet where that map is full (`MaxConcurrency = 2`). The kind "error" is not among
the outcomes of an operation because a refusal by the executor already produces it. The liveness run has the response
kinds after which a call may go on: lost, and not started by the agent's own word.

*Tasks.* One owner: with two the tasks only share the start queue, and the instance is too large;
`CommandsRunOnce` is proved for every assignment of owners. Two tasks with the same command is the smallest case of deduplication and of
retention (`MaxRetained = 1`). One crash and one fault, anywhere, in either order. Tasks are numbered
in the order of their start calls, which only names them.

*Edge.* Two builds and two changes give promotion and rollback; one restart, with either build,
may fall between them. Three processes, two of one build, with two connections each, give a
handover inside a process, between processes and between builds. `Explored` keeps the
handover and the rollout apart, since with both the instance is too large; the theorems of
section 5 cover their combination for the rollout properties. It also leaves out states with the
cutover stored, which only `edge_live`, with its legacy connector, can tell from the others.

*Source control.* A second call with the same key or confirmation is what the receipts are there
for; a third is allowed where both a key and a confirmation are shared. One crash and one fault are
enough for every point of failure; more would only repeat a state already reached, as a call ends
with the crash. Two commits (`MaxCommits`) let a branch move between a check and its change. The
scenarios are separate because their mutations touch separate state (branches, index, GitHub targets).

*Tools.* Three attempts are a call, its repetition and the next tool or a confirmed call; two
confirmations let one be presented in place of the other. One fault of any kind.

*Browser.* Four requests at two slots give a waiter and a newcomer that overtakes it. One owned tab
per task and one idempotency entry put both limits within reach of two requests. A scenario
combines operations that share a task, a tab, a slot or the lock.

*Gateway.* Two requests are a call and its cancellation, the third reuses the id or is another
client's. Two connections let a request of the first outlive it; two concurrent requests of three
reach the connector's limit, one session reaches the limit of sessions.

Deadlock is not checked: each system may come to rest, with all calls settled, the gateway
closed or the bounded counters used up.

### 3.2 Fairness

Only what the code or its platform ensures is fair.

* Relay: promise continuations run, armed timers fire, received frames are delivered, an end
  that is closing emits `close` (`ws` destroys the socket after its own timeout), and an
  operation whose signal is aborted settles. Not assumed: that the agent reconnects, that an
  operation finishes by itself, or that a broken network is noticed.
* Tasks: file I/O completes, a child ends (the runner has a timeout), continuations run,
  and somebody polls the tasks, since recovery happens when tasks are read.
* Edge: bodies are read and tokens checked in bounded time, delays end, and every pending
  request has its timer. No event of any connector is assumed, not even a close event.
* Source control: promises of the file system, of git processes and of fetch settle (each has a
  timeout). Not assumed: that GitHub ever handles a request or that its answer arrives.
* Tools: promises of file system, processes and audit log settle, and clients go on with what
  they intend; the latter is used by `EveryToolReachable` only.
* Browser: an operation of the driver settles (all of them have timeouts), promises continue,
  and the reaper's timer fires. Nobody is obliged to go away or to fail.
* Gateway: a closing WebSocket closes, a closed HTTP connection is noticed, and an operation
  whose context is aborted settles, which is what `CallsSettle` shows of the relay and
  `EveryOperationEnds` of the browser. Not assumed: that any operation ends by itself.

### 3.3 What the violated properties show

Each quotes a test or a comment of the repository; `PROJECT.json` names it.

* `tasks_cancel`: the pid that `onPid` persists, and a final record decided before the
  cancellation was written, overwrite a record that says `cancelled`. `QuietCancelIsFinal`
  says when a cancellation is final.
* `browser_tab`: operations of different tabs run at the same time over one driver with one
  current page. An operation selects its tab, waits, and acts on the page that is current by then.

Three properties state an exception for what the code does, at the place where it does it:
`TasksEnd` (a controller that leaks when the first write of `execute()` fails, before its `try`
block), `RefusalIsClean` (`SshWorkspaceExecutor.cancelBackgroundTask` cancels before it looks at the
workspace of the task) and `AbandonedEnds` (a client that leaves while its token is verified).
`GraceUnlessChanged` is limited to the time before a promotion, and to telemetry that knows a
generation. A promotion makes another connector the selected one without recording it as ready, so
its loss starts no grace. And connectors of protocol 2 have no generation: one that becomes ready
while a connection of protocol 3 is closing puts generation 0 into telemetry; when it is lost and the close
event of the other is handled last, that event is not about the generation in telemetry, and
nothing starts a grace. The second case came out of the proof (section 5.2).

## 4. What the passing properties say

*Relay.* `ExecutedAtMost`: whatever breaks and comes back, the agent starts a request once, a
call that is not retryable once in all, a retryable one twice. `NotStartedIsTrue`: when a caller reads
`not_started`, each request of its call was never started, or the agent itself has said that it began
nothing; for a retryable call the agent's word is about the last request only, and the first, whose
connection was lost, may have run. So a caller of a write, which is not retried, may repeat it as safely
as the agent's word is good. `NoStrandedWaiter`: nobody waits for an event that
has passed. `OkWasExecuted`: a result is one the agent computed for this call. `SettledIsFinal`,
`ShellLeaseExact`: as named. `CallsSettle` and `OperationsEnd` hold although cancellations are
lost and agents never return.

*Tasks.* Deduplication and recovery do not let a command of one owner run twice at a time, except with a
process that was cancelled, that could not be terminated, or that no record can know of; a cancellation that met no write in
progress is kept; a cancel call returns with the process gone, unless a fault came between;
and a task ends.

*Edge.* The stored rollout state is always one that the next constructor, of any build, accepts;
cached compatibility is never stale; a contract becomes active only with a stored catalog and a
connector that serves it; a pending request can always still be answered or failed; requests are
always answered.

*Source control.* `TriedOnce`: the receipts implement `MutationOnce`. `CompletedIsReal`: a receipt
says completed only of a change that is there, reconciliation included.
`OneChangePerConfirmation`: a confirmation buys one backend call of the mutation it was shown for, also under
two keys. `NoHistoryLost`: branches, local and remote, only move forward, whatever happens between
a check and its change. `CallsEnd`: no queue of a key blocks.

*Tools.* `RepeatIsHarmless`: where a tool is announced as idempotent, the repetition of a call whose first
attempt still runs or has failed at the audit changes nothing more. `RefusalIsClean`,
`ConfirmedOnce`: as stated in the module. `EveryToolReachable`: the catalog is closed, no tool needs
an input that nobody answers.

*Browser.* `OneAtATime` and `LeaseExact` hold although answered requests go on; `FinalizesAlone`
and `NothingAfterEnd` say that the end of a task excludes its operations and leaves no permission
and no mark of a recording behind; `ConfirmedOnce` that a risky act spent a confirmation asked for the same
action on the same target in the same tab, which nobody else spent; `NoTwinRuns` that a repeated call does not run beside the first, even when the registry is full.

*Gateway.* `CancelIsHeard`: a cancellation reaches its call in every scope the gateway can tell
clients apart by, before or after the operation began, once the call has passed authentication. `NothingLeftBehind`: registry, places
and use counts are exact in every state. `AbandonedEnds`: an operation nobody waits for ends,
across the connector, the HTTP connection and the registry.

## 5. Proofs

Every invariant and every action property that a passing run checks is also a theorem, and so is
the refinement of `MutationOnce`: all of `PROJECT.json`'s properties but the ten of section 5.9.
The theorems hold for every value of the constants that satisfies the assumptions of the modules:
any number of calls, connections, attempts, tasks, keys, requests, confirmations, crashes and
faults. The assumptions are

* types: bounds are natural numbers, subsets are subsets, a marker such as `None` or `Free` is none
  of the values it stands beside; mutations name branches and targets that exist;
* finiteness of the connector processes and of the background tasks, which the code has because
  it lists them;
* that what a behaviour starts from is well formed: a repository git could have made (`SourceControl`), bodies with ids and
  session headers (`McpGateway`), tasks and tabs as an earlier worker leaves them (`BrowserWorker`), lists of
  tools without repetition (`WorkspaceCalls`).

TLC evaluates all of them on the instances of section 3. Hardly any of the properties is inductive as
it stands; each subsection names what had to be added and why.

### 5.1 `AgentRelayProofs`

`RelayInvariant` proves `Spec => []Inv`; `TypeCorrect`, `AtMostOnce`, `OutcomeTrustworthy` and
`RetryLater` follow from it. None of the three safety properties is inductive. `Inv` adds:

* `AttemptBound`: recovery is used at most once and only by retryable calls, and a call back in
  its loop has spent what it has (bounds the number of requests);
* `RequestOnce`: a request is on the wire at most once over all connections and is not started
  while it is there (turns "sent once" into "started at most once", since a connection may
  close late and frames may still be delivered to a closing end);
* `OutcomeKnown`: a call that could still report `not_started` and has made a request is past the
  points where it reports (the flag is updated in the catch block, after the request was made), or
  the agent has said so of its last request;
* `DenialsTrue`: a frame that says so is about a request of which the agent said it, on whatever
  connection it still travels;
* `Outstanding`: the pending map holds only the last request of calls that wait for it, so an answer that
  is taken is about the request the call reports on;
* `GenerationsOrdered`: requests carry generations not later than the current one, and a call
  that may make another request waits for, or has seen, a later one than its last;
* `RequestMade`: needed for the types of the request a call waits on.

The proof has one lemma per group of actions for types, for what calls know (`CallInv`) and
for `RequestOnce`; the latter rests on `Losing` (channels only lose prefixes), `Sending` (one
fresh frame) and `Starting`.

Four more theorems rest on `Inv` and on a small invariant each:

* `SettledOnce` (`SettledIsFinal`): `Outstanding` again. Late responses, watchdogs, aborts and closes go through this map, so none finds a settled call.
* `WaitersAreServed` (`NoStrandedWaiter`): inductive with `Inv`; whatever makes the relay ready, or closes it, wakes
  the waiters in the same step.
* `LeasesAreExact` (`ShellLeaseExact`): `AgentInv` adds that the workspaces with a lease are as many as
  the shells that run. The executor tests the number of leases, not of shells, so the limit needs this.
* `ResultsAreReal` (`OkWasExecuted`): `AnswerInv` follows a result on its way. It is computed by the agent, then a frame on some
  connection, then what the call returns; the agent may have crashed by then.

### 5.2 `EdgeSessionProofs`

`SessionInvariant` proves `Spec => []Inv` with `Inv == TypeOK /\ Unidentified /\ WakeRestores /\
CompatibilityFresh`; `WakeIsInvisible`, `CompatibilityNeverStale` and `ActiveServed` follow.
`Unidentified` is needed because a socket that is opened, or that speaks protocol 2, must not
count as one whose compatibility was computed. The algebra is in three lemmas about the pure
functions: `ReconcileStable`, `PromotedStable` and `RolledBackStable` say that whatever state the
functions produce is accepted and left alone by the next reconciliation. `ActiveServed` is an
action property: for each action, either the active revision stays (restarts included, by
`ReconcileStable`), or `InstallServed` shows that the connector found ready for the new revision
is in `Serving` after the attachments have been refreshed.

`RelaysAreLive` (`PendingIsLive`) needs `BoundInv`: what a request of each phase is bound to, and that the
connector still holds a request that is pending on it. A connection fails its requests in the step
that handles its end.

`GraceCoversLosses` (`GraceUnlessChanged`) is about two records of one fact that are never compared: the
attachments say who can serve, telemetry says whose loss starts a grace. `GraceInv` ties them.
`SomeKnown`: while somebody could serve, telemetry has such a connection or a grace stands.
`FirstKnown`: no open connector is preferred to the one that telemetry has, since the disconnect
handler asks who is selected. `OwedKnown`: after the loss, the connection that telemetry has is one
whose close is still to be handled. That selection finds a best connector at all is `SomeBest`,
by a least counterexample over the finite sets of connections. The proof failed at first for a good
reason, the case of protocol 2 in section 3.3.

### 5.3 `BackgroundTasksProofs`

`CommandsRunOnce` (`OneProcessPerCommand`) and `CancellationsStay` (`QuietCancelIsFinal`) rest on `TasksInv`:

* `QueueInv`: start calls are in the queue and only its head writes, so the search for an
  active task of the same command is not interleaved with another one;
* `BornInv`: nothing exists of a task before its first write has been made;
* `HeldInv`: the record that `execute()` carries from wait to wait is the one it started from;
* `ChainInv`: who has put which record into the chain of writes. Writes decided earlier are made
  later; the invariant bounds what each can do to the record when its turn comes;
* `KnownInv`, `DiskInv`: a process that the manager should know of has an active record, with its pid once
  this agent is not the one that runs it, and the file says what the map says or is not there.
  A restart goes by the file alone;
* `BusyInv`: of two tasks of one command and one owner at most one has, or may get, such a process.

For cancellations the point is `ChainInv`: with nothing in the chain, what could still write over the record has
looked at it after the cancellation.

### 5.4 `SourceControlProofs` and `SourceHistoryProofs`

`ImplementsMutationOnce` (`TriedOnce`) is the refinement: `Init` maps to the initial state of
`MutationOnce` and every step to a step or a stutter, for each key. `ReceiptInv` is what it needs. `Waiting` and
`Queued` tie a call to its operation of the store and to the queue of its key; `Current` says that a
write under way was decided on the receipt that is still there, which is what the queue is for;
`Exclusive` that one call per key holds the permission to go on; `Counted` that it has been used
at most once, and by that call. A crash takes the calls and leaves receipts and counts.

`ConfirmationSpentOnce` (`OneChangePerConfirmation`) adds `ConfirmationInv`: a confirmation is pending or
spent, never both, and spent by one call, which alone is past the question.

`NothingForgotten` (`NoHistoryLost`) needs `GitInv`: the commit graph is closed under ancestors (`HistoryOK`), what a caller
saw was there (`SeenOK`), and what the git processes that have run so far have established for the next one (`AskedOK`). Others move
branches between two of them; the proof uses only what such a move cannot undo. `CompletedTellsTheTruth`
(`CompletedIsReal`) adds `HubInv`, what GitHub applied is what the call asked, and `RealInv`, a call
that is about to write "completed" writes the truth.

### 5.5 `McpGatewayProofs`

`GatewayInv` states the registry as a function of the handlers: it holds exactly the calls that run,
under their keys, and an announcement of exactly those that have not begun (`RegistryExact`); a
cancellation is with the announcement or in the aborted context (`Heard`). `CancellationHeard` then
needs `SameScope`: clients the gateway cannot tell apart share the key a cancellation names.
`SessionInv` counts: the places reserved are the sessions being created, and each session has as many
users as requests under way in it. `GatewayLeaksNothing` (`NothingLeftBehind`) is their conjunction; the
proof counts the sets that the code only keeps as numbers.

### 5.6 `WorkspaceCallsProofs`

`CallsInv`: `ShapeInv` (types, and that confirmation ids were given out), `CleanInv` (an attempt that has
changed something is past the point of refusal) and `ConfirmedOnce` itself.
`CommandsConfirmedOnce` compares two numbers, the runs of a command and the confirmations used for it:
a step that starts the command without consuming one does so for a command that needs none.
`RefusalsAreClean` follows from `CleanInv`.

`RepeatsAreHarmless` (`RepeatIsHarmless`) is an action property about the work of attempts whose clients are long gone.
`RepeatInv`: the call a client waits for is its last, of the tool it has come to (`OpenInv`); all attempts to
patch start from one content (`ReadInv`); a write under way is of that content (`WriteInv`); and the world is what the
last change has left (`LastInv`). A late attempt of the same call then finds its own result or is refused.

### 5.7 `BrowserWorkerProofs`

`WorkerInv` is `QueueInv /\ CoreInv /\ LeadInv`. `QueueInv`: a request in the queue is in the line of its
key, first once its turn has come; slots are counted by the requests that are in (`OperationsSerialize`).
`CoreInv`: an operation takes steps only in its slot and holds as many leases as its place in its
program says (`RunsInside`), which makes the number kept with the task the number of leases held (`LeasesAreExact`);
the lifecycle lock has one holder, and its task admits nobody (`FinalizationIsAlone`). The step from the
place in a program to what is held is `StepIs`: each step of an operation has one of a few effects on
leases, states and places, whatever it does to tabs and driver. `LeadInv`: the registry forgets only what has settled
(`RepeatedCallsShare`).

`ConfInv` (`ConfirmationsSpentOnce`): a pending confirmation was answered to a request that has ended, for the
action, target and tab of that request, and one that was spent is gone and has one spender. `EndInv` (`NothingOutlivesATask`): a tab in use is attached to its task,
is known to the finalization of it, and a tab that is being opened is known to nobody until it is attached
(`UsedAttached`, `Picked`); so what a finalization discards is all there is, although opening runs beside it. A mark is set only by a
start that holds a lease of the marked task (`OverClean`), so none appears after the end.

### 5.8 Libraries

Facts about finite sets and cardinalities are cited from `FiniteSetTheorems`. `AgentRelayProofs` and
`BrowserWorkerProofs` begin with lemmas about the operators on sequences that the models use.

### 5.9 Checked by TLC only

* Liveness under fairness, which the prover does not do: `CallsSettle`, `OperationsEnd`,
  `CancelEndsProcess`, `TasksEnd`, `EveryRequestAnswered`, `CallsEnd`, `EveryToolReachable`,
  `EveryOperationEnds`, `LockComesBack`, `AbandonedEnds`.
* The violated properties of section 3.3, which are counterexamples.

## 6. Not modelled

* Time is never measured: deadlines, intervals and backoff are nondeterministic.
* Payload sizes appear only where a limit leads to another outcome.
* Relay: what operations do; the contents of messages beyond the kinds told apart.
* Tasks: stdin of interactive tasks, log contents and the incremental reader, the
  polling of wait, reuse of pids by the operating system.
* Edge: `getStatus`, session diagnostics, counters and evidence in telemetry, the answers the
  control plane gives to discovery by itself, the owner bootstrap call, the chunks of a snapshot
  (its header is written last, so a partial one does not count).
* A client that leaves before its request is relayed is not noticed by the edge; the model has
  no client that could tell.
* Source control: contents of commits, conflicts inside files, credentials, and branches whose name is
  the tail of another one's (`remoteBranchSha` takes the first line of `ls-remote`, which lists both).
* Tools: forms of values, wording of answers, path resolution, search, log rotation.
* Browser: what happens inside a page, the next pages of an extraction, the waits inside a reconnection, credentials of a login, files that are uploaded or saved,
  the restart from checkpoints beyond a task that begins suspended.
* Gateway: configuration, origin check, reconnect delays, headers, the gateway's own OAuth.
* Components marked `not_modelled` in `PROJECT.json`, each with its reason.

## 7. Plan

In the order of their value. Done: the agent relay, background tasks, the edge session with the
contract rollout, source control with its abstract specification, the workspace tools, the browser
worker, the gateway with its connector, and theorems for every safety property of their runs.

1. Proofs: the safety part of what the liveness properties rest on (`CancelEndsProcess`: a cancel call does not return
   before the process is gone; `LockComesBack`: a lock that is held has a holder that can take a step).
2. `EdgeConnector` in place of the connector that may do anything in `EdgeSession`.
3. `OwnerOAuth` for both providers: single use of codes and refresh tokens across waits;
   tables and file agree after a failed write and a restart.
4. Pure functions with reference definitions: the UTF-8 cursor of the log reader, path
   resolution, command risk, policy merge, timeout policy.
5. An abstract relay (a call is executed zero, one or two times and settles with a truthful
   outcome) with `AgentRelay` as its implementation, by the refinement mapping that `Inv`
   already supports.

Runs are merged where one instance answers several questions, so that the whole set stays quick
to repeat.
