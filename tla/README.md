# Formal model of the Yeaft agent

This directory holds TLA+ specifications of the parts of Yeaft whose
correctness depends on the order in which things happen, the TLC
configurations that check them on small instances, and TLAPS proofs of the
properties that matter most. Paths below are relative to the repository's
`src/`; store.js, watcher.js and so on without a directory are in
`agent/yeaft/work-center/`.

## 1. The system

A **browser** (`web/`) talks over WebSocket to a **server** (`server/`), which
relays to **Agents** (`agent/`). An Agent is one Node.js process on a user's
machine; it runs LLM engines, sub-agents and scheduled tasks, and the **Work
Center**, which carries out long-lived goals (WorkItems) without supervision.
The Work Center is the part with real transactional and concurrent logic, and
the part whose mistakes are expensive: it starts agents that write to the
user's repositories, across crashes and restarts.

### 1.1 Inventory

| component | state it keeps | operations | interacts with | what makes it correct |
|---|---|---|---|---|
| **Durable store** (`store.js`, `transaction.js`) | SQLite tables work_items, actions, runs, coordinator_mailbox_entries, coordinator_provider_turns, operations, engine_turns, pending_action_inputs | one synchronous transaction per method: claim, finalize, interrupt, defer, recover, invalidate, guide, retry, resume, apply a Coordinator decision | called by watcher, service, runner, coordinator | a write of a Run is accepted only from the holder of the Action's present lease and generation; the tables stay consistent with each other |
| **Watcher** (`watcher.js`) | interval timer, lifecycle, single-flight tick, map of active executors | start, stop, tick, lease renewal, abort | store, runner, controller | at most one executor may commit for an Action; what a dead or stopped process left running is taken up again |
| **Runner** (`runner.js`, `workspace.js`) | Git worktrees of isolated Actions, runtimes | prepare (isolate, integrate, fall back), run, cleanup | store (workspace fences), engine | Actions that clash do not share a working tree |
| **Controller** (`controller.js`, `workflow.js`, `plan-mutation.js`, `durable-model.js`) | none (pure rules over store rows) | submit, create, update, start, cancel, resume, retry, guide, input | store, service, watcher | an outcome becomes exactly one legal transition |
| **Resource control** (`resource-control.js`) | request ledger, limits, stop reason, retry back-off | reserve, settle, canAttempt, coordinatorFailed, stop, extend, resume | store trigger, runner, coordinator | no dispatch beyond a limit; a stop is durable and only a user lifts it |
| **Coordinator** (`coordinator.js`, `dynamic-coordination.js`, mailbox and provider turns in `store.js`) | mailbox entries with a lease, provider turns, the thinking message | message, advance, dispatch, respond, complete, fail, recover | service, store, LLM provider | no settled Action is forgotten; a decision applies at most once and only to the state it was made for |
| **Service** (`service.js`, `bridge.js`) | process boot id, recovery timer, task maps | the browser's operations, scans for due schedules, wakes and recoveries | everything above | commands and background work do not undo each other |
| **Durable operations** (operations table in `store.js`) | idempotency key, execution and effect status | create and claim, complete, recover | runner's tools, controller | an external effect is not repeated when its outcome is unknown |
| **Action inputs and engine turns** (`store.js`) | pending inputs, prepared turns | add, prepare, claim, consume, fail, recover | runner, service | a user's message to a running Action is delivered exactly once |
| **Schedules** (`recurrence.js`, `store.js`) | next occurrence, attempt of a schedule | due scan, dispatch, failure back-off | service | each occurrence creates one WorkItem |
| **Projections** (`projection.js`, `mainline-projection.js`, `debug-projection.js`, `goal-state.js`, `evidence.js`) | none | views for the browser | service | they show what the tables say |
| **Sessions** (`agent/yeaft/sessions/`) | session files, scheduled tasks, route queues | create, delete, schedule, wake | engine, web bridge | a scheduled task fires once per occurrence |
| **Tasks and result delivery** (`agent/yeaft/tasks/`) | task table, delivery records | start, settle, deliver | sub-agents, engine | a result reaches its parent once |
| **Sub-agents** (`agent/yeaft/sub-agent/`) | handles, prompt queue, liveness | spawn, send, wait, close | engine, tasks | a queued prompt is neither lost nor run twice |
| **Person runtime** (`agent/yeaft/person/`) | profile and task-host SQLite stores | host tasks, recover | engine | a hosted task survives a restart |
| **Connection** (`agent/connection/`, `agent/workbench/`) | outgoing buffer, heartbeat, upgrade state | connect, flush, acknowledge, upgrade | server | buffered messages survive a reconnect in order |
| **Asset outbox, VP status broker** (`agent/yeaft/asset-outbox.js`, `agent/yeaft/vp-status-broker.js`) | queues | enqueue, flush | connection | nothing is sent twice or dropped silently |
| **Browser runtime** (`agent/browser-runtime/`) | pending requests to the extension | request, time out, answer | extension | a late answer does not meet a new request |
| **Server** (`server/`) | sockets, correlation tables, file assembly | relay, correlate, assemble | agents, browsers | an answer goes to the client that asked |
| **Web client** (`web/`) | Pinia stores | reduce events, send commands | server | the view converges to the Agent's state |
| **Engine, conversation, memory, tools, LLM adapters** (`agent/yeaft/engine.js`, `conversation/`, `memory/`, `tools/`, `llm/`, ...) | conversation logs, memory files | model turns, tool calls, compaction | everything | mostly data transformation and I/O |

### 1.2 What is hard

* **Interleaving.** JavaScript does not preempt, and one store method is one
  transaction, but `tick()` awaits between claiming a Run and starting it, the
  executors await for minutes, `stop()` awaits twice, and users' commands and
  Coordinator decisions arrive in between.
* **Crash and lease expiry.** Everything is recovered from the tables: the Runs
  of an earlier boot id or with an expired lease are taken back, possibly while
  their executor still works.
* **Stale writers.** An executor that lost its Run finds out later. Whatever it
  then writes must be refused: a submit, a renewal, a change of workspace, an
  interruption.
* **Two halves of one fact.** "Run r owns Action a" is written in both rows, in
  a dozen places; the status of the WorkItem is derived in five of them.
* **Limits.** Attempts, lifetime attempts and token budgets stop execution at
  boundaries; a stop can be lifted and exceeded again.

## 2. Modules

| module | what it models |
|---|---|
| `ActionRuns` | The execution core: WorkItems, Actions and Runs in the store, the watcher with its tick, executors, stop and start, lease expiry, crash and boot, the users' commands, the decisions of the Coordinator, and the stop of the resource control. |
| `CoordinatorMailbox` | The Coordinator of one dynamic WorkItem: mailbox entries with their leases and epochs, turns and the thinking message, the requests to the provider, crash at every point, boot, the recovery scan, resume, shutdown. |
| `ActionInputs` | The messages a user adds to one Action: pending rows, the engine turns that carry them, the Engine's loop that drains and answers them, and every command that withdraws them. |
| `InputDelivery` | What a user may rely on: the attempt that completes the Action has read every message that counts. `ActionInputs` is checked and proved to implement it. |
| `RunOperations` | Tool calls with an effect outside the Run, and the record of them, through crashes, lost leases and time-outs. |
| `ResourceControl` | The ledger of provider requests and the durable stop of one WorkItem, with both kinds of adapters and both kinds of callers. |
| `ScheduledTasks` | The scheduled task of one Session: its file, the scheduler's tick, and the way of a prompt into the Session. |
| `AgentOutbound` | The Agent's queue and buffer of messages to the Server, its connection, and the outbox of generated images. |
| `ActionRunsProofs`, `ActionRunsHistoryProofs`, `CoordinatorMailboxProofs`, `ActionInputsProofs`, `RunOperationsProofs`, `ResourceControlProofs`, `ScheduledTasksProofs`, `AgentOutboundProofs` | Theorems about these specifications, for every instance (section 4). |
| `MC*` | For each specification, the instances TLC checks. |

The specifications are views of one store, and each keeps of the others what it
needs. `ActionRuns` and `CoordinatorMailbox` meet at two interfaces. What a committed decision does to
the Actions is `CoordinatorStep` of `ActionRuns`, which has no turns; how a turn
comes to commit at all, and exactly once, is `CoordinatorMailbox`, which keeps of
the Actions only whether one is ready or running. And the wake that a settled
Action leaves is `mail` in the one and an entry in the other. `ActionInputs` and
`RunOperations` take the claim, the lease and the end of a Run from the same
transactions as `ActionRuns`, and add what these do to inputs and operations,
which `ActionRuns` leaves out. `ResourceControl` adds to the stop that the others
take as a step of the environment the requests that cause it.
`ScheduledTasks` and `AgentOutbound` are about other parts of the Agent and share
no state with these.

### 2.1 ActionRuns

State and its counterpart in the code:

| variable | code |
|---|---|
| `item[w]` | row of work_items: `status`, `rev` (revision), `ledger` (ledger_revision); its execution control: `stopped` (stop_reason is set), `exhausted` (actionId of an `action_attempts_exhausted` stop), `ext` (action_attempts_extension); its mailbox: `mail` (entries not yet acknowledged), `reconciled` (ledger revisions used in a `dynamic:reconcile:` source key) |
| `act[a]` | row of actions: `status` ("absent" before it is created), `rev` (contract_revision), `attempt`, `gen` (generation and spec_hash, which change together), `epoch` (lease_epoch), `run` (current_run_id), `result` (result_run_id), `mode` (workspace_mode), `resv` (an unexpired integration reservation is stored in its workspace) |
| `run[r]` | row of runs: `status`, `action`, `owner` (owner_boot_id), `epoch`, `gen`, `fresh` (expires_at is in the future), `deferred` (failure_kind 'resource_deferred') |
| `boot` | `WorkCenterService.ownerBootId` of the running process |
| `life`, `timer` | `watcher.lifecycle` (and "down": no process), `watcher.timer` |
| `tick`, `exec` | `watcher.tickPromise` and how far its claim is; `watcher.activeRuns` and whether the entry's signal is aborted |
| `halting`, `stopping` | the `await` a call of `watcher.stop()` is at, and its `stoppingRuns` |
| `ops` | counters of the bounded environment steps |

One action is one synchronous piece of JavaScript: a store transaction with
what its caller does before the next `await`. The groups of `Next` are:

* `WatcherStep`: a tick enters (`TickStart`, which recovers expired Runs
  first), claims (`Claim`, or `ClaimStops` when the candidate has used up its
  attempts), prepares, starts the executor, or ends. `Prepare` covers the
  outcomes of `runner.prepare`: nothing to do, isolated or integrated, or a
  fall-back to the shared workspace, which changes the Action's generation and
  rebinds the Run to it; `PrepareDeferred`, `PrepareFails` and `PrepareStopped`
  are its error paths.
* `ExecutorStep`: the executor submits one of four outcomes, returns after an
  abort, or its renewal is refused.
* `LifecycleStep`: `stop()` in its three pieces, `start()`, and the start of a
  process.
* `UserStep`: start, update, cancel, resume, retry, guide, extend; and the two
  ways a request of the WorkItem closes admission, `StopExecution` (a refused
  reservation) and `SettleExceeds` (a settled one).
* `CoordinatorStep`: the five kinds of decision, made automatically or in
  answer to the user, with or without a refinement of the contract.
* `FailureStep`: crash, crash inside the finalization of an integration, expiry
  of a lease or of a reservation.

Points where the translation took thought:

* `recoverInterruptedRuns` loops over rows in the order SQLite returns them,
  and each row rewrites the WorkItem status that the next row of the same
  WorkItem reads. `RecoverInOrder(f)` computes the result for one order, and
  `Recover` allows any order.
* `interruptRun` requires the WorkItem status `running`, and sets another one.
  So of two Runs of one WorkItem the loop of `stop()` interrupts the first and
  the second throws: `InterruptedByStop`.
* The stop of a WorkItem works through a database trigger that rewrites any
  status but `cancelled` to `needs_attention`. `Stored` is that trigger, and is
  applied wherever the code writes a status; `interruptRun`'s WHERE clause reads
  the rewritten one.
* A turn of the Coordinator takes minutes, but its commit is refused unless the
  revision, plan, ledger and coordinator revisions of the WorkItem, the
  identities of its open Actions (`coordinatorActionFence`) and the mailbox claim
  are what they were when it began. A turn that commits is therefore one action.

Left out, with the reason: blocking Operations, pending inputs and engine
turns (modules of their own); schedules (see the plan); attachments, events and
conversation entries (append-only data nothing in the model reads); deletion of
a WorkItem; the legacy (not dynamic) coordination mode, which the service no
longer creates (`service.js:288`); a recovery turn in progress, which holds back
claims of its WorkItem; exceptions of `submit` other than a lost fence; two calls
of `stop()` at the same time. The order of claims (`updated_at`, `sequence`) is any
order. The coordinator's `retry_after` delays a turn and so is covered by the
turn not being taken yet.

### 2.2 CoordinatorMailbox

| variable | code |
|---|---|
| `wi` | the WorkItem: `status`, `stopped` (stop_reason is set), `backoff` (retry_after is in the future), `credit` (maxCoordinatorFailures minus the failures counted), `action` (no Action to run, one ready, one running), `ver` (see below) |
| `entry[e]` | row of coordinator_mailbox_entries in the order of `sequence`: `kind` (a user's message or a wake), `status`, `epoch` (claim_epoch), `live` (lease_expires_at is in the future), `turn` (payload.turnId) |
| `turn[t]` | the assistant message of turn t: `status`, `auto` (automatic), its `entry`, and `rows`, its rows of coordinator_provider_turns by attempt: `status`, `epoch` (claim_epoch), `asked` (what request_hash covers) |
| `exec` | the calls of `#executeTurn` that have not returned: their fence (`turn`, `epoch`, `ver`), prompt (`text`), attempt, the await they are at (`pc`), and whether the drain waits for them (`driven`: an entry of dynamicCoordinatorTasks) |
| `life` | the process: up, closing (`shutdown()` was called), down |
| `scan` | which of its three transactions `#scanCoordinatorProviderRecoveries` is at |
| `left` | what is left of the bounds of the environment steps |

`Init` is the state after `startWorkItemAtomic`: one wake. The awaits of
`#executeTurn` are the pcs: `start` (runtime, policy), `prepared` (before the
adapter calls back), `calling` (the provider). From a response to the decision or
to the next request there are only microtasks, so in `answered` and `again` no
other step of the process comes in between, only a crash or the clock.

* `Advance` and `AdvanceRefused` are the drain of wakes: it chooses an entry,
  `advance` claims the one with the lowest sequence and gives it back if it is
  another one. `Message` is a user's message. `AdvanceCut` and `MessageCut` are
  the crashes between the two transactions of each.
* `PrepareNew`, `PrepareAgain`, `PrepareChanged`, `PrepareLost` are the four
  outcomes of `prepareCoordinatorProviderTurn`. `Dispatch` and `Respond` are
  the compare-and-set steps around the call. `InvalidResponse` rejects and asks
  again, `DecisionRefused` and `ExecError` end in `failCoordinatorTurn`, which is
  `FailTurn`.
* `Answer`, `CreateActions`, `Complete` are the decisions, all through `Commit`,
  the fences of `completeCoordinatorTurn`.
* `ScanTurns`, `ScanMailbox`, `ScanResume` are the recovery scan, and `Boot` is
  the constructor of the store: return lapsed entries, mark requests in doubt
  unknown, and fail the thinking turn unless it is recoverable.
* `LeaseExpires`: the lease of a live turn is renewed by a timer, so it lapses
  only by a suspended machine or a blocked event loop (counter `lapses`); one
  that nobody renews lapses in time.

Abstractions. `ver` stands for all that the fence (`revision`, `plan_revision`,
`ledger_revision`, status, `coordinatorActionFence`) and the snapshot in the
prompt are computed from; every step that changes one of them increases it.
`coordinator_revision` changes only when a turn begins or ends, and is replaced
by the check that the turn still thinks. `text` is the last part of the prompt:
the message, the trigger an advance writes out, or nothing. An epoch is only
compared for equality, so the next one is any that no row, claim or executor of
the entry holds. One Action stands for all, and the Runs of one Action that is
retried in a living process for one Run.

Left out: the `recover` turns of legacy graphs; changes of settings or VPs
between two requests (they change the hash as `ver` does); attachments and
`clientMessageId` (a message is new); the reservation of an integration (it
refuses a commit as `ver` does); the request ledger; a response that arrives
after its call was aborted (`respondCoordinatorProviderTurn` refuses it); the
schedule of a recurring WorkItem.

### 2.3 ActionInputs and InputDelivery

| variable | code |
|---|---|
| `item`, `act`, `run` | as in `ActionRuns`, for one Action; `act.context` is the messages in its canonical context, `run[r].accepting` is accepting_input |
| `row[i]` | the row of message i in pending_action_inputs: waiting, consumed, superseded, or `direct` (it went into the context at once); the Run and the generation it is bound to, and in `event` the last generation that an `input_added` or `input_rebound` event names |
| `turn[r]` | the engine_turns of Run r with their inputs and status |
| `exec[r]` | the loop of the Engine in memory: where it is (`pc`), what its instruction said (`prompt`), what it drained (`said`: the set of all of it; `new`: the last of it), whether a turn is open (`activeProviderRequest`) |
| `known[r]` | history: the messages that the answered requests of Run r contained |
| `dropped` | history: messages that a restart of the Action left out |

`AddToReady`, `AddToRunning` and `AddToSettled` are `addActionInput` and, for an
Action that waits, failed or completed, the restart that carries the message.
The Engine's loop is `Drain`, `PrepareTurn`, `ClaimTurn` (the callback next to
the request), `Answer` or `AnswerBreaksOff` or `RequestFails`, `CloseInput` and
`Submit`. `Claim` moves what an earlier Run left into the context (`Promoted`),
`FallBack` rebinds the rows when isolation falls back after the claim. Between
the preparation of a turn and its claim no other code runs, only a crash
comes in between, which is why `Next` lets nothing else happen while a loop is
`prepared`. `Boot` is `recoverEngineTurns` followed by `recoverInterruptedRuns`.

`InputDelivery` says what all this is for. A message is unsent, accepted, read or
withdrawn; an attempt that ends takes what it read with it (`GiveUp`); the Action
completes only when no message is accepted and unread (`Complete`). The mapping
(`Fate`) computes this from the rows, the events and `known`.

Left out: the text and order of messages (the Engine keeps them by event);
attachments; the legacy mode; a second Action. The generation stands for
generation and spec_hash.

The Engine may push a message into its conversation more than once: one that is
drained after an answer without tools (engine.js:3901), or because the input could
not be closed (engine.js:4040), gets no turn at once; its row stays pending, and the
drain before the next request (engine.js:2722; the callback of runner.js:1291 returns
all pending rows) pushes it again. `said` is a set and does not count this, and no property
speaks of it. What `InputsInv` excludes is that a message is both in the
instruction of a Run and in its queue of pending rows.

### 2.4 RunOperations

| variable | code |
|---|---|
| `item`, `act`, `run` | one dynamic WorkItem with isolated Actions; how a Run ended is left out |
| `op[o]` | row of operations under the key of Run and ordinal: `type` (Bash or one that is tracked), `effect` (effect_status), `exec` (execution_status) |
| `up`, `watching`, `exec` | the process, its watcher, and whether the executor of a Run thinks or waits for a tool |
| `flying` | tool calls in progress in the process, also those nobody waits for any more |
| `touched` | history: tool calls that have an effect before they return or die |

`StartTool` is the lifecycle around a tool (`createAndClaimOperation`, refused when the Run is
no longer active), `ToolReturns` its completion, which is refused in the
same way when the Run is gone and then leaves the row as it is; `ToolTimesOut` ends the
wait after which the Run goes on and may end while the tool works
(`registry.js:309-336`). Three places read the table: the claim
(`UnsettledEffects`: all Actions of the WorkItem), the completion
(`CanComplete`), and the choice between another attempt and attention when a
Run ends (`AgainOr`). `Recovered` is `recoverOperations` at boot.

Left out: identities, input, and the stop (in `ActionRuns`, `ActionInputs`);
the reconciliation of Bash operations of an earlier version.

### 2.5 ResourceControl

| variable | code |
|---|---|
| `db` | the row of execution control (`limits`, `extension`, `stop`, `revision`, `failures`, `waiting`), the ledger (`rows`: caller, estimate, charge, status), the status of the WorkItem and its execution epoch |
| `callers` | the Runs and Coordinator turns in the order they began, whether each still owns its lease or claim (`live`), and how far its request is (`phase`) |
| `adapter` | for each kind of caller: native (reserves next to fetch, once for each retry) or legacy (reserves when it is invoked) |
| `view` | the revision and the stop that the user's browser shows, from which commands are sent |
| `sent` | history: for each row of the ledger, how often it reached the provider and the usage a complete answer reported |

`Request`, `Retry` and `Callback` are `reserve` with its refusals (`Denied`,
`Fits`, `RunExhausted`), which stop the WorkItem; `Answer` and `Break` are
`settle` with complete and with unknown usage; `FailTurn` counts against the Coordinator's limit;
`Extend` and `Resume` need the revision the user saw (`Current`). A row of a
process that crashed stays reserved: its estimate stays charged.

Left out: the import of a ledger from before this one, the usage by kind of
token, dataRevision. Who may become a caller and how it loses its lease are in
`ActionRuns` and `CoordinatorMailbox`.

### 2.6 ScheduledTasks

| variable | code |
|---|---|
| `file` | session.json: whether the Session exists, its identity, and `scheduledTask` (enabled, trigger, revision, count of scheduled runs, next occurrence, last run) |
| `now` | the clock in minutes |
| `up`, `ready` | the process; the Server's context for the Session has arrived on this connection |
| `active`, `backoff` | `runs.get(sessionId)` of the scheduler; retryAfter lies in the future |
| `ingress`, `engine`, `chat` | the dispatched prompt on its way (`admitted`: the guard has passed it, and the classifier is asked), the run whose prompt the Session executes, a turn of the user's own |
| `plan`, `claims`, `executed` | history: the number of the trigger, every claim of a run, the runs whose prompt was accepted |
| `fenced` | history: the runs that were stopped with their prompt on its way, or whose task was edited or deleted before the guard admitted the prompt |

`Tick` is one pass of `tick()` for the Session: a run whose end is due is
finished, otherwise a due occurrence is claimed (`Claimed`, one write of the
file) and dispatched, or skipped (`Missed`). The guard (`Passes`) is evaluated once,
after the boot of the runtime (web-bridge.js:5373). With no thread of the VP running,
the turn starts in the same step (`Accept`). Otherwise a model is asked where the
prompt belongs (web-bridge.js:2425): `Admit` is the guard and the question,
`Classified` the answer, by which the prompt gets a turn of its own or is appended to the one
that runs. In between anything may happen, and after it only the cancellation of the ingress is
looked at (2438). So a stop keeps the prompt out (`Reject` of an admitted
prompt), but an edit, a pause, a deletion or a lost connection in this window does not: the
outdated prompt is executed. `NoStaleExecution` says what is kept, with this
exception. `Reject` of a prompt not yet admitted is a cancelled ingress or a guard
that refuses. `TurnEnds` and `ChatEnds` are what `observe` sees. `WriteFails` is a
failed write within a tick, `Boot` is `recover` for each file.

A calendar rule is the set of its instants: `recurrence.js` computes them and is
not modelled. `observe` cannot tell the turns of the user from those of the
tracked run; the field `mixed` records that this happened, and
`CompletedWasExecuted` excepts it. A one-shot whose time had passed before the
last run started is given up by `recover` (`OneShotKept` excepts it).

### 2.7 AgentOutbound

| variable | code |
|---|---|
| `conn` | `ctx.ws`: its number and state (closed, open, authenticating, registered) |
| `mem` | the memory of the process: outbound queue, message being encrypted or written, `messageBuffer`, the flushes under way, the drain of the outbox and its retry timer; history: which messages were buffered (`parked`), given up (`lost`), and `written` on which socket |
| `wire`, `acks`, `server` | images and credentials travelling to the Server, acknowledgements travelling back, and the socket the Server holds as the Agent's |
| `outbox`, `shelf` | the files of the asset outbox; images stored, refused for good, or deleted with their Session |
| `born`, `images`, `load`, `faults` | what was produced, and the bounds |

`Produce` is a call of `sendToServer` (`Sent`, `Buffered`, with the evictions of a
full queue and buffer). `Take` is the loop over the queue up to the await of the
encryption, `Sending` what follows it: the connection may be another one, and the
message is then buffered or, if it belongs to a connection (`Misplaced`), given
up. `Register` starts a flush (`Spliced`), `FlushStep` sends one of its messages.
The outbox is `Enqueue`, `DrainStep`, `RetryFires`, `AckArrives`,
`RemoveSession`; the Server's side of it is `Deliver` and `Store`.

Messages weigh 1, so limits in bytes and in messages are limits in messages.
What becomes of a message that is not an image after it was written is
left out, and so are incoming commands, the heartbeat's timers, upgrades, and
the close code 1008, after which the Agent does not reconnect.

## 3. What is checked

The properties in the order of the modules. The invariants named `...Inv` are the
type invariant of their module together with the state invariants they list by
name, and are what the inductive invariants of the proofs extend.

| run | properties | what it shows |
|---|---|---|
| `runs_recovery` | TypeOK, RunFence, NoBlindRedelivery, ReservationHolds, LostRunIsLetGo | With crashes, expiring leases, an interrupted integration and one user command: ownership is recorded in both rows or in none; a `deliver` Action that was interrupted is not run again in its generation; a reservation protects its Action from everybody but guidance. Under fairness a lost Run is let go: its row ends and its executor has stopped, unless the watcher is not running |
| `runs_workspace` | WorkspaceExclusion, ResultIsCanonical | Two WorkItems in one workspace, three Runs at once: also when isolation falls back to the shared workspace after the claim, no two clashing Actions run; a completed Action names the Run that completed it in its present generation |
| `runs_commands` | ClosedItemIsQuiet, DoneHasEvidence, AttemptsBounded, HistoryIsFinal | Two user commands, a Coordinator decision and two stops or starts of the watcher on one Action and its late executors: what has ended keeps its outcome; a done or cancelled WorkItem has nothing left to run; done rests on a completed Action of the present contract; attempts never exceed the limit |
| `runs_wake_lost` | ExhaustionWakesCoordinator | A statement of a test and the documentation that the code does not keep; see 3.3 |
| `mailbox` | TurnsInv, OneExecutorActs, DecisionMatchesRequest, WakeIsKept | A crash at any point (also inside a chain of microtasks and between two transactions), or a live turn that loses its lease, with one command and one decision that creates Actions: only the latest turn thinks; of the executors alive one at most can act, and none for a retired turn; the WorkItem is stopped before more turns fail than its limit allows; a decision is committed only on the state that its request showed, also when the response is replayed after a restart; a wake is acknowledged only by a decision, a stop, or a request whose outcome is unknown or rejected |
| `mailbox_live` | TurnSettles, WakeIsAnswered | Without crashes, with an orderly shutdown and restart: a thinking turn always ends, and a wake of a WorkItem that stays active is answered |
| `mailbox_unknown` | UnknownTurnSettles | What a crash makes of the first of these; see 3.3 |
| `inputs` | InputsInv, WithdrawnStaysOut, DeliversInputs, InputSettles | Two messages with a command or a fault, and one message with both: what the instruction of a Run says is not pending for it as well; a withdrawn message never returns to the context; `ActionInputs` implements `InputDelivery`, so an Action never completes with a message unread; and no message stays pending under a live identity |
| `operations` | ToolsInv, DoneIsSettled, NoBlindRerun, OnlyUnknownBlocks | Two Actions, two Runs, one tool call each, one command and one fault: no Run is started while a tracked tool of the WorkItem is in progress or has an effect the record does not state; none works beside the successor of its Run; a done WorkItem has every effect on record; and only an unknown effect blocks |
| `schedules` | OccurrencesInv, CompletedWasExecuted, NoStaleExecution, RunEnds, OneShotRuns | A one-shot and a recurring trigger with a limit of two runs, over three minutes with two commands and one fault: an occurrence is claimed once and a one-shot is not lost; while the Session executes a run the file says so; a prompt that was stopped on its way, or whose task was edited or deleted before the guard admitted it, is neither executed nor reported as completed, also when a turn of the user's own makes the classifier come between; a completed run was executed; every run gets an outcome and a due one-shot runs |
| `resources` | BudgetInv, NothingIsFree, StopHolds, LedgerIsKept | Two callers with all limits at one or two, costs below and above the estimate, two commands and one crash: the ledger undercounts nothing, a limit is exceeded only by what answers cost beyond their estimates, nothing is sent by a caller from before a resume, and a stop is lifted only by a user who saw it |
| `outbound` | PlacesInv, OvertakenWereBuffered, ChunkStaysOnConnection, TerminalsOutlive, ImageArrives | Up to three messages or two images with up to two faults, a queue of one and a buffer of two: no message is lost track of or doubled, only the buffer changes the order, a chunk stays on its connection, the end of a turn outlives the limits, and an image is kept until it arrives |

### 3.1 Bounds and why they are enough

In `ActionRuns`, every bound is a constant of the specification and named in its guard:
`MaxRuns` (Runs ever claimed), `MaxBoot` (process starts), `MaxCommands`,
`MaxDecisions` and `MaxStops` (environment steps). The hazards need two
Runs of the same Action (an old executor and its successor), or two Runs of one
WorkItem at a time (recovery order), or three across two WorkItems (a
fall-back that meets a foreign reader and writer); two boots (before and after a
crash); `MaxAttempts = 2` so that an Action can be retried and can run out of
attempts (1 in `runs_workspace`, where a second attempt adds nothing); `MaxLifetime` 1 or 3 so that the lifetime limit binds first or never.
Each passing run takes the dimension its properties are about and drops the
others: `runs_workspace` has no commands, `runs_recovery` no stop of the watcher,
`runs_commands` no crash.

In the later modules the bounds are counters of the environment's steps, `Max`
(the same for the whole run) or `Loads` (a set; a behaviour begins by taking one of
them, so that one run covers several narrow instances instead of their product).
In every one "command" counts what users do and "fault" what goes wrong, and one or
two of each suffice for the hazards, which are about one thing coming between two
steps of another:

* `CoordinatorMailbox`: one crash, or one lost lease, with a command and a decision.
  Failed turns are bounded by the code itself (`Failures = 2`, so that a turn can
  fail and the wake be tried again, and the limit can be met). Four epochs are
  enough for a claim, a row, and two executors to differ.
* `ActionInputs`: two Runs (one that loses its inputs, one that inherits them), two
  attempts, two messages (one in a request, one that arrives meanwhile).
* `RunOperations`: two Actions, because an effect of one holds back the other; two
  Runs and one tool call each.
* `ScheduledTasks`: three minutes give a recurring task an occurrence before,
  during and after a run; `Grace = 0` makes every later minute late.
* `ResourceControl`: two callers and limits of one and two let each limit be met,
  and be met by two callers at once; estimate 2 with costs 1 and 3 lies on both
  sides.
* `AgentOutbound`: three messages with a queue of one and a buffer of two fill both;
  two faults are a broken connection and a second one, or a crash, after it.

`CHECK_DEADLOCK FALSE` is set in every run: with all bounds used up and nothing to
do the system rests, as the program does. No run uses symmetry: Actions, Runs, turns, messages
and tasks are numbered and compared by order. (The two Actions of `operations`
could be exchanged, but the run has temporal properties, for which symmetry is
unsound.)

### 3.2 Fairness

`FairSpec` of `ActionRuns` asks for weak fairness of what the process itself schedules: the
watcher's interval timer and the continuation of its tick, the two continuations
of `stop()`, the renewal interval of each executor, the return of a runner whose
signal is aborted, and the end of a reservation (time passes). It assumes
nothing about users, the Coordinator, crashes, restarts, or whether an executor
that still owns its Run ever finishes; a lease may expire but need not.

In `CoordinatorMailbox` it asks for weak fairness of the executors (a request
is answered, fails, or is aborted), the drain and the recovery scan (the
service's recovery timer), the lapse of a lease that no executor renews (time
passes), the end of the back-off, the watcher's claim and the end of a Run, the
end of `shutdown()`, and the next boot. The boot is assumed because "not for ever"
is said of an Agent that is started again; nothing is assumed of users, stops,
crashes, or which way an executor ends.

The other modules follow the same rule: what a timer, a loop or a pending promise
of the process does goes on, time passes, and the Agent is started again; no
user, no fault and no particular outcome is assumed.

* `ActionInputs`: the boot, the watcher's claim and recovery, the steps of each
  Engine loop, and the lapse of a lease that no loop renews.
* `RunOperations`: the same, and a tool call that is in progress ends at some time
  (the process gives a tool its time-out, but does not kill it; a tool that
  never ends keeps its operation running, which is then true). `OnlyUnknownBlocks`
  is about a watcher that stays on.
* `ScheduledTasks`: the tick, the end of the back-off, the clock, the ingress
  (the classifier answers or fails, and a failure is an answer), the end of turns, the Server's context after a reconnect, the boot.
* `AgentOutbound`: the loops, the retry timer, reconnecting and registration, and
  the delivery of frames on an open connection.

`ResourceControl` has safety properties only.

### 3.3 Disagreements between the code and what is said about it

* **A wake that is swallowed** (`runs_wake_lost`, `ExhaustionWakesCoordinator`).
  An Action that is interrupted, or fails as `retryable`, in its last attempt
  asks for a reconciliation under the key
  `dynamic:reconcile:<WorkItem>:<ledger revision>`, but neither outcome advances
  the ledger revision. When a second Action of the WorkItem runs out of attempts
  with the same ledger revision, `enqueueCoordinatorMailbox` finds the key and
  stores nothing: once the first entry was acknowledged, the WorkItem stands in
  `needs_attention` with nothing to run and no wake.
* **A turn in doubt thinks for ever** (`mailbox_unknown`, `UnknownTurnSettles`).
  The Agent dies with a request in flight and is started again within the lease
  of 60 seconds. At boot the request is still `dispatching`, so its turn counts
  as recoverable and is left thinking. Later the scan marks the request
  `unknown`; from then on the turn is not recoverable, and nothing ends it before
  the next start of the Agent. Until then every message to the WorkItem is
  refused and no wake advances.

More follow from the actions of the models and have no run of their own:

* **Stop keeps a Run.** Of two Runs of one WorkItem, `stop()` interrupts one; for
  the other `interruptRun` throws because the first changed the status
  (`InterruptedByStop`), and it stays `running` until its lease expires, though the
  comment at `store.js:5134` means it to release its fences.
* **A watcher that is enabled and does not run.** `start()` during a pending
  `stop()` sets the timer, and the end of that `stop()` then sets the lifecycle to
  `idle` (`StartWatcher`, `StopFinish`): `status()` reports `enabled: true`, every
  tick returns at once, and another `start()` does nothing because the timer is set.
* **A stored response that cannot be used.** An automatic turn asks with the text
  of its trigger, and is resumed with an empty text, because the payload of a wake
  has none. Its request is never the one that was asked (`SameRequest`), prepare
  throws, and `failCoordinatorTurn` refuses while a response is stored (`GiveUp`).
* `recoverInterruptedRuns` marks a lost Run `superseded`, not `interrupted` as the
  architecture document has it, when the WorkItem is not `running` at that
  moment: the Coordinator asked the user something meanwhile, an earlier row of
  the same recovery changed the status (`RecoverInOrder`), or an engine turn of it
  was in flight when the process died (`ActionInputs`, `Boot`).
* The contract asks that a thinking turn fail when the store is opened; a
  recoverable one is kept on purpose (`Boot`, `CanResume`), and the findings
  above are what this can lead to.
* A message's turn whose first response was rejected, and that died between
  preparing the second request and sending it, is resumed with attempt 1. Its row
  is cancelled and was not moved to the new claim (`TransferRows`), so prepare
  returns null (`PrepareLost`) and the turn returns without an error; the lease
  lapses, and the scan does the same again.
* **Pending rows survive a restart.** `docs/work-center/wire-api.md:28` and
  `domain-contract.md:96` have a reset or replacement supersede the unconsumed
  inputs of the old identity. Guidance of the Coordinator (`store.js:4079`) and the
  retry of a dynamic Action (`store.js:4722-4832`) take the inputs out of the context
  and leave the rows waiting under the old generation, where nothing reads them
  (`GuideActions`, `Restart`; `WithdrawnStaysOut` shows that they do no harm).
* **An unknown effect blocks silently.** No operation of the store settles an
  operation of unknown effect (`RunOperations`), so the WorkItem waits until it is
  cancelled; `domain-contract.md:128-129` says that it then needs attention, but the
  Actions stay `ready`.
* **A Run that fails with a message pending.** `submit` refuses any outcome, also
  a failure, while an input of the Run is unconsumed (`controller.js:360`); the Run
  is then left to the expiry of its lease, and its message to the next claim
  (`CanClose` in `Submit`).
* A one-shot task whose guard refuses after the claim is not run and not planned again
  (`Reject`); `docs/guide/tasks.md` does not mention it. Turns of the user in the
  Session end the tracked run with their own outcome (`ChatEnds`).
* A settlement that arrives after a WorkItem was completed can turn `done` into
  `needs_attention` (`SettleExceeds`, and `Stopped` in `ResourceControl`).
* A message the Agent writes before the Server has registered its socket is ignored
  by the Server (`server/ws-agent.js:239`), and one that is buffered after the flush
  of its connection waits for the next reconnect. Messages produced during a flush
  overtake those that are flushed.

## 4. What is proved

TLAPS checks the proofs for any sets of WorkItems, Actions, messages and triggers and for any
bounds, under the assumption on the constants that each specification states (their
types; `ScheduleAssumption` adds that a one-shot trigger has one instant, and
`OutboundAssumption` that there are finitely many loads to choose from), with one
hypothesis more, about `Epochs`, explained below. Every inductive invariant was
checked by TLC on the instances of the runs before it was proved.

| module | theorems |
|---|---|
| `ActionRunsProofs` | `TypeCorrect`, `FenceHolds`, `WorkspaceIsExclusive` |
| `ActionRunsHistoryProofs` | `ResultsAreCanonical`, `ClosedItemsAreQuiet`, `DoneIsEvident`, `DeliveriesAreNotRepeated`, `AttemptsAreBounded`, and of steps `HistoryHolds`, `ReservationsHold` |
| `RunOperationsProofs` | `ToolsAreAlone`, `DoneHasEveryEffect`, and of steps `RerunsAreNotBlind` |
| `ResourceControlProofs` | `Charges`, `StaysInBudget`, and of steps `KeepsLedger`, `StopsHold` |
| `CoordinatorMailboxProofs` | `TurnsAreRight`, `OneActs`, and of steps `DecisionsMatch`, `WakesAreKept` |
| `ActionInputsProofs` | `InstructedOrQueued`, `WithdrawnIsGone`, and the refinement `Implements` |
| `ScheduledTasksProofs` | `OccurrencesHold`, `FencedIsNotRun`, and of steps `CompletedRan` |
| `AgentOutboundProofs` | `NothingIsForgotten`, `OrderOfProduction`, `ChunksStay`, and of steps `TerminalsStay` |

In each module but the first, `IInv` is the inductive invariant and `Inductive` (`HistoryInductive`) its
theorem; the theorems of the table follow from it. There is one lemma for each action of
the specification; what several actions have in common is a lemma before them.

### 4.1 ActionRuns

* `RunFence` is its own strengthening: its
  first conjunct (a running Run is the Run its Action names, with the same
  epoch and generation) is what the fences of the code read, the second (a
  running Action has a running Run) is what recovery needs to find every running
  Action through its Run, and the third (only running Actions name a Run) is what
  the claim needs. With TypeOK it is inductive. The lemma `FencePreserved` states
  once when a step that ends a set of Runs keeps the fence, and the cases of
  `Next` are instances of it; `IdleActionsFence` covers the steps that change
  only Actions that do not run.
* `WorkspaceExclusion`: only two kinds of step
  could break it: a claim, which checks all running Actions in its own
  transaction, and a fall-back to the shared workspace, which checks again
  (`Busy`), or in the case of an integration never needs to, because an
  integrating Action already was alone. Everything else starts no Action
  (`NoNewRunning`).
* The other properties are about what a row was and becomes. The thirty or so
  steps change a row in few ways: an Action stays, is claimed, ends, restarts, is
  created, closed, falls back, or is reserved (`ActionMoves`); a Run stays, is claimed,
  rebound or ended (`RunMoves`); a WorkItem stays, goes on, is cancelled or completed
  (`ItemMoves`). The first half of the module shows that every step makes such moves
  only, the second that moves preserve the invariant and make the steps that
  `HistoryStep` and `ReservationStep` allow. The strengthening says what the code relies on without
  reading it: `RunsInOrder` and `RunsAreDated` (a running Run is the latest of its
  Action, and its generation is one its Action had), so that an old Run of the
  same generation cannot be taken for the present one; `DeliveryIsHeld` (an
  interrupted delivery is in an earlier generation, or its Action is not up for
  a claim), which is NoBlindRedelivery one step earlier; `StoppedIsShown`, without which
  a stopped WorkItem could be completed; and `ReservationIsLeft` (the process that
  reserved is gone), because a living executor could submit in spite of the reservation.

### 4.2 RunOperations

NoToolBesideSuccessor and DoneIsSettled speak of tools that work and of effects;
the code reads only rows. `FlyingIsPending` (a working tool has a pending row) and
`EffectIsRecorded` (a settled row does not deny an effect) join the two, and
`HolderIsLatest` with `RunsInOrder` says that a tool of an Action's earlier Run is
recognised by its key. The three places that read the table then give the three theorems.

### 4.3 ResourceControl

The ledger is a sequence of entries and the budget is about sums over it.
`Totals` states what a sum does when an entry is appended or its charge changes, by induction on the length of the
ledger. `InFlight` (a request in flight has an entry of its own caller that is not
reported, not yet sent while it is only admitted) is what makes a settlement the
one of its request; `LiveIsCurrent` (what is live began after the last resume) is why nothing
is sent from before it; `ViewWasTrue` (a browser that knows the present revision
shows the present stop) is why a resume lifts only the stop its user saw.

### 4.4 CoordinatorMailbox

OneExecutorActs rests on `HolderIsRight` (an executor that holds its claim has a
turn that thinks and a provider row that fits the await it is at) and `EpochsDiffer` (no two
executors of a turn have the same epoch). `LinksAgree` and `ThinkerHasEntry` (entry and turn
name each other while the turn thinks) carry these over the commit, the rejection and
the recovery scan. `FailureIsLeft` is the limit of failures, one step
earlier. DecisionMatchesRequest and WakeIsKept are proved of the same case analysis,
as `DecisionStep` and `WakeStep`.

The theorems have the hypothesis `~IsFiniteSet(Epochs)`. In the code `claim_epoch` is a
counter without a bound, and the model replaces it by any epoch that nobody
holds: with finitely many, all could be held, `NextEpoch` would choose from an empty
set, and nothing could be said of the claim. As the executors are finitely many
(a conjunct of IInv), infinitely many epochs always leave one, whatever the run.

### 4.5 ActionInputs and InputDelivery

`KeptIsCarried` is the heart: a message that nothing took back is in the context of
the Action, or waits under its present identity, or was consumed by a Run, and if that is the
Run in progress, was read by it. `ContextIsRead` and `RowsAreDated` tie rows and context to generations, `OneRuns` to the Run in progress,
`LoopsAreSound` and `LoopIsCurrent` the memory of the Engine's loop to the rows.
The steps are of three kinds, and the lemmas are about these: the Action keeps its
Run (`Holds`), lets it go (`LetsGo`), or is restarted; a loop that is not about the present
Run only `Rests`.

`Implements` is `Spec => Delivery!Spec`, without fairness. `InitServes` maps initial states
to initial states; each action `Serves`: it changes the fates of the messages as one
action of `InputDelivery` does, or leaves them. The hard case is `Submit`, which
completes the Action: by LoopIsCurrent nothing waits for the Run, by KeptIsCarried what
is not withdrawn was read.

### 4.6 ScheduledTasks

The claims of a Session are a set that only grows; the file keeps the last one.
`Numbered` and `PlanIsAhead` relate the two: runs are numbered as they are claimed,
and the next occurrence lies after all that were claimed under the plan, which gives
that none is claimed twice. `CountIsKept` (the counter of the task is the number of
these claims) gives the limit. `FlightsAreRecorded` says that a prompt on its way, or executed, is
that of the one run the file records as running, which gives ExecutionIsRecorded, and
`EndsAreExecuted` that an end the scheduler saw was that of the run, or a turn
of the user's own ended meanwhile, which gives CompletedWasExecuted. `Paid` bounds the claims by
commands and minutes, so that the numbers stay within the model's bound: a
fact about the bound and not about the code.

NoStaleExecution has an invariant of its own, `FInv`, proved inductive on top of IInv
(`FencedInductive`). `FencedWaits`: a fenced prompt that still waits is cancelled, or it is not yet
admitted and older than the file; `OutdatedStays` says that the file gets no younger, so the
guard will refuse it whatever comes between. `FencedMark`: while its run is tracked, the
run is marked as stopped or failed, or will be when the guard refuses, so `finish` cannot report it
as completed even if a turn of the user's own ends meanwhile. `WaitingIsOpen` says that
a prompt on its way was not executed or reported before it was fenced.

### 4.7 AgentOutbound

The operators of the module take a memory and return one, and a step calls several in a
row: `Register` splices the buffer, takes the first message of the new flush and
sends it, which may queue it, buffer it, evict another or drop it. So the
invariant is about a memory, the messages born so far and the message a step has
*in hand*, that is, taken from one place and not yet put into another:
`Good(B, m, hand)`. There is one lemma for each change of one field (a message leaves
or joins the queue, the buffer, a flush, the loop, what is written), one for
each operator (`BufferedIsGood`, `SentIsGood`, `AdvancedIsGood`, `FlushedIsGood`),
which takes the message out of the hand, and one for each action. `IInv` has
nobody's message in hand. The parts of `Good`:

* `Shape`: the fields are within their limits; what is buffered or waits in a
  flush may be buffered and is marked as having been; a chunk in the queue, in
  the loop or written is with the socket it was produced for, which gives
  ChunkStaysOnConnection.
* `Ordered`: along what is written, what is being encrypted and what is queued, in this
  order, an older message that follows a younger one was buffered. It is
  OvertakenWereBuffered carried back to where the order is made: a new
  message is the last of all, and one from the buffer may be anywhere.
* `Balanced`: the count of a message over the five places, and one if it is in hand, is
  1, or 0 if it is given up and not written; InOnePlace is the same with no hand. A chunk
  that was written may be given up as well (its wait for the socket timed out),
  which is why the second case asks that it was not written.

TerminalsOutlive is proved of the operators along with `Good` (`Outlives`):
whatever they give up that ends a turn, they give up in a memory whose queue or
buffer is full of such messages. For the images, `AcksAreTrue` is the
strengthening: a verdict that removes a file says what the store did.

### 4.8 How the inductions are done

The library's induction theorems take an operator as an argument, which the
provers cannot instantiate. Facts that need induction (sums over a ledger, positions in a
sequence, cardinalities of parts) are proved from a least counterexample: the lemma
`LeastNatural`, from the well-foundedness of the naturals (`WFMin`), picks the least
element of the set of numbers for which the fact fails.

### 4.9 What is only model-checked

* Liveness: LostRunIsLetGo, TurnSettles, WakeIsAnswered, InputSettles,
  OnlyUnknownBlocks, RunEnds, OneShotRuns, ImageArrives. Fairness and ENABLED are outside the prover.
* That a statement of the documentation fails (`runs_wake_lost`, `mailbox_unknown`).

## 5. Plan

Done: `ActionRuns`, `CoordinatorMailbox`, `ActionInputs` with
`InputDelivery`, `RunOperations`, `ResourceControl`, `ScheduledTasks`,
`AgentOutbound`, and the proofs of the safety properties of each. Next, in this order:

1. **An abstract lease** that `ActionRuns` and `CoordinatorMailbox` both
   implement: at most one holder commits an outcome for each claim.
2. **Schedules of WorkItems**: one WorkItem per occurrence.
3. **The rest of the Agent**: the sub-agents' prompt queue, delivery of task
   results, correlation in the Server.
4. In `CoordinatorMailbox`, the maps `activeTurns` and `activeTasks`, whose
   entries two executors of one turn share.

Not planned: projections and the web client (pure functions of rows, no
protocol), LLM adapters, prompts, translations and tools (data and I/O), memory
and the rest of the engine (data transformation without a concurrent protocol),
legacy workflows. These hold most of the repository's lines: the models cover the parts
in which the order of steps decides whether the program is right.
