# nexus-workflow: formal model

This directory holds a TLA+ model of nexus-workflow, the TLC configurations that
check it on small instances, and machine-checked proofs (TLAPS) of what matters
most. Paths are relative to `src/`; `core/`, `app/`, `console/` and `erp/` stand for
`nexus-workflow-core/`, `nexus-workflow-app/`, `nexus-workflow-console/` and
`nexus-erp/src/`.

## 1. Inventory

nexus-workflow is a BPMN workflow service: a pure TypeScript engine
(`nexus-workflow-core`), a multi-tenant HTTP application around it
(`nexus-workflow-app`, PostgreSQL), an operations console and a demonstration ERP
that runs its approvals on the service.

| Component | State it keeps | Operations | Interacts with |
|---|---|---|---|
| **Execution engine** `core/src/engine/ExecutionEngine.ts`, `gateways/*` | per cycle: token map, FIFO of pending tokens, gateway join states, scopes, compensation records | `execute(definition, command, state)`: StartProcess, CompleteServiceTask, CompleteUserTask, FailServiceTask, FireTimer, DeliverMessage, BroadcastSignal, Suspend/Resume/CancelInstance | called by routes, workers and timers; returns a new state and events |
| **Parser, definitions** `core/src/parser/BpmnXmlParser.ts`, `app/src/http/definitions.ts` | deployed definitions with their source | parse, validate, deploy, delete | engine, state store |
| **State store** `app/src/db/PostgresStateStore.ts`, `core/src/adapters/InMemoryStateStore.ts`, `app/src/db/deriveHistory.ts` | instances with a version, tokens, scopes, join states, compensation records, subscriptions, user tasks, timers, history | reads one table at a time; `executeTransaction(ops)` with a version check | everything below |
| **Instance routes** `app/src/http/{instances,events,force,tasks}.ts` | none | load, execute, commit, publish; 409 on a lost race; signals retry up to five times | engine, store, event hub |
| **User tasks** `app/src/http/tasks.ts` | task records (open, claimed, completed, cancelled) | complete, claim, release | engine tokens |
| **Event hub** `app/src/events/TenantEventHub.ts` | handlers | publish: the handlers in turn, in process | workers, timers, webhooks, event log, Redis |
| **Task worker** `app/src/worker/TaskWorker.ts` | attempt per token, keys in flight | dispatch on ServiceTaskStarted, retries by `setTimeout`, commit with up to five tries | hub, engine, store |
| **Timers** `app/src/scheduler/*` | timer rows | schedule on TokenWaiting, cancel on TokenCancelled, poll: delete, then fire | hub, engine, store |
| **Tenant workers** `app/src/worker/TenantWorkerManager.ts` | a promise per running tenant | ensure (on every request), sync (poll), remove, stop | tenant registry, task worker, timers |
| **Tenant registry** `app/src/db/TenantStore.ts`, `provisionTenant.ts`, `http/tenants.ts` | tenants, API keys, schemas | create, suspend, reactivate, delete, repair | tenant workers |
| **Webhooks** `app/src/webhooks/*` | registrations; retries in memory | dispatch, resolve and check the target, deliver with up to three attempts | hub |
| **Accounts** `app/src/auth/*`, `app/src/db/{User,Session,Invite,OperatorKey}Store.ts` | users, roles, sessions, invites, sign-in throttle | sign in, invite, disable, change roles | HTTP middleware |
| **Console** `console/src` | who is shown as signed in; pages with what they fetched last | sign in and out, list, act on instances, force a step | the service, over HTTP |
| **ERP** `erp/` | its own database; approvals by id | expense reports, timesheets, organizations' status, employees' data; messages, rights, audit log | the service over HTTP and its event stream |
| Expression evaluator, tooling | - | pure functions, scripts | - |

What is hard here. One engine cycle is sequential and deterministic, but a cycle
touches many tokens at once and the *order of commands* is free: branches finish
in any order, timers race with completions, messages hit several tokens, loops
come round again. Around it, routes, workers and timers run cycles on the same
instance concurrently, each reading the state by several queries and writing it
back only if the version is unchanged; events, retries and some timers live in
the memory of a process that may stop. The services beside it check in one statement
and act in another. The ERP keeps a status of its own next to each approval and talks
to the service by calls that may be lost, without a transaction around the two; its
pages and the console's change what they show before, or long after, the server did.
`PROJECT.json` lists each hazard at its line, with the property that covers it.

What makes each component correct:

- *engine*: every visit of a task is left exactly once; joins fire once per round;
  races have one winner; boundary events live as long as their host; compensation
  runs once per completion; sub-processes and loops end when their content does;
  an instance that is not over can be moved by something, and ends if its tasks do;
- *parser, definitions*: what passes validation can be walked; a definition in use stays;
- *commit*: concurrent cycles have the effect of some serial order; nothing torn
  or stale is ever written; a command takes effect at most once;
- *stores*: the database commits, refuses and holds what the store in memory does that the engine is
  tested with; what it reads back is less (`loopState` is dropped, section 7);
- *worker, timers*: a waiting task is worked on as long as the engine takes the worker's command, a
  due timer fires, once, also across retries;
- *user tasks*: a user task that waits at the top level of its definition has a record that can be
  completed (one in a sub-process has none, section 7);
- *tenants*: at most one set of workers per tenant, none in the end for one that is gone;
- *accounts, throttle*: one administrator remains; sessions of old passwords end;
  limits hold under concurrency;
- *webhooks*: no delivery beyond its attempts, none after success, none to an
  address that was not checked;
- *ERP, console*: a document says what its own approval said; a page shows what was
  chosen, and what is stored once nothing is under way.

## 2. Plan

| # | Module | Content | Abstract specification | Proved |
|---|---|---|---|---|
| 1 | `ProcessDefinition`, `TokenEngine`, `TokenEngineProperties` | the engine, whole | - | types, cycles run dry, one winner per race, over means quiet |
| 2 | `CommitProtocol` over `SerialInstance` | partial reads, version check, retries, 409, publish after commit, crash | commands applied one after another | refinement, conflicts are real |
| 3a | `TaskWorker` | dispatch, attempts, retries, stop, closed store, crash | - | one run at a time, nobody forgotten |
| 3b | `TimerScheduler` | schedule after the commit, cancel, poll: delete, then fire, crash | - | no timer forgotten |
| 4a | `UserTasks` | records, subscriptions and definitions beside the tokens | record = token | records follow tokens, definitions in use stay |
| 4b | `PostgresStore` over `MemoryStore` | operations, constraints, rollback, history, what is read back | the store in memory | refinement of what is written, types |
| 4c | `BpmnParser` | parse, validate, redeploy, walk | - | walks resolve, defaults serve |
| 5 | `TenantRegistry` | tenants, schemas, keys; ensure / sync / remove / stop | one set per tenant | at most one set |
| 6a | `Accounts` | roles, passwords, sessions, invites under overlapping requests | - | an administrator remains, old sessions end |
| 6b | `LoginThrottle` | guards in bounded tables | - | limits |
| 6c | `WebhookDelivery` | registrations, names that move, retries | - | limits |
| 7a | `ApprovalInstances` with `ExpenseReports`, `StatusRequests`, `TimesheetApprovals`, `ProfileUpdates` | the approvals of the ERP, with the operators of the service | documents say what their approvals said | all of it |
| 7b | `TimesheetPage`, `Messaging`, `AuditPages`, `EmployeeAccounts`, `AccessRights` | pages and routes of the ERP | a page shows what is stored | all of it |
| 8 | `ConsoleSession`, `ConsoleInstances` | the console | the page tells the truth | all of it |

All rows are built. The most important behaviour comes first: the engine decides what
a process does; everything else moves its cycles around. Since the commit protocol is
shown to implement `SerialInstance`, rows 3 and 4a treat a whole cycle as one step. Every
safety property of the rows from 2 on is proved; what TLC alone checks is liveness and the
engine's promises of the deployed definitions (section 5, at its end).

The proofs, by module: `TokenEngineProofs` (row 1), `StoresProofs` (2 and 4), `ConsoleProofs`
(the task worker of 3a, and 8), `TimerSchedulerProofs` (3b), `PlatformProofs` (5, 6 and
`AccessRights`), `ErpWorkflowProofs` (the documents of 7a with two reviews), `ErpPagesProofs` (7b), `ErpProofs`
(the documents of 7a with one review, and the ERP as a whole).

## 3. The engine: modules and code

| Module | Content |
|---|---|
| `ProcessDefinition` | a parsed definition as constants: what the engine reads of elements and flows, the choices of gateways |
| `TokenEngine` | the state of one instance and the actions of the engine |
| `TokenEngineProperties` | what the engine promises, fairness |
| `MCTokenEngine`, `MCEngineFindings` | definitions to check it on |
| `TokenEngineProofs` | theorems and their proofs |

**State.** `tok` is `ExecutionContext.tokenMap` in its iteration order (a token is
its number), `queue` is `pendingQueue`, `joins` and `comp` the join states and
compensation records, `inst` the instance status. `targets` are the tokens of a
message or signal still to be looked at. `store` is what the last cycle wrote;
`cycle` tells whether a call of `execute()` is under way.

**Actions.** A command (one action per handler) starts a cycle on the stored
state. `ProcessToken` takes the head of the queue, one disjunct per element
handler. `Throw` is a `RuntimeError` or `DefinitionError` out of `execute()`:
everything goes back to `store`. `Commit` writes the result. A queued token is a
copy taken when it was queued, always active: processing never looks at what
became of it since, and neither does the model.

**Left out.** Variables and scopes: every guarded flow, completion condition and
collection length may come out either way, which only adds behaviours. Identifiers
are model data. `createdAt` and `updatedAt` are dropped; `completedAt` of a
compensation record is kept, since the order of handlers depends on it. Tokens are
read back in creation order (the PostgreSQL store has no ORDER BY). `MaxRounds`
bounds how often a flow is taken before the model stops sending commands.

### The commit protocol

`SerialInstance` is the promise: the commands sent to an instance take effect one
after another, each at most once, each on the state the one before it left.
`CommitProtocol` is how `instances.ts`, `tasks.ts`, `events.ts`, `force.ts`,
`TaskWorker.runCommand` and `TimerCoordinator.onTimerFired` keep it.

**State.** `content` and `version` are the rows of one instance, one part per query
of `loadEngineState` (`ReadOrder`; the instance row with its version comes first).
For each request: `pc`, and the locals of its handler, `base` (the version it read),
`seen` (the parts read so far), `reads`, `attempt`. `done` records which requests
took effect. What the engine computes is a parameter (`Execute`), possibly nothing
(a `RuntimeError`).

**Actions.** `Receive`; `Read`, one query each; `Refuse` (422, or dropped by worker,
timer and signal); `Commit`, the engine's run and the transaction with its version
check; `Conflict` (409, load again, or give up); `Publish`; `Crash` of the process.
The engine is pure, so its run belongs to the transaction's step; the time a
worker's handler takes lies between `Read` and `Commit`. `Commit` is one step
because PostgreSQL serialises the two updates of the instance row and evaluates the
version condition again after waiting for the lock. Workers and timers never write
compensation records (`Writes`), unlike routes; a command that takes effect through
them leaves those as they are, and the abstract specification says so.

### The task worker

`TaskWorker` is `TaskWorker.ts` with what `createTenantWorkers.ts` and
`TenantWorkerManager.ts` do to it, for one tenant.

**State.** `token` is a visit of a service task as the instance's rows show it
(`failed`: still waiting, but the instance is suspended because its task failed and no
error boundary event matched). `due` counts announcements (`ServiceTaskStarted`) on
their way. For each worker: `attemptByToken` and `inflightKeys` as in the class, `runs`
the calls of `runAttempt` that have not returned, `timers` what `setTimeout` holds, and
its `stage`: *leaving* is out of the manager's map but still subscribed, *ended* has its
connections closed. `missed` records the tasks that were announced to nobody or waited
when the process ended: the code does not look for them again, only a person does. `dropped`
records those whose command the engine refused while they waited.

**Actions.** `Enter`, `Deliver` (`dispatch` of every subscribed worker), `Load`,
`Succeed`, `Error`, `Retry`, `Tick`, `Settle` (`runCommand`; a whole cycle: row 2 allows it),
`OthersLeave`; `Start`, `Remove`, `Stop`, `EndStore`; `Reject`, a query on a closed
store, which ends the process since nothing handles the rejection; `Crash`. A handler
that asks for a retry when there is none left fails its task, which is `Error`.
Deleting the entry of `attemptByToken` belongs to `Settle`: until then the key of the
attempt keeps others out, afterwards the key of attempt 1 does. `runCommand` returns without a word
on any `RuntimeError` (`TaskWorker.ts:207`) and when definition or instance are gone, so `Settle` may
leave a token that waits where it is: then the worker is done with it, its key stays, and later
announcements are ignored (`dropped`).

**Left out.** Variables, delays, and the commit that
fails five times (its exception ends the process: `Crash`).

### The timers

`TimerScheduler` is `TimerCoordinator.ts` and `PostgresScheduler.ts` for one tenant, with
what the event hub and `createTenantWorkers.ts` do to them.

**State.** `token`, a wait for a timer as the instance's rows show it; `row`, its row in
`scheduled_timers` (*due* once `fireAt` has come); `calls`, the handlers of `TokenWaiting`
that the hub has yet to call, one after another; `cancelling`, a `TokenCancelled` or
`StepForced` on its way; per set of workers its `stage` (as in `TaskWorker`; unsubscribing
and closing the store follow each other at once) and the `polls` under way, each with the
list of due timers it read and the one it has deleted and is firing. `lost` records the
waiting tokens whose timer may never fire: their own handler failed or nobody was
subscribed, the fire was ignored (`TimerCoordinator.ts:118`) or failed, or the process
stopped before there was a row.

**Actions.** `Enter`, `Save`, `SaveFails`; `Leave`, `Cancel`; `Ripen`; `BeginPoll`,
`Delete`, `Fire`, `FireIgnored`, `PollFails`; `Start`, `Remove`, `Stop`; `Crash`. A poll
does not wait for the one before (`setInterval`) nor does stopping wait for it. The rows
survive, everything else does not.

**Left out.** Times and their order within a poll, and the content of the cycle (row 2).

### What is stored for an instance

**`UserTasks`** is `http/{tasks,instances,events,definitions}.ts` on the tables beside the
engine's state, for one definition. *State*: `definitionData` and `definitionXml`, the two
columns a deployment writes by two statements (the *n*-th deployment uploads the content
*n*); `instance`, its status; `waitingToken`, the tokens that came to wait and for what (*user*, at the top
level; *nested*, a user task in a sub-process; *message*; *work*, for a worker or a timer);
`record`, `user_tasks.status`; `subscriptions`; `calls`, requests between two of their
statements, with what they read. *Actions*: `SaveDefinition`, `SaveDefinitionXml`;
`AskDelete` (counts the running instances), `DeleteDefinition`; `AskStart`,
`StartInstance`; `SuspendOrResume`; `AskCancel` (lists the open tasks), `CancelInstance`;
`ReadTask`, then `WriteTask` (claim, release: unconditional) or `CompleteTask`;
`ForceStep`, by the token, with or without a record; `DeliverMessage`; `Background`, a worker's or a timer's cycle, whose `buildStoreOps` writes
neither records nor subscriptions; `CallLost`. A cycle outdates the cancellations that
loaded the instance before it (409). A route's cycle makes a record for every user task a token came to at the
top level of the definition, also when the same cycle ends it (*brief*); `buildUserTaskCreationOps`
does not find those of sub-processes (`engineHelpers.ts:193`), which only `ForceStep` gets past.
*Ghosts*: `unindexed`, the tokens whose last cycle was
such a background one; `interrupted`, those a route's cycle ended that was about another; `writtenBack`, the tokens whose closed record a claim or release
wrote back; `crossed`, a deployment, a start and a deletion overlapped.

**`MemoryStore`** is `InMemoryStateStore.ts`: tables of entries by key and transactions
that apply one operation after another. **`PostgresStore`** is `PostgresStateStore.ts` with
the operations that `computeStoreOps`, `tasks.ts` and `deriveHistory` send. *State*: `rows`,
`versions`, `entries` (the two append-only tables, whose primary key ignores a second
insert), `loaded`, what each client read. *Actions*: `Start`, `Load`, `Cycle`, `Claim`; `Load` brings what
`reviveToken` makes of the rows (`Revived`: a token with the state of a loop comes without it), and
`Cycle` saves all tokens of the instance as they were read (`SavedAgain`), so the next transaction
takes the state out of the tables too. Each
of the sixteen operations is an operator named as its method (`UpdateInstanceWith` with the
version check, `CreateUserTaskWith` that may fail), and `ExecuteTransaction` folds them
with rollback. The refinement maps the rows to the tables of the memory store and how
often an entry was appended there to whether its row is there.

**`BpmnParser`** is `BpmnXmlParser.ts`, the upload in `definitions.ts`, and the engine's
look-ups. *State*: the author's `document` (elements and flows by number, in document
order), `deployed` (what the parser returned for it, with its errors), `token`, the place
of one instance. *Actions*: `EditsElement`, `EditsFlow`, one attribute at a time; `Deploys`,
always as version 1; `Begins`, `Walks` (`getElement`, `findFlowsBySource`, the exclusive
split). *Ghost*: `replaced`, deployed again under the instance. `Trusted` names what the
parser leaves to the author. The author draws no sub-process in another (section 6).

### The services around the engine

**`Accounts`** is `UserAdmin.ts`, `createOperator.ts`, `createSystemAdmin.ts`,
`http/{auth,users}.ts` and the stores of users, sessions and invites. *State*: `person`,
`invite`, `session` (one cookie per browser), `signin`, proofs of identity whose session is
still to be opened, `requests`, those that passed their checks. *Actions*: `Ask` (the checks,
on what they read), `TakeEffect` (the transaction, with its own check of the last
administrator), `SignIn` in two steps with accepting an invite and changing passwords,
`LapseInvite`, `CommandLineGrant`, `CommandLineRemove`. *Ghosts*: `rolledBack`, an account that
could not be created completely was deleted again, which looks at nothing; `late` in a
session, its sign-in was under way when the person's sessions were ended.

**`LoginThrottle`** is the class with its use in `http/auth.ts`. *State*: `entry` of each
guard (failures, attempts pending, locked), `attempt`. *Actions*: `Begin` (asks all guards
and reserves in them), `Refuse`, `Fail`, `Succeed`, `FailureFades`, `LockEnds`,
`AttemptForgotten`; making room in a full table is part of `Begin`. *Ghosts*: `disturbed`,
guards whose entry was dropped or that forgot an attempt under way; `locks`.

**`TenantRegistry`** is `TenantStore.ts`, `provisionTenant.ts`, `http/tenants.ts`, the tenant
middleware and `TenantWorkerManager.ts`. *State*: `row`, `schema` (migrations applied),
`key`, `behind` (`TenantSchemaHealth`), `running` (the manager's map), `workers` (each set and
how far it is), `sync`, the reconciliation with the list it read, `jobs`, requests between
statements. *Actions*: `Create`, `Migrate`, `Provisioned`, `ProvisionFails`, `Repair`; `Suspend`,
`Reactivate`; `DeleteTenant`, then `MarkDeleting`, `Deactivate`, `DropSchema`,
`DeleteTenantAndKeys`, `StepFails`; `CreateKey`, `RevokeKey`; `Authenticate`, later
`EnsureWorkers`; `SyncReads`, `SyncEnsures`, `SyncStops`; `Started`, `StartFails`, `StopEnds`;
`Restart`. A set that was told to stop is *condemned* until it has.

**`WebhookDelivery`** is `webhooks.ts`, `WebhookDispatcher.ts`, `safeFetch.ts`, `urlPolicy.ts`.
*State*: `registration`, `pointsTo` (what each name resolves to now), `delivery` (stage,
attempt, checked addresses left to try), `connected`, `contacted`. *Actions*: `Register`,
`DeleteWebhook`, `Dispatch` (the webhooks listed at that moment), `Deliver` (resolve and
check, connect, answer, retry), `Repoint`, `StopDispatcher`, `ProcessEnds`.

### The ERP

Every route reads, calls the service and writes in separate statements; a call to the
service may be carried out and its answer lost. **`ApprovalInstances`** is the service as
`lib/workflow.ts` and the two processes in `lib/bpmn` show it: `inst` maps an approval to
how far it is and what its reviews said. Operators of the service, and the ERP's managers on the
page of an instance (`app/api/workflow/instances/[id]/{cancel,restart}/route.ts`), cancel and restart
approvals and complete reviews without the document hearing of it (`Overrules`, `RestartInstance`):
each of the four has these as actions of its own. On it:

- **`ExpenseReports`**: the form that creates, uploads the receipt and submits
  (`NewExpenseForm`), the detail page, the PATCH route (replace items, start, write or
  cancel), the receipts route, the two reviews with the syncs after them. Ghosts: `asked` (what was
  submitted), `late` (a review was completed while another write was pending, its write was lost, or
  an operator closed the approval), `twice` (two PATCHes overlapped), `sameName`. A receipt's name is the report and
  the millisecond (`written`); two uploads of one report in one millisecond share it (`sameName`).
- **`StatusRequests`**: the owner's request, its withdrawal and expiry, the manager's
  decision on the page or in the task list, and a status set directly. `asks` is the
  variable of the approval with the status asked for. Ghosts: `by` (the approval that last
  changed the status), `refused` (decided here, then refused there), `missed` (closed while a
  write about it was pending, or reviewed in the service).
- **`TimesheetApprovals`**: entries, submission and reviews of a week. `totals` are
  the entries each approval's total was taken from. Ghosts: `overtaken`, `crossed`.
- **`ProfileUpdates`**: the employee's request, HR's review, and the consumer of the event
  stream (`lib/redisConsumer.ts`; `stream`, `seen`; read in order, each entry at least once).
  `about` is the variable of the approval with the request. A request sets some of the employee's
  fields (0 stands for null), and what is approved is merged into the row (`Merged`,
  `complete/route.ts:153`), which `PATCH /api/employees/[id]` writes too (`ProfilePatched`). An approval that is cancelled
  when it is over is announced as terminated again (`TerminatesAgain`). Ghosts: `astray` (the approval
  moved while an event or a write was pending, an operator decided it, or it was announced again),
  `doubled`, `amended`, `patched` (fields last written by an edit).

And on its own tables:

- **`TimesheetPage`**: the week's grid (`grid`, `rows`, `saving`) over the stored `entries`.
  A cell is shown before it is saved and put back when that fails; a row is a set of
  cells with a label. Ghost: `muddled`.
- **`Messaging`**: find or create a conversation, fetch a page of a thread, send; one
  user's page (`active`, `thread`, `loads`, `sending`). Ghosts: `raced`, `tangled`.
- **`AuditPages`**: writers that read, write and then log; `AuditLogTable` and
  `AuditLogPanel` with their requests under way. Ghosts: `mingled`, `misled`.
- **`EmployeeAccounts`**: two managers hire the same person; the session of that person
  keeps its role. Ghost: `changed`.
- **`AccessRights`**: rights by user, group and department (`held`, `grouped`, `place`),
  replaced as a whole by forms filled earlier, in READ COMMITTED transactions that delete
  the rows they see; `check`, `getEffectivePermissions`, query by query. Ghosts: `steady`,
  `withdrawn`.

### The console

**`ConsoleSession`** is `AuthContext.tsx`, `App.tsx`, the sign-in and the invitation page,
and the server's side of it. *State*: `shownAs`, `keyHeld`, `asking`, `guest`, `submitting`,
`saidWhy` of the page; `jar`, the cookie; `openSessions`, `keyGood`, `offer` of the server;
`outgoing`, the requests without an answer yet, handled and answered in any order or never.
Ghosts: `mixed`, a sign-in was answered while an earlier request was under way; `unheard`.

**`ConsoleInstances`** is `InstancesPage`, `InstanceDetailPage`, `ForceStepDialog`, and what
`admin.ts`, `instances.ts` and `force.ts` answer. *State*: `inst`; `list`, `loads`, `acts` of the
list page, where only the newest request may update the screen; `detail`, `views` of the
page of one instance, where any answer does. Ghosts: `lastAct`, `stale`, `crossed`.

In all of these a *ghost variable* is read by no guard: it records that something happened which
the code does not handle (section 7), so that a property can say what holds otherwise. A
ghost is as narrow as the model allows: per token, guard, report, approval or partner, or
until the next load.

## 4. Runs

| Run | Of | Shows |
|---|---|---|
| `Engine` | all eight of `MCTokenEngine` | the type invariant, eleven invariants and the action property below |
| `EngineEnds` | nested scopes, transaction | `Termination` under fairness |
| `Commit` | two parallel tasks and a join: worker, route, timer and cancellation at once; beside it `UserTasks`, `PostgresStore`, `BpmnParser` | `Serializable`, `LosesOnlyToOthers`, `EveryRequestEnds`; `TasksFollowTokens`, `DefinitionsServe`; `CommitsLikeMemory` |
| `Worker` | one task, two workers of its tenant; beside it the console | `OneAtATime`, `Attended`, `Served`; `ConsoleShowsTheTruth` |
| `Timers` | two timers, two sets of workers | `Kept`, `DueTimersFire` |
| `Platform` | accounts, throttle, registry, webhooks, rights | `AdministratorRemains`, `OldSessionsEnd`, `LimitsHold`, `OneSetPerTenant`, `GoneTenantsGoQuiet`, `RightsHold` |
| `Erp` | the approvals and pages of the ERP | `ApprovalsHold`, `RecordsStayTogether`, `PagesShowWhatIsStored` |
| `FindStop` | one task, one worker, no crash | `InFlightSettles` is violated, section 7 |
| `FindRecall`, `FindHappy`, `FindBranches`, `FindQueue` | one each | disagreements of code and documents, section 7 |

**Parts.** `Commit`, `Worker`, `Platform` and `Erp` each hold several components that share no
state. The variable `part` of `MCCommitProtocol`, `MCTaskWorker`, `MCPlatform` and `MCErp` chooses one
at the start and only that one moves: every behaviour of every component is explored, and the
numbers of states add up instead of multiplying. An interleaving of two parts could show
nothing more, since no property relates variables of two of them. Fairness
concerns one part only (in `Commit` it asks nothing of the others, where no request is sent; in
`Worker` and `Platform` it is conditional on the part). `FindStop` takes
`WorkerSpec`, the worker's part alone.

The eight definitions each hold one hazard: *rework* (parallel join in a loop),
*review* (interrupting and non-interrupting timers, error boundaries), *race*
(event-based gateway with timer, message and signal, in a loop, next to a second
wait for the message), *saga* (two throw events competing for two records),
*panel* (parallel and sequential multi-instance with condition and timer, in a
loop), *scopes* (two sub-processes with inner branches), *tx* (a transaction
cancelled with work done and work under way), *choices* (inclusive split and join,
exclusive gateway without match, terminate). One run explores the instances of all
of them: the first command picks the definition.

Properties of an instance at rest (between cycles):

- `NothingLeftRunning`: no token is active; `OverMeansQuiet`: none is live once the
  instance is over; `NeverStranded`: otherwise something can move one;
- `JoinBalance`: as many arrivals on each incoming flow as firings, plus the one
  the join state holds;
- `LeftOnce`: visits of a task or sub-process = tokens waiting there + tokens that
  left it; `BoundaryFollowsHost`: boundary events wait as long as their host;
- `OneWinner`, `CompensatedOnce`, `ThrowAwaitsHandlers`, `LoopAccounting`,
  `ScopeNesting`: races, compensation, loops, sub-processes;
- `FinishedForGood` (action): a completed or cancelled token never changes again;
- `Termination` (liveness).

*Bounds.* `MaxRounds = 2` lets every loop of the definitions come round a second
time, which is when a join state, a race or a loop counter left over from the
first round would show; collections have 0, 1 or 2 items or are no array; names
are one that matches and one that does not. Deadlock checking is off: a completed
instance takes no command, and the bound stops the model.

Properties of `Commit`, part *commit*: `Serializable` (the protocol implements `SerialInstance`:
no state torn between two versions is ever the basis of a commit, none is
overwritten); `LosesOnlyToOthers` (409 and giving up have their cause in as many
commits of others); `EveryRequestEnds`. Its content is the smallest where a torn
read would lose something: a join whose arrivals are kept in another table than
the tokens. Four requests and `MaxCommitAttempts = 2` (5 in the code) let a
background cycle lose every attempt. Deadlock checking is off: all requests end.
Fairness: a request that is under way goes on (queries return or fail, promises
are resumed); nobody has to send one, and the process need not stop or stay up.

Properties of `Worker`, part *worker*: `OneAtATime` (no two runs of one task in a worker, attempts
made once each and in order, however announcements and retries overlap); `Attended`
(a waiting task that was announced to a worker is being worked on or put off: no key
that is never given back, no ignored announcement and no stop leaves it behind);
`Served` (it is left or fails in the end). Both except tasks that are `missed` or `dropped`, for which
they are false: nothing in the code comes back to those. Tasks
share nothing but the worker and the process, so one is enough for TLC; the proofs are
for any number. Three attempts (as in the code) and two announcements let an
announcement come before, during and after each retry (`TaskWorker.test.ts:534` counts
with repeated ones); two workers, one replacing the other while the first is still
subscribed or at work; one crash. Deadlock checking is off: a task that is left ends
the story. Fairness: announcements are delivered, timers go off, handlers return and
queries are answered, for each task and worker; nobody has to start or stop a worker.

Properties of `Timers`: `Kept` (a token that waits, and is not `lost`, has its row, a
handler that will write it or a poll that is firing it: neither cancelling another one, nor
overlapping polls, nor a set that stops, nor a poll that fails at another timer takes it
away); `DueTimersFire` (every row goes in the end, and then its token has left or its timer
is lost; also a row written after its cancellation). Two timers, since what a failing poll does to
the rest of its list takes two; two sets, one replacing the other while both are
subscribed; one poll per set, so polls overlap between the sets; one crash or failed
poll. The proof is for any number of each. Deadlock checking is off: all timers may have
fired. Fairness: time goes by, handlers and polls go on, and a set that is subscribed polls;
if the tenant's workers are stopped for good, nothing is promised.

Properties of `Commit`, the other parts. *tasks*: `TasksFollowTokens` (a token that waits for a user at the top level
of its definition has a record that can be completed, the index holds exactly the tokens that wait for a
message, a closed record is of a token that is over, and a record of a token that is over is open only
where a cycle about another token ended the task or a record read before was written back; except tokens
last moved by a worker or a timer) and, in `DefinitionsServe`, `DefinitionsStay` (a definition in use stays, with the
source it was parsed from). *store*: `CommitsLikeMemory`, the refinement of `MemoryStore` by
`PostgresStore`: what commits, what conflicts and what is in the tables afterwards. It says nothing of what is
read. *parser*: `WalksResolve` (of what validation passes and the author is not
trusted with, a token never comes to an element or flow that is not found) and
`DefaultsServe` (a gateway leaves for last the flow it names as default, also where
the parser marks nothing). `StoresTypeOK` also has that exactly the tokens that are
over have left their step in the history. *Bounds*: one instance, two waiting tokens, two
deployments and two requests under way in *tasks*: one to be overtaken, one to overtake; two
clients and three tokens in *store*, one of which moves while another comes and a third, which may be in a loop, is saved
again; two edits and
two deployments in *parser*, on a drawing with a sub-process and a gateway in it: an edit
that invalidates, and one that hides it.

Properties of `Worker`, the console: `ConsoleShowsTheServer` (who is shown is who the cookie names; a
session said to have ended has ended; a page that shows nobody has left no session behind),
`ListKeepsUp` (the newest answer is that of the filter and page set, and made after every
action of the page), `ForcingTellsTheTruth` (the dialog tells its own success from a step that
has moved on) and `ViewIsTheNewest`. *Bounds*: two persons, a key and five requests: two
sessions, each begun and ended, and one request that crosses; a list of two instances, one row
per page, three requests, one action and one change elsewhere (`MCInList`, `MCInDetail`: a
list is not left, or an instance is looked at from a list that does nothing else).

Properties of `Platform`: `AdministratorRemains`; `OldSessionsEnd` (a session is of somebody active and
of the present password, unless its sign-in was under way); `LimitsHold` (`LimitHolds`: failures and attempts
under way never pass a guard's limit, a locked guard is not freed by filling the
table; `DeliveriesKeepToLimits`: the receiver is reached at most once per attempt and never after it accepted, and no connection
goes to an address that was not checked); `OneSetPerTenant`; `GoneTenantsGoQuiet` (liveness);
`RightsHold` (`WithdrawnStays`: what overlapping forms all leave out is gone; `SteadyRightsFound`:
a check finds the rights one source carried all along). *Bounds*: two people who can each be the
last administrator, one tenant whose managers act too, two passwords, three requests of
administrators so that two can overlap a third; three attempts under two addresses
with room for one; one tenant, two sets of workers, two requests and one restart: an `ensure`
can meet a set that is stopping; two webhooks, two attempts, two addresses of which one is
internal; two managers with two requests, rights in and outside of the permission table
(one manager asks for anything, two for rights of the table, and while a check reads there is one).
*Fairness* (`RegistryFairness`): `sync` goes on when begun and is begun again (it is the poll of
`main.ts`), starts and stops of sets end. Nobody has to send a request or finish a deletion.

Properties of `Erp`: `ApprovalsHold` (`ExpenseApprovalsHold`, `TimesheetApprovalsHold`,
`StatusRequestsHold`, `ProfileUpdatesHold`: a document never claims a verdict its own approval did
not give, one that waits has the review it waits for, and what is under approval is what was
submitted); `RecordsStayTogether` (`ReceiptsExist`, `OneConversation`, `LogTellsChanges`,
`FormsTellTheTruth`); `PagesShowWhatIsStored` (`SheetShowsEntries`, `ThreadOfTheChosen`,
`TableShowsTheChoice`). Each speaks up to the ghosts of section 3. *Bounds*: two requests under way
at once (`MCCalls`; interchangeable, hence `SYMMETRY`, which is sound for invariants), two
approvals so that a document can be decided and submitted again, one report with up to two
items and two milliseconds for receipts, one field of a profile with two contents or none (`Fields`; fields do
not depend on each other, the proof is for any), two stream entries, two rows and one
day of a week, two conversations with two messages and pages of one, three requests of the audit
table. `MCArchives`, `MCOneFinder`, `MCOneWriter` leave out combinations that only multiply states. The
`CONSTRAINT` `Settles` ends behaviours in which the ghosts already except nearly everything the
properties speak of: a second approval closed by an operator (`late`), a second request that is astray, two receipts of one
name. It also keeps apart exceptions that do not meet: overlapping finders of one partner (`raced`) and fetches of a
thread, a lost or closed approval (`late`) and overlapping PATCHes (`twice`) or a second receipt. The theorems of
section 5 have none of these bounds. Where the third part of `ProfileUpdatesHold` no longer speaks, it keeps only the courses without data
(`MCNoData`): no guard depends on data, so the others differ in nothing the first two parts see. Deadlock checking is off in these runs: pages may be left alone, bounds stop the model.

Fairness of `EngineEnds`. A cycle that has begun runs to its end: it is synchronous
code (weak fairness). Each place where tokens wait for a worker, a user or a timer
is served again and again while tokens wait there (strong fairness, since another
command can be under way whenever it would be its turn): that is the assumption
"workers, users and timers do their work", not something the code can ensure.
Nothing is assumed of messages, signals, suspension or cancellation.

## 5. Proofs

`TokenEngineProofs` proves for *all* definitions that satisfy
`DefinitionAssumption`, all bounds and collections:

- `TypeCorrectness`: `Spec => []TypeOK`;
- `CyclesRunDry`: `Spec => []NothingLeftRunning`;
- `RacesAreDecidedOnce`: `Spec => []OneWinner`;
- `OverIsQuiet`: `Spec => []OverMeansQuiet`, provided no definition has a terminate end event.

`TypeOK` is not inductive: `Throw` goes back to `store`, and a queue entry must be a
token whose status is still active or has been settled by someone else. The
inductive invariant `Inv` adds that between cycles context and store agree and the
queue is empty, that the tokens are `Good` (every active token is in the queue),
and that parents are older tokens. `Good` is kept by the four ways the engine
writes tokens (mark, put, advance, remove the head), each a lemma; a lemma per
handler combines them; `NextInv` has one step per action. Emptying the queue
(`Commit`'s guard) then leaves no active token.

`OneWinner` needs more. `RaceInv` says of the tokens that only throw and end events, tasks and
event-based gateways have children, and gateways only catch events (`Lineage`), that numbers are
queued in increasing order, so a token is queued at most once, and that a gateway with branches is
not queued again and the rivals of a completed branch are neither waiting, completed nor queued
(`Decided`). Branches can only be completed by a timer or a delivery, both of which cancel the
waiting rivals; the ones that are still queued are the hazard: in the loop of `DeliverNext`
everything queued is a token that has just moved on (`Arriving`), a timer starts on an empty queue.
`Fine` is `Good` and `Race` together; `MarkFine`, `HeadFine`, `WonFine` and `PutFine` show what each way
to write tokens keeps, and a lemma per handler and command combines them.

`OverIsQuiet` has a hypothesis because the code does not keep the promise without it: a
terminate end event completes the instance and leaves the queue to be processed (section 7). The
definition of run `Engine` that has one ends with nothing else queued.

`DefinitionAssumption` is what the parser and `getElement`/`getFlow` give: elements
and flows refer to existing ones, a sub-process has a start, boundary attachments
are boundary events.

`StoresProofs` proves, of the commit protocol, for any number of requests, any engine `Execute`, any
split of an instance into tables and any number of attempts:

- `Serializability`: `Spec => Serializable`, the refinement;
- `ConflictsAreReal`: `Spec => []LosesOnlyToOthers`;
- `TypeCorrectness`: `Spec => []TypeOK`.

The inductive invariant adds to `TypeOK` that `version` counts the commits and that
every request is `Sound`: *as long as the version read first is the current one,
every part read since is what the table holds now*. That needs the instance row to be
read before the others, which is all the protocol rests on. A request that takes no
part in a step stays sound, overtaken or not (`BystanderSound`); each action is a
lemma. With every part read and no overtaking, `seen` is `content` (`LoadedIsCurrent`),
so `Commit` is a step of `SerialInstance`. `CommitAssumption` asks that the requests
are finitely many, that outcomes are well-formed instances, and that there is a first
query and at least one attempt.

`ConsoleProofs` proves, of the task workers, for any number of tasks, workers, attempts, announcements and
crashes:

- `AttemptsInTurn`: `Spec => []OneAtATime`;
- `NobodyForgotten`: `Spec => []Attended`;
- `TypeCorrectness`: `Spec => []TypeOK`.

Neither is inductive: that a retry finds nobody at its task depends on what
`attemptByToken` says meanwhile. The invariant adds, for each worker and task, `InOrder`
(the keys are those of the first *m* attempts; a run is at the *m*-th and the map says
*m*; an attempt put off and not begun is the one the map tells, hence the next),
`Faithful` (a worker that began with a task that still waits comes back to it, unless it is `dropped`) and
`Unborn`. `RunKnown` draws from it what a step of a run needs; a step touches one worker
and one task and leaves the others alone (`Bystander`); there is a lemma for each kind of
step. `WorkerAssumption` asks for at least one attempt and one announcement.

`TimerSchedulerProofs` proves for any number of timers, sets of workers, polls and faults:

- `NoTimerForgotten`: `Spec => []Kept`;
- `TypeCorrectness`: `Spec => []TypeOK`.

`Kept` needs only one thing more to be inductive: what is cancelled has left
(`CancelledLeft`), or else a cancellation would take the row of a token that waits. The
steps that matter are those of a poll: `Delete` moves a timer from its row into the poll
that was firing none (`PollParts`), and `Fire` and its failures affect no slot but their
own. `TimerAssumption` asks for finitely many tokens and that `None` is none of them.

`StoresProofs` proves, of the tables, for any number of clients and tokens, with loads, cycles and claims
interleaved at will:

- `TransactionsAgree`: `PostgresSpec => CommitsLikeMemory`, the refinement of `MemoryStore` in what is written;
- `PostgresTypes`: `PostgresSpec => []PostgresTypeOK`.

The two stores differ in their operations: memory updates what is missing, inserts twice, cannot
roll back; PostgreSQL refuses, ignores, rolls back. They agree because of what clients send, so the
invariant `PostgresInv` is about that: the tables fit together (`Fits`: a user task belongs to a token that
is there, exactly the tokens that are over have their step in the history), and what a client has loaded
fits together and precedes the tables (`Precedes`): it is what is there, unless the version has grown
since, up to the state of loops, which `Revived` takes out of what is loaded (`reviveToken`): a token
that waits in a loop waits for whoever loaded it. So a cycle's updates find their rows unless it was overtaken, and then `updateInstance`, which
the callers put first, fails before anything is written: there is nothing memory would have to
undo. That a batch leaves both stores alike is proved operation by operation, over the recursive
functions `PostgresRun` and `MemoryRun` (`PostgresRunSteps` shows that they exist: there is a value
after each statement).

It also proves the other parts of run `Commit`, each for its own specification, and then the
composition (`StoresSpec`, in which one part at a time moves):

- records and subscriptions, for any number of instances, tokens, deployments and requests:
  `RecordsFollowTokens`: `UserTasksSpec => []TasksFollowTokens` and `TaskTypes`. `TasksInv` splits the
  types by what steps touch (`DefinitionsOK`, `TokensOK`, `CallsFit`) and adds that a cancellation on
  its way lists tokens of its own instance only and that a token not yet born has neither record nor
  subscription (a user task of a sub-process waits as *nested* and is promised nothing): without the first, `CancelInstance` could close records of an instance that goes
  on. `TokensStay` covers every step that leaves tokens alone; each kind of cycle is a lemma;
- definitions: `DefinitionsInvariance`: `UserTasksSpec => []DefinitionsStay`. `DefinitionsInv` says what the
  requests under way may count on, as long as none overlapped: a start has its definition, a
  deletion has no instance, start or deployment beside it, a deployment uploads what is there. Every
  other step leaves the definition alone and starts nothing (`DefinitionsLeftAlone`);
- the parser, for every document and any number of edits and deployments:
  `ParserServes`: `ParserSpec => [](WalksResolve /\ DefaultsServe)`. `ParserInv` adds that what is deployed is
  what the parser made of some well-drawn document (`ParsedFrom`; the edits keep documents
  well drawn) and that a walking token is at an element of it. The lemmas follow a token through it:
  without errors there is a start (`StartFound`), flows of the process lead to known elements and
  those below do if the author saw to it (`TargetFound`), what a gateway selects is a flow
  (`SelectedFound`);
- together: `StoresTypes`: `StoresSpec => []StoresTypeOK`, `DefinitionsAreServed`:
  `StoresSpec => []DefinitionsServe`.

`PlatformProofs` proves the promises of the parts run `Platform` checks, each first for its own
specification and then for the composition (`PlatformSpec`, in which one part at a time moves):

- accounts, for any finite number of people, any tenants, browsers and passwords:
  `AnAdministratorRemains`: `AccountsSpec => []AdministratorRemains` and
  `SessionsOfOldPasswordsEnd`: `AccountsSpec => []OldSessionsEnd`. `AccountsInv` adds that a request
  names a role its operation can have (`RolesExist`) and that sessions *and sign-ins under way*
  are good (`AllGood`): a session that opens is as good as its sign-in was. The transactions that take
  somebody's administration away look for another administrator (finitely many people, hence
  `Cardinality`), the only step that does not is the one `rolledBack` tells of;
- login throttle, for any guards, attempts and sizes of the table: `TheLimitHolds`:
  `ThrottleSpec => []LimitHolds`. The invariant adds what the entry of a guard must say of the
  attempts under way: each of them is counted as pending there, unless the guard was disturbed;
- tenant registry, for any number of tenants, sets, requests and restarts: `AtMostOneSet`:
  `RegistrySpec => []OneSetPerTenant` and `RegistryTypes`. `OneSetPerTenant` needs that the set a
  tenant is known to run is that tenant's and has not been told to stop (`KnownAreAlive`), or
  else an entry of the map could hide a second set; `RegistryInv` falls into `ManagerOK` and
  `RecordsOK`, so that the steps of requests touch only the second;
- webhooks, for any number of webhooks, events, addresses and attempts: `LimitsAreKept`:
  `WebhooksSpec => []DeliveriesKeepToLimits`. `WebhooksInv` adds `OnTheWay`: the addresses a
  delivery has left to try were checked for its host, in the attempt it is at. It is stated per
  delivery (`Fits`), the rest is `RestFits`: a step of one delivery leaves the others as they are;
- access rights of the ERP, for any rights, employees and overlapping orders: `RightsAreKept`:
  `AccessSpec => [](WithdrawnStays /\ SteadyRightsFound)`. The invariant adds `Coming` (a right one
  source carried since the check began has been found or the query of that source is still to
  come) and that orders under way never hold what is withdrawn;
- together: `PlatformTypes`: `PlatformSpec => []PlatformTypeOK`, `PlatformLimits`:
  `PlatformSpec => []LimitsHold`, `PlatformRights`: `PlatformSpec => []RightsHold`. `PlatformInvariance`
  needs nothing new: a step of one part leaves the variables of the others unchanged, and every
  part's invariant depends on its own variables only.

`ConsoleProofs` also proves what the console shows, for any number of people, instances, steps, requests
under way and changes by others:

- who is signed in: `SessionIsShown`: `ConsoleSpec => [](ConsoleTypeOK /\ ConsoleShowsTheServer)`. An answer may
  come when the cookie is no longer the one it was asked with, so `SessionInv` follows the requests:
  the number of a cookie is that of the sign-in that brought it, so a later one is not known yet
  (`Numbered`); a refusal that is on its way is of a session that is over (`UnderWay`); as long as nothing
  crossed, what is asked for the session shown carries the present cookie (`Unmixed`);
- the pages about instances: `InstancesAreShown`:
  `InstancesSpec => [](InstancesTypeOK /\ ListKeepsUp /\ ForcingTellsTheTruth /\ ViewIsTheNewest)`. None of the
  three is inductive. `ListInv` adds that the newest request is for what is set and brings what is as
  new as the last action (`Fresh`), which has to hold while it is under way, with actions that the
  server has taken but not answered (`Settled`). `SaysInv` says that a step is *behind* an instance
  (`Behind`) and `GoesOn` that nobody brings it back: the step of an instance never goes down and an
  instance that is over stays over. That, and that no view is ahead of its instance (`ViewsInv`), is all
  that is needed of other people's changes;
- together: `ConsoleTellsTheTruth`: `WorkSpec => []ConsoleShowsTheTruth`. The run keeps to a list that is not
  left or an instance that is looked at (`MCInList`, `MCInDetail`); `InstancesAreShown` does not.

The three modules on the ERP prove what run `Erp` checks, without what bounds that run
(`MCArchives`, `MCOneFinder`, `MCOneWriter`, `Settles`): the components' theorems are of their own
specifications, `ErpSpec` is the composition. In all of them a ghost excuses what section 7 tells of, and the
invariant says what holds of requests under way as long as it does not.

- expense reports: `ExpenseReportsHold`: `ExpenseSpec => [](ExpenseTypeOK /\ ExpenseApprovalsHold /\ ReceiptsExist)`,
  with the types of approvals.
  A verdict is given in the service first, so between that and the write only a request knows of it: `ReviewsInv`
  (each review is told by one request, of what was said, and a report that says so has been told), `OwnersInv`
  (an approval is of one report or of the request that started it), `WaitsInv` (a report that waits has its review open, or
  a request on its way to it), `ItemsInv` (PATCHes of a report that never overlapped). `ReceiptsInv` needs that the
  file an upload has written is no report's, and the one it will remove no report's any more, as long as no two
  have one name (`sameName`). An operator who closes an approval makes it `late`, and one who restarts an approval makes one
  that no report and no request knows (`OwnersInv` asks nothing of it);
- timesheets: `TimesheetsHold`: `SheetTypeOK` and `TimesheetApprovalsHold`. `SaysInv` compares the sheet with
  what its approval has said, one review ago while that is still to be told; `EditsInv` says that the sheet stays as a
  submission read it, which makes the total that of the entries;
- organizations: `OrganizationsHold`: `StatusTypeOK` and `StatusRequestsHold`. The approval that changed the status has
  approved, or a request is about to tell the service so (`ByInv`); an approval is written to the row once,
  before anybody but its reviewer knows of it, and is no longer in progress when a decision leaves for the service
  (`OnceInv`), without which `ProgressInv`, the property's second part, would not last;
- profiles: `ProfilesHold`: `ProfileTypeOK` and `ProfileUpdatesHold`. Events come late and more than once, so the
  invariant is about what is *not yet seen*: of a request that is not astray, all its approvals but the newest have ended,
  and it names the newest, or the entry of the stream that will make it so is still to be read; the same for its
  cancellation (`RequestsInv`, with `StartingInv`, `ReviewedInv`, `NamesInv`). `PendingInv`: while nobody overlaps, the
  pending request is the last one; `CopiedInv`, of each field that was not edited since (`patched`): what is copied to the
  profile is what the request says when it is approved, and later requests copy only the fields they set (`Overwrites`);
- the week: `WeekShowsEntries`: `PageTypeOK` and `SheetShowsEntries`. While nothing was muddled, each cell has at most one
  request, and what the cell shows and the server stores is told by its kind and answer (`CellOK`, `Tells`): a refusal
  finds in the request what the cell said before. No entry belongs to two cells, and every stored one to some
  (`Owns`), so that with no requests left grid and table are equal as sets;
- messages: `MessagesOfOne`: `MessagesTypeOK`, `OneConversation`, `ThreadOfTheChosen`. A request that creates a
  conversation found none and nobody else looks for it (`FindersInv`); a page that has not been tangled either fetches or
  sends, for the conversation chosen, and what it shows or is being sent is in order (`ThreadInv`);
- audit log: `AuditLogAndPages`: `AuditTypeOK`, `LogTellsChanges`, `TableShowsTheChoice`. `ChainInv`: requests
  that do not mingle follow one another, each beginning where the last entry ends; `PagesInv`: a page that is asked for
  exists, since the log only grows and the buttons go by a total that was true (`PagesReach`, `LogGrows`);
- new employees: `StaffForms`: `StaffTypeOK` and `FormsTellTheTruth`. `StaffInv` ties the set of creations to the one
  account and says where each request past the creation is;
- together: `ErpTypes`: `ErpSpec => []ErpTypeOK`, `DocumentsFollowApprovals`: `ErpSpec => []ApprovalsHold`,
  `RecordsBelongTogether`: `ErpSpec => []RecordsStayTogether`, `PagesShowStored`: `ErpSpec => []PagesShowWhatIsStored`.
  The four approvals share `inst`: in `ErpInv` the part that moves keeps its invariant while those that do
  not are as they began, where their properties hold whatever became of `inst` (`AsBegun`).

The assumptions (`UserTasksAssumption`, `PostgresAssumption`, `AccountsAssumption`, `ThrottleAssumption`,
`RegistryAssumption`, `WebhookAssumption`, `AccessAssumption`, `SessionAssumption`, `InstancesAssumption`, `InstancesAreNumbered`,
`ExpenseAssumptions`, `SheetAssumption`, `ProfileAssumptions`, `PageAssumptions`, `MessagesAssumptions`, `AuditAssumptions`) ask for bounds that are numbers, at least one
attempt, migration, step and row of a page, finitely many people, tenants and instances of a list, and that
"nobody", "key", "no tenant", "no row" and "hidden" are none of the values they stand beside. Of the ERP they ask that
approvals, documents and contents are numbered from 1, that there is a day and the empty label, and finitely many
writers of the log. `DrawingAssumption` asks for a first document with finitely many
elements and flows, numbered from 1, in which no sub-process stands in another.

**Only model-checked.** Liveness is out of TLAPS's reach here (`EveryRequestEnds`, `Served`,
`DueTimersFire`, `GoneTenantsGoQuiet`, `Termination`). `JoinBalance`, `LeftOnce`, `BoundaryFollowsHost`,
`ScopeNesting`, `LoopAccounting`, `ThrowAwaitsHandlers`, `CompensatedOnce`, `NeverStranded` and
`FinishedForGood` are promises of the deployed definitions of run `Engine`: section 7 names situations
that break them, so no theorem for every definition can be had.

## 6. Not modelled

- *Expression evaluator*: runs JavaScript in a `vm` context; in the engine's model every
  condition may come out either way. *Repository tooling*: scripts.
- *Parser*: the extensions of tasks, timer and message definitions, loops (constants of
  `ProcessDefinition`); sub-processes inside sub-processes.
- *In-memory bus and scheduler*: test doubles of the hub and the PostgreSQL scheduler. *Step
  history*: the retention purge, one DELETE per day. *Event hub*: the event log and the Redis
  publisher, which only take events.
- *User tasks*: who may complete a task. *HTTP middleware, audit and configuration*: the
  guards are modelled in what they guard; the audit table of the service, configuration and
  wiring are not.
- *Console*: the pages of tenants, users, keys, webhooks and audit, which ask once and show
  the answer. `TasksPage` has the shape of `InstancesPage`.
- *ERP*: customers, products, quotes, invoices, purchases, accounting, dashboards and the other
  pages that load a record and save a form; the unused internal route that sets an
  organization's status.

Throughout, payloads, variables, wording, hashing and signatures are left out, and times
are reduced to what has and has not come.

## 7. Where code and documents disagree

Kept as runs (each finds a counterexample):

- `FindRecall`: a message or signal that hits an interrupting boundary event leaves
  its task open (`ExecutionEngine.ts:841`); the task is left twice.
- `FindHappy`: a transaction with a cancel boundary event that is *not* cancelled
  keeps that event's token waiting for ever (`:659`).
- `FindBranches`: an inclusive join with tasks before it is refused (`:1610`).
- `FindQueue`: `PostgresStateStore.reviveToken` drops `loopState` (`:94`), so a
  sequential multi-instance activity stops after its first item. `Engine` and `EngineEnds`
  check the engine with a store that keeps it (`KeepsLoopState = TRUE`), as the engine's own
  tests do: that `Termination` holds in `EngineEnds` says nothing of this hazard.
- `FindStop`: the store of a tenant's workers is closed without waiting for what they
  are at (`createTenantWorkers.ts:38`), although "in-flight tasks continue until they
  settle" (`TaskWorker.ts:68`): suspending a tenant while one of its handlers runs, or
  a retry is put off, ends the process.

Seen with the models, but not kept as runs: "in-flight poll completes before returning"
(`PostgresScheduler.ts:69`) is not what `stop` does: it clears the interval, and the store
is closed next, so the timer a poll has just deleted is lost; "token no longer actionable"
(`TimerCoordinator.ts:118`) is not the only `RuntimeError`: a join further on that refuses
the token (`ExecutionEngine.ts:1059`) also is one, and the timer is lost while its token
waits (`FireIgnored`). The worker has the same catch with the same comment (`TaskWorker.ts:207`): the
task waits for ever, the key of its attempt stays in `inflightKeys`, and a later announcement is
ignored (`dropped`); the service's operator can force the step.

Seen with the model and listed as hazards, but not kept as runs: a terminate end
event leaves queued siblings running (`:437`); a transaction's cancellation undoes
activities outside of it (`:725`); parallel manual multi-instance completes its
parent twice (`:1453`); forcing the parent of a multi-instance task (`force.ts:20`)
strands its children; `CancelInstance` is accepted for a completed instance
(`:328`) when sent to the command route; compensation order among records of the
same millisecond (`:1899`). A throw event inside a transaction that is cancelled
while its handler runs is revived: the handler completes the cancelled throw token and
moves it on (`:1225`), past the end of the transaction, so `FinishedForGood` is a promise
of the deployed definitions and no theorem for every definition. The definitions of the
run `Engine` avoid exactly these situations, so that the properties can be stated without exceptions.

### Seen in the stores, the routes and the parser

- Claiming and releasing write back a record read before (`tasks.ts:137`): the record of a task that
  is over is open again. Cancelling an instance closes only records that are *open*,
  not *claimed*, and only the first thousand (`instances.ts:192`); those of interrupted tasks stay open.
- The cycles of workers and timers write neither user task records nor subscriptions
  (`TaskWorker.ts:254`): a user task that follows a service task has a token and no record.
- Routes make records for the user tasks of the top level only (`engineHelpers.ts:193` looks in
  `definition.elements`): one in a sub-process waits without a record, is in no list, and cannot be completed but by
  forcing the step (`ForceStep`).
- The two stores commit and hold the same (`CommitsLikeMemory`), but do not read the same: the database gives
  tokens back without `loopState`, which the engine needs (`FindQueue`), and the next cycle saves them so. They also differ
  where no client of the engine looks: `startedAfter`
  is `>=` in one and `>` in the other; `updateUserTask` inserts in memory; memory cannot
  roll back; past the last page PostgreSQL's total is 0.
- Every upload is version 1 (`definitions.ts`) and replaces the definition under running instances.
- Only the top level is validated: flows, default marks, `attachedToRef` and `<outgoing>` inside a
  sub-process are not looked at. Element types the parser does not know are dropped without a word,
  inside a sub-process without any error. Nothing asks for `isDeployable` when an instance is
  started. A flow of the process to an element inside a sub-process is refused, although the engine would find it.

### Seen in the services

- An account that could not be created completely is deleted without the check for the
  last administrator (`rolledBack`).
- A sign-in that is under way survives disabling and a new password (`late`).
- `TenantWorkerManager.sync` works on the list it read: a tenant created since is stopped, a suspended one started, until
  the next poll. Two deletions of a tenant with a creation in between drop the new schema. A provisioning
  that fails leaves a part of the schema and no row. The LRU cache of stores closes a pool that
  is in use when it is full.
- `LoginThrottle` drops the reservations of attempts under way when it makes room (`disturbed`).

### Seen in the ERP

- Expense PATCH: the comment of `app/api/expenses/[id]/route.ts:182` speaks of a transaction that is
  rolled back, but `return null` commits the items it replaced (`twice`).
- The review completes in the service first and is written by separate statements
  (`app/api/tasks/[id]/complete/route.ts`): the sync of a timesheet is unconditional, that of a report
  is skipped out of order, which leaves it in `APPROVED_MANAGER`; a submission written after its
  review leaves `SUBMITTED` for good (`late`, `overtaken`). The decision route looks at the first 50 open tasks only.
- Whoever closes an approval in the service, or a manager on the page of an instance
  (`app/api/workflow/instances/[id]/cancel/route.ts`), leaves the document as it is. A report stays `SUBMITTED` or `APPROVED_MANAGER`
  without a review, and can be neither edited nor submitted again (`late`); a sheet stays under a review that does not come; an
  organization keeps its approval until somebody decides or withdraws. An approval that is restarted is known to no report,
  sheet or organization: its reviews are written nowhere (`ReviewFinds` finds nothing). Only profile requests follow the
  stream, and those not when an operator completes the review (`astray`).
- Two receipts of one report uploaded in the same millisecond have one name (`receipts/route.ts:65`): if one of the
  transactions fails, it removes the file the other one's report points at (`sameName`).
- An employee's row is written by `PATCH /api/employees/[id]` without looking at requests: an edit after the request was made
  is overwritten when it is approved, in the fields the request sets; a null in a request is no change, although the schema
  takes it for a value.
- Cancelling an approval that is over announces it as terminated again (`app/src/http/instances.ts:173`); a request that is
  still `PENDING` then, since its own review has yet to be written, becomes `CANCELLED` although it was decided (`astray`).
- The new-expense form: uploads replace the single receipt; Submit after a lost answer makes a
  second report; Retry and Submit run side by side.
- A profile request whose start failed stays `PENDING` without an approval; a terminated approval can be restarted
  again, since it stays `terminated` (`app/src/http/admin.ts:93`), and the request then follows the newest of the
  two that are open (`astray`).
- An organization's status is written before the service may refuse (`refused`); withdrawing
  clears the approval here although it was not cancelled there (`missed`); the page keeps its own copies of both.
- Timesheet page: a cell is edited while it is being created, row requests that fail are not noticed, a
  load meets requests under way, and two rows of one label become one on the next load (`muddled`).
- Messages: the first page of a thread is the *oldest*; a fetch that fails or comes late leaves another
  conversation's thread, to which a new message is appended; posting marks unseen messages as
  read and may set the mark back (`tangled`); two requests create the same conversation twice (`raced`).
- Rights: the "effective" rights an employee's route returns, and the "inherited" marks, leave out default groups;
  saving a profile writes the department and role the form was filled with; stale forms grant again what was taken
  away; a department's members are counted before it is deleted; the matrix offers workflow rights
  that the permission table lacks; a role stays in the session until sign-out (`changed`).
- Audit log: an older answer replaces a newer one (`misled`); the actor filter sends a typed name as an
  exact id; the entity types lack `ExpenseReport`; entries are written after, and outside of, the change they tell of (`mingled`).
- New employees: the loser of the race for the unique address gets an uncaught 500; a
  lost answer makes the second try say that the address is in use.

### Seen in the console

- "The server stopped accepting what we hold: drop it instead of staying 'signed in'"
  (`AuthContext.tsx:72`) is for 401, but the operator guard answers a revoked key with 403
  (`operator.ts:48`): a key session is never dropped.
- A 401 to a request of the old session drops the new one; a late answer to a sign-out clears the new
  cookie; a late `me()` shows the person before (`mixed`). Signing out of a key leaves a session
  cookie that was there (`unheard`).
- After an action the list reloads with the filter and page of the click, which overwrites a choice
  made meanwhile (`stale`). With PostgreSQL, stepping back from an empty page goes to the first (`InstancesPage.tsx:51`).
- The page of one instance shows whichever answer comes last (`crossed`), and instance and tokens are read
  by separate queries.
- After a lost answer the force dialog, tried again, says "Nothing was changed" although its first request did it; cancelling
  an instance that is over answers 200; restarting after a lost answer starts a second one.
