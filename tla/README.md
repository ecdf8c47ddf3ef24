# ZenZip in TLA+

A verification project for ZenZip, the embedded runtime for durable jobs,
workflows, schedules and agents: TLA+ modules of the parts that carry its
guarantees and of the API around them, TLC configurations that check them on
small instances, and TLAPS proofs of most safety properties for every instance.

ZenZip is a Rust core (`crates/zenzip-core`) on SQLite or Postgres, a NAPI
bridge (`packages/core-native`) and a TypeScript API (`packages/zenzip`).  All
durable state is in database tables; several processes may share one database,
and any of them may die at any point.

Contents: [inventory](#inventory), [modules](#modules), [runs](#runs),
[counterexamples](#counterexamples), [observations](#observations),
[bounds](#bounds), [fairness](#fairness), [proofs](#proofs),
[what is left out](#what-is-left-out), [plan](#plan).

## Inventory

| Component | State it keeps | Operations | Correct when |
|---|---|---|---|
| Job store (`sqlite.rs`, `postgres.rs`, `store.rs`) | `jobs`: status, attempt, max_attempts, available_at, lease_until, fence, keys; `throttle_cursors` | push, claim (plain, keyed, fair), ack, fail_retry, fail_dead, renew_leases, sweep_expired, requeue_dead, purge_dead | no accepted job is lost; a worker that lost its lease cannot touch the row of the next one; attempts stay in budget; keys, debounce, throttle and priority do what they say |
| Queue worker (`queue.rs`, `queue.ts`) | permits, token bucket, in-flight handler groups, pause flag | dispatch loop, handler call, renewal, settlement | every claimed job is settled or comes back |
| Runtime (`runtime.rs`, `app.ts`) | tasks, pause flags, registrations | start, stop with drain, sweepers, GC | a restart loses only what was in memory |
| Workflow engine (`workflow.rs`, `workflow.ts`) | `runs`, `steps`, `events`, execution jobs; per attempt the journal it loaded | trigger, execute, apply an outcome, invoke, settle a parent, emit, timeout sweep, cancel, GC | journaled steps are never redone or changed; one run per key, one child per step; sleeps last; every run ends |
| Scheduler (`scheduler.rs`) | `schedules.next_run_at`; a hidden queue of ticks | boot with catch-up, poll, claim by compare-and-swap, fire | a tick fires once; the row only moves forward; overlap policies hold; due ticks are taken |
| State machines (`runtime.rs`, `machine.ts`) | `machine_instances`, `machine_history`, `events` | create, send with optimistic retry | the history explains the state; a conflict means somebody else moved |
| Circuit breaker (`resilience.ts`) | state, failure tally, time opened, two counters | run, read state | probes are bounded, cooldown ends, it recovers |
| Agents (`agent.ts`, `memory.ts`, `network.ts`) | `agent_sessions`, a vector memory; otherwise a workflow | the model and tool loop as journaled steps, approvals and handoffs as waits, session read first and saved last | every request is one the provider can accept, unless the history was cut inside a tool exchange; a gated tool needs an approval of its own call; a replay asks what was asked; a finished turn is known to the next run |
| LLM adapters (`llm/*.ts`) | none | conversation to request, reply to response, errors to throws | the four agree on what a reply means |
| HTTP (`http.ts`, `express.ts`, `router.ts`, `middleware.ts`, `fetch.ts`) | the route trie, the layers, rate-limit buckets, sockets; per request its cursors and response | register, mount, listen, run the chain, handle errors, respond, drain | routes answer as registered; guards come before handlers; one handler and one response; every request ends; a drain ends |
| Application object (`app.ts`, `queue.ts`, `payload.ts`, `mcp-server.ts`, `dashboard.ts`) | definitions, native handle, servers, alert counts | define, start, stop, push with admission, alerts, requeue and purge, subscribe, cancel in bulk, erase, offload payloads, serve tools | bounds hold up to what is in flight; alerts mean growth; what is journaled reads back; calls come back |
| Options (`config.ts`, `duration.ts`, `namespace.ts`, bindings) | none | what each option becomes when the app starts | defaults, floors and caps as the documents say |
| Pure helpers (events, prices, `eval.ts`, `ssrf.ts`, `mcp.ts`, `cli.ts`, redaction, logs) | none | | agree with their definition over bounded inputs |
| Encryption, metrics, wakeups, logging | little or none | | not modelled, see below |

Interaction.  Workflows and schedules are built on the queue: a run is driven by
execution jobs in a hidden queue `zenzip.workflow.<name>`, a tick is a job in a hidden
queue of its schedule.  The engine calls the JS executor with the run's journal;
the executor records steps straight into the store while it runs and returns one
outcome, which the engine applies with one or more store calls.  `emit` and a
state machine's transition write waiters, triggered runs and their jobs in one
transaction.  Sweepers in every process share the tables with everyone else.
An agent is a workflow whose steps the model's replies generate.  The servers
(user routes, dashboard, MCP) run in the app's process and call the app object;
`stop` closes them first, takes the native handle away and then drains.

What is hard here.  Every `await` between two store calls is a point where the
process can die or another one can act: trigger (create, enqueue), sleep
(record, park, enqueue), invoke (create, park, enqueue), a child's end (record,
wake, enqueue), a tick (claim, fire), the timeout sweep (release, record,
enqueue).  On the JS side every `await` is a point where another call on the
same app runs: count then push, read the row then the steps, write the blob then
record the step, close the servers then drain.  Leases run out under live
handlers, so late writes are normal.  The
two stores differ: SQLite runs every call under one connection mutex, Postgres
interleaves statements and transactions.  `PROJECT.json` lists the hazards line
by line with the property that covers each.

## Modules

| Module | Models | State |
|---|---|---|
| `AtLeastOnce` | what a queue promises, with no leases, fences or processes | `outcome`, `handled` |
| `JobQueue` | job store and queue worker, processes that stop, crash and restart | the `jobs` columns as functions of the job id, `cursor`, `pushing`, `unseen`, `inflight`, `node`, `paused`, `sweeping` |
| `Workflow` | workflow engine, JS step replay, events, sweeper, cancel, GC | `runs`, `journal`, `tries`, `jobs`, and per process `exec`, `sweep`, `asking`, `client`; `answers`, `raced` |
| `Scheduler` | scheduler tasks of several nodes, one schedule, its tick queue | `row`, `task`, `jobs`, `owner`, `clock` |
| `StateMachine` | one instance and its senders, each in a process (`Host`), on either store | `state`, `history`, `events`, `call` |
| `CircuitBreaker` | one breaker and overlapping calls | `state`, `failures`, `cool`, the two counters, `call`, `probes` |
| `LlmAdapters` | the four provider adapters: requests, replies, streams | none |
| `AgentLoop` | `runAgentLoop` over the journal, sessions, memory, approvals, handoffs (EXTENDS `LlmAdapters`) | `status`, `journal`, `waiting`, `failures`, `local`, `sessions`, `memory` |
| `HttpServer` | registration, trie, middleware chain, built-in middleware, handlers, responses, drain | `phase`, `routes`, `req`, `buckets`, `clock`, `closeAt` |
| `Toolkit` | pure helpers of `packages/zenzip/src` | none |
| `Registration` | what `start` hands the runtime for each group of options (EXTENDS `Toolkit`) | none |
| `Wire` | bodies, queries, headers, the MCP client, redaction, log adapters (EXTENDS `Toolkit`) | none |
| `App` | the application object and its clients, each call cut at its awaits (EXTENDS `Toolkit`) | `defs`, `native`, `runtimes`, `servers`, `opening`, `jobs`, `lastDlq`, `run`, `journal`, `blobs`, `pc` |
| `MC*` | programs, push options, schedules and symmetry for TLC | |
| `JobQueueProofs`, `WorkflowProofs`, `SchedulerProofs`, `StateMachineProofs`, `CircuitBreakerProofs`, `AgentLoopProofs`, `HttpServerProofs`, `AppProofs` | theorems about the module each extends | |

Reading the models:

- One action is one atomic effect: one store call (SQLite under its mutex, or
  one Postgres statement or transaction), or one uninterrupted stretch of JS.
- `JobQueue`.  `inflight` is the set of deliveries in the memory of processes,
  each with the fence and attempt it was claimed with; a zombie is a delivery
  whose fence is no longer the row's.  Times are relative: a lease or delay
  counts down with `Tick`, and a lease below zero has expired.  `Backend`
  chooses between SQLite's one-step sweep and the two statements of Postgres.
  A push is a call with a beginning and a commit: it reads its clock when it
  begins; on Postgres it debounces over the rows committed by then, on SQLite
  over the rows at the commit.  `unseen[j]` are the jobs committed while the push
  of `j` was under way.  `handled` remembers which jobs a handler has finished.
- `Workflow`.  A program is a sequence of steps (`run`, `sleep`, `event`,
  `invoke`).  An attempt replays it over `snap`, the journal it loaded, and
  records into `journal` as it goes; `exec[p].pc` names the store call that
  comes next.  The queue below it is kept to deliver, expire, settle.  `faults`
  counts crashes, store errors and leases lost by live attempts.  `effects` and
  `due` are history variables.  A keyed trigger and an invoke look for the run
  and insert it in two store calls, and a loser of the unique index returns the
  winner; `answers` are what keyed callers got.  `raced` are the runs whose
  attempt was past its last look at the status when a cancel landed.
  Statuses: `runnable` and `sleeping` are the code's running and sleeping.
- `Scheduler`.  `def` is the schedule, chosen in `Init` from a set, so one run
  covers several policies.  `claimed` and `fired` count what happened to each
  tick; a tick is named by the `next_run_at` that was claimed.
- `CircuitBreaker`.  `call[c]` remembers the state in which a call started,
  which is what its `finally` uses; `probes` are the calls of the current
  half-open period.  The failure tally stops at the threshold.
- `AgentLoop`.  A step's body and its record are two actions (`Produce`,
  `RecordStep`), so that a crash can fall between; what follows a step reads the
  journal only, as a replay does.  A message is the set of runs its text speaks
  about, plus its tool calls.  `Wires` maps a conversation to the four request
  formats, and `RequestsWellFormed` is about those: every tool result follows the
  turn that called for it, in every request whose conversation was not cut inside
  a tool exchange (`Cut`).  The engine's store calls around a run (create and
  enqueue, release, record and enqueue) are steps of their own; a run whose
  process died between two of them is `stranded`, and `RunsEnd` says that this is
  the only way not to end.
- `HttpServer`.  A path is a sequence of segments, the trie a function of the
  table of routes.  Layers that neither wait nor share state are evaluated in
  the step that reaches them; user layers, authentication that awaits, the rate
  limiter and the handler have steps of their own.
- `App`.  A scenario, chosen in `Init`, says which clients call an app and what it
  has defined; one run covers nine.  Below the app a job is pending, active
  under one runtime, dead or done: `JobQueue` is the model of what that means.
- `Toolkit`, `Registration`, `Wire` and the exchange part of `LlmAdapters` are
  operators.  They are compared with reference definitions, over bounded inputs,
  by the named assumptions of `MCApp` and `MCAgentLoop`, which TLC evaluates at
  the start of `AppClients` and `AgentRuns`: `EditDistance` against the balls of
  the edit graph, `Addresses` against the private ranges as prefixes, `Events`
  against the names a pattern denotes, `AdaptersAgree` one adapter against the
  others, and so on.
- `KeepsPromise` is a refinement: `Promise == INSTANCE AtLeastOnce` with
  `outcome` computed from the rows, and `Promise!Spec` as the property.

Definitions whose comment begins with "Mutant:" are the deliberate errors that
show each property can fail; no specification uses them.

## Runs

| Run | Instance | Shows |
|---|---|---|
| `JobQueueDelivery` | 2 processes, 1 job of 2 attempts, 1 stop or crash, 1 requeue, pausing, SQLite | `UniqueClaims`, `FencedTransitions`: fencing. `RetryBudget`. `KeepsPromise`: at least once. `JobsSettle`: every job ends |
| `JobQueueShaping` | 1 process, 2 producers, 3 jobs of 2 tenants, groups of 2, key limit 2, fair, rate limited, Postgres push and sweep | `KeyLimitHolds`. `DebounceCollapses`: two jobs of a debounce key wait together only if their pushes overlapped on Postgres. `SlotsSpaced`: the slots of a throttle key keep their distance. `FairShare` |
| `WorkflowRecovers` | 2 processes, step-sleep-step, 1 fault | `EffectsBounded`: a fault costs one repetition at most. `StartedRunsEnd` |
| `WorkflowFamily` | 2 processes, 3 generations, 2 triggers racing for one key, 1 fault, 1 cancel, 1 event | `JournalImmutable`. `OneRunPerKey`: callers with one key get one run, an invoke step one child. `ChildrenStayCancelled`: no child of a cancelled run is active, unless an attempt of either was past stopping |
| `WorkflowEnds` | 2 processes, every kind of step, an event-triggered run, an unknown child, GC, no faults | `RunsEnd` |
| `SchedulerTicks` | 2 nodes, 6 schedules, 1 fault | `TickFiresOnce`, `OneProcessSerialises`, `DueTicksTaken` |
| `BreakerProbes` | 4 calls, 2 probes, bulkhead of 3, 2 outages | `ProbesBounded`, `Recovers` |
| `MachineSends` | 2 senders, each in a process of its own on one SQLite file, 3 states | `HistoryExplains`, `ConflictMeansProgress` |
| `AgentRuns` | 2 runs of one session, a plain, a gated, a handoff and an unknown tool, memory, output schema, 1 fault | `RequestsWellFormed`, `GatedNeedsApproval`, `ReplaysAskTheSame`, `HistoryCarriesOver`, `RunsEnd` |
| `HttpRequests` | up to 3 of 7 routes in any order and a mounted router; 2 requests, 10 layers, a clock, a drain | `RoutesFit`, `GuardsHold`, `HandlerRunsOnce`, `FirstResponseStands`, `RefusalsJustified`, `RequestsEnd` |
| `AppClients` | 9 scenarios of producers, operators, alert ticks, triggers, watchers, bulk cancels, MCP calls, listen, stop and signal, alone and at once | `PendingBounded`, `FinalUpdateComplete`, `JournalReadsBack`, `AlertsFollowGrowth`, `CallsSettle` |
| `WorkflowTriggerCrash` | 1 fault | `RunsEnd` is violated |

The violation: `trigger` is "durable from this moment" (`workflow.ts:377`), but
the run and its first job are two transactions (`workflow.rs:231`).  A crash
between them leaves a run that nothing drives, and triggering again with its key
finds it and enqueues nothing.

`TypeOK` of `JobQueue`, `Workflow`, `Scheduler`, `CircuitBreaker`, `StateMachine`
and `AgentLoop` documents their state; add it to a configuration to check it.

## Counterexamples

Further configurations reproduce disagreements between a document or comment
and the code.  Each is expected to end in a counterexample; run them with
`tlc -config X.cfg MC...`.

| Configuration | Property | What the trace shows |
|---|---|---|
| `JobQueuePostgresBudget` (MCJobQueue) | `RetryBudget` | a lease that expires between the two sweep statements (`postgres.rs:862-886`) sends an exhausted job back to pending; `store.rs:5-6` asks for the same semantics of both stores |
| `JobQueuePostgresDebounce` (MCJobQueue) | `DebounceHoldsEverywhere` | the queues page says of debouncing that it "holds across processes" (`docs/app/docs/queues/page.tsx:328`); on Postgres two overlapping pushes do not see each other's insert (`postgres.rs:344`), and both jobs wait |
| `JobQueueBackToBack` (MCJobQueue) | `StartsSmooth` | throttling is to "smooth starts to at most `max` per window" (`types.ts:231`), but it spaces only `available_at`: after a pause two jobs of a key are started by one claim |
| `WorkflowSleepCrash` (MCWorkflow) | `SleepHonoured` | "Safe to record now: nothing re-executes until the delayed job arrives" (`workflow.rs:411-412`); after a crash the retried job finds the sleep recorded and goes on |
| `WorkflowSweepCrash` (MCWorkflow) | `StartedRunsEnd` | the waiter is released, the process dies, nothing records the timeout (`workflow.rs:258-278`) |
| `WorkflowChildCrash` (MCWorkflow) | `ParentsWake` | the child is durable as completed, its process dies before the parent is woken (`workflow.rs:551-587`), and the retry sees a finished child and returns |
| `WorkflowCancelRace` (MCWorkflow) | `CancelSticks` | a cancel lands between the second status check and the write (`workflow.rs:370-383`); the run ends completed |
| `WorkflowCancelChild` (MCWorkflow) | `ParentsWake` | a child is cancelled by itself and its parent waits for ever (`sqlite.rs:1394-1420`) |
| `SchedulerLostTick` (MCScheduler) | `ClaimedTicksFire` | "ticks fire **exactly once**" (`README.md:265`), but a tick is claimed before it is fired (`scheduler.rs:314-337`); a crash or a failed push in between loses it for every catch-up policy |
| `SchedulerSkipRace` (MCScheduler) | `SkipNeverOverlaps` | two nodes check and then fire (`scheduler.rs:328-334`) |
| `MachineNewest` (MCStateMachine) | `NewestFirst` | on Postgres the stamp is read before the row lock (`postgres.rs:1305`) and the history is ordered by stamp.  With `Backend` "sqlite" and `Host <- OwnProcess` it is the same for two processes on one file: `sqlite.rs:1141-1143` reads the clock before the write transaction, and the mutex is per process |
| `AgentRepeatedIds` (MCAgentLoop) | `GatedNeedsApproval` | with ids made from name and index (`llm/google.ts:113-118`) the calls of two iterations share an id, and a second answer to the first gate opens the second |
| `AgentCutHistory` (MCAgentLoop) | `RequestsAccepted` | the cut to a window (`agent.ts:267`, `:500`) and compression (`memory.ts:130`) fall between a tool turn and its result, and the next request begins with a result without its call, which the providers refuse |
| `HttpUndecodable` (MCHttpServer) | `FailuresStayApart` | a path parameter that cannot be decoded throws out of the route lookup (`http.ts:140`), outside the handling of its own request |
| `AppStopTwice` (MCApp) | `StopMeansDrained` | the second `stop()` finds no native handle and resolves true while the first still drains (`app.ts:946-948`); with a signal handler installed (`app.ts:931`) a program that also calls `stop` itself meets it |
| `AppDrainCalls` (MCApp) | `NoHandlerTurnedAway` | a handler that is being drained calls the app and gets "app not started" (`app.ts:953`) |
| `AppOverlappingTicks` (MCApp) | `AlertsFollowGrowth` | a tick slower than its interval stores an old count after a newer one, and the next tick alerts for no new death (`app.ts:661-664`) |
| `AppBlobZombie` (MCApp) | `JournalReadsBack` | an attempt that lost its lease overwrites the blob a recorded step refers to (`payload.ts:60`) |

Further facts that traces of these models showed, without a configuration of
their own:

- With retention on, a stale attempt that loads its journal after the GC has
  deleted it repeats every body (`EffectsBounded` needs `Collects = FALSE`), and
  after retention (`sqlite.rs:753-782`) a key starts a second run, where the
  durability page says "forever".
- `requeueDead` gives "a fresh retry budget" (`queue.ts:148`) but leaves the fence
  alone (`sqlite.rs:839`), so the worker of the last attempt, whose lease ran out,
  can still dead-letter the requeued job.
- The keyed claim ranks by id within a key (`sqlite.rs:577-596`), so a later job of
  higher priority waits; `PlainClaimsInOrder` is about the plain claim.
- A server that `listen()` is opening while `stop()` runs is added to the list
  after it was closed and stays open (`app.ts:498-506`).
- Three lost attempts dead-letter the execution job (`store.rs:243`) and the run
  stays active.
- A boot error ends the scheduler task of its process for good (`DueTicksTaken`
  allows for it), and an interval schedule is re-based on the time it was taken
  (`scheduler.rs:151-153`), so it leaves its grid.
- A call from before the trip that succeeds late closes an open breaker
  (`resilience.ts:122-127`).
- Of two overlapping runs of one session the later save replaces the earlier one
  (`agent.ts:491-505`).
- Two step ids that differ in replaced characters share one blob file
  (`payload.ts:28`), and an attempt under way journals, and offloads, for a run
  that `purgeSubject` has removed (`app.ts:306`).

## Observations

Smaller differences between a comment or document and the code, met while
translating it.  The models do what the code does; no run is about them.

- Agents: "Max routing hops" and "Each handoff consumes one iteration"
  (`network.ts`) count iterations, and one iteration may hold several handoffs.
  `maxTotalTokens` is not looked at after `llm-output-fix`.  "NEVER re-calls the
  model" (`agent.ts:307`) holds from the moment the reply is recorded.  A stream
  that ends early is accepted as a reply, and tokens a provider does not report
  are free, except with the Anthropic adapter, which then fails.
- HTTP: "Sliding window" (`middleware.ts:245`) is a fixed window.  A static
  built-in such as `/healthz` answers before a user's earlier `/:name`
  (`http.ts:74`: "user routes still override later built-ins").  A user layer
  that calls `next` twice while a later guard waits goes on behind that guard,
  which is why `GuardsHold` speaks of guards before the user's layers.  A
  rejection of the route dispatch does not pass through the error layers.  The
  Fetch adapter reads the status when the response finishes.  A JSON text whose
  value is a JSON text is parsed twice.
- App: `app.get` may be called after `start`, other definitions may not.
  `waitForRunStatus` "fails fast" only when it does not wait for a terminal
  status.  The limits of `orphanedRuns` and `cancelRuns` count finished runs too,
  and `deadJobs(1000)` caps the growth an alert can see.  A keyed `pushBulk` is
  not all or nothing.  A backoff delay above 60s is capped when `maxDelay` is
  left out.  The dashboard's requeue is not audited (`dashboard.ts:145-152`,
  against `types.ts:43-47`).  A blob that is missing is read as its marker.
- Names and text: an event pattern whose first segment is a wildcard matches
  nothing inside a namespace; names with colons may coincide across namespaces;
  throttle spacing is rounded.  `firstSseMessage` joins the data of all events.
  Redaction leaves lists under a secret key, and an object met before, as they
  are.
- Scheduler: with catch-up `all` the missed ticks are fired one after the other
  without the overlap check (`scheduler.rs:226-239`), so `skip` ("Don't fire while
  a previous tick is still pending/running", `scheduler.rs:22`) does not hold for
  them.  `OneProcessSerialises` leaves them out.
- HTTP: `res.status(...).json(...)` does not look at `headersSent`, so a built-in
  guard that stands behind a user layer which has answered, and goes on, sets the
  status again.  `ResponsesStand` assumes the usual order.
- Store: SQLite's `record_step` does not look at the run's row.

## Bounds

Every bound is a CONSTANT or a named constraint.

- `MaxJobs` 1 to 3: fencing, budget and delivery concern the deliveries of one
  job; order, keys and shaping need two or three jobs.  Two processes with two
  permits each are enough for a live owner and a zombie on either side.
- `MaxStops`, `MaxFaults` 1 in passing runs: one fault may hit any step.  More
  faults strand runs, as the code's three infra attempts
  imply.  `MaxRequeues` 1 is the first that returns a used row.
- `Lease` 0, `BackoffDelays` {1}: relative time, so a lease may run out at the
  next tick, and a delayed job is not ready at once.
- `FirstClaims` (fence at most 1) in the shaping run: its properties are about
  which rows are claimed, and a row that came back is claimed by the same
  statement.  `ClaimsBound` (fence at most 3) in `JobQueuePostgresBudget`: there
  the budget does not bound the claims.
- `Producers` 2 and `Slack` 1 in the shaping run: two pushes under way, one of them
  with a clock one unit old when it commits; three jobs leave one to be pushed
  beside a claim.  Its `VIEW` (`Seen`) forgets, of a job that has ended, all but
  that it has: no step or property of a run without requeues reads more.
- `MaxRuns`, `JobsPerRun`, `MaxSteps`: room for the program's runs and for every
  job that faults can leave behind; trigger and emission are disabled, not lost,
  at the bound.
- `RaceFirst` in `WorkflowFamily`: the two trigger calls race for their key before
  the first attempt starts; a later one finds the run and only reads it.
- `MaxTime` 3 to 4 and `MaxCatchup` 2 in `Scheduler`: the first tick, a missed
  one, and a cap that is reached (the code's cap is 100).
- `MaxHistory` 5, `MaxTime` 2 in `StateMachine`: three transitions by others
  within one call, which is what exhausts its three attempts, and one more.
- `AgentLoop`: `MaxIterations` 2 (a tool turn and the answer), `MaxTotalTokens` 3
  (within reach), `HistoryWindow` 3 and `KeepRecent` 2 (so that saving cuts a
  conversation and compression has something to do), two runs (a third adds only
  another writer of the session), `MaxFaults` 1 at any step.  The three attempts of an
  execution job are not counted; `MaxFaults` stays below them.
- `HttpServer`: `MaxRoutes` 3 of the patterns in any order, which is what a
  conflict between a static and a parameter node and their order needs; requests
  are served with the tables in `Served`, so that registration and serving do not
  multiply.  `Window` 2 and `MaxClock` 2 let a window end; `MaxPerWindow` 1 is
  reached by the second request.
- `App`: `MaxPending` 2, four jobs, `MaxAttempts` 2, `MaxStarts` 2 (stop and start
  again), `MaxReturns` 2, `DeadLimit` 2 in place of 1000.  Each scenario has the
  clients that share state with one another; clients that share none are not put
  together.

Symmetry is used for processes and producers, only in runs without liveness.

Deadlock is not checked where the system may come to rest (all jobs settled and
all bounds used up); the runs of the
breaker, the agent loop and the HTTP server check it.

## Fairness

Weak fairness only, and only for what the code's own loops do: a dispatcher
polls every `poll_ms`, the sweepers run every `sweep_ms`, an attempt or a group
proceeds to its end while its process is up, and the clock advances.  Two
assumptions are about the environment: handlers return, and a process that went
down is started again (by its supervisor).  For the breaker, the application
keeps calling and calls return.  In `AgentLoop` some run keeps moving while any
can, the engine goes on from one store call to the next while its process lives (a
crash in between strands the run), waits time out and children end; operators need not answer.  In
`HttpServer` layers and handlers of the program settle and timers fire; in `App`
a continuation whose promise has settled runs, and native calls return, while
handlers and attempts owe nothing.  Nothing is assumed about pushes, triggers,
emits, cancels, crashes, store errors or GC.  A live attempt's lease is not
assumed to expire; an orphaned one is.

## Proofs

Every theorem is checked by TLAPS for all values of the constants: any number of
processes, jobs, runs, senders, calls, requests or clients, any program, chain or
schedule.  The assumptions are the named `ASSUME`s of the modules, which TLC
evaluates on every run: types of the constants, markers that are distinct, finite
sets where the code counts (`OptionsAssumption`, `ProgramAssumption`,
`AppAssumption`), schedules with a positive interval (`ScheduleAssumption`), a
chain whose error layers are the ones of kind `onError` (`ServerAssumption`), paths
and route tables that are sequences (`RouterAssumption`), and clients that are each
of one kind (`KindsAssumption`).

| Module | Theorem | States |
|---|---|---|
| `JobQueueProofs` | `TypeCorrect` | `Spec => []TypeOK` |
| | `SafeAlways` | `Spec => []Safe`, the inductive invariant |
| | `TokensUnique` | `Spec => []UniqueClaims` |
| | `Fenced` | `Spec => FencedTransitions` |
| | `BudgetKept` | `Backend = "sqlite" => (Spec => []RetryBudget)` |
| | `PromiseKept` | `Spec => KeepsPromise`, the refinement of `AtLeastOnce` |
| | `DebounceHolds`, `ThrottleHolds` | `Spec => []DebounceCollapses`, `Spec => []SlotsSpaced` |
| | `KeyLimitKept` | `Spec => []KeyLimitHolds` |
| | `FairClaims` | `Spec => FairShare` |
| | `PlainClaimsInOrder` | `(~Fair /\ KeyLimit = NoLimit) => (Spec => PriorityOrder)` |
| `WorkflowProofs` | `SoundAlways` | `Spec => []Sound`, the inductive invariant |
| | `KeysAreUnique` | `Spec => []OneRunPerKey` |
| | `JournalWriteOnce` | `Spec => JournalImmutable` |
| | `CancelReachesChildren` | `Spec => []ChildrenStayCancelled` |
| | `LedgerBalances` | `Spec => []Ledger`, the inductive invariant of the next two |
| | `RetainedEffectsBounded` | `Spec => []RetainedBounded`: `EffectsBounded` for the runs the GC has not taken |
| | `ReexecutionBounded` | `Collects = FALSE` implies `Spec => []EffectsBounded` |
| `SchedulerProofs` | `LedgerAlways` | `Spec => []Safe`, the inductive invariant |
| | `TicksFireOnce` | `Spec => []TickFiresOnce` |
| | `OneProcessKeepsPolicy` | `Spec => []OneProcessSerialises` |
| `StateMachineProofs` | `SoundAlways` | `Spec => []Sound`, the inductive invariant |
| | `HistoryAlwaysExplains` | `Spec => []HistoryExplains` |
| | `ConflictsArePaidFor` | `Spec => []ConflictMeansProgress` |
| | `SqliteNewestFirst` | `OneMutex => (Spec => []NewestFirst)`: one process on SQLite |
| `CircuitBreakerProofs` | `CountersExact` | `Spec => []Exact`, the inductive invariant |
| | `ProbesStayBounded` | `Spec => []ProbesBounded` |
| `AgentLoopProofs` | `AttemptsReplay` | `Spec => []Replayable`, the inductive invariant |
| | `GatesHold` | `FreshIds => (Spec => []GatedNeedsApproval)` |
| | `ReplaysAgree` | `Spec => []ReplaysAskTheSame` |
| | `ConversationsFit` | `Spec => []Telling`, the inductive invariant of the next two |
| | `HistoryIsKnown` | `Spec => []HistoryCarriesOver` |
| | `RequestsAreWellFormed` | `Spec => []RequestsWellFormed` |
| `HttpServerProofs` | `ChainInOrder` | `Spec => []InOrder`, the inductive invariant |
| | `GuardsAlwaysHold` | `Spec => []GuardsHold` |
| | `HandlersRunOnce` | `Spec => HandlerRunsOnce` |
| | `ResponsesStand` | `GuardsFirst => (Spec => FirstResponseStands)` |
| | `RefusalsAreJustified` | `OneLimiter => (Spec => RefusalsJustified)` |
| | `TrieMatchesScan` | `Spec => []RoutesFit` |
| `AppProofs` | `LastUpdateComplete` | `Spec => []FinalUpdateComplete` |
| | `JournalFaithful` | `(OneAttempt /\ DistinctFiles) => (Spec => []JournalReadsBack)` |
| | `AlertsTellOfDeaths` | `OneTick => (Spec => AlertsFollowGrowth)` |
| | `PendingStaysBounded` | `Spec => []PendingBounded` |

Hypotheses are there because the statement fails without them, and the instance
of the run satisfies them: `BudgetKept` (`JobQueuePostgresBudget`),
`PlainClaimsInOrder` (the keyed claim, above), `SqliteNewestFirst`
(`MachineNewest`), `GatesHold` (`AgentRepeatedIds`),
`OneTick` (`AppOverlappingTicks`), `OneAttempt` (`AppBlobZombie`),
`DistinctFiles` and `GuardsFirst` (see the facts and observations above), and
`Collects = FALSE` in `ReexecutionBounded`: an attempt whose run the GC deletes
between its status check and its load of the journal repeats every body.
`RetainedEffectsBounded` needs no hypothesis.  Two properties name their exception
themselves: `RequestsWellFormed` the cut history (`AgentCutHistory`), and
`DebounceCollapses` the overlapping pushes (`JobQueuePostgresDebounce`).
`OneLimiter` is a limit of the model: its buckets are shared by all limiters of a
chain, where the code gives each `rateLimit()` its own.

The invariants, and why they are needed:

- `JobQueue`.  `UniqueClaims` alone is not inductive.  `Safe` adds that rows not
  yet pushed are untouched (a push cannot inherit a token), that a delivery with
  result `ok` is recorded in `handled` (so an ack is of handled work), that the
  holder of a row's current token remembers at least as many attempts as the row
  counts (so a retry settled by it leaves an attempt; a requeue resets the row,
  not the holder), and that SQLite never leaves a sweep half done.  `BudgetKept`
  adds `RetryBudget` to it.  `PromiseKept` maps each step to a step of
  `AtLeastOnce` or a stutter, one case per action.  `Shaped`: only a claim starts a
  row, so that what retries, sweeps and requeues bring back does not wait for a
  first start (`OnlyClaimsStart`); a throttle cursor is past every slot it gave out
  (`CursorAhead`); and a Postgres push knows every waiting job of its key, unless
  that job was committed beside it (`Accounted`).
  `KeyLimitKept` counts: the rows a claim adds for a key have distinct ranks above
  what already runs.  `FairClaims` compares two keys by the ranks of their jobs in
  the batch.
- `Workflow`.  `Sound`: the tables keep their shape, run ids above the counter are
  fresh, a key has one retained run and an invoke step one child (`KeyIndex`), and
  what keyed callers were told is a run of their key (`AnswersTrue`).  `Family` is
  for cancellation: an attempt past its last look at a cancelled run was there when
  the cancel came (`LastLooks`), and the children of a cancelled run are over, with
  no attempt left that could revive them (`ChildrenOver`); new children cannot come,
  since only an attempt of the parent creates one.
  `Ledger` is the account behind the bound on re-execution.  For each step of a retained run it adds up the bodies that
  finished, the attempts that may still reach the body and, until the step is
  journaled, everything that will start an attempt: a pending or orphaned job, a
  wait, a trigger, a sweep, a parent's or child's call under way.  The sum is at
  most one more than the faults: a step of the engine hands a chance on or uses
  it up, and only a crash or a failing store call adds one.
- `Scheduler`.  `Ledger`: a tick that a task has claimed is behind the row and not
  fired yet, no two tasks hold one tick, and a tick that fired is behind the row, so
  that nobody can claim it again.  `Solo` is about a schedule with one process: a task at its fire has
  seen no active tick and nobody else can add one.
- `StateMachine`.  `Explained` adds to `HistoryExplains` that an instance without
  history is where it began.  `PaidFor`: a sender has been overtaken at least as
  often as it has lost an attempt.  `Stamped`: behind one mutex one call at a
  time holds a stamp, it is not earlier than those of the rows, and theirs are not
  later than now.
- `CircuitBreaker`.  `Exact`: the bulkhead's counter is the number of calls in
  flight, always; while half-open, the probe counter is the number of probes of this
  period in flight, and such a probe is a call that entered half-open.  Without the
  last part a late `finally` could free a slot it never had.
- `AgentLoop`.  `Replayable`: what an attempt has in memory is derived from its
  journal, every request sent is the one the journal leads to, and a recorded tool
  result of a gated call has its approval.  Journals only grow, so what was
  derived stays derived.  `Telling` is about conversations: what is stored,
  journaled, held or sent pairs each tool turn with the results behind it
  (`Paired`), takes its calls from a journaled reply (`Sourced`), and speaks of the
  earlier runs it owes (`Owed`: the runs of the session that ended before it was
  triggered, with no third run in between).  `Stored` says when the session holds
  the turn of such a run last, so that the cut to a window keeps it.  The formats
  of the adapters follow from lemmas about where the pieces of a `FlattenSeq` lie.
  Ids made from name and position may repeat, but two calls with one id have one
  name, and that is all Gemini's format needs.
- `HttpServer`.  `InOrder`: before the first user layer a request is in one layer
  at a time (`Well`, `Sole`), and what a guard has not let through has nothing
  running that could move it on (`Held`).  `Books`: a bucket counts what was let
  through since its window began, and a request that was let through does not come
  back to the limiter.  The walk down the trie reaches one node at most, which is a
  prefix of a pattern and fits the path so far; where no parameter stands beside
  another segment the walk cannot leave a pattern that fits.
- `App`.  Each call is cut at its awaits, so every invariant says what a call may
  still rely on.  `Told`: an attempt's steps are in the journal while the run is
  there, a run that completed has every step, and a
  watcher that read the row as completed finds every step journaled, or the run gone.
  `Faithful`: an attempt knows of every journaled step, the step it
  carries is new, and the blob that stands for it holds its value.  `Tally`: growth over the last size
  is at most the deaths since the last alert, for the store and for what a tick
  under way has counted.  `Room`: the pending jobs and the batches of the producers
  that were admitted and have not pushed yet exceed `maxPending` by at most all
  batches but one.

TLC finds each of these invariants true on the instances of the runs too (a module
that extends the `MC` module and the proof module, the invariant in the `.cfg`).

Every safety invariant and action property of the passing runs is stated by a
theorem.  Some of them are about recursion over data (the walk down the trie, the
keys of a flattened list of results).  There the proofs use the least element of a
set of numbers, which needs no induction theorem with an operator parameter, to
show that the function inside `FoldLeft` or `FlattenSeq` exists and what it is at
each position (`FoldedExists`, `FlattenIs` and the lemmas behind them).

Only model-checked, and why:

- Every liveness property (`JobsSettle`, `StartedRunsEnd`, `RunsEnd`,
  `DueTicksTaken`, `Recovers`, `RequestsEnd`, `CallsSettle`): fairness and ENABLED
  are outside the prover's reach.
- `Toolkit`, `Registration`, `Wire` and the exchange part of `LlmAdapters` are
  checked over bounded inputs only; `Wire` has a recursive operator (redaction
  walks a tree), so no theorem is stated above it.
- `AtLeastOnce` is the one abstract specification; the others are part of the plan.

## What is left out

- SQLite's sweep is two statements under one mutex with one `now`, hence one
  step.  Emit and upsert_schedule are one step as on SQLite; the row locks
  and SKIP LOCKED of Postgres in them are not modelled.
- A push gets its id at its commit.  A claim by window functions that waits for a
  locked row takes its snapshot after the wait.  The winner of a key that the GC
  deletes between the conflict and the second lookup is not told apart.
- A cancel is one step on Postgres too.  The walk over the children is the closed
  form `Walked`; `WalkIsLoop` (MCWorkflow) compares it with the loop of the code.
- Postgres' cancel descends through finished runs too; the model follows SQLite.
- Trigger delays, `step.all`, step timeouts, an error thrown by `recordStep`
  inside the executor.
- A changed schedule spec, jitter, a tick handler that outlives its lease.
- The token bucket grants any number from 1 to what was wanted; backoff is any
  delay of a set.
- The event of a state machine's transition is recorded but wakes no workflow.
- Agents: embeddings (recall is any k records of the session), token callbacks,
  the circuit breaker around a provider.  Adapters: request signing, headers,
  sampling parameters.
- HTTP: cookies, content negotiation of static files, texts of error bodies.
  Dashboard views and pages, JSON-RPC framing, argument parsing, project
  scaffolding: formatting and I/O without state of their own.
- Encryption at rest converts payload columns that the models do not have.
  Metrics and log forwarding only observe.  LISTEN/NOTIFY shortens a poll
  interval, and the models let a dispatcher claim at any time.
- `packages/core-native/index.js` loads the native binary; `docs/` is a web
  site of its own; neither has state the runtime depends on.

## Plan

Done: the models `AtLeastOnce`, `JobQueue`, `Workflow`, `Scheduler`,
`StateMachine`, `CircuitBreaker`, `LlmAdapters`, `AgentLoop`, `HttpServer`,
`Toolkit`, `Registration`, `Wire`, `App`, and proofs of every safety property the
passing runs of the eight with state of their own check.

Next, in this order:

1. Abstract specifications: a run as a sequence of steps done once each, refined
   by `Workflow`; a schedule as a sequence of ticks, refined by `Scheduler`.
2. Errors thrown inside the executor (`recordStep`) and `step.all`.
3. Emit and cancel as concurrent Postgres transactions.
