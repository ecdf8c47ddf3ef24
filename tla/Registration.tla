---------------------------- MODULE Registration ----------------------------
(***************************************************************************)
(* What app.start() hands the runtime: the options of queues, workflows,   *)
(* agents, schedules and machines as the code in app.ts, queue.ts and      *)
(* agent.ts turns them into registrations, with the defaults and floors    *)
(* runtime_bindings.rs applies.  Durations are in milliseconds; None is an *)
(* option left out; a registration that is not made is the empty set.      *)
(***************************************************************************)
EXTENDS Toolkit

Default(v, d) == IF v = None THEN d ELSE v
AtLeast(floor, n) == IF n < floor THEN floor ELSE n
AtLeastOne(n) == AtLeast(1, n)

\* A delay is at least a millisecond; the cap is raised to the delay only when the
\* option gives one.
backoff(delay, maxDelay) ==
  LET d == AtLeastOne(Default(delay, 1000))
  IN [delayMs |-> d, maxDelayMs |-> IF maxDelay = None THEN 60000 ELSE AtLeast(d, maxDelay)]

-----------------------------------------------------------------------------
(* Queues *)

\* An option that may be left out; Ints are the numbers it ranges over.
Opt(S) == {None} \cup S

QueueOptions(Ints, Schemas) ==
  [concurrency : Opt([limit : Ints, keyed : BOOLEAN]), retries : Opt(Ints), lease : Opt(Ints),
   delay : Opt(Ints), maxDelay : Opt(Ints), fair : Opt(BOOLEAN), debounce : Opt(Ints),
   throttle : Opt([per : Ints, max : Ints]), schema : Opt(Schemas)]

DEFAULT_RETRIES == 2
DEFAULT_CONCURRENCY == 10

\* A concurrency is None or [limit, keyed].  A keyed one, { limit, key }, caps each key
\* and leaves the cap of the queue at its default.
PerKey(o) == o.concurrency # None /\ o.concurrency.keyed

\* handler is None on a producer-only queue, otherwise the jobs of one delivery.
registerQueue(handler, o) ==
  IF handler = None THEN {}
  ELSE {[concurrency |-> IF o.concurrency = None \/ PerKey(o) THEN DEFAULT_CONCURRENCY
                         ELSE AtLeastOne(o.concurrency.limit),
         keyLimit    |-> IF PerKey(o) THEN AtLeastOne(o.concurrency.limit) ELSE None,
         maxAttempts |-> AtLeastOne(Default(o.retries, DEFAULT_RETRIES) + 1),
         leaseMs     |-> AtLeast(1000, Default(o.lease, 30000)),
         backoff     |-> backoff(o.delay, o.maxDelay),
         batch       |-> AtLeastOne(handler),
         fair        |-> Default(o.fair, FALSE)]}

\* #validate: the item fits the queue's schema; without a schema (None) all do.
validate(o, item) == o.schema = None \/ item \in o.schema

\* pushBulk: one call of the runtime for all items, after all were validated, or one
\* push after the other when an item needs a key of its own: an invalid item then
\* ends the loop with the items before it pushed.
PerItem(o) == PerKey(o) \/ o.debounce # None \/ o.throttle # None
pushBulk(o, items) ==
  LET valid == {n \in 0 .. Len(items) : \A i \in 1 .. n : validate(o, items[i])}
  IN IF PerItem(o) THEN SubSeq(items, 1, Max(valid))
     ELSE IF Len(items) \in valid THEN items ELSE <<>>

\* #keyFor: only a call that carries its item has a key; keys is options.concurrency.key.
concurrencyKey(o, item, keys) == IF PerItem(o) /\ PerKey(o) THEN keys[item] ELSE None

-----------------------------------------------------------------------------
(* Workflows and agents *)

WorkflowOptions(Ints, Patterns, Words) ==
  [concurrency : Opt(Ints), stepRetries : Opt(Ints), delay : Opt(Ints), maxDelay : Opt(Ints),
   lease : Opt(Ints), on : Opt(Patterns), http : Opt(Words)]

\* on: a pattern or a list of patterns.
registerWorkflow(version, o) ==
  [version         |-> version,
   concurrency     |-> AtLeastOne(Default(o.concurrency, DEFAULT_CONCURRENCY)),
   stepMaxAttempts |-> AtLeastOne(Default(o.stepRetries, 2) + 1),
   leaseMs         |-> AtLeast(1000, Default(o.lease, 60000)),
   stepBackoff     |-> backoff(o.delay, o.maxDelay),
   triggers        |-> IF o.on = None THEN {} ELSE o.on]

AgentOptions(Ints) ==
  [concurrency : Opt(Ints), stepRetries : Opt(Ints), lease : Opt(Ints), maxIterations : Opt(Ints),
   maxTotalTokens : Opt(Ints), historyWindow : Opt(Ints), approvalTimeout : Opt(Ints)]

\* The workflow "agent:<name>" of an agent.
agentWorkflow(o) ==
  registerWorkflow(None, [concurrency |-> o.concurrency, stepRetries |-> Default(o.stepRetries, 2),
                          lease |-> Default(o.lease, 300000),
                          delay |-> None, maxDelay |-> None, on |-> None])

\* What runAgentLoop reads of the options.
agentLimits(o) ==
  [maxIterations |-> Default(o.maxIterations, 10), maxTotalTokens |-> o.maxTotalTokens,
   historyWindow |-> Default(o.historyWindow, 20),
   approvalTimeoutMs |-> Default(o.approvalTimeout, 3600000)]

\* The webhook of a workflow: words are what the option splits into at blanks; words
\* past the second are dropped.
webhook(words) ==
  IF Len(words) < 2 \/ words[1] = "" \/ words[2] # "/path" THEN {}
  ELSE {[method |-> words[1], path |-> words[2]]}

-----------------------------------------------------------------------------
(* Schedules and machines *)

ScheduleSpecs(Crons, Durations) ==
  LET options == [overlap : Opt({"skip", "allow", "queue"}), catchup : Opt({"skip", "runOnce", "all"}),
                  jitter : Opt({5})]
  IN [kind : {"string"}, cron : Crons] \cup [kind : {"cron"}, cron : Crons, options : options]
       \cup [kind : {"every"}, every : Durations, options : options]

\* A spec is a cron string, or an object with cron or every; every is read only when
\* there is no cron.
schedule(spec) ==
  LET o == IF spec.kind = "string" THEN [overlap |-> None, catchup |-> None, jitter |-> None] ELSE spec.options
  IN [cron     |-> IF spec.kind = "every" THEN None ELSE spec.cron,
      everyMs  |-> IF spec.kind = "every" THEN ms(spec.every) ELSE None,
      overlap  |-> Default(o.overlap, "skip"),
      catchup  |-> Default(o.catchup, "skip"),
      jitterMs |-> Default(o.jitter, 0)]

\* registerMachine: the definition's table, row by row.
transitions(states) ==
  UNION {{<<from, event, states[from][event]>> : event \in DOMAIN states[from]} : from \in DOMAIN states}

-----------------------------------------------------------------------------
(* The runtime *)

ZenzipOptions(Ints, Urls) ==
  [driver : {"sqlite", "postgres"}, url : Urls, sweep : Opt(Ints), schedulerTick : Opt(Ints),
   workerThreads : Opt(Ints), logLevel : Opt(LogLevels), logger : BOOLEAN, gcSweep : Opt(Ints),
   runs : Opt(Ints) \cup {Off}, events : Opt(Ints) \cup {Off}, payloads : BOOLEAN, threshold : Opt(Ints)]

\* A window of zero, which "off" is, keeps everything.
Kept(v) == LET window == Default(retentionMs(v), 604800000) IN IF window = 0 THEN None ELSE window

runtimeOptions(o) ==
  [postgresUrl     |-> IF o.driver = "postgres" THEN o.url ELSE None,
   sweepMs         |-> AtLeast(100, Default(o.sweep, 5000)),
   schedulerTickMs |-> AtLeast(50, Default(o.schedulerTick, 250)),
   workerThreads   |-> AtLeastOne(Default(o.workerThreads, 2)),
   logLevel        |-> Default(o.logLevel, IF o.logger THEN "info" ELSE "off"),
   gcSweepMs       |-> AtLeast(1000, Default(o.gcSweep, 3600000)),
   runRetentionMs  |-> Kept(o.runs),
   eventRetentionMs |-> Kept(o.events),
   offloadBytes    |-> IF o.payloads THEN Default(o.threshold, 65536) ELSE None]

\* createTestApp: the caller's options win over the test's timings, a fresh directory
\* stands in for one left out.
createTestApp(options, fresh) ==
  [o \in {"handleSignals", "sweep", "schedulerTick", "dataDir"} \cup DOMAIN options |->
     IF o \in DOMAIN options THEN options[o]
     ELSE CASE o = "handleSignals" -> FALSE
            [] o = "sweep" -> 200
            [] o = "schedulerTick" -> 50
            [] OTHER -> fresh]

=============================================================================
