-------------------------------- MODULE App --------------------------------
(***************************************************************************)
(* The application object and its clients (packages/zenzip/src app.ts,     *)
(* queue.ts, payload.ts, dashboard.ts, mcp-server.ts): definition, start,  *)
(* stop and signals; producers behind maxPending; the alert loop; dead     *)
(* letters requeued and purged; a run that is executed, offloaded,         *)
(* cancelled and collected while clients watch it.                         *)
(*                                                                         *)
(* Every client call is cut at its awaits.  The native runtime and its     *)
(* store are external here (JobQueue and Workflow model them): a job is    *)
(* pending, active under one runtime, dead or done.                        *)
(***************************************************************************)
EXTENDS Toolkit, TLC

CONSTANTS
  Scenarios,     \* [clients, program, nested, servers]: the calls made on an app, its
                 \* definitions, whether a handler calls the app too, what it serves
  Configs,       \* ZenzipOptions the app may be constructed with
  Stoppers,      \* calls of stop() by the program
  Signals,       \* SIGINT, SIGTERM
  Producers, Keyed,   \* calls of push and pushBulk; those of a keyed queue
  Items,         \* [Producers -> items of the call]
  Ticks,         \* ticks of the alert loop that may be under way at once
  Operators,     \* calls that requeue or purge dead jobs
  Triggers,      \* calls of trigger
  Callers,       \* MCP tool calls
  Attempts,      \* attempts of the run that may be under way at once
  Watchers,      \* subscriptions
  Cancellers,    \* calls of cancelRuns
  Steps,         \* the step ids of the run, in order
  Safe,          \* [step ids -> file name FilesystemBlobStore gives it]
  Results,       \* results [id, large] a step body may return
  Jobs,          \* bound: jobs ever pushed
  MaxPending, MaxAttempts, DlqThreshold, DeadLimit,
  MaxStarts,     \* bound: starts of the app
  MaxReturns     \* bound: requeues, purges and failed attempts of the run

ASSUME AppAssumption ==
  /\ MaxPending \in Nat /\ MaxAttempts \in Nat \ {0} /\ DlqThreshold \in Nat
  /\ Keyed \subseteq Producers /\ Items \in [Producers -> Nat \ {0}]
  /\ DeadLimit \in Nat /\ IsFiniteSet(Jobs) /\ Jobs \subseteq Nat /\ IsFiniteSet(Producers)
  /\ DOMAIN Steps = 1..Len(Steps) /\ \A i, j \in 1..Len(Steps) : Steps[i] = Steps[j] => i = j
  /\ \A r \in Results : r.large \in BOOLEAN /\ "blob" \notin DOMAIN r

\* A call is of one kind.
ASSUME KindsAssumption ==
  LET kinds == <<Stoppers \cup Signals, Producers, Ticks, Operators, Triggers, Callers, Attempts,
                 Watchers, Cancellers>>
  IN \A i, j \in 1..9 : i # j => kinds[i] \cap kinds[j] = {}

Clients == Stoppers \cup Signals \cup Producers \cup Ticks \cup Operators \cup Triggers
           \cup Callers \cup Attempts \cup Watchers \cup Cancellers

VARIABLES
  scenario,   \* the clients at work and the program's definitions
  config,     \* #options
  defs,       \* #queues, #workflows, #agents, ... and the processors attached
  native,     \* #native: the runtime in use, 0 for null; #started is native # 0
  runtimes,   \* state of every runtime started
  opening,    \* servers that listen() is opening
  servers,    \* #servers
  exited,     \* process.exit
  jobs,       \* the queue's rows [state, tries, owner, called, fresh]
  returns,    \* bound counter
  deaths,     \* history: jobs dead-lettered
  lastDlq,    \* #lastDlq
  alerts,     \* history: DLQ alerts, and the deaths the last one knew of
  run,        \* the run's row: its status
  journal,    \* its steps: what recordStep stored
  blobs,      \* the blob store
  recorded,   \* history: the result that was journaled
  pc          \* where each client call stands, and what it has read

vars == <<scenario, config, defs, native, runtimes, opening, servers, exited, jobs, returns,
          deaths, lastDlq, alerts, run, journal, blobs, recorded, pc>>

appVars   == <<scenario, config, defs, native, runtimes, opening, servers, exited>>
queueVars == <<jobs, returns, deaths>>
alertVars == <<lastDlq, alerts>>
runVars   == <<run, journal, blobs, recorded>>

At(c) == pc[c].at
Seen(c) == pc[c].seen
Goto(c, at, seen) == pc' = [pc EXCEPT ![c] = [at |-> at, seen |-> seen]]
Ready(c, at) == c \in scenario.clients /\ ~exited /\ At(c) = at

-----------------------------------------------------------------------------
(* Definition and start *)

Started == native # 0

\* An agent is registered as the workflow agent:<name>.
Slot(def) == IF def[1] = "agent" THEN <<"workflow", <<"agent", def[2]>>>> ELSE <<def[1], <<def[2]>>>>

\* queue(), workflow(), schedule(), agent(), machine(), process(): before start,
\* and each name once.
Define(def) ==
  /\ ~Started /\ ~exited /\ Slot(def) \notin {Slot(d) : d \in defs}
  /\ def[1] = "processor" => <<"queue", def[2]>> \in defs
  /\ defs' = defs \cup {def}
  /\ UNCHANGED <<scenario, config, native, runtimes, opening, servers, exited, queueVars, alertVars,
                 runVars, pc>>

\* start has no await: the options are checked, what is defined is registered
\* with a new runtime and the runtime is started.
Start ==
  /\ ~Started /\ ~exited /\ Len(runtimes) < MaxStarts /\ defs = scenario.program
  /\ validateConfig(config)
  /\ runtimes' = Append(runtimes, "running")
  /\ native' = Len(runtimes')
  /\ UNCHANGED <<scenario, config, defs, opening, servers, exited, queueVars, alertVars, runVars, pc>>

\* listen, dashboard, mcpServer: after start.  The server is opened behind an await.
Listen(s) ==
  /\ Started /\ ~exited /\ s \notin servers \cup opening
  /\ opening' = opening \cup {s}
  /\ UNCHANGED <<scenario, config, defs, native, runtimes, servers, exited, queueVars, alertVars,
                 runVars, pc>>

\* It is open, and goes on the list whether or not the app has stopped meanwhile, or
\* the port was taken.
ListenEnds(s, opened) ==
  /\ ~exited /\ s \in opening
  /\ opening' = opening \ {s}
  /\ servers' = IF opened THEN servers \cup {s} ELSE servers
  /\ UNCHANGED <<scenario, config, defs, native, runtimes, exited, queueVars, alertVars, runVars, pc>>

-----------------------------------------------------------------------------
(* stop, in three parts between its awaits *)

\* The servers are taken off the list and closed.  A signal's handler is there
\* only while the app is started.
Stop(c) ==
  /\ Ready(c, "idle") /\ (c \in Signals => Started)
  /\ servers' = {}
  /\ Goto(c, "closing", None)
  /\ UNCHANGED <<scenario, config, defs, native, runtimes, opening, exited, queueVars, alertVars,
                 runVars>>

\* The handle is cleared, then the runtime is asked to drain.
ServersClosed(c) ==
  /\ Ready(c, "closing")
  /\ IF ~Started
     THEN Goto(c, "resolved", TRUE) /\ UNCHANGED <<native, runtimes>>
     ELSE /\ native' = 0
          /\ runtimes' = [runtimes EXCEPT ![native] = "draining"]
          /\ Goto(c, "draining", native)
  /\ UNCHANGED <<scenario, config, defs, opening, servers, exited, queueVars, alertVars, runVars>>

InFlight(e) == {j \in Jobs : jobs[j].state = "active" /\ jobs[j].owner = e}

StopResolves(c, drained) ==
  /\ runtimes' = [runtimes EXCEPT ![Seen(c)] = "stopped"]
  /\ Goto(c, "resolved", drained)
  /\ UNCHANGED <<scenario, config, defs, native, opening, servers, exited, queueVars, alertVars,
                 runVars>>

\* native.stop: no job is in flight, or the timeout has passed.
DrainEnds(c) == Ready(c, "draining") /\ InFlight(Seen(c)) = {} /\ StopResolves(c, TRUE)
DrainTimesOut(c) == Ready(c, "draining") /\ InFlight(Seen(c)) # {} /\ StopResolves(c, FALSE)

\* The signal handler exits when its stop() has resolved.
Exit(c) ==
  /\ c \in Signals /\ Ready(c, "resolved")
  /\ exited' = TRUE
  /\ UNCHANGED <<scenario, config, defs, native, runtimes, opening, servers, queueVars, alertVars,
                 runVars, pc>>

-----------------------------------------------------------------------------
(* Jobs: the runtime claims them, the handler runs *)

Count(state) == Cardinality({j \in Jobs : jobs[j].state = state})
pendingCount == Count("pending")

JobBecomes(j, row) ==
  /\ jobs' = [jobs EXCEPT ![j] = row]
  /\ UNCHANGED <<appVars, returns, alertVars, runVars, pc>>

HandlerRuns(j) == ~exited /\ jobs[j].state = "active" /\ runtimes[jobs[j].owner] # "stopped"

\* A running runtime claims for a queue that has a processor.
Claim(j, e) ==
  /\ ~exited /\ jobs[j].state = "pending" /\ runtimes[e] = "running"
  /\ <<"processor", "q">> \in defs
  /\ JobBecomes(j, [jobs[j] EXCEPT !.state = "active", !.owner = e, !.tries = @ + 1,
                                   !.fresh = FALSE])
  /\ UNCHANGED deaths

\* The handler's own call of the app's API: _native throws once the handle is gone.
HandlerCalls(j) ==
  /\ HandlerRuns(j) /\ scenario.nested /\ jobs[j].called = "no"
  /\ JobBecomes(j, [jobs[j] EXCEPT !.called = IF Started THEN "answered" ELSE "turnedAway"])
  /\ UNCHANGED deaths

\* _dispatch resolves, or rejects: another attempt or the dead letters.
HandlerReturns(j) ==
  /\ HandlerRuns(j)
  /\ JobBecomes(j, [jobs[j] EXCEPT !.state = "done", !.called = "no"])
  /\ UNCHANGED deaths

HandlerThrows(j) ==
  /\ HandlerRuns(j)
  /\ LET dead == jobs[j].tries >= MaxAttempts
     IN /\ JobBecomes(j, [jobs[j] EXCEPT !.state = IF dead THEN "dead" ELSE "pending", !.called = "no"])
        /\ deaths' = IF dead THEN deaths + 1 ELSE deaths

\* A later runtime's sweep takes back what a stopped one left.
Sweep(j) ==
  /\ ~exited /\ Started /\ jobs[j].state = "active" /\ runtimes[jobs[j].owner] = "stopped"
  /\ JobBecomes(j, [jobs[j] EXCEPT !.state = "pending", !.called = "no"])
  /\ UNCHANGED deaths

-----------------------------------------------------------------------------
(* Producers *)

\* A keyed, debounced or throttled queue pushes item by item.
Batch(p) == IF p \in Keyed THEN 1 ELSE Seen(p)

\* Mutant: the incoming items are not counted.
AdmitByCount(p) ==
  /\ Ready(p, "idle")
  /\ Goto(p, IF Started /\ pendingCount <= MaxPending THEN "admitted" ELSE "rejected", Seen(p))
  /\ UNCHANGED <<appVars, queueVars, alertVars, runVars>>

\* #admit: the pending jobs are counted; QueueFullError past the bound.
Admit(p) ==
  /\ Ready(p, "idle")
  /\ Goto(p, IF Started /\ pendingCount + Batch(p) <= MaxPending THEN "admitted" ELSE "rejected",
          Seen(p))
  /\ UNCHANGED <<appVars, queueVars, alertVars, runVars>>

\* push, pushBulk: the insert is a call of its own.
Push(p) ==
  /\ Ready(p, "admitted")
  /\ LET free == {j \in Jobs : jobs[j].state = "none"}
         left == Seen(p) - Batch(p)
     IN /\ Cardinality(free) >= Batch(p)
        /\ IF ~Started THEN Goto(p, "rejected", Seen(p)) /\ UNCHANGED jobs
           ELSE /\ jobs' = [j \in Jobs |-> IF j \in free /\ Cardinality({k \in free : k < j}) < Batch(p)
                                          THEN [jobs[j] EXCEPT !.state = "pending"] ELSE jobs[j]]
                /\ Goto(p, IF left = 0 THEN "done" ELSE "idle", left)
  /\ UNCHANGED <<appVars, returns, deaths, alertVars, runVars>>

-----------------------------------------------------------------------------
(* Dead letters *)

Dead == {j \in Jobs : jobs[j].state = "dead"}

\* requeueDead without ids, and the dashboard's button, which asks for a role:
\* the dead jobs are listed up to a limit, then requeued by id.
RequeueLists(o, role) ==
  /\ Ready(o, "idle") /\ returns < MaxReturns
  /\ IF Started /\ authorized(role, "write")
     THEN \E listed \in kSubset(Least(DeadLimit, Cardinality(Dead)), Dead) : Goto(o, "listed", listed)
     ELSE Goto(o, "rejected", None)
  /\ returns' = returns + 1
  /\ UNCHANGED <<appVars, jobs, deaths, alertVars, runVars>>

RequeueApplies(o) ==
  /\ Ready(o, "listed")
  /\ jobs' = IF ~Started THEN jobs
             ELSE [j \in Jobs |-> IF j \in Seen(o) /\ jobs[j].state = "dead"
                                  THEN [jobs[j] EXCEPT !.state = "pending", !.tries = 0]
                                  ELSE jobs[j]]
  /\ Goto(o, IF Started THEN "idle" ELSE "rejected", None)
  /\ UNCHANGED <<appVars, returns, deaths, alertVars, runVars>>

purgeDead(o) ==
  /\ Ready(o, "idle") /\ Started /\ returns < MaxReturns
  /\ returns' = returns + 1
  /\ jobs' = [j \in Jobs |-> IF j \in Dead THEN [jobs[j] EXCEPT !.state = "done"] ELSE jobs[j]]
  /\ UNCHANGED <<appVars, deaths, alertVars, runVars, pc>>

-----------------------------------------------------------------------------
(* The alert loop *)

\* The interval fires: the dead jobs are counted.
TickReads(t) ==
  /\ Ready(t, "idle") /\ Started
  /\ Goto(t, "counted", [dead |-> Least(DeadLimit, Cardinality(Dead)), deaths |-> deaths])
  /\ UNCHANGED <<appVars, queueVars, alertVars, runVars>>

\* Mutant: the last size is not looked at.
GrewEver(dead) == dead >= DlqThreshold

Grew(dead) == dead >= DlqThreshold /\ dead > lastDlq

\* The answer is compared with the last one.  The list of stuck runs that follows
\* changes nothing.
TickApplies(t) ==
  /\ Ready(t, "counted")
  /\ lastDlq' = Seen(t).dead
  /\ alerts' = IF Grew(Seen(t).dead) THEN [count |-> alerts.count + 1, deaths |-> Seen(t).deaths]
               ELSE alerts
  /\ Goto(t, "idle", None)
  /\ UNCHANGED <<appVars, queueVars, runVars>>

-----------------------------------------------------------------------------
(* A run: its attempts journal the steps, offloading large results *)

Trigger(c) ==
  /\ Ready(c, "idle")
  /\ IF Started /\ run = "none" THEN run' = "running" /\ Goto(c, "done", None)
     ELSE Goto(c, "rejected", None) /\ UNCHANGED run
  /\ UNCHANGED <<appVars, queueVars, alertVars, journal, blobs, recorded>>

\* An attempt starts from the journal as it is: an engine has the run's job.
AttemptStarts(a) ==
  /\ Ready(a, "idle") /\ Started /\ run = "running"
  /\ Goto(a, "running", [done |-> DOMAIN journal])
  /\ UNCHANGED <<appVars, queueVars, alertVars, runVars>>

\* step.run: the first step that is not in the journal the attempt was given.
StepReturns(a) ==
  /\ Ready(a, "running")
  /\ \E i \in 1..Len(Steps), r \in Results :
       /\ Steps[i] \notin Seen(a).done /\ \A k \in 1..(i - 1) : Steps[k] \in Seen(a).done
       /\ Goto(a, "returned", [done |-> Seen(a).done, step |-> Steps[i], result |-> r])
  /\ UNCHANGED <<appVars, queueVars, alertVars, runVars>>

\* Mutant: the run's id alone names the blob.
RefByRun(step) == "run"

\* FilesystemBlobStore.put: the step's id, with what a file name cannot hold replaced.
Ref(step) == Safe[step]

\* The store's answers to a key it has: a step's row stays, a blob is written over.
Keeping(f, k, v) == [x \in DOMAIN f \cup {k} |-> IF x \in DOMAIN f THEN f[x] ELSE v]
Replacing(f, k, v) == [x \in DOMAIN f \cup {k} |-> IF x = k THEN v ELSE f[x]]

\* offload: a result over the threshold goes to the blob store.
Offload(a) ==
  /\ Ready(a, "returned")
  /\ LET s == Seen(a)
         large == s.result.large
     IN /\ blobs' = IF large THEN Replacing(blobs, Ref(s.step), s.result) ELSE blobs
        /\ Goto(a, "offloaded", [s EXCEPT !.result = [value |-> s.result,
                                                      stored |-> IF large THEN [blob |-> Ref(s.step)]
                                                                 ELSE s.result]])
  /\ UNCHANGED <<appVars, queueVars, alertVars, run, journal, recorded>>

\* recordStep: the first result of a step stays.  The run's row is not looked at.
RecordStep(a) ==
  /\ Ready(a, "offloaded")
  /\ LET s == Seen(a)
     IN /\ journal' = Keeping(journal, s.step, s.result.stored)
        /\ recorded' = Keeping(recorded, s.step, s.result.value)
        /\ Goto(a, "running", [done |-> s.done \cup {s.step}])
  /\ UNCHANGED <<appVars, queueVars, alertVars, run, blobs>>

\* rehydrate: a marker whose blob can be read is followed, anything else is the value.
Rehydrate(stored) == IF "blob" \in DOMAIN stored /\ stored.blob \in DOMAIN blobs
                     THEN blobs[stored.blob] ELSE stored

\* The outcome: every step is done, or a body threw for the last time.  The row is
\* read again: a run that was cancelled or has gone meanwhile is left alone.
AttemptEnds(a, status) ==
  /\ Ready(a, "running") /\ (status = "completed" => Seen(a).done = Range(Steps))
  /\ IF run \in {"cancelled", "gone"} THEN Goto(a, "idle", None)
     ELSE Goto(a, "ending", [done |-> Seen(a).done, status |-> status])
  /\ UNCHANGED <<appVars, queueVars, alertVars, runVars>>

\* The outcome is written over whatever the row has come to be since it was read.
AttemptApplies(a) ==
  /\ Ready(a, "ending")
  /\ run' = IF run = "gone" THEN run ELSE Seen(a).status
  /\ Goto(a, "idle", None)
  /\ UNCHANGED <<appVars, queueVars, alertVars, journal, blobs, recorded>>

\* A body throws, or the process dies: the run's job comes back.
AttemptFails(a) ==
  /\ a \in scenario.clients /\ ~exited /\ At(a) # "idle" /\ returns < MaxReturns
  /\ returns' = returns + 1
  /\ Goto(a, "idle", None)
  /\ UNCHANGED <<appVars, jobs, deaths, alertVars, runVars>>

\* gc takes runs that have ended, purgeSubject any run: the rows go, the blobs stay.
Collect ==
  /\ ~exited /\ Started /\ run \in Terminal
  /\ run' = "gone" /\ journal' = <<>> /\ recorded' = <<>>
  /\ UNCHANGED <<appVars, queueVars, alertVars, blobs, pc>>

purgeSubject(c) ==
  /\ Ready(c, "idle") /\ Started /\ run # "none"
  /\ run' = "gone" /\ journal' = <<>> /\ recorded' = <<>>
  /\ Goto(c, "done", None)
  /\ UNCHANGED <<appVars, queueVars, alertVars, blobs>>

-----------------------------------------------------------------------------
(* Clients of the run *)

\* subscribe: the row is read; a run that was never there is an error, one that
\* has gone ends the stream.
SubscribeReadsRow(w) ==
  /\ Ready(w, "idle")
  /\ LET last == Seen(w)
     IN Goto(w, IF ~Started \/ (run \in {"none", "gone"} /\ last.row = "none") THEN "rejected"
                ELSE IF run = "gone" THEN "done" ELSE "row",
             [last EXCEPT !.row = run])
  /\ UNCHANGED <<appVars, queueVars, alertVars, runVars>>

\* Mutant: the steps are not read again once the row is terminal.
SubscribeReadsStepsOnce(w) ==
  /\ Ready(w, "row")
  /\ LET row == Seen(w).row
         update == [row |-> row, steps |-> IF row \in Terminal THEN Seen(w).steps ELSE DOMAIN journal]
     IN Goto(w, IF ~Started THEN "rejected" ELSE IF row \in Terminal THEN "done" ELSE "idle", update)
  /\ UNCHANGED <<appVars, queueVars, alertVars, runVars>>

\* The steps are read after an await and the update is yielded; the stream goes on
\* until the row is terminal or the deadline has passed.
SubscribeReadsSteps(w) ==
  /\ Ready(w, "row")
  /\ LET row == Seen(w).row
         update == [row |-> row, steps |-> DOMAIN journal]
     IN \/ Goto(w, IF ~Started THEN "rejected" ELSE IF row \in Terminal THEN "done" ELSE "idle", update)
        \/ Started /\ row \notin Terminal /\ Goto(w, "rejected", update)
  /\ UNCHANGED <<appVars, queueVars, alertVars, runVars>>

\* cancelRuns: the runs are listed, then cancelled one by one.
CancelLists(k) ==
  /\ Ready(k, "idle")
  /\ Goto(k, IF Started THEN "listed" ELSE "rejected", run = "running")
  /\ UNCHANGED <<appVars, queueVars, alertVars, runVars>>

CancelEach(k) ==
  /\ Ready(k, "listed")
  /\ Goto(k, IF Seen(k) /\ ~Started THEN "rejected" ELSE "done", Seen(k))
  /\ run' = IF Seen(k) /\ Started /\ run = "running" THEN "cancelled" ELSE run
  /\ UNCHANGED <<appVars, queueVars, alertVars, journal, blobs, recorded>>

\* tools/call: the tool is looked up, the run is triggered and waited for; an
\* error of the call is an answer too.
McpCall(m, tool) ==
  /\ Ready(m, "idle")
  /\ IF tool \in buildTools(defs, {"all"}, {"all"}) /\ Started /\ run = "none"
     THEN run' = "running" /\ Goto(m, "waiting", None)
     ELSE Goto(m, "done", None) /\ UNCHANGED run
  /\ UNCHANGED <<appVars, queueVars, alertVars, journal, blobs, recorded>>

\* Mutant: waitForRun has no timeout.
McpAnswerWhenEnded(m) ==
  /\ Ready(m, "waiting") /\ run # "running"
  /\ Goto(m, "done", None)
  /\ UNCHANGED <<appVars, queueVars, alertVars, runVars>>

\* waitForRun returns when the run has ended, or at its timeout.
McpAnswer(m) ==
  /\ Ready(m, "waiting")
  /\ Goto(m, "done", None)
  /\ UNCHANGED <<appVars, queueVars, alertVars, runVars>>

-----------------------------------------------------------------------------
(* The specification *)

Init ==
  /\ scenario \in Scenarios /\ config \in Configs
  /\ defs = {} /\ native = 0 /\ runtimes = <<>> /\ opening = {} /\ servers = {} /\ exited = FALSE
  /\ jobs = [j \in Jobs |-> [state |-> "none", tries |-> 0, owner |-> 0, called |-> "no", fresh |-> TRUE]]
  /\ returns = 0 /\ deaths = 0 /\ lastDlq = 0 /\ alerts = [count |-> 0, deaths |-> 0]
  /\ run = "none" /\ journal = <<>> /\ blobs = <<>> /\ recorded = <<>>
  /\ pc = [c \in Clients |->
             [at   |-> "idle",
              seen |-> IF c \in Producers THEN Items[c]
                       ELSE IF c \in Watchers THEN [row |-> "none", steps |-> {}] ELSE None]]

\* What a call under way does next, whoever else is running.
Progress(c) ==
  \/ c \in Stoppers \cup Signals /\ (ServersClosed(c) \/ DrainEnds(c) \/ DrainTimesOut(c) \/ Exit(c))
  \/ c \in Producers /\ Push(c)
  \/ c \in Operators /\ RequeueApplies(c)
  \/ c \in Ticks /\ TickApplies(c)
  \/ c \in Watchers /\ (SubscribeReadsRow(c) \/ SubscribeReadsSteps(c))
  \/ c \in Cancellers /\ CancelEach(c)
  \/ c \in Callers /\ McpAnswer(c)

\* What a call begins with, and what the attempts of the run do.
Begin(c) ==
  \/ c \in Stoppers \cup Signals /\ Stop(c)
  \/ c \in Producers /\ Admit(c)
  \/ c \in Operators /\ ((\E role \in {"operator", "viewer"} : RequeueLists(c, role)) \/ purgeDead(c))
  \/ c \in Ticks /\ TickReads(c)
  \/ c \in Triggers /\ (Trigger(c) \/ purgeSubject(c))
  \/ c \in Cancellers /\ CancelLists(c)
  \/ c \in Callers /\ \E tool \in {"workflow", "agent"} : McpCall(c, <<tool, "w">>)
  \/ c \in Attempts /\ (\/ AttemptStarts(c) \/ StepReturns(c) \/ Offload(c) \/ RecordStep(c)
                         \/ AttemptEnds(c, "completed") \/ AttemptEnds(c, "failed") \/ AttemptApplies(c)
                         \/ AttemptFails(c))

Handlers == \E j \in Jobs : \/ HandlerCalls(j) \/ HandlerReturns(j) \/ HandlerThrows(j) \/ Sweep(j)
                            \/ \E e \in 1..Len(runtimes) : Claim(j, e)

Next == \/ \E def \in scenario.program : Define(def)
        \/ Start \/ Handlers \/ Collect
        \/ \E s \in scenario.servers : Listen(s) \/ ListenEnds(s, TRUE) \/ ListenEnds(s, FALSE)
        \/ \E c \in Clients : Begin(c) \/ Progress(c)

\* Node runs every continuation whose promise has settled, and every native call
\* returns; handlers, attempts and the program itself owe nothing.
Fairness == \A c \in Clients : WF_vars(Progress(c))

Spec == Init /\ [][Next]_vars /\ Fairness

-----------------------------------------------------------------------------
(* Properties *)

Pending == {j \in Jobs : jobs[j].state = "pending" /\ jobs[j].fresh}
Batches == [p \in Producers \cap scenario.clients |-> IF p \in Keyed THEN 1 ELSE Items[p]]

\* The items of the batches of the producers in S.
Batched(S) == UNION {{p} \X (1..Batches[p]) : p \in S}

\* maxPending bounds the jobs that were pushed and have not started: a lone producer
\* never passes it, and several pass it by no more than the batches that all but one
\* of them push at the same time (#admit counts and pushes in two calls; types.ts:
\* "concurrent producers may overshoot slightly").
PendingBounded ==
  DOMAIN Batches # {} =>
    \E p \in DOMAIN Batches :
      Cardinality(Pending) <= MaxPending + Cardinality(Batched(DOMAIN Batches \ {p}))

\* A DLQ alert tells of a job that died since the last alert: app.ts "alerts fire on
\* *growth*, not on every tick", whatever is requeued or purged in between.
AlertsFollowGrowth == [][alerts'.count > alerts.count => alerts'.deaths > alerts.deaths]_vars

\* The last update of a subscription to a run that completed has all of its steps,
\* although the row and the steps are read in two calls.
FinalUpdateComplete ==
  \A w \in Watchers : (At(w) = "done" /\ Seen(w).row = "completed" /\ run # "gone")
                        => Seen(w).steps = Range(Steps)

\* What a replay reads for a journaled step is the value the step returned, offloaded
\* or not, after any number of failed attempts (payload.ts: "the workflow sees the
\* real value").
JournalReadsBack == \A s \in DOMAIN journal : Rehydrate(journal[s]) = recorded[s]

Settled(c) == At(c) \in {"resolved", "rejected", "done"}
Awaiting(c) == At(c) \in {"closing", "draining", "admitted", "listed", "waiting"}

\* A call under way comes back: stop() drains or times out, a push is inserted or
\* refused, a tool call is answered, a subscription ends once the run has.  A
\* behaviour makes finitely many calls: if none hangs, again and again none is
\* under way.
CallsSettle ==
  /\ []<>(exited \/ \A c \in Clients : ~Awaiting(c))
  /\ \A w \in Watchers : (w \in scenario.clients /\ run \in Terminal) ~> (exited \/ Settled(w))

(* What does not hold: AppStopTwice.cfg, AppDrainCalls.cfg *)

\* When stop() resolves true no handler of a runtime that was stopped is running:
\* app.ts "Resolves true if all in-flight jobs drained in time".
StopMeansDrained ==
  [][\A c \in Stoppers \cup Signals :
       (At(c) # "resolved" /\ pc'[c].at = "resolved" /\ pc'[c].seen)
         => \A e \in 1..Len(runtimes) : e # native => InFlight(e) = {}]_vars

\* No handler of a job in flight finds the app's API closed while stop() drains it.
NoHandlerTurnedAway == \A j \in Jobs : jobs[j].called # "turnedAway"

=============================================================================
