------------------------------ MODULE Workflow ------------------------------
(***************************************************************************)
(* The durable workflow engine of ZenZip: runs, their step journal, the    *)
(* execution jobs that drive them, and in every process the execution      *)
(* attempt in progress, the event-timeout sweeper and a trigger call.      *)
(*                                                                         *)
(* Every store call is one action, so that attempts, sweeps, triggers,     *)
(* emits, cancellations and crashes interleave between any two of them.    *)
(* The job queue is kept to what the engine sees of it (JobQueue has the   *)
(* details): a job is delivered, its lease may run out, and an attempt     *)
(* whose job was claimed again can no longer settle it.  Times are         *)
(* relative to the clock.                                                  *)
(***************************************************************************)
EXTENDS Integers, Sequences, FiniteSets

CONSTANTS
    Procs,         \* processes, each with one attempt at a time
    Workflows,     \* registered workflows
    Entry,         \* the workflows the application triggers
    Program,       \* the steps a workflow function takes, in order
    On,            \* the events that trigger a workflow
    Events,        \* event names
    Payloads,      \* event payloads, as far as a match can tell them apart
    NoMatch,       \* a wait without a match predicate
    Keys,          \* the idempotency keys trigger calls use, NoKey for none
    NoKey,         \* a run without an idempotency key
    MaxStepTries,  \* WorkflowConfig.step_max_attempts
    MaxRuns,       \* bound: runs ever created
    MaxSteps,      \* bound: length of a program
    JobsPerRun,    \* bound: jobs of one run at a time
    MaxFaults,     \* bound: crashes, store errors, leases lost by live attempts
    MaxTriggers,   \* bound: trigger calls that create a run
    MaxCancels,    \* bound: cancel calls
    MaxEmits,      \* bound: events emitted
    Collects       \* whether retention is configured: the GC sweeper runs

RunIds == 1..MaxRuns
Steps == 1..MaxSteps
Slots == 1..JobsPerRun

ASSUME BoundsAssumption ==
    /\ MaxRuns \in Nat \ {0}
    /\ MaxSteps \in Nat \ {0}
    /\ JobsPerRun \in Nat \ {0}
    /\ MaxStepTries \in Nat
    /\ MaxFaults \in Nat
    /\ MaxTriggers \in Nat
    /\ MaxCancels \in Nat
    /\ MaxEmits \in Nat
    /\ Collects \in BOOLEAN
ASSUME ProgramAssumption ==
    /\ IsFiniteSet(Workflows) /\ Entry \subseteq Workflows
    /\ On \in [Workflows -> SUBSET Events]
    /\ NoMatch \notin Payloads
    /\ \A w \in Workflows :
          /\ Len(Program[w]) \in 0..MaxSteps
          /\ \A i \in 1..Len(Program[w]) :
                Program[w][i].kind \in {"run", "sleep", "event", "invoke"}

VARIABLES
    nextRun,  \* the next run id: UUIDv7 ids increase with time
    runs,     \* the runs table
    journal,  \* the steps table: the recorded result of each step
    tries,    \* steps.attempts of each step
    jobs,     \* the execution jobs of each run
    exec,     \* the execution attempt of each process
    sweep,    \* the event-timeout sweep of each process
    asking,   \* the trigger call of each process that is about to insert its run
    client,   \* the trigger call of each process: the run still to enqueue
    faults,   \* faults so far (bound)
    calls,    \* trigger, cancel and emit calls so far (bounds)
    effects,  \* history: how often the body of a step finished
    due,      \* history: time left of the sleep first asked for, -1 if none was
    answers,  \* history: the runs that keyed trigger calls returned
    raced     \* history: runs whose attempt was past stopping when a cancel landed

store == <<nextRun, runs, journal, tries, jobs>>
bounds == <<faults, calls>>
history == <<effects, due, answers, raced>>
vars == <<nextRun, runs, journal, tries, jobs, exec, sweep, asking, client,
          faults, calls, effects, due, answers, raced>>

Active == {"runnable", "sleeping"}
Waiting == {"waitEvent", "waitChild"}
Terminal == {"completed", "failed", "cancelled"}
Results == {"ok", "slept", "event", "timedOut", "output", "error"}

NoSteps == [i \in Steps |-> "none"]
NoRun == [wf |-> "none", status |-> "none", parent |-> 0, pstep |-> 0,
          key |-> NoKey, wait |-> 0, timer |-> -1]
NoJob == [state |-> "free", delay |-> 0, tries |-> 0]
Idle == [pc |-> "idle", run |-> 0, job |-> 0, snap |-> NoSteps, out |-> "none",
         step |-> 0, wake |-> -1, child |-> 0]
NoSweep == [todo |-> {}, cur |-> <<0, 0>>]
NoAsk == [wf |-> "none", key |-> NoKey]

Exists(r) == runs[r].status \notin {"none", "deleted"}
StepAt(r, i) == Program[runs[r].wf][i]
Down(t) == IF t > 0 THEN t - 1 ELSE t

-----------------------------------------------------------------------------
(* Store operations the actions are made of *)

\* UPDATE runs SET status = s WHERE id = r
SetStatus(r, s) ==
    runs' = IF Exists(r) THEN [runs EXCEPT ![r].status = s] ELSE runs

\* Mutant: the upsert overwrites a completed entry.
RecordOver(r, i, result) == journal' = [journal EXCEPT ![r][i] = result]

\* record_step: a completed entry is never overwritten.
Record(r, i, result) ==
    journal' = IF journal[r][i] = "none"
               THEN [journal EXCEPT ![r][i] = result] ELSE journal

\* A job slot of run r that no row and no attempt refers to.
FreeSlot(r) ==
    CHOOSE i \in Slots :
        /\ jobs[r][i].state = "free"
        /\ \A p \in Procs : ~(exec[p].run = r /\ exec[p].job = i)

\* push of one execution job for each run of R.
Enqueue(R, delay) ==
    jobs' = [r \in RunIds |->
                IF r \in R
                THEN [jobs[r] EXCEPT ![FreeSlot(r)] =
                         [state |-> "pending", delay |-> delay, tries |-> 0]]
                ELSE jobs[r]]

NewRun(w, parent, pstep, key) ==
    [wf |-> w, status |-> "runnable", parent |-> parent, pstep |-> pstep,
     key |-> key, wait |-> 0, timer |-> -1]

\* The run that create_run finds for an idempotency key.
KeyedRuns(w, key) ==
    {r \in RunIds : Exists(r) /\ runs[r].wf = w /\ key # NoKey /\ runs[r].key = key}

ChildRuns(w, p, i) ==
    {r \in RunIds : /\ Exists(r) /\ runs[r].wf = w
                    /\ runs[r].parent = p /\ runs[r].pstep = i}

\* create_run of a run that does not exist yet.
Create(run) ==
    /\ nextRun <= MaxRuns
    /\ nextRun' = nextRun + 1
    /\ runs' = [runs EXCEPT ![nextRun] = run]

-----------------------------------------------------------------------------
(* Triggering a run *)

\* The call of process p returns run r for its key.
Answered(w, key, r) ==
    answers' = IF key = NoKey THEN answers
               ELSE answers \cup {[wf |-> w, key |-> key, run |-> r]}

\* create_run looks the key up: the run it finds is the answer, otherwise the
\* insert is the next statement.
TriggerLookup(p, w, key) ==
    /\ client[p] = 0 /\ asking[p] = NoAsk
    /\ calls.trigger < MaxTriggers
    /\ \/ /\ KeyedRuns(w, key) = {}
          /\ calls' = [calls EXCEPT !.trigger = @ + 1]
          /\ asking' = [asking EXCEPT ![p] = [wf |-> w, key |-> key]]
          /\ UNCHANGED answers
       \/ \E r \in KeyedRuns(w, key) :
             Answered(w, key, r) /\ UNCHANGED <<calls, asking>>
    /\ UNCHANGED <<nextRun, runs, journal, tries, jobs, exec, sweep, client, faults,
                   effects, due, raced>>

\* Mutant: no unique index over the key.
TriggerInsertAnyway(p) ==
    /\ asking[p] # NoAsk
    /\ asking' = [asking EXCEPT ![p] = NoAsk]
    /\ Create(NewRun(asking[p].wf, 0, 0, asking[p].key))
    /\ client' = [client EXCEPT ![p] = nextRun]
    /\ Answered(asking[p].wf, asking[p].key, nextRun)
    /\ UNCHANGED <<journal, tries, jobs, exec, sweep, bounds, effects, due, raced>>

\* INSERT ... ON CONFLICT DO NOTHING: a call that lost the race returns the
\* winner and enqueues nothing.
TriggerInsert(p) ==
    /\ asking[p] # NoAsk
    /\ asking' = [asking EXCEPT ![p] = NoAsk]
    /\ \/ /\ KeyedRuns(asking[p].wf, asking[p].key) = {}
          /\ Create(NewRun(asking[p].wf, 0, 0, asking[p].key))
          /\ client' = [client EXCEPT ![p] = nextRun]
          /\ Answered(asking[p].wf, asking[p].key, nextRun)
       \/ \E r \in KeyedRuns(asking[p].wf, asking[p].key) :
             /\ Answered(asking[p].wf, asking[p].key, r)
             /\ UNCHANGED <<nextRun, runs, client>>
    /\ UNCHANGED <<journal, tries, jobs, exec, sweep, bounds, effects, due, raced>>

\* The push of the first job, for a run that was created.
TriggerEnqueue(p) ==
    /\ client[p] # 0
    /\ Enqueue({client[p]}, 0)
    /\ client' = [client EXCEPT ![p] = 0]
    /\ UNCHANGED <<nextRun, runs, journal, tries, exec, sweep, asking, bounds, history>>

-----------------------------------------------------------------------------
(* An execution attempt: delivery, execute() and the workflow function *)

Go(p, pc) == exec' = [exec EXCEPT ![p].pc = pc]

At(p, pc) == exec[p].pc = pc

\* The queue delivers job i of run r; an attempt that lost its lease on that
\* job loses its token.
Claim(p, r, i) ==
    /\ At(p, "idle")
    /\ jobs[r][i].state = "pending" /\ jobs[r][i].delay = 0
    /\ jobs' = [jobs EXCEPT ![r][i].state = "running", ![r][i].tries = @ + 1]
    /\ exec' = [q \in Procs |->
                   IF q = p THEN [Idle EXCEPT !.pc = "check", !.run = r, !.job = i]
                   ELSE IF exec[q].run = r /\ exec[q].job = i
                   THEN [exec[q] EXCEPT !.job = 0]
                   ELSE exec[q]]
    /\ UNCHANGED <<nextRun, runs, journal, tries, sweep, client, asking, bounds, history>>

\* First get_run: a job for a run that is gone, waiting or terminal is stale.
CheckRun(p) ==
    /\ At(p, "check")
    /\ Go(p, IF runs[exec[p].run].status \in Active THEN "load" ELSE "ack")
    /\ UNCHANGED <<store, sweep, client, asking, bounds, history>>

\* Mutant: the attempt starts from an empty journal.
LoadNothing(p) ==
    /\ At(p, "load")
    /\ exec' = [exec EXCEPT ![p].pc = "exec"]
    /\ UNCHANGED <<store, sweep, client, asking, bounds, history>>

LoadJournal(p) ==
    /\ At(p, "load")
    /\ exec' = [exec EXCEPT ![p].pc = "exec", ![p].snap = journal[exec[p].run]]
    /\ UNCHANGED <<store, sweep, client, asking, bounds, history>>

\* The step at which the function stops fast-forwarding: the first one that is
\* not memoized or whose memoized result throws.
Stops(p) ==
    {i \in 1..Len(Program[runs[exec[p].run].wf]) :
        exec[p].snap[i] \in {"none", "error"}}
Position(p) == CHOOSE i \in Stops(p) : \A k \in Stops(p) : i <= k

Outcome(p, out, i, wake) ==
    exec' = [exec EXCEPT ![p].pc = "recheck", ![p].out = out, ![p].step = i,
                         ![p].wake = wake]

\* The function returns, or the error of a failed child escapes it.
Finish(p) ==
    /\ At(p, "exec")
    /\ \/ Stops(p) = {} /\ Outcome(p, "completed", 0, -1)
       \/ /\ Stops(p) # {} /\ exec[p].snap[Position(p)] = "error"
          /\ Outcome(p, "failed", 0, -1)
    /\ UNCHANGED <<store, sweep, client, asking, bounds, history>>

Reaches(p, kind) ==
    /\ At(p, "exec")
    /\ Stops(p) # {}
    /\ exec[p].snap[Position(p)] = "none"
    /\ StepAt(exec[p].run, Position(p)).kind = kind

\* step.run: the body finishes; its result is recorded by the next call.
BodyDone(p) ==
    /\ Reaches(p, "run")
    /\ exec' = [exec EXCEPT ![p].pc = "record", ![p].step = Position(p)]
    /\ effects' = [effects EXCEPT ![exec[p].run][Position(p)] = @ + 1]
    /\ UNCHANGED <<store, sweep, client, asking, bounds, due, answers, raced>>

RecordStep(p) ==
    /\ At(p, "record")
    /\ Record(exec[p].run, exec[p].step, "ok")
    /\ exec' = [exec EXCEPT ![p].pc = "exec", ![p].snap[exec[p].step] = "ok",
                            ![p].step = 0]
    /\ UNCHANGED <<nextRun, runs, tries, jobs, sweep, client, asking, bounds, history>>

\* step.run: the body throws.
BodyFails(p) ==
    /\ Reaches(p, "run")
    /\ Outcome(p, "stepFailed", Position(p), -1)
    /\ UNCHANGED <<store, sweep, client, asking, bounds, history>>

\* step.sleep, step.waitForEvent and step.invoke suspend the attempt.
Suspend(p) ==
    \/ /\ Reaches(p, "sleep")
       /\ LET r == exec[p].run
              i == Position(p)
          IN  /\ Outcome(p, "sleep", i, StepAt(r, i).time)
              /\ due' = IF due[r][i] = -1
                        THEN [due EXCEPT ![r][i] = StepAt(r, i).time] ELSE due
       /\ UNCHANGED <<store, sweep, client, asking, bounds, effects, answers, raced>>
    \/ /\ Reaches(p, "event")
       /\ Outcome(p, "event", Position(p), StepAt(exec[p].run, Position(p)).timeout)
       /\ UNCHANGED <<store, sweep, client, asking, bounds, history>>
    \/ /\ Reaches(p, "invoke")
       /\ Outcome(p, "invoke", Position(p), -1)
       /\ UNCHANGED <<store, sweep, client, asking, bounds, history>>

\* Second get_run: the outcome of a run cancelled or gone meanwhile is dropped.
Recheck(p) ==
    /\ At(p, "recheck")
    /\ Go(p, IF Exists(exec[p].run) /\ runs[exec[p].run].status # "cancelled"
             THEN "apply" ELSE "ack")
    /\ UNCHANGED <<store, sweep, client, asking, bounds, history>>

-----------------------------------------------------------------------------
(* apply(): the outcome becomes store calls *)

Applies(p, out) == At(p, "apply") /\ exec[p].out = out

\* After a terminal status: settle_parent for a child, otherwise the ack.
AfterEnd(p) == IF runs[exec[p].run].parent = 0 THEN "ack" ELSE "settle"

RunCompleted(p) ==
    /\ Applies(p, "completed")
    /\ SetStatus(exec[p].run, "completed")
    /\ Go(p, AfterEnd(p))
    /\ UNCHANGED <<nextRun, journal, tries, jobs, sweep, client, asking, bounds, history>>

RunFailed(p) ==
    /\ Applies(p, "failed")
    /\ SetStatus(exec[p].run, "failed")
    /\ Go(p, AfterEnd(p))
    /\ UNCHANGED <<nextRun, journal, tries, jobs, sweep, client, asking, bounds, history>>

\* Sleep: record the step, mark the run, enqueue the delayed job.
SleepRecord(p) ==
    /\ Applies(p, "sleep")
    /\ Record(exec[p].run, exec[p].step, "slept")
    /\ Go(p, "sleepMark")
    /\ UNCHANGED <<nextRun, runs, tries, jobs, sweep, client, asking, bounds, history>>

RunSleeping(p) ==
    /\ At(p, "sleepMark")
    /\ SetStatus(exec[p].run, "sleeping")
    /\ Go(p, "sleepEnqueue")
    /\ UNCHANGED <<nextRun, journal, tries, jobs, sweep, client, asking, bounds, history>>

SleepEnqueue(p) ==
    /\ At(p, "sleepEnqueue")
    /\ Enqueue({exec[p].run}, exec[p].wake)
    /\ Go(p, "ack")
    /\ UNCHANGED <<nextRun, runs, journal, tries, sweep, client, asking, bounds, history>>

RunWaitingEvent(p) ==
    /\ Applies(p, "event")
    /\ runs' = IF Exists(exec[p].run)
               THEN [runs EXCEPT ![exec[p].run].status = "waitEvent",
                                 ![exec[p].run].wait = exec[p].step,
                                 ![exec[p].run].timer = exec[p].wake]
               ELSE runs
    /\ Go(p, "ack")
    /\ UNCHANGED <<nextRun, journal, tries, jobs, sweep, client, asking, bounds, history>>

\* A failed step: count the attempt, then retry later or fail the run.
StepFailedAttempt(p) ==
    /\ Applies(p, "stepFailed")
    /\ tries' = [tries EXCEPT ![exec[p].run][exec[p].step] = @ + 1]
    /\ exec' = [exec EXCEPT
                  ![p].pc = IF tries[exec[p].run][exec[p].step] + 1 < MaxStepTries
                            THEN "retry" ELSE "apply",
                  ![p].out = IF tries[exec[p].run][exec[p].step] + 1 < MaxStepTries
                             THEN "stepFailed" ELSE "failed"]
    /\ UNCHANGED <<nextRun, runs, journal, jobs, sweep, client, asking, bounds, history>>

StepRetryEnqueue(p) ==
    /\ At(p, "retry")
    /\ Enqueue({exec[p].run}, 1)
    /\ Go(p, "ack")
    /\ UNCHANGED <<nextRun, runs, journal, tries, sweep, client, asking, bounds, history>>

-----------------------------------------------------------------------------
(* apply_invoke and settle_parent *)

ChildOf(p) ==
    ChildRuns(StepAt(exec[p].run, exec[p].step).child, exec[p].run, exec[p].step)

\* The child workflow is not registered: the run fails at once.
InvokeUnknown(p) ==
    /\ Applies(p, "invoke")
    /\ StepAt(exec[p].run, exec[p].step).child \notin Workflows
    /\ SetStatus(exec[p].run, "failed")
    /\ exec' = [exec EXCEPT ![p].pc = AfterEnd(p), ![p].out = "failed"]
    /\ UNCHANGED <<nextRun, journal, tries, jobs, sweep, client, asking, bounds, history>>

\* create_run with the deterministic key of the step: the lookup.
InvokeLookup(p) ==
    /\ Applies(p, "invoke")
    /\ StepAt(exec[p].run, exec[p].step).child \in Workflows
    /\ \/ ChildOf(p) = {} /\ Go(p, "insert")
       \/ \E c \in ChildOf(p) :
             exec' = [exec EXCEPT ![p].pc = "look", ![p].child = c]
    /\ UNCHANGED <<store, sweep, client, asking, bounds, history>>

\* The insert; another attempt of the run may have created the child meanwhile.
InvokeInsert(p) ==
    /\ At(p, "insert")
    /\ \/ /\ ChildOf(p) = {}
          /\ exec' = [exec EXCEPT ![p].pc = "park", ![p].child = nextRun]
          /\ Create(NewRun(StepAt(exec[p].run, exec[p].step).child,
                           exec[p].run, exec[p].step, NoKey))
       \/ \E c \in ChildOf(p) :
             /\ exec' = [exec EXCEPT ![p].pc = "look", ![p].child = c]
             /\ UNCHANGED <<nextRun, runs>>
    /\ UNCHANGED <<journal, tries, jobs, sweep, client, asking, bounds, history>>

InvokePark(p) ==
    /\ At(p, "park")
    /\ SetStatus(exec[p].run, "waitChild")
    /\ Go(p, "start")
    /\ UNCHANGED <<nextRun, journal, tries, jobs, sweep, client, asking, bounds, history>>

InvokeEnqueue(p) ==
    /\ At(p, "start")
    /\ Enqueue({exec[p].child}, 0)
    /\ Go(p, "ack")
    /\ UNCHANGED <<nextRun, runs, journal, tries, sweep, client, asking, bounds, history>>

\* A replayed suspension: the child's row decides (get_run).
ReplayLook(p) ==
    /\ At(p, "look")
    /\ LET s == runs[exec[p].child].status
       IN  Go(p, CASE s \in {"none", "deleted"} -> "nack"
                   [] s = "completed" -> "replayOutput"
                   [] s \in {"failed", "cancelled"} -> "replayError"
                   [] OTHER -> "parkAgain")
    /\ UNCHANGED <<store, sweep, client, asking, bounds, history>>

ReplayRecord(p) ==
    /\ \/ At(p, "replayOutput") /\ Record(exec[p].run, exec[p].step, "output")
       \/ At(p, "replayError") /\ Record(exec[p].run, exec[p].step, "error")
    /\ Go(p, "replayEnqueue")
    /\ UNCHANGED <<nextRun, runs, tries, jobs, sweep, client, asking, bounds, history>>

ReplayEnqueue(p) ==
    /\ At(p, "replayEnqueue")
    /\ Enqueue({exec[p].run}, 0)
    /\ Go(p, "ack")
    /\ UNCHANGED <<nextRun, runs, journal, tries, sweep, client, asking, bounds, history>>

ParkAgain(p) ==
    /\ At(p, "parkAgain")
    /\ SetStatus(exec[p].run, "waitChild")
    /\ Go(p, "ack")
    /\ UNCHANGED <<nextRun, journal, tries, jobs, sweep, client, asking, bounds, history>>

\* settle_parent: record the parent's step, wake the parent, enqueue it.
SettleRecord(p) ==
    /\ At(p, "settle")
    /\ Record(runs[exec[p].run].parent, runs[exec[p].run].pstep,
              IF exec[p].out = "completed" THEN "output" ELSE "error")
    /\ Go(p, "wake")
    /\ UNCHANGED <<nextRun, runs, tries, jobs, sweep, client, asking, bounds, history>>

\* Mutant: the parent is released but its job is not pushed.
WakeParentOnly(p) ==
    /\ At(p, "wake")
    /\ LET parent == runs[exec[p].run].parent
       IN  IF runs[parent].status = "waitChild"
           THEN SetStatus(parent, "runnable") /\ Go(p, "ack")
           ELSE UNCHANGED runs /\ Go(p, "ack")
    /\ UNCHANGED <<nextRun, journal, tries, jobs, sweep, client, asking, bounds, history>>

WakeParent(p) ==
    /\ At(p, "wake")
    /\ LET parent == runs[exec[p].run].parent
       IN  IF runs[parent].status = "waitChild"
           THEN SetStatus(parent, "runnable") /\ Go(p, "wakeEnqueue")
           ELSE UNCHANGED runs /\ Go(p, "ack")
    /\ UNCHANGED <<nextRun, journal, tries, jobs, sweep, client, asking, bounds, history>>

\* get_run of the parent, then the push; a parent that vanished is an error.
WakeEnqueue(p) ==
    /\ At(p, "wakeEnqueue")
    /\ IF Exists(runs[exec[p].run].parent)
       THEN Enqueue({runs[exec[p].run].parent}, 0) /\ Go(p, "ack")
       ELSE UNCHANGED jobs /\ Go(p, "nack")
    /\ UNCHANGED <<nextRun, runs, journal, tries, sweep, client, asking, bounds, history>>

-----------------------------------------------------------------------------
(* Settlement of the job and loss of its lease *)

Holds(p) == exec[p].job # 0

\* max_attempts of an execution job.
MaxJobTries == 3

Ack(p) ==
    /\ At(p, "ack")
    /\ jobs' = IF Holds(p) THEN [jobs EXCEPT ![exec[p].run][exec[p].job] = NoJob]
                           ELSE jobs
    /\ exec' = [exec EXCEPT ![p] = Idle]
    /\ UNCHANGED <<nextRun, runs, journal, tries, sweep, client, asking, bounds, history>>

\* The handler returned an error: back to pending, or dead-lettered.
Nack(p) ==
    /\ At(p, "nack")
    /\ jobs' = IF Holds(p)
               THEN [jobs EXCEPT ![exec[p].run][exec[p].job] =
                        IF @.tries < MaxJobTries
                        THEN [@ EXCEPT !.state = "pending", !.delay = 1]
                        ELSE [@ EXCEPT !.state = "dead"]]
               ELSE jobs
    /\ exec' = [exec EXCEPT ![p] = Idle]
    /\ UNCHANGED <<nextRun, runs, journal, tries, sweep, client, asking, bounds, history>>

Orphaned(r, i) ==
    /\ jobs[r][i].state = "running"
    /\ \A p \in Procs : ~(exec[p].run = r /\ exec[p].job = i)

\* Mutant: the sweeper overlooks the jobs of processes that are gone.
HeldLeaseExpires(r, i) ==
    /\ jobs[r][i].state = "running"
    /\ ~Orphaned(r, i) /\ faults < MaxFaults /\ faults' = faults + 1
    /\ jobs' = [jobs EXCEPT ![r][i].state =
                   IF jobs[r][i].tries < MaxJobTries THEN "pending" ELSE "dead"]
    /\ UNCHANGED <<nextRun, runs, journal, tries, exec, sweep, client, asking, calls, history>>

\* sweep_expired: the lease of a dead attempt runs out, or that of a live one
\* whose renewals did not arrive.
LeaseExpires(r, i) ==
    /\ jobs[r][i].state = "running"
    /\ \/ Orphaned(r, i) /\ UNCHANGED faults
       \/ ~Orphaned(r, i) /\ faults < MaxFaults /\ faults' = faults + 1
    /\ jobs' = [jobs EXCEPT ![r][i].state =
                   IF jobs[r][i].tries < MaxJobTries THEN "pending" ELSE "dead"]
    /\ UNCHANGED <<nextRun, runs, journal, tries, exec, sweep, client, asking, calls, history>>

-----------------------------------------------------------------------------
(* Events *)

Matches(r, e, payload) ==
    /\ runs[r].status = "waitEvent"
    /\ StepAt(r, runs[r].wait).name = e
    /\ StepAt(r, runs[r].wait).match \in {NoMatch, payload}

\* Workflows whose `on:` patterns match the event.
Triggered(e) == {w \in Workflows : e \in On[w]}

\* The ids of the runs an emit creates; the registry has no order.
TriggeredRuns(e) ==
    {f \in [nextRun..(nextRun + Cardinality(Triggered(e)) - 1) -> Triggered(e)] :
        \A a, b \in DOMAIN f : f[a] = f[b] => a = b}

\* emit_event_blocking: one transaction wakes the waiters that match, records
\* their step, and creates a run of every workflow the event triggers.
Emit(e, payload) ==
    /\ calls.emit < MaxEmits
    /\ calls' = [calls EXCEPT !.emit = @ + 1]
    /\ nextRun' = nextRun + Cardinality(Triggered(e))
    /\ nextRun' <= MaxRuns + 1
    /\ \E new \in TriggeredRuns(e) :
          /\ runs' = [r \in RunIds |->
                         IF Matches(r, e, payload)
                         THEN [runs[r] EXCEPT !.status = "runnable", !.wait = 0,
                                              !.timer = -1]
                         ELSE IF r \in DOMAIN new THEN NewRun(new[r], 0, 0, NoKey)
                         ELSE runs[r]]
          /\ Enqueue({r \in RunIds : Matches(r, e, payload)} \cup DOMAIN new, 0)
    /\ journal' = [r \in RunIds |->
                      IF Matches(r, e, payload) /\ journal[r][runs[r].wait] = "none"
                      THEN [journal[r] EXCEPT ![runs[r].wait] = "event"]
                      ELSE journal[r]]
    /\ UNCHANGED <<tries, exec, sweep, client, asking, faults, history>>

TimedOut == {r \in RunIds : runs[r].status = "waitEvent" /\ runs[r].timer = 0}

\* The timeout sweep: one statement releases the waiters, then each of them
\* gets its step recorded and its job pushed by two more store calls.
SweepRelease(p) ==
    /\ sweep[p] = NoSweep
    /\ TimedOut # {}
    /\ sweep' = [sweep EXCEPT ![p].todo = {<<r, runs[r].wait>> : r \in TimedOut}]
    /\ runs' = [r \in RunIds |->
                   IF r \in TimedOut
                   THEN [runs[r] EXCEPT !.status = "runnable", !.timer = -1]
                   ELSE runs[r]]
    /\ UNCHANGED <<nextRun, journal, tries, jobs, exec, client, asking, bounds, history>>

SweepRecord(p) ==
    /\ sweep[p].cur = <<0, 0>>
    /\ \E w \in sweep[p].todo :
          /\ Record(w[1], w[2], "timedOut")
          /\ sweep' = [sweep EXCEPT ![p].cur = w]
    /\ UNCHANGED <<nextRun, runs, tries, jobs, exec, client, asking, bounds, history>>

SweepEnqueue(p) ==
    /\ sweep[p].cur # <<0, 0>>
    /\ Enqueue({sweep[p].cur[1]}, 0)
    /\ sweep' = [sweep EXCEPT ![p] = [todo |-> sweep[p].todo \ {sweep[p].cur},
                                      cur |-> <<0, 0>>]]
    /\ UNCHANGED <<nextRun, runs, journal, tries, exec, client, asking, bounds, history>>

-----------------------------------------------------------------------------
(* Cancellation, retention, faults and time *)

Live(r) == runs[r].status \in Active \cup Waiting

\* The runs the walk from root changes: each was popped from the frontier while
\* live, and was put there first or by its parent, which had changed before.
Walked(parent, live, root) ==
    {r \in live : \E T \in SUBSET live :
        r \in T /\ \A t \in T : t = root \/ parent[t] \in T}

CancelTree(root) ==
    Walked([r \in RunIds |-> runs[r].parent], {r \in RunIds : Live(r)}, root)

\* Where an attempt has looked at its run for the last time and still writes
\* the run's status or its child.
PastStopping == {"apply", "sleepMark", "insert", "park", "look", "parkAgain"}

\* Attempts that no cancellation stops: past their last look, or of a run that
\* ended under them, whose outcome they apply all the same.
Unstoppable(p) ==
    \/ exec[p].pc \in PastStopping
    \/ /\ exec[p].pc \in {"load", "exec", "record", "recheck"}
       /\ runs[exec[p].run].status \in {"completed", "failed"}

Races == {r \in RunIds : \E p \in Procs : exec[p].run = r /\ Unstoppable(p)}

\* Mutant: the children of a cancelled run are left alone.
CancelOne(root) ==
    /\ calls.cancel < MaxCancels
    /\ Live(root)
    /\ calls' = [calls EXCEPT !.cancel = @ + 1]
    /\ runs' = [runs EXCEPT ![root].status = "cancelled"]
    /\ raced' = raced \cup Races
    /\ UNCHANGED <<nextRun, journal, tries, jobs, exec, sweep, client, asking, faults,
                   effects, due, answers>>

\* cancel_run_tree_blocking: one transaction.
Cancel(root) ==
    /\ calls.cancel < MaxCancels
    /\ CancelTree(root) # {}
    /\ calls' = [calls EXCEPT !.cancel = @ + 1]
    /\ runs' = [r \in RunIds |->
                   IF r \in CancelTree(root)
                   THEN [runs[r] EXCEPT !.status = "cancelled", !.wait = 0,
                                        !.timer = -1]
                   ELSE runs[r]]
    /\ raced' = raced \cup Races
    /\ UNCHANGED <<nextRun, journal, tries, jobs, exec, sweep, client, asking, faults,
                   effects, due, answers>>

\* The retention GC deletes aged terminal runs with their journal.
Gc(S) ==
    /\ Collects
    /\ S # {}
    /\ \A r \in S : runs[r].status \in Terminal
    /\ runs' = [r \in RunIds |-> IF r \in S THEN [runs[r] EXCEPT !.status = "deleted"]
                                 ELSE runs[r]]
    /\ journal' = [r \in RunIds |-> IF r \in S THEN NoSteps ELSE journal[r]]
    /\ tries' = [r \in RunIds |-> IF r \in S THEN [i \in Steps |-> 0] ELSE tries[r]]
    /\ UNCHANGED <<nextRun, jobs, exec, sweep, client, asking, bounds, history>>

\* A process is killed and comes back with nothing in memory.
Crash(p) ==
    /\ faults < MaxFaults
    /\ faults' = faults + 1
    /\ exec' = [exec EXCEPT ![p] = Idle]
    /\ sweep' = [sweep EXCEPT ![p] = NoSweep]
    /\ asking' = [asking EXCEPT ![p] = NoAsk]
    /\ client' = [client EXCEPT ![p] = 0]
    /\ UNCHANGED <<store, calls, history>>

\* A store call fails.  The handler of the attempt returns the error; the
\* recording of a step throws outside any step, which fails the run; and a
\* settlement that fails is skipped.
StoreError(p) ==
    /\ exec[p].pc \notin {"idle", "exec"}
    /\ faults < MaxFaults
    /\ faults' = faults + 1
    /\ exec' = [exec EXCEPT ![p] =
                   CASE @.pc \in {"ack", "nack"} -> Idle
                     [] @.pc = "record" -> [@ EXCEPT !.pc = "recheck", !.out = "failed",
                                                     !.step = 0]
                     [] OTHER -> [@ EXCEPT !.pc = "nack"]]
    /\ UNCHANGED <<store, sweep, client, asking, calls, history>>

\* A store call of the timeout sweep fails: it gives up on its other waiters.
SweepError(p) ==
    /\ sweep[p] # NoSweep
    /\ faults < MaxFaults
    /\ faults' = faults + 1
    /\ sweep' = [sweep EXCEPT ![p] = NoSweep]
    /\ UNCHANGED <<store, exec, client, asking, calls, history>>

\* The insert or the push of a trigger call fails: the caller gets the error.
TriggerError(p) ==
    /\ client[p] # 0 \/ asking[p] # NoAsk
    /\ faults < MaxFaults
    /\ faults' = faults + 1
    /\ asking' = [asking EXCEPT ![p] = NoAsk]
    /\ client' = [client EXCEPT ![p] = 0]
    /\ UNCHANGED <<store, exec, sweep, calls, history>>

\* Delays, timeouts and wake-up times come one unit closer.
Tick ==
    /\ jobs' = [r \in RunIds |-> [i \in Slots |->
                   [jobs[r][i] EXCEPT !.delay = Down(@)]]]
    /\ runs' = [r \in RunIds |-> [runs[r] EXCEPT !.timer = Down(@)]]
    /\ exec' = [p \in Procs |-> [exec[p] EXCEPT !.wake = Down(@)]]
    /\ due' = [r \in RunIds |-> [i \in Steps |-> Down(due[r][i])]]
    /\ <<jobs, runs, exec, due>>' # <<jobs, runs, exec, due>>
    /\ UNCHANGED <<nextRun, journal, tries, sweep, client, asking, bounds, effects,
                   answers, raced>>

-----------------------------------------------------------------------------
Init ==
    /\ nextRun = 1
    /\ runs = [r \in RunIds |-> NoRun]
    /\ journal = [r \in RunIds |-> NoSteps]
    /\ tries = [r \in RunIds |-> [i \in Steps |-> 0]]
    /\ jobs = [r \in RunIds |-> [i \in Slots |-> NoJob]]
    /\ exec = [p \in Procs |-> Idle]
    /\ sweep = [p \in Procs |-> NoSweep]
    /\ asking = [p \in Procs |-> NoAsk]
    /\ client = [p \in Procs |-> 0]
    /\ faults = 0 /\ calls = [trigger |-> 0, cancel |-> 0, emit |-> 0]
    /\ effects = [r \in RunIds |-> [i \in Steps |-> 0]]
    /\ due = [r \in RunIds |-> [i \in Steps |-> -1]]
    /\ answers = {} /\ raced = {}

\* One step of the attempt of process p.
Attempt(p) ==
    \/ CheckRun(p) \/ LoadJournal(p)
    \/ Finish(p) \/ BodyDone(p) \/ RecordStep(p) \/ BodyFails(p) \/ Suspend(p)
    \/ Recheck(p)
    \/ RunCompleted(p) \/ RunFailed(p)
    \/ SleepRecord(p) \/ RunSleeping(p) \/ SleepEnqueue(p)
    \/ RunWaitingEvent(p)
    \/ StepFailedAttempt(p) \/ StepRetryEnqueue(p)
    \/ InvokeUnknown(p) \/ InvokeLookup(p) \/ InvokeInsert(p)
    \/ InvokePark(p) \/ InvokeEnqueue(p)
    \/ ReplayLook(p) \/ ReplayRecord(p) \/ ReplayEnqueue(p) \/ ParkAgain(p)
    \/ SettleRecord(p) \/ WakeParent(p) \/ WakeEnqueue(p)
    \/ Ack(p) \/ Nack(p)

TimeoutSweep(p) == SweepRelease(p) \/ SweepRecord(p) \/ SweepEnqueue(p)

Next ==
    \/ \E p \in Procs, w \in Entry, k \in Keys : TriggerLookup(p, w, k)
    \/ \E p \in Procs : TriggerInsert(p)
    \/ \E p \in Procs : TriggerEnqueue(p)
    \/ \E p \in Procs, r \in RunIds, i \in Slots : Claim(p, r, i)
    \/ \E p \in Procs : Attempt(p)
    \/ \E r \in RunIds, i \in Slots : LeaseExpires(r, i)
    \/ \E e \in Events, payload \in Payloads : Emit(e, payload)
    \/ \E p \in Procs : TimeoutSweep(p)
    \/ \E r \in RunIds : Cancel(r)
    \/ \E S \in SUBSET RunIds : Gc(S)
    \/ \E p \in Procs : Crash(p)
    \/ \E p \in Procs : StoreError(p)
    \/ \E p \in Procs : SweepError(p)
    \/ \E p \in Procs : TriggerError(p)
    \/ Tick

Spec == Init /\ [][Next]_vars

\* Dispatchers poll, attempts and trigger calls proceed, leases of dead
\* attempts run out, sweepers run and time passes.
Fairness ==
    /\ \A p \in Procs :
          /\ WF_vars(\E r \in RunIds, i \in Slots : Claim(p, r, i))
          /\ WF_vars(Attempt(p))
          /\ WF_vars(TimeoutSweep(p))
          /\ WF_vars(TriggerInsert(p))
          /\ WF_vars(TriggerEnqueue(p))
    /\ WF_vars(\E r \in RunIds, i \in Slots :
                   Orphaned(r, i) /\ LeaseExpires(r, i))
    /\ WF_vars(Tick)

FairSpec == Spec /\ Fairness

-----------------------------------------------------------------------------
(* Properties *)

\* Type correctness of the tables and of what the processes hold in memory.
TypeOK ==
    /\ nextRun \in 1..(MaxRuns + 1)
    /\ \A r \in RunIds :
          /\ runs[r].status \in {"none", "deleted"} \cup Active \cup Waiting \cup Terminal
          /\ runs[r].status # "none" => runs[r].wf \in Workflows
          /\ runs[r].parent \in 0..(r - 1)
          /\ runs[r].wait \in 0..MaxSteps
          /\ runs[r].timer \in Int
    /\ journal \in [RunIds -> [Steps -> Results \cup {"none"}]]
    /\ tries \in [RunIds -> [Steps -> Nat]]
    /\ jobs \in [RunIds -> [Slots ->
           [state: {"free", "pending", "running", "dead"}, delay: Nat,
            tries: 0..MaxJobTries]]]
    /\ \A p \in Procs :
          /\ exec[p].run \in RunIds \cup {0}
          /\ exec[p].job \in Slots \cup {0}
          /\ exec[p].snap \in [Steps -> Results \cup {"none"}]
          /\ exec[p].step \in 0..MaxSteps
          /\ sweep[p].todo \subseteq RunIds \X Steps
          /\ client[p] \in RunIds \cup {0}
          /\ asking[p].wf \in Workflows \cup {"none"}
    /\ raced \subseteq RunIds

\* "A completed journal entry is never overwritten", whichever attempts,
\* zombies, sweeps, emits and children write it; only the GC removes it.
JournalImmutable ==
    [][\A r \in RunIds, i \in Steps :
          journal[r][i] # "none" /\ runs'[r].status # "deleted"
              => journal'[r][i] = journal[r][i]]_vars

\* "Re-execution bounded by the kill count": each crash, store error or lost
\* lease lets the body of a step finish at most once more.
EffectsBounded ==
    \A r \in RunIds, i \in Steps : effects[r][i] <= 1 + faults

\* "Run creation with idempotencyKey: exactly-once per key": whatever calls of
\* several processes race between lookup and insert, all that used one key were
\* given the same run, as long as it is retained; and an invoke step has one
\* child, though a zombie and the retry of its run may both create it.
OneRunPerKey ==
    /\ \A a, b \in answers :
          a.wf = b.wf /\ a.key = b.key /\ Exists(a.run) /\ Exists(b.run) => a.run = b.run
    /\ \A c, d \in RunIds :
          /\ Exists(c) /\ Exists(d) /\ runs[c].wf = runs[d].wf
          /\ runs[c].parent = runs[d].parent /\ runs[c].parent # 0
          /\ runs[c].pstep = runs[d].pstep
          => c = d

\* step.sleep: no attempt gets past a sleep before its time is up.
SleepHonoured ==
    \A p \in Procs, i \in Steps :
        At(p, "exec") /\ exec[p].snap[i] = "slept" => due[exec[p].run][i] <= 0

\* A cancelled run stays cancelled: "an in-flight attempt's outcome is
\* discarded".
CancelSticks ==
    [][\A r \in RunIds :
          runs[r].status = "cancelled" => runs'[r].status \in {"cancelled", "deleted"}]_vars

\* "Cancels the run and all descendant runs", for good: a child of a cancelled
\* run is live only if an attempt of the one or the other could not be stopped
\* any more when the cancellation came; whatever was created, replayed, woken or
\* enqueued since.
ChildrenStayCancelled ==
    \A r, c \in RunIds :
        runs[r].status = "cancelled" /\ runs[c].parent = r /\ Live(c)
            => r \in raced \/ c \in raced

\* A triggered run ends: nothing a crash, a store error or a lost lease does
\* may leave it without anything to drive it.
RunsEnd ==
    \A r \in RunIds :
        runs[r].status = "runnable" ~> runs[r].status \in Terminal \cup {"deleted"}

\* step.invoke: "a failed/cancelled child makes it throw the child's error in
\* the parent", so a parent does not wait forever for a child that has ended.
ParentsWake ==
    \A c, q \in RunIds :
        (/\ runs[c].parent = q /\ runs[c].status \in Terminal
         /\ runs[q].status = "waitChild")
            ~> runs[q].status # "waitChild"

\* A started run ends: like RunsEnd, for a run whose trigger call returned.
StartedRunsEnd ==
    \A r \in RunIds :
        (\E i \in Slots : jobs[r][i].state = "pending")
            ~> runs[r].status \in Terminal \cup {"deleted"}
=============================================================================
