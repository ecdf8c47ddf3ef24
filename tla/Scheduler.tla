----------------------------- MODULE Scheduler -----------------------------
(***************************************************************************)
(* One persisted schedule shared by several processes: the `schedules` row,*)
(* the scheduler task of every process (boot with its catch-up policy and  *)
(* the tick loop), and the hidden queue its fires are pushed to, whose     *)
(* dispatchers run at most Concurrency jobs per process.                   *)
(*                                                                         *)
(* The clock is absolute and stops at MaxTime.  Every store call is one    *)
(* action; `now` is read before them and may be stale when it is used.     *)
(***************************************************************************)
EXTENDS Integers, FiniteSets

CONSTANTS
    Nodes,        \* processes
    Defs,         \* the ScheduleDefs an application may have
    MaxInterval,  \* bound: the intervals of Defs
    MaxCatchup,   \* MAX_CATCHUP_FIRES
    MaxTime,      \* bound: the clock
    Nobody,       \* no process
    MaxFaults     \* bound: crashes and failing store calls

ASSUME ScheduleAssumption ==
    /\ MaxInterval \in Nat
    /\ \A d \in Defs :
          /\ d.kind \in {"every", "cron"}
          /\ d.overlap \in {"skip", "allow", "queue"}
          /\ d.catchup \in {"skip", "runOnce", "all"}
          /\ d.interval \in 1..MaxInterval
          /\ d.nodes \subseteq Nodes
    /\ MaxCatchup \in Nat \ {0}
    /\ MaxTime \in Nat
    /\ MaxFaults \in Nat
    /\ IsFiniteSet(Nodes) /\ Nobody \notin Nodes

VARIABLES
    def,      \* the ScheduleDef, and the processes that register it
    clock,    \* the time
    row,      \* next_run_at of the schedules row, -1 before the first upsert
    task,     \* the scheduler task of each process
    claimed,  \* history: claims of each tick that entitle the node to fire it
    fired,    \* history: fires of each tick
    jobs,     \* the job of each tick's fire on the schedule's queue
    owner,    \* the process that runs it
    faults    \* faults so far (bound)

vars == <<def, clock, row, task, claimed, fired, jobs, owner, faults>>
queue == <<jobs, owner>>

Times == 0..(MaxTime + MaxInterval)
Off == [pc |-> "off", now |-> 0, t |-> 0, count |-> 0]

\* Booting tasks: an error of theirs ends the scheduler of the process.
BootPcs == {"upsert", "catchSkip", "catchAll", "catchFire", "catchCap"}
LoopPcs == {"due", "claim", "check", "fire"}

-----------------------------------------------------------------------------
\* The interval, or the distance of two cron occurrences.
Interval == def.interval

\* next_after: strictly later; a cron expression has fixed occurrences.
NextAfter(t) ==
    IF def.kind = "every" THEN t + Interval
    ELSE Interval * ((t \div Interval) + 1)

\* Mutant: the tick is claimed whatever next_run_at is.
ClaimBlindly(old, new, won, lostIt, n) ==
    /\ row' = new
    /\ task' = [task EXCEPT ![n] = won]

\* schedule_claim_tick, a compare-and-swap on next_run_at: the task goes on
\* as won or as lostIt.
ClaimTick(old, new, won, lostIt, n) ==
    /\ row' = IF row = old THEN new ELSE row
    /\ task' = [task EXCEPT ![n] = IF row = old THEN won ELSE lostIt]

Step(n, pc) == [task[n] EXCEPT !.pc = pc]
Go(n, pc) == task' = [task EXCEPT ![n].pc = pc]
At(n, pc) == task[n].pc = pc

\* fire: one job on the schedule's queue, for the tick t.
Fire(t) ==
    /\ jobs' = [jobs EXCEPT ![t] = "pending"]
    /\ fired' = [fired EXCEPT ![t] = @ + 1]

-----------------------------------------------------------------------------
(* boot *)

\* A process starts, for the first time or again.
Start(n) ==
    /\ n \in def.nodes
    /\ At(n, "off")
    /\ task' = [task EXCEPT ![n] = [Off EXCEPT !.pc = "upsert", !.now = clock]]
    /\ UNCHANGED <<clock, row, claimed, fired, queue, faults, def>>

\* upsert_schedule: the stored time wins; an overdue one is caught up.
Upsert(n) ==
    /\ At(n, "upsert")
    /\ row' = IF row = -1 THEN NextAfter(task[n].now) ELSE row
    /\ task' = [task EXCEPT ![n] =
                   IF row' > task[n].now THEN [@ EXCEPT !.pc = "idle"]
                   ELSE CASE def.catchup = "skip" -> [@ EXCEPT !.pc = "catchSkip", !.t = row']
                          [] def.catchup = "runOnce" -> [@ EXCEPT !.pc = "idle"]
                          [] def.catchup = "all" -> [@ EXCEPT !.pc = "catchAll", !.t = row']]
    /\ UNCHANGED <<clock, claimed, fired, queue, faults, def>>

CatchSkip(n) ==
    /\ At(n, "catchSkip")
    /\ ClaimTick(task[n].t, NextAfter(task[n].now), Step(n, "idle"), Step(n, "idle"), n)
    /\ UNCHANGED <<clock, claimed, fired, queue, faults, def>>

\* catchup = all: claim and fire the missed ticks one by one.
CatchClaim(n) ==
    /\ At(n, "catchAll")
    /\ ClaimTick(task[n].t, NextAfter(task[n].t), Step(n, "catchFire"), Step(n, "idle"), n)
    /\ claimed' = IF row = task[n].t THEN [claimed EXCEPT ![row] = @ + 1] ELSE claimed
    /\ UNCHANGED <<clock, fired, queue, faults, def>>

CatchFire(n) ==
    /\ At(n, "catchFire")
    /\ Fire(task[n].t)
    /\ LET next == NextAfter(task[n].t)
           count == task[n].count + 1
       IN  task' = [task EXCEPT ![n] =
                       [@ EXCEPT !.t = next, !.count = count,
                                 !.pc = IF next > task[n].now THEN "idle"
                                        ELSE IF count < MaxCatchup THEN "catchAll"
                                        ELSE "catchCap"]]
    /\ UNCHANGED <<clock, row, claimed, owner, faults, def>>

\* The cap is reached: the remaining missed ticks are dropped.
CatchCap(n) ==
    /\ At(n, "catchCap")
    /\ ClaimTick(task[n].t, NextAfter(task[n].now), Step(n, "idle"), Step(n, "idle"), n)
    /\ UNCHANGED <<clock, claimed, fired, queue, faults, def>>

-----------------------------------------------------------------------------
(* The tick loop *)

Poll(n) ==
    /\ At(n, "idle")
    /\ row <= clock
    /\ task' = [task EXCEPT ![n] = [@ EXCEPT !.pc = "due", !.now = clock, !.count = 0]]
    /\ UNCHANGED <<clock, row, claimed, fired, queue, faults, def>>

\* Mutant: a tick is due only after its time.
DueLate(n) ==
    /\ At(n, "due")
    /\ task' = [task EXCEPT ![n] = IF row < @.now THEN [@ EXCEPT !.pc = "claim", !.t = row]
                                   ELSE [@ EXCEPT !.pc = "idle"]]
    /\ UNCHANGED <<clock, row, claimed, fired, queue, faults, def>>

\* due_schedules
Due(n) ==
    /\ At(n, "due")
    /\ task' = [task EXCEPT ![n] = IF row <= @.now THEN [@ EXCEPT !.pc = "claim", !.t = row]
                                   ELSE [@ EXCEPT !.pc = "idle"]]
    /\ UNCHANGED <<clock, row, claimed, fired, queue, faults, def>>

Claim(n) ==
    /\ At(n, "claim")
    /\ ClaimTick(task[n].t, NextAfter(task[n].now),
                 Step(n, IF def.overlap = "skip" THEN "check" ELSE "fire"),
                 Step(n, "idle"), n)
    /\ claimed' = IF row = task[n].t THEN [claimed EXCEPT ![row] = @ + 1] ELSE claimed
    /\ UNCHANGED <<clock, fired, queue, faults, def>>

\* Ticks whose job is pending or running: active_count counts them.
Active == {t \in Times : jobs[t] \in {"pending", "running"}}

\* Mutant: only jobs that already run hold a tick back.
CheckRunning(n) ==
    /\ At(n, "check")
    /\ Go(n, IF \A t \in Active : jobs[t] = "pending" THEN "fire" ELSE "idle")
    /\ UNCHANGED <<clock, row, claimed, fired, queue, faults, def>>

\* overlap = skip: fire only if no earlier tick is in flight.
CheckActive(n) ==
    /\ At(n, "check")
    /\ Go(n, IF Active = {} THEN "fire" ELSE "idle")
    /\ UNCHANGED <<clock, row, claimed, fired, queue, faults, def>>

FireTick(n) ==
    /\ At(n, "fire")
    /\ Fire(task[n].t)
    /\ Go(n, "idle")
    /\ UNCHANGED <<clock, row, claimed, owner, faults, def>>

-----------------------------------------------------------------------------
(* The schedule's queue: QueueConfig of register_schedule, max_attempts 1 *)

Concurrency == IF def.overlap = "allow" THEN 8 ELSE 1
RunningOn(n) == {t \in Times : jobs[t] = "running" /\ owner[t] = n}

\* The dispatcher of a process takes a pending job; which one is left open,
\* since the jitter of fire() delays each job by a random time.
StartJob(n, t) ==
    /\ ~At(n, "off")
    /\ jobs[t] = "pending"
    /\ Cardinality(RunningOn(n)) < Concurrency
    /\ jobs' = [jobs EXCEPT ![t] = "running"]
    /\ owner' = [owner EXCEPT ![t] = n]
    /\ UNCHANGED <<clock, row, task, claimed, fired, faults, def>>

\* The handler ends, well or not: the job has one attempt.
EndJob(t) ==
    /\ jobs[t] = "running" /\ owner[t] # Nobody
    /\ jobs' = [jobs EXCEPT ![t] = "done"]
    /\ UNCHANGED <<clock, row, task, claimed, fired, owner, faults, def>>

\* The lease of a job whose process is gone runs out: it is dead-lettered.
LoseJob(t) ==
    /\ jobs[t] = "running" /\ owner[t] = Nobody
    /\ jobs' = [jobs EXCEPT ![t] = "done"]
    /\ UNCHANGED <<clock, row, task, claimed, fired, owner, faults, def>>

-----------------------------------------------------------------------------
(* Faults and time *)

Crash(n) ==
    /\ ~At(n, "off")
    /\ faults < MaxFaults
    /\ faults' = faults + 1
    /\ task' = [task EXCEPT ![n] = Off]
    /\ owner' = [t \in Times |-> IF t \in RunningOn(n) THEN Nobody ELSE owner[t]]
    /\ UNCHANGED <<clock, row, claimed, fired, jobs, def>>

\* A store call fails.  The loop logs it and goes on; boot gives up, and the
\* process never polls again.
StoreError(n) ==
    /\ task[n].pc \in BootPcs \cup LoopPcs
    /\ faults < MaxFaults
    /\ faults' = faults + 1
    /\ Go(n, IF task[n].pc \in BootPcs THEN "ended" ELSE "idle")
    /\ UNCHANGED <<clock, row, claimed, fired, queue, def>>

Tick ==
    /\ clock < MaxTime
    /\ clock' = clock + 1
    /\ UNCHANGED <<row, task, claimed, fired, queue, faults, def>>

Init ==
    /\ def \in Defs
    /\ clock = 0
    /\ row = -1
    /\ task = [n \in Nodes |-> Off]
    /\ claimed = [t \in Times |-> 0]
    /\ fired = [t \in Times |-> 0]
    /\ jobs = [t \in Times |-> "none"]
    /\ owner = [t \in Times |-> Nobody]
    /\ faults = 0

\* One step of the scheduler task of node n.
Schedule(n) ==
    \/ Upsert(n) \/ CatchSkip(n) \/ CatchClaim(n) \/ CatchFire(n) \/ CatchCap(n)
    \/ Poll(n) \/ Due(n) \/ Claim(n) \/ CheckActive(n) \/ FireTick(n)

Next ==
    \/ \E n \in Nodes : Start(n)
    \/ \E n \in Nodes : Schedule(n)
    \/ \E n \in Nodes, t \in Times : StartJob(n, t)
    \/ \E t \in Times : EndJob(t)
    \/ \E t \in Times : LoseJob(t)
    \/ \E n \in Nodes : Crash(n)
    \/ \E n \in Nodes : StoreError(n)
    \/ Tick

Spec == Init /\ [][Next]_vars

\* Processes are restarted, scheduler tasks keep polling, dispatchers and the
\* lease sweeper run, and handlers return.
Fairness ==
    /\ \A n \in Nodes : WF_vars(Start(n)) /\ WF_vars(Schedule(n))
    /\ \A n \in Nodes : WF_vars(\E t \in Times : StartJob(n, t))
    /\ WF_vars(\E t \in Times : EndJob(t))
    /\ WF_vars(\E t \in Times : LoseJob(t))
    /\ WF_vars(Tick)

FairSpec == Spec /\ Fairness

-----------------------------------------------------------------------------
(* Properties *)

\* A scheduler task at time c.
Task(c) ==
    [pc: {"off", "ended", "idle"} \cup BootPcs \cup LoopPcs,
     now: 0..c, t: Times, count: 0..MaxCatchup]

\* Type correctness of the row, the tasks and the queue.
TypeOK ==
    /\ def \in Defs
    /\ clock \in 0..MaxTime
    /\ row \in Times \cup {-1}
    /\ task \in [Nodes -> Task(clock)]
    /\ claimed \in [Times -> Nat]
    /\ fired \in [Times -> Nat]
    /\ jobs \in [Times -> {"none", "pending", "running", "done"}]
    /\ owner \in [Times -> Nodes \cup {Nobody}]
    /\ faults \in 0..MaxFaults

\* "Exactly one node fires it": no tick is fired by two nodes, nor twice by
\* one, whatever boots, replays, stale clocks and crashes interleave.
TickFiresOnce == \A t \in Times : fired[t] <= 1

\* The tick that a node claimed is fired: ticks fire "exactly once".
ClaimedTicksFire ==
    \A t \in Times : claimed[t] > 0 ~> fired[t] > 0

\* overlap = skip: "Don't fire while a previous tick is still pending/running".
SkipNeverOverlaps == def.overlap = "skip" => Cardinality(Active) <= 1

Executing == {t \in Times : jobs[t] = "running" /\ owner[t] # Nobody}

\* overlap = queue: "ticks execute one at a time (concurrency 1)", and so they
\* do for skip.
Serialises == def.overlap # "allow" => Cardinality(Executing) <= 1

\* An application of a single process keeps both promises, across its crashes
\* and restarts: skip never has two ticks in flight, and neither skip nor queue
\* ever executes two.  A replay (catchup = all) puts every missed tick on the
\* queue without looking, and still executes them one by one.
OneProcessSerialises ==
    Cardinality(def.nodes) = 1 =>
        /\ def.catchup # "all" => SkipNeverOverlaps
        /\ Serialises

\* A due tick is eventually taken by whichever process is up.  Only a store
\* error at boot, which ends the scheduler of its process, can leave it there,
\* and only when no other process has a scheduler.
DueTicksTaken ==
    (row # -1 /\ row <= clock) ~> (row > clock \/ \A n \in def.nodes : At(n, "ended"))
=============================================================================
