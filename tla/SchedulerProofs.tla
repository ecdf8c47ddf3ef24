-------------------------- MODULE SchedulerProofs --------------------------
(***************************************************************************)
(* Theorems about the scheduler, for every number of processes, set of     *)
(* schedules, catch-up cap, length of time and number of faults: no tick   *)
(* fires twice, and an application of one process keeps its overlap        *)
(* policy.                                                                 *)
(*                                                                         *)
(* `fired <= 1` is not inductive: a process that holds a claimed tick will *)
(* fire it.  Ledger adds what makes the claim exclusive: a held tick is    *)
(* behind the row, has not been fired, and is held by nobody else.  The    *)
(* row only moves forward because a task only claims ticks that were due   *)
(* at its own, possibly stale, `now` (Sane).                               *)
(***************************************************************************)
EXTENDS Scheduler, FiniteSetTheorems, TLAPS

\* Tasks that own the tick in their t, and tasks that have one in mind.
HoldingPcs == {"catchFire", "check", "fire"}
DuePcs == HoldingPcs \cup {"catchSkip", "catchAll", "catchCap", "claim"}
Holds(n) == task[n].pc \in HoldingPcs

\* What a task knows: it has seen the row, its tick was due at its now, and a
\* replay has not reached the cap.
Knows(n) ==
    /\ task[n].pc \in DuePcs \cup {"idle", "due"} => row \in Times
    /\ task[n].pc \in DuePcs => task[n].t <= task[n].now
    /\ task[n].pc = "upsert" => task[n].count = 0
    /\ task[n].pc \in {"catchSkip", "catchAll", "catchFire"} => task[n].count < MaxCatchup

Sane == \A n \in Nodes : Knows(n)

\* A held tick is behind the row and not yet fired.
Behind(n) == Holds(n) => task[n].t < row /\ fired[task[n].t] = 0

\* Who may fire which tick.
Ledger ==
    /\ \A t \in Times : fired[t] <= 1 /\ (fired[t] = 1 => t < row)
    /\ \A n \in Nodes : Behind(n)
    /\ \A m, n \in Nodes : m # n /\ Holds(m) /\ Holds(n) => task[m].t # task[n].t

AtMostOne(S) == \A x, y \in S : x = y

\* A single process: its tasks, its jobs, and both overlap promises.
Alone(n) ==
    /\ \A m \in Nodes : m # n => At(m, "off")
    /\ \A t \in Times : jobs[t] = "running" => owner[t] \in {n, Nobody}
    /\ def.overlap = "skip" /\ def.catchup # "all" =>
          /\ task[n].pc \notin {"catchAll", "catchFire", "catchCap"}
          /\ At(n, "fire") => Active = {}
          /\ AtMostOne(Active)
    /\ def.overlap # "allow" => AtMostOne(RunningOn(n))

Solo == \A n \in Nodes : def.nodes = {n} => Alone(n)

-----------------------------------------------------------------------------
(* Time and small sets *)

\* next_after is strictly later, by no more than the longest interval.
LEMMA NextLater ==
    ASSUME def \in Defs, NEW t \in Nat
    PROVE  NextAfter(t) \in Nat /\ t < NextAfter(t) /\ NextAfter(t) <= t + MaxInterval
<1>1. Interval \in Nat \ {0} /\ Interval <= MaxInterval /\ MaxInterval \in Nat
    BY ScheduleAssumption DEF Interval
<1>2. CASE def.kind = "every"
    BY <1>1, <1>2 DEF NextAfter
<1>3. CASE def.kind # "every"
    <2> DEFINE i == Interval
               q == t \div i
    <2>1. i \in Nat /\ i > 0 /\ i <= MaxInterval
        BY <1>1
    <2> HIDE DEF i
    <2>2. q \in Nat /\ i * q <= t /\ t < i * q + i
        BY <2>1
    <2>3. i * (q + 1) = i * q + i /\ i * q \in Nat
        BY <2>1, <2>2
    <2>4. NextAfter(t) = i * (q + 1)
        BY <1>3 DEF NextAfter, i
    <2> HIDE DEF q
    <2> QED BY <1>1, <2>1, <2>2, <2>3, <2>4
<1> QED BY <1>2, <1>3

\* The time after a due moment is one that the model keeps.
LEMMA NextInTimes ==
    ASSUME TypeOK, NEW t \in 0..clock
    PROVE  NextAfter(t) \in Times /\ NextAfter(t) > t
<1>1. t \in Nat /\ t <= MaxTime /\ def \in Defs
    BY ScheduleAssumption DEF TypeOK
<1>2. NextAfter(t) \in Nat /\ t < NextAfter(t) /\ NextAfter(t) <= t + MaxInterval
    BY <1>1, NextLater
<1> QED BY <1>1, <1>2, ScheduleAssumption DEF Times

\* Sets of ticks are finite.
LEMMA TicksFinite == \A S \in SUBSET Times : IsFiniteSet(S)
<1>1. IsFiniteSet(Times)
    BY FS_Interval, ScheduleAssumption DEF Times
<1> QED BY <1>1, FS_Subset

\* A set with at most one element has a cardinality of at most one.
LEMMA OneCounts ==
    ASSUME NEW S \in SUBSET Times
    PROVE  AtMostOne(S) => Cardinality(S) <= 1
<1> SUFFICES ASSUME AtMostOne(S) PROVE Cardinality(S) <= 1
    OBVIOUS
<1>1. CASE S = {}
    BY <1>1, FS_EmptySet
<1>2. ASSUME NEW x \in S PROVE Cardinality(S) <= 1
    <2>1. S = {x}
        BY <1>2 DEF AtMostOne
    <2> QED BY <2>1, FS_Singleton
<1> QED BY <1>1, <1>2

-----------------------------------------------------------------------------
(* Types *)

\* The state a task goes on with is a task again.
LEMMA TaskSet ==
    ASSUME TypeOK, NEW n \in Nodes, NEW new \in Task(clock),
           task' = [task EXCEPT ![n] = new]
    PROVE  task' \in [Nodes -> Task(clock)] /\ task'[n] = new
           /\ \A m \in Nodes : m # n => task'[m] = task[m]
BY DEF TypeOK

\* What a task may be after a step that leaves row' in the table: Knows of it,
\* and a tick it holds is its old one or the one it has just claimed.
Follows(n, new) ==
    /\ new.pc \in DuePcs \cup {"idle", "due"} => row' \in Times
    /\ new.pc \in DuePcs => new.t <= new.now
    /\ new.pc = "upsert" => new.count = 0
    /\ new.pc \in {"catchSkip", "catchAll", "catchFire"} => new.count < MaxCatchup
    /\ new.pc \in HoldingPcs => \/ Holds(n) /\ new.t = task[n].t
                                \/ new.t = row /\ row < row'

\* A task goes on, and the row stays or moves forward.
LEMMA Moves ==
    ASSUME TypeOK, Sane, Ledger, NEW n \in Nodes, NEW new \in Task(clock),
           task' = [task EXCEPT ![n] = new], UNCHANGED <<clock, fired>>,
           row' \in Times \cup {-1}, row <= row', Follows(n, new)
    PROVE  task' \in [Nodes -> Task(clock')] /\ Sane' /\ Ledger'
<1>1. /\ task' \in [Nodes -> Task(clock)] /\ task'[n] = new
      /\ \A m \in Nodes : m # n => task'[m] = task[m]
    BY TaskSet
<1>2. /\ row \in Int /\ row' \in Int /\ (row \in Times => row' \in Times)
      /\ \A m \in Nodes : task[m].t \in Int /\ task[m].t \in Times
      /\ new.t \in Times /\ new.t \in Int
      /\ \A t \in Times : fired[t] \in Nat /\ t \in Int
    <2>1. \A t \in Times : t \in Int /\ t >= 0 /\ t # -1
        BY ScheduleAssumption DEF Times
    <2>2. \A m \in Nodes : task[m].t \in Times
        BY DEF TypeOK, Task
    <2>3. new.t \in Times
        BY DEF Task
    <2>4. row \in Times \cup {-1} /\ fired \in [Times -> Nat]
        BY DEF TypeOK
    <2> QED BY <2>1, <2>2, <2>3, <2>4
<1>3. ASSUME NEW m \in Nodes PROVE Knows(m)'
    <2>1. CASE m = n
        BY <1>1, <2>1 DEF Knows, Follows
    <2>2. CASE m # n
        BY <1>1, <1>2, <2>2 DEF Knows, Sane
    <2> QED BY <2>1, <2>2
<1>4. ASSUME NEW m \in Nodes PROVE Behind(m)'
    <2>1. CASE m # n
        BY <1>1, <1>2, <2>1 DEF Behind, Ledger, Holds
    <2>2. CASE m = n /\ Holds(n) /\ new.t = task[n].t
        BY <1>1, <1>2, <2>2 DEF Behind, Ledger, Holds
    <2>3. CASE m = n /\ new.t = row /\ row < row'
        <3>1. fired[row] = 0
            BY <1>2, <2>3 DEF Ledger
        <3> QED BY <1>1, <1>2, <2>3, <3>1 DEF Behind, Holds
    <2>4. CASE m = n /\ new.pc \notin HoldingPcs
        BY <1>1, <2>4 DEF Behind, Holds
    <2> QED BY <2>1, <2>2, <2>3, <2>4 DEF Follows
<1>5. \A t \in Times : fired'[t] <= 1 /\ (fired'[t] = 1 => t < row')
    BY <1>2 DEF Ledger
<1>6. ASSUME NEW m \in Nodes, m # n, Holds(m), Holds(n)' PROVE task[m].t # new.t
    <2>1. task[m].t < row
        BY <1>6 DEF Ledger, Behind
    <2> QED BY <1>1, <1>2, <1>6, <2>1 DEF Follows, Ledger, Holds
<1>7. ASSUME NEW m \in Nodes, NEW k \in Nodes, m # k, Holds(m)', Holds(k)'
      PROVE  task'[m].t # task'[k].t
    BY <1>1, <1>6, <1>7 DEF Holds, Ledger
<1> QED BY <1>1, <1>3, <1>4, <1>5, <1>7 DEF Sane, Ledger

\* A task fires the tick it holds, and holds it no more.
LEMMA Fires ==
    ASSUME TypeOK, Sane, Ledger, NEW n \in Nodes, NEW new \in Task(clock), Holds(n),
           task' = [task EXCEPT ![n] = new], Fire(task[n].t), UNCHANGED <<clock, row>>,
           new.pc \notin HoldingPcs, Follows(n, new)
    PROVE  task' \in [Nodes -> Task(clock')] /\ fired' \in [Times -> Nat] /\ Sane' /\ Ledger'
<1>1. /\ task' \in [Nodes -> Task(clock)] /\ task'[n] = new
      /\ \A m \in Nodes : m # n => task'[m] = task[m]
    BY TaskSet
<1>2. /\ row \in Int
      /\ \A m \in Nodes : task[m].t \in Int /\ task[m].t \in Times
      /\ \A t \in Times : fired[t] \in Nat /\ t \in Int
    BY ScheduleAssumption, SMTT(30) DEF TypeOK, Times, Task
<1>3. ASSUME NEW m \in Nodes PROVE Knows(m)'
    <2>1. CASE m = n
        BY <1>1, <2>1 DEF Knows, Follows
    <2>2. CASE m # n
        BY <1>1, <1>2, <2>2 DEF Knows, Sane
    <2> QED BY <2>1, <2>2
<1>4. task[n].t < row /\ fired[task[n].t] = 0
    BY DEF Ledger, Behind
<1>5. /\ fired' \in [Times -> Nat]
      /\ fired'[task[n].t] = 1
      /\ \A t \in Times : t # task[n].t => fired'[t] = fired[t]
    BY <1>2, <1>4 DEF Fire, TypeOK
<1>6. ASSUME NEW m \in Nodes PROVE Behind(m)'
    <2>1. CASE m = n
        BY <1>1, <2>1 DEF Behind, Holds
    <2>2. CASE m # n
        BY <1>1, <1>2, <1>5, <2>2 DEF Behind, Holds, Ledger
    <2> QED BY <2>1, <2>2
<1>7. ASSUME NEW t \in Times PROVE fired'[t] <= 1 /\ (fired'[t] = 1 => t < row')
    BY <1>4, <1>5 DEF Ledger
<1>8. ASSUME NEW m \in Nodes, NEW k \in Nodes, m # k, Holds(m)', Holds(k)'
      PROVE  task'[m].t # task'[k].t
    BY <1>1, <1>8 DEF Holds, Ledger
<1> QED BY <1>1, <1>3, <1>5, <1>6, <1>7, <1>8 DEF Sane, Ledger

\* A compare-and-swap on the row, won or lost.
LEMMA Claims ==
    ASSUME TypeOK, Sane, Ledger, NEW n \in Nodes, task[n].pc \in DuePcs,
           NEW next \in Times, task[n].t < next,
           NEW w \in {"idle", "check", "fire", "catchFire"},
           w = "catchFire" => task[n].count < MaxCatchup,
           ClaimTick(task[n].t, next, Step(n, w), Step(n, "idle"), n),
           UNCHANGED <<clock, fired>>
    PROVE  /\ task' \in [Nodes -> Task(clock')] /\ row' \in Times
           /\ Sane' /\ Ledger'
<1>1. Knows(n) /\ row \in Times /\ task[n] \in Task(clock)
    BY DEF Sane, Knows, TypeOK
<1>2. ASSUME NEW w2 \in {"idle", w} PROVE
        /\ Step(n, w2) \in Task(clock) /\ Step(n, w2).pc = w2 /\ Step(n, w2).t = task[n].t
        /\ Step(n, w2).now = task[n].now /\ Step(n, w2).count = task[n].count
    BY <1>1, <1>2 DEF Step, Task, BootPcs, LoopPcs
<1>3. CASE row = task[n].t
    <2>1. row' = next /\ task' = [task EXCEPT ![n] = Step(n, w)]
        BY <1>3 DEF ClaimTick
    <2>2. row <= row' /\ row < row'
        BY <1>1, <1>3, <2>1, ScheduleAssumption DEF Times
    <2>3. Follows(n, Step(n, w))
        BY <1>1, <1>2, <1>3, <2>1, <2>2 DEF Follows, Knows, HoldingPcs, DuePcs
    <2>4. Step(n, w) \in Task(clock)
        BY <1>2
    <2> HIDE DEF Step
    <2> QED BY <2>1, <2>2, <2>3, <2>4, Moves
<1>4. CASE row # task[n].t
    <2>1. row' = row /\ task' = [task EXCEPT ![n] = Step(n, "idle")]
        BY <1>4 DEF ClaimTick
    <2>2. row <= row'
        BY <1>1, <2>1, ScheduleAssumption DEF Times
    <2>3. Follows(n, Step(n, "idle"))
        BY <1>1, <1>2, <2>1 DEF Follows, HoldingPcs, DuePcs
    <2>4. Step(n, "idle") \in Task(clock)
        BY <1>2
    <2> QED BY <1>1, <2>1, <2>2, <2>3, <2>4, Moves
<1> QED BY <1>3, <1>4

-----------------------------------------------------------------------------
(* The steps *)

Safe == TypeOK /\ Sane /\ Ledger

\* boot up to the catch-up policy.
LEMMA StartSafe == ASSUME Safe, NEW n \in Nodes, Start(n) PROVE Safe'
<1> DEFINE new == [Off EXCEPT !.pc = "upsert", !.now = clock]
<1>1. new \in Task(clock) /\ new.pc = "upsert" /\ new.count = 0
    <2>1. clock \in 0..clock /\ 0 \in 0..clock /\ 0 \in Times /\ 0 \in 0..MaxCatchup
        BY ScheduleAssumption DEF Safe, TypeOK, Times
    <2>2. Off \in Task(clock)
        BY <2>1 DEF Off, Task
    <2> QED BY <2>1, <2>2 DEF Task, Off, BootPcs
<1>2. task' = [task EXCEPT ![n] = new] /\ UNCHANGED <<def, clock, row, claimed, fired, jobs, owner, faults>>
    BY DEF Start, queue
<1>3. Follows(n, new)
    BY <1>1 DEF Follows, DuePcs, HoldingPcs
<1>4. row <= row' /\ row' \in Times \cup {-1}
    BY <1>2, ScheduleAssumption DEF Safe, TypeOK, Times
<1> HIDE DEF new
<1>5. task' \in [Nodes -> Task(clock')] /\ Sane' /\ Ledger'
    BY <1>1, <1>2, <1>3, <1>4, Moves DEF Safe
<1> QED BY <1>2, <1>5 DEF Safe, TypeOK

\* upsert_schedule, and the policy that an overdue row calls for.
LEMMA UpsertSafe == ASSUME Safe, NEW n \in Nodes, Upsert(n) PROVE Safe'
<1> DEFINE new == IF row' > task[n].now THEN [task[n] EXCEPT !.pc = "idle"]
                  ELSE CASE def.catchup = "skip" -> [task[n] EXCEPT !.pc = "catchSkip", !.t = row']
                         [] def.catchup = "runOnce" -> [task[n] EXCEPT !.pc = "idle"]
                         [] def.catchup = "all" -> [task[n] EXCEPT !.pc = "catchAll", !.t = row']
<1>1. /\ task[n] \in Task(clock) /\ task[n].now \in 0..clock /\ task[n].count = 0
      /\ def.catchup \in {"skip", "runOnce", "all"}
    BY ScheduleAssumption DEF Safe, TypeOK, Task, Sane, Knows, Upsert, At
<1>2. row' \in Times /\ row <= row' /\ row' \in Int /\ task[n].now \in Int
    <2>1. NextAfter(task[n].now) \in Times
        BY <1>1, NextInTimes DEF Safe
    <2>2. row \in Times \cup {-1} /\ row' = IF row = -1 THEN NextAfter(task[n].now) ELSE row
        BY DEF Upsert, Safe, TypeOK
    <2>3. clock \in Nat
        BY ScheduleAssumption DEF Safe, TypeOK
    <2> QED BY <1>1, <2>1, <2>2, <2>3, ScheduleAssumption DEF Times
<1>3. /\ task' = [task EXCEPT ![n] = new]
      /\ UNCHANGED <<def, clock, claimed, fired, jobs, owner, faults>>
    BY DEF Upsert, queue
<1>4. PICK pc \in {"idle", "catchSkip", "catchAll"}, t \in Times :
        /\ new = [task[n] EXCEPT !.pc = pc, !.t = t]
        /\ pc # "idle" => t <= task[n].now
    <2>1. CASE row' > task[n].now \/ def.catchup = "runOnce"
        <3>1. new = [task[n] EXCEPT !.pc = "idle", !.t = task[n].t] /\ task[n].t \in Times
            BY <1>1, <2>1 DEF Task
        <3> QED BY <3>1
    <2>2. CASE ~(row' > task[n].now) /\ def.catchup = "skip"
        <3>1. new = [task[n] EXCEPT !.pc = "catchSkip", !.t = row']
            BY <2>2
        <3>2. row' <= task[n].now
            BY <1>2, <2>2
        <3> QED BY <1>2, <3>1, <3>2
    <2>3. CASE ~(row' > task[n].now) /\ def.catchup = "all"
        <3>1. new = [task[n] EXCEPT !.pc = "catchAll", !.t = row']
            BY <2>3
        <3>2. row' <= task[n].now
            BY <1>2, <2>3
        <3> QED BY <1>2, <3>1, <3>2
    <2> QED BY <1>1, <2>1, <2>2, <2>3
<1> HIDE DEF new
<1>5. /\ new \in Task(clock) /\ new.pc = pc /\ new.t = t
      /\ new.now = task[n].now /\ new.count = 0
    BY <1>1, <1>4 DEF Task, BootPcs
<1>6. Follows(n, new)
    <2>1. 0 < MaxCatchup
        BY ScheduleAssumption
    <2> QED BY <1>2, <1>4, <1>5, <2>1 DEF Follows, DuePcs, HoldingPcs
<1>7. task' \in [Nodes -> Task(clock')] /\ Sane' /\ Ledger'
    BY <1>2, <1>3, <1>5, <1>6, Moves DEF Safe
<1> QED BY <1>2, <1>3, <1>7 DEF Safe, TypeOK

\* What is left of a step that claims.
LEMMA ClaimSafe ==
    ASSUME Safe, NEW n \in Nodes, task[n].pc \in DuePcs,
           NEW from \in {task[n].t, task[n].now},
           NEW w \in {"idle", "check", "fire", "catchFire"},
           w = "catchFire" => task[n].count < MaxCatchup,
           ClaimTick(task[n].t, NextAfter(from), Step(n, w), Step(n, "idle"), n),
           claimed' \in [Times -> Nat],
           UNCHANGED <<def, clock, fired, jobs, owner, faults>>
    PROVE  Safe'
<1>1. task[n].now \in 0..clock /\ task[n].t \in Times /\ task[n].t <= task[n].now /\ clock \in Nat
    <2>1. task[n] \in Task(clock)
        BY DEF Safe, TypeOK
    <2>2. task[n].t <= task[n].now
        BY DEF Safe, Sane, Knows
    <2>3. clock \in Nat
        BY ScheduleAssumption DEF Safe, TypeOK
    <2> QED BY <2>1, <2>2, <2>3 DEF Task
<1>2. from \in 0..clock /\ task[n].t <= from /\ from \in Int /\ task[n].t \in Int
    BY <1>1, ScheduleAssumption DEF Times
<1>3. NextAfter(from) \in Times /\ NextAfter(from) > from
    BY <1>2, NextInTimes DEF Safe
<1>4. task[n].t < NextAfter(from)
    BY <1>2, <1>3, ScheduleAssumption DEF Times
<1>5. /\ task' \in [Nodes -> Task(clock')] /\ row' \in Times
      /\ Sane' /\ Ledger'
    <2> DEFINE next == NextAfter(from)
    <2>1. next \in Times /\ task[n].t < next /\ ClaimTick(task[n].t, next, Step(n, w), Step(n, "idle"), n)
        BY <1>3, <1>4
    <2> HIDE DEF next
    <2> QED BY <2>1, Claims DEF Safe
<1> QED BY <1>5 DEF Safe, TypeOK

\* The gap is skipped, or what the cap leaves of it.
LEMMA CatchSkipSafe == ASSUME Safe, NEW n \in Nodes, CatchSkip(n) \/ CatchCap(n) PROVE Safe'
<1>1. /\ task[n].pc \in DuePcs
      /\ ClaimTick(task[n].t, NextAfter(task[n].now), Step(n, "idle"), Step(n, "idle"), n)
      /\ claimed' \in [Times -> Nat]
      /\ UNCHANGED <<def, clock, fired, jobs, owner, faults>>
    BY DEF CatchSkip, CatchCap, At, DuePcs, queue, Safe, TypeOK
<1> QED BY <1>1, ClaimSafe

\* The count of the claims stays a count.
LEMMA ClaimedType ==
    ASSUME TypeOK, NEW n \in Nodes,
           claimed' = IF row = task[n].t THEN [claimed EXCEPT ![row] = @ + 1] ELSE claimed
    PROVE  claimed' \in [Times -> Nat]
<1>1. task[n].t \in Times /\ claimed \in [Times -> Nat]
    BY DEF TypeOK, Task
<1> QED BY <1>1

\* A replay claims the next missed tick.
LEMMA CatchClaimSafe == ASSUME Safe, NEW n \in Nodes, CatchClaim(n) PROVE Safe'
<1>1. /\ task[n].pc \in DuePcs
      /\ ClaimTick(task[n].t, NextAfter(task[n].t), Step(n, "catchFire"), Step(n, "idle"), n)
      /\ UNCHANGED <<def, clock, fired, jobs, owner, faults>>
    BY DEF CatchClaim, At, DuePcs, queue
<1>2. task[n].count < MaxCatchup
    BY DEF CatchClaim, At, Safe, Sane, Knows
<1>3. claimed' \in [Times -> Nat]
    BY ClaimedType DEF CatchClaim, Safe
<1> QED BY <1>1, <1>2, <1>3, ClaimSafe

\* The loop claims a due tick.
LEMMA LoopClaimSafe == ASSUME Safe, NEW n \in Nodes, Claim(n) PROVE Safe'
<1> DEFINE w == IF def.overlap = "skip" THEN "check" ELSE "fire"
<1>1. /\ task[n].pc \in DuePcs
      /\ ClaimTick(task[n].t, NextAfter(task[n].now), Step(n, w), Step(n, "idle"), n)
      /\ UNCHANGED <<def, clock, fired, jobs, owner, faults>>
      /\ w \in {"idle", "check", "fire", "catchFire"} /\ w # "catchFire"
    BY DEF Claim, At, DuePcs, queue
<1>2. claimed' \in [Times -> Nat]
    BY ClaimedType DEF Claim, Safe
<1> HIDE DEF w
<1> QED BY <1>1, <1>2, ClaimSafe

\* A step of one task that does not touch the row or the ticks.
LEMMA TaskSafe ==
    ASSUME Safe, NEW n \in Nodes, NEW new \in Task(clock),
           task' = [task EXCEPT ![n] = new], Follows(n, new),
           jobs' \in [Times -> {"none", "pending", "running", "done"}],
           owner' \in [Times -> Nodes \cup {Nobody}], faults' \in 0..MaxFaults,
           UNCHANGED <<def, clock, row, claimed, fired>>
    PROVE  Safe'
<1>1. row <= row' /\ row' \in Times \cup {-1}
    BY ScheduleAssumption DEF Safe, TypeOK, Times
<1>2. task' \in [Nodes -> Task(clock')] /\ Sane' /\ Ledger'
    BY <1>1, Moves DEF Safe
<1> QED BY <1>1, <1>2 DEF Safe, TypeOK

\* The loop reads the clock.
LEMMA PollSafe == ASSUME Safe, NEW n \in Nodes, Poll(n) PROVE Safe'
<1> DEFINE new == [task[n] EXCEPT !.pc = "due", !.now = clock, !.count = 0]
<1>1. clock \in 0..clock /\ 0 \in 0..MaxCatchup
    BY ScheduleAssumption DEF Safe, TypeOK
<1>2. task[n] \in Task(clock) /\ row \in Times
    BY DEF Safe, TypeOK, Poll, At, Sane, Knows
<1>3. new \in Task(clock) /\ new.pc = "due" /\ Follows(n, new)
    BY <1>1, <1>2 DEF Task, LoopPcs, Poll, Follows, DuePcs, HoldingPcs
<1>4. /\ task' = [task EXCEPT ![n] = new]
      /\ UNCHANGED <<def, clock, row, claimed, fired, jobs, owner, faults>>
    BY DEF Poll, queue
<1> HIDE DEF new
<1>5. /\ jobs' \in [Times -> {"none", "pending", "running", "done"}]
      /\ owner' \in [Times -> Nodes \cup {Nobody}] /\ faults' \in 0..MaxFaults
    BY <1>4 DEF Safe, TypeOK
<1> QED BY <1>3, <1>4, <1>5, TaskSafe

\* due_schedules returns the row, or does not.
LEMMA DueSafe == ASSUME Safe, NEW n \in Nodes, Due(n) PROVE Safe'
<1> DEFINE new == IF row <= task[n].now THEN [task[n] EXCEPT !.pc = "claim", !.t = row]
                  ELSE [task[n] EXCEPT !.pc = "idle"]
<1>1. task[n] \in Task(clock) /\ row \in Times
    BY DEF Safe, TypeOK, Due, At, Sane, Knows
<1>2. new \in Task(clock)
    BY <1>1 DEF Task, LoopPcs
<1>3. Follows(n, new)
    <2>1. CASE row <= task[n].now
        <3>1. new.pc = "claim" /\ new.t = row /\ new.now = task[n].now
            BY <1>1, <2>1 DEF Task
        <3> QED BY <1>1, <2>1, <3>1 DEF Follows, DuePcs, HoldingPcs, Due
    <2>2. CASE ~(row <= task[n].now)
        <3>1. new.pc = "idle"
            BY <1>1, <2>2 DEF Task
        <3> QED BY <1>1, <3>1 DEF Follows, DuePcs, HoldingPcs, Due
    <2> QED BY <2>1, <2>2
<1>4. /\ task' = [task EXCEPT ![n] = new]
      /\ UNCHANGED <<def, clock, row, claimed, fired, jobs, owner, faults>>
    BY DEF Due, queue
<1> HIDE DEF new
<1>5. /\ jobs' \in [Times -> {"none", "pending", "running", "done"}]
      /\ owner' \in [Times -> Nodes \cup {Nobody}] /\ faults' \in 0..MaxFaults
    BY <1>4 DEF Safe, TypeOK
<1> QED BY <1>2, <1>3, <1>4, <1>5, TaskSafe

\* The overlap check keeps the tick or drops it.
LEMMA CheckSafe == ASSUME Safe, NEW n \in Nodes, CheckActive(n) PROVE Safe'
<1> DEFINE pc == IF Active = {} THEN "fire" ELSE "idle"
           new == [task[n] EXCEPT !.pc = pc]
<1>1. task[n] \in Task(clock) /\ row \in Times /\ task[n].t <= task[n].now /\ Holds(n)
    BY DEF Safe, TypeOK, CheckActive, At, Sane, Knows, DuePcs, HoldingPcs, Holds
<1>2. new \in Task(clock) /\ new.pc \in {"fire", "idle"} /\ new.t = task[n].t /\ new.now = task[n].now
    BY <1>1 DEF Task, LoopPcs
<1>4. /\ task' = [task EXCEPT ![n] = new]
      /\ UNCHANGED <<def, clock, row, claimed, fired, jobs, owner, faults>>
    BY DEF CheckActive, Go, queue
<1> HIDE DEF new
<1>3. Follows(n, new)
    BY <1>1, <1>2, <1>4 DEF Follows, DuePcs, HoldingPcs
<1>5. /\ jobs' \in [Times -> {"none", "pending", "running", "done"}]
      /\ owner' \in [Times -> Nodes \cup {Nobody}] /\ faults' \in 0..MaxFaults
    BY <1>4 DEF Safe, TypeOK
<1> QED BY <1>2, <1>3, <1>4, <1>5, TaskSafe

\* A replay fires the tick it has claimed and looks at the next.
LEMMA CatchFireSafe == ASSUME Safe, NEW n \in Nodes, CatchFire(n) PROVE Safe'
<1> DEFINE next == NextAfter(task[n].t)
           count == task[n].count + 1
           pc == IF next > task[n].now THEN "idle"
                 ELSE IF count < MaxCatchup THEN "catchAll" ELSE "catchCap"
           new == [task[n] EXCEPT !.t = next, !.count = count, !.pc = pc]
<1>1. /\ task[n] \in Task(clock) /\ row \in Times /\ Holds(n)
      /\ task[n].t <= task[n].now /\ task[n].count < MaxCatchup
    BY DEF Safe, TypeOK, CatchFire, At, Sane, Knows, DuePcs, HoldingPcs, Holds
<1>2. next \in Times /\ count \in 0..MaxCatchup
    <2>1. /\ task[n].t \in Times /\ task[n].now \in 0..clock /\ task[n].count \in 0..MaxCatchup
          /\ clock \in Nat
        BY <1>1, ScheduleAssumption DEF Task, Safe, TypeOK
    <2>2. task[n].t \in 0..clock /\ count \in 0..MaxCatchup
        BY <1>1, <2>1, ScheduleAssumption DEF Times
    <2> QED BY <2>2, NextInTimes DEF Safe
<1>3. /\ pc \in {"idle", "catchAll", "catchCap"}
      /\ pc = "catchAll" => count < MaxCatchup
      /\ pc # "idle" => next <= task[n].now
    <2>1. next \in Int /\ task[n].now \in Int
        BY <1>1, <1>2, ScheduleAssumption DEF Times, Task
    <2> QED BY <2>1
<1>4. /\ task' = [task EXCEPT ![n] = new] /\ Fire(task[n].t)
      /\ UNCHANGED <<def, clock, row, claimed, owner, faults>>
    BY DEF CatchFire
<1> HIDE DEF next, count, pc
<1>5. /\ new \in Task(clock) /\ new.pc = pc /\ new.t = next /\ new.count = count
      /\ new.now = task[n].now
    BY <1>1, <1>2, <1>3 DEF Task, BootPcs
<1> HIDE DEF new
<1>6. Follows(n, new) /\ new.pc \notin HoldingPcs
    BY <1>1, <1>3, <1>4, <1>5 DEF Follows, DuePcs, HoldingPcs
<1>7. task' \in [Nodes -> Task(clock')] /\ fired' \in [Times -> Nat] /\ Sane' /\ Ledger'
    BY <1>1, <1>4, <1>5, <1>6, Fires DEF Safe
<1>8. jobs' \in [Times -> {"none", "pending", "running", "done"}]
    BY <1>4 DEF Fire, Safe, TypeOK
<1> QED BY <1>4, <1>7, <1>8 DEF Safe, TypeOK

\* The loop fires the tick it has claimed.
LEMMA FireTickSafe == ASSUME Safe, NEW n \in Nodes, FireTick(n) PROVE Safe'
<1> DEFINE new == [task[n] EXCEPT !.pc = "idle"]
<1>1. task[n] \in Task(clock) /\ row \in Times /\ Holds(n)
    BY DEF Safe, TypeOK, FireTick, At, Sane, Knows, DuePcs, HoldingPcs, Holds
<1>2. new \in Task(clock) /\ new.pc = "idle"
    BY <1>1 DEF Task
<1>3. /\ task' = [task EXCEPT ![n] = new] /\ Fire(task[n].t)
      /\ UNCHANGED <<def, clock, row, claimed, owner, faults>>
    BY DEF FireTick, Go
<1> HIDE DEF new
<1>4. Follows(n, new) /\ new.pc \notin HoldingPcs
    BY <1>1, <1>2, <1>3 DEF Follows, DuePcs, HoldingPcs
<1>5. task' \in [Nodes -> Task(clock')] /\ fired' \in [Times -> Nat] /\ Sane' /\ Ledger'
    BY <1>1, <1>2, <1>3, <1>4, Fires DEF Safe
<1>6. jobs' \in [Times -> {"none", "pending", "running", "done"}]
    BY <1>3 DEF Fire, Safe, TypeOK
<1> QED BY <1>3, <1>5, <1>6 DEF Safe, TypeOK

\* A process dies with whatever it holds.
LEMMA CrashSafe == ASSUME Safe, NEW n \in Nodes, Crash(n) PROVE Safe'
<1>1. Off \in Task(clock) /\ Off.pc = "off"
    <2>1. 0 \in 0..clock /\ 0 \in Times /\ 0 \in 0..MaxCatchup
        BY ScheduleAssumption DEF Safe, TypeOK, Times
    <2> QED BY <2>1 DEF Off, Task
<1>2. Follows(n, Off)
    BY <1>1 DEF Follows, DuePcs, HoldingPcs
<1>3. /\ task' = [task EXCEPT ![n] = Off]
      /\ UNCHANGED <<def, clock, row, claimed, fired, jobs>>
    BY DEF Crash
<1>4. faults' \in 0..MaxFaults
    BY ScheduleAssumption DEF Crash, Safe, TypeOK
<1>5. /\ jobs' \in [Times -> {"none", "pending", "running", "done"}]
      /\ owner' \in [Times -> Nodes \cup {Nobody}]
    BY <1>3 DEF Crash, Safe, TypeOK
<1> QED BY <1>1, <1>2, <1>3, <1>4, <1>5, TaskSafe

\* A store call fails: boot ends, the loop goes on.
LEMMA StoreErrorSafe == ASSUME Safe, NEW n \in Nodes, StoreError(n) PROVE Safe'
<1> DEFINE pc == IF task[n].pc \in BootPcs THEN "ended" ELSE "idle"
           new == [task[n] EXCEPT !.pc = pc]
<1>1. task[n] \in Task(clock) /\ (pc = "idle" => row \in Times)
    BY DEF Safe, TypeOK, StoreError, Sane, Knows, DuePcs, HoldingPcs, BootPcs, LoopPcs
<1>2. new \in Task(clock) /\ new.pc = pc /\ pc \in {"ended", "idle"}
    BY <1>1 DEF Task
<1>3. /\ task' = [task EXCEPT ![n] = new]
      /\ UNCHANGED <<def, clock, row, claimed, fired, jobs, owner>>
    BY DEF StoreError, Go, queue
<1> HIDE DEF new, pc
<1>4. Follows(n, new)
    BY <1>1, <1>2, <1>3 DEF Follows, DuePcs, HoldingPcs
<1>5. faults' \in 0..MaxFaults
    BY ScheduleAssumption DEF StoreError, Safe, TypeOK
<1>6. /\ jobs' \in [Times -> {"none", "pending", "running", "done"}]
      /\ owner' \in [Times -> Nodes \cup {Nobody}]
    BY <1>3 DEF Safe, TypeOK
<1> QED BY <1>2, <1>3, <1>4, <1>5, <1>6, TaskSafe

\* The dispatchers and the lease sweeper leave the tasks and the ticks alone.
LEMMA QueueSafe ==
    ASSUME Safe, NEW t \in Times,
           \/ \E n \in Nodes : StartJob(n, t)
           \/ EndJob(t)
           \/ LoseJob(t)
    PROVE  Safe'
<1>1. UNCHANGED <<def, clock, row, task, claimed, fired, faults>>
    BY DEF StartJob, EndJob, LoseJob
<1>2. /\ jobs' \in [Times -> {"none", "pending", "running", "done"}]
      /\ owner' \in [Times -> Nodes \cup {Nobody}]
    BY DEF StartJob, EndJob, LoseJob, Safe, TypeOK
<1>3. Sane' /\ Ledger'
    BY <1>1 DEF Safe, Sane, Knows, Ledger, Behind, Holds
<1> QED BY <1>1, <1>2, <1>3 DEF Safe, TypeOK

\* Time passes.
LEMMA TickSafe == ASSUME Safe, Tick PROVE Safe'
<1>1. UNCHANGED <<def, row, task, claimed, fired, jobs, owner, faults>>
    BY DEF Tick, queue
<1>2. clock' \in 0..MaxTime /\ \A x \in 0..clock : x \in 0..clock'
    BY ScheduleAssumption DEF Tick, Safe, TypeOK
<1>3. task' \in [Nodes -> Task(clock')]
    BY <1>1, <1>2 DEF Task, Safe, TypeOK
<1>4. Sane' /\ Ledger'
    BY <1>1 DEF Safe, Sane, Knows, Ledger, Behind, Holds
<1> QED BY <1>1, <1>2, <1>3, <1>4 DEF Safe, TypeOK

\* Nothing is held or fired at first.
LEMMA SafeInit == Init => Safe
<1> SUFFICES ASSUME Init PROVE Safe
    OBVIOUS
<1>1. 0 \in 0..MaxTime /\ 0 \in 0..0 /\ 0 \in Times /\ 0 \in 0..MaxCatchup /\ 0 \in 0..MaxFaults
    BY ScheduleAssumption DEF Times
<1>2. Off \in Task(0)
    BY <1>1 DEF Off, Task
<1>3. TypeOK
    BY <1>1, <1>2 DEF Init, TypeOK
<1>4. \A n \in Nodes : task[n].pc = "off"
    BY DEF Init, Off
<1>5. Sane
    BY <1>4 DEF Sane, Knows, DuePcs, HoldingPcs
<1>6. Ledger
    BY <1>4 DEF Init, Ledger, Behind, Holds, HoldingPcs
<1> QED BY <1>3, <1>5, <1>6 DEF Safe

\* Every step of every process keeps the invariant.
LEMMA SafeStep == Safe /\ [Next]_vars => Safe'
<1> SUFFICES ASSUME Safe, [Next]_vars PROVE Safe'
    OBVIOUS
<1>1. ASSUME NEW n \in Nodes, Schedule(n) PROVE Safe'
    BY <1>1, UpsertSafe, CatchSkipSafe, CatchClaimSafe, CatchFireSafe, PollSafe, DueSafe,
       LoopClaimSafe, CheckSafe, FireTickSafe DEF Schedule
<1>2. ASSUME NEW t \in Times, (\E n \in Nodes : StartJob(n, t)) \/ EndJob(t) \/ LoseJob(t)
      PROVE  Safe'
    BY <1>2, QueueSafe
<1>3. CASE UNCHANGED vars
    BY <1>3 DEF vars, Safe, TypeOK, Sane, Knows, Ledger, Behind, Holds
<1> QED BY <1>1, <1>2, <1>3, StartSafe, CrashSafe, StoreErrorSafe, TickSafe DEF Next

\* The inductive invariant of boot and the tick loop, in every process at once.
THEOREM LedgerAlways == Spec => []Safe
BY SafeInit, SafeStep, PTL DEF Spec

\* schedule_claim_tick and the loop of run: no tick fires twice, for every
\* schedule, number of processes and order of boots, replays, crashes and errors.
THEOREM TicksFireOnce == Spec => []TickFiresOnce
<1>1. Safe => TickFiresOnce
    BY DEF Safe, Ledger, TickFiresOnce
<1> QED BY <1>1, LedgerAlways, PTL

-----------------------------------------------------------------------------
(* One process *)

Skips == def.overlap = "skip" /\ def.catchup # "all"
ReplayPcs == {"catchAll", "catchFire", "catchCap"}

\* Only the process that registers the schedule takes steps.
LEMMA OnlyOne ==
    ASSUME Safe, NEW n \in Nodes, def.nodes = {n}, Alone(n), NEW m \in Nodes,
           Start(m) \/ Schedule(m) \/ Crash(m) \/ StoreError(m) \/ \E t \in Times : StartJob(m, t)
    PROVE  m = n
<1>1. CASE Start(m)
    BY <1>1 DEF Start
<1>2. CASE Schedule(m)
    BY <1>2 DEF Schedule, Upsert, CatchSkip, CatchClaim, CatchFire, CatchCap, Poll, Due,
                Claim, CheckActive, FireTick, At, Alone
<1>3. CASE StoreError(m)
    BY <1>3 DEF StoreError, BootPcs, LoopPcs, At, Alone
<1> QED BY <1>1, <1>2, <1>3 DEF Crash, StartJob, Alone

\* The task of the process goes on; the queue stays.
LEMMA AloneMoves ==
    ASSUME Safe, NEW n \in Nodes, Alone(n), NEW new, task' = [task EXCEPT ![n] = new],
           UNCHANGED <<def, jobs, owner>>,
           Skips => new.pc \notin ReplayPcs /\ (new.pc = "fire" => Active = {})
    PROVE  Alone(n)'
<1>1. task'[n] = new /\ \A m \in Nodes : m # n => task'[m] = task[m]
    BY DEF Safe, TypeOK
<1>2. Active' = Active /\ RunningOn(n)' = RunningOn(n)
    BY DEF Active, RunningOn
<1> QED BY <1>1, <1>2 DEF Alone, At, Skips, ReplayPcs

\* Steps of boot and of the loop that do not fire.
LEMMA AloneSchedule ==
    ASSUME Safe, NEW n \in Nodes, Alone(n), Schedule(n), ~CatchFire(n), ~FireTick(n)
    PROVE  Alone(n)'
<1>0. task \in [Nodes -> Task(clock)] /\ task[n] \in Task(clock)
    BY DEF Safe, TypeOK
<1>1. CASE Upsert(n)
    <2> DEFINE new == IF row' > task[n].now THEN [task[n] EXCEPT !.pc = "idle"]
                      ELSE CASE def.catchup = "skip" -> [task[n] EXCEPT !.pc = "catchSkip", !.t = row']
                             [] def.catchup = "runOnce" -> [task[n] EXCEPT !.pc = "idle"]
                             [] def.catchup = "all" -> [task[n] EXCEPT !.pc = "catchAll", !.t = row']
    <2>1. task' = [task EXCEPT ![n] = new] /\ UNCHANGED <<def, jobs, owner>>
        BY <1>1 DEF Upsert, queue
    <2>2. def.catchup \in {"skip", "runOnce", "all"}
        BY ScheduleAssumption DEF Safe, TypeOK
    <2>3. def.catchup # "all" => new.pc \in {"idle", "catchSkip"}
        BY <1>0, <2>2 DEF Task
    <2> HIDE DEF new
    <2> QED BY <2>1, <2>3, AloneMoves DEF Skips, ReplayPcs
<1>2. CASE CatchSkip(n) \/ CatchCap(n) \/ CatchClaim(n)
    <2>1. PICK pc \in {"idle", "catchFire"} :
            /\ task' = [task EXCEPT ![n] = Step(n, pc)]
            /\ UNCHANGED <<def, jobs, owner>>
            /\ pc = "catchFire" => At(n, "catchAll")
        BY <1>2 DEF CatchSkip, CatchCap, CatchClaim, ClaimTick, queue
    <2>2. Step(n, pc).pc = pc
        BY <1>0 DEF Step, Task
    <2>3. Skips => pc # "catchFire"
        BY <2>1 DEF Alone, Skips, At
    <2> QED BY <2>1, <2>2, <2>3, AloneMoves DEF ReplayPcs
<1>3. CASE Poll(n)
    <2> DEFINE new == [task[n] EXCEPT !.pc = "due", !.now = clock, !.count = 0]
    <2>1. task' = [task EXCEPT ![n] = new] /\ UNCHANGED <<def, jobs, owner>> /\ new.pc = "due"
        BY <1>0, <1>3 DEF Poll, queue, Task
    <2> HIDE DEF new
    <2> QED BY <2>1, AloneMoves DEF ReplayPcs
<1>4. CASE Due(n)
    <2> DEFINE new == IF row <= task[n].now THEN [task[n] EXCEPT !.pc = "claim", !.t = row]
                      ELSE [task[n] EXCEPT !.pc = "idle"]
    <2>1. /\ task' = [task EXCEPT ![n] = new] /\ UNCHANGED <<def, jobs, owner>>
          /\ new.pc \in {"claim", "idle"}
        BY <1>0, <1>4 DEF Due, queue, Task
    <2> HIDE DEF new
    <2> QED BY <2>1, AloneMoves DEF ReplayPcs
<1>5. CASE Claim(n)
    <2>1. PICK pc \in {"idle", "check", "fire"} :
            /\ task' = [task EXCEPT ![n] = Step(n, pc)]
            /\ UNCHANGED <<def, jobs, owner>>
            /\ pc = "fire" => def.overlap # "skip"
        <3>1. CASE row = task[n].t
            BY <1>5, <3>1 DEF Claim, ClaimTick, queue
        <3>2. CASE row # task[n].t
            BY <1>5, <3>2 DEF Claim, ClaimTick, queue
        <3> QED BY <3>1, <3>2
    <2>2. Step(n, pc).pc = pc
        BY <1>0 DEF Step, Task
    <2> QED BY <2>1, <2>2, AloneMoves DEF ReplayPcs, Skips
<1>6. CASE CheckActive(n)
    <2> DEFINE new == [task[n] EXCEPT !.pc = IF Active = {} THEN "fire" ELSE "idle"]
    <2>1. /\ task' = [task EXCEPT ![n] = new] /\ UNCHANGED <<def, jobs, owner>>
        BY <1>6 DEF CheckActive, Go, queue
    <2>2. new.pc \in {"fire", "idle"} /\ (new.pc = "fire" => Active = {})
        BY <1>0 DEF Task
    <2> HIDE DEF new
    <2> QED BY <2>1, <2>2, AloneMoves DEF ReplayPcs
<1> QED BY <1>1, <1>2, <1>3, <1>4, <1>5, <1>6 DEF Schedule

\* The process fires: skip only with nothing in flight.
LEMMA AloneFires ==
    ASSUME Safe, NEW n \in Nodes, Alone(n), CatchFire(n) \/ FireTick(n)
    PROVE  Alone(n)'
<1> DEFINE t == task[n].t
<1>1. /\ t \in Times /\ task \in [Nodes -> Task(clock)]
      /\ jobs \in [Times -> {"none", "pending", "running", "done"}]
    BY DEF Safe, TypeOK, Task
<1>2. /\ jobs' = [jobs EXCEPT ![t] = "pending"] /\ UNCHANGED <<def, owner>>
      /\ \A m \in Nodes : m # n => task'[m] = task[m]
    BY <1>1 DEF CatchFire, FireTick, Fire, Go
<1>3. RunningOn(n)' \subseteq RunningOn(n) /\ Active' \subseteq Active \cup {t}
    BY <1>1, <1>2 DEF RunningOn, Active
<1>4. ASSUME Skips PROVE task'[n].pc = "idle" /\ Active = {}
    <2>1. FireTick(n)
        BY <1>4 DEF Alone, Skips, CatchFire, At
    <2> QED BY <1>1, <1>4, <2>1 DEF FireTick, Go, Alone, Skips, At, Task
<1>5. \A x \in Times : jobs'[x] = "running" => owner'[x] \in {n, Nobody}
    BY <1>1, <1>2 DEF Alone
<1>6. Skips => AtMostOne(Active')
    BY <1>3, <1>4 DEF AtMostOne
<1>7. def.overlap # "allow" => AtMostOne(RunningOn(n)')
    BY <1>3 DEF Alone, AtMostOne
<1> QED BY <1>2, <1>4, <1>5, <1>6, <1>7 DEF Alone, Skips, At, AtMostOne

\* The dispatcher has one slot, and only its process to give it to.
LEMMA AloneRuns ==
    ASSUME Safe, NEW n \in Nodes, Alone(n), NEW t \in Times, StartJob(n, t) \/ EndJob(t) \/ LoseJob(t)
    PROVE  Alone(n)'
<1>1. /\ jobs \in [Times -> {"none", "pending", "running", "done"}]
      /\ owner \in [Times -> Nodes \cup {Nobody}] /\ n # Nobody
    BY ScheduleAssumption DEF Safe, TypeOK
<1>2. UNCHANGED <<def, task>>
    BY DEF StartJob, EndJob, LoseJob
<1>3. Active' \subseteq Active
    BY <1>1 DEF Active, StartJob, EndJob, LoseJob
<1>4. \A x \in Times : jobs'[x] = "running" => owner'[x] \in {n, Nobody}
    BY <1>1 DEF StartJob, EndJob, LoseJob, Alone
<1>5. def.overlap # "allow" => AtMostOne(RunningOn(n)')
    <2>1. CASE StartJob(n, t)
        <3>1. RunningOn(n)' \subseteq RunningOn(n) \cup {t}
            BY <1>1, <2>1 DEF RunningOn, StartJob
        <3>2. ASSUME def.overlap # "allow" PROVE RunningOn(n) = {}
            <4>1. RunningOn(n) \in SUBSET Times
                BY DEF RunningOn
            <4>2. IsFiniteSet(RunningOn(n))
                BY <4>1, TicksFinite
            <4>3. Cardinality(RunningOn(n)) \in Nat
                BY <4>2, FS_CardinalityType
            <4>4. Cardinality(RunningOn(n)) < 1
                BY <2>1, <3>2 DEF StartJob, Concurrency
            <4>5. Cardinality(RunningOn(n)) = 0
                BY <4>3, <4>4
            <4> QED BY <4>2, <4>5, FS_EmptySet
        <3> QED BY <3>1, <3>2 DEF AtMostOne
    <2>2. CASE EndJob(t) \/ LoseJob(t)
        <3>1. RunningOn(n)' \subseteq RunningOn(n)
            BY <1>1, <2>2 DEF RunningOn, EndJob, LoseJob
        <3> QED BY <3>1 DEF Alone, AtMostOne
    <2> QED BY <2>1, <2>2
<1> QED BY <1>2, <1>3, <1>4, <1>5 DEF Alone, At, AtMostOne

\* Boot, crash and failing store calls of the process.
LEMMA AloneFaults ==
    ASSUME Safe, NEW n \in Nodes, Alone(n), Start(n) \/ Crash(n) \/ StoreError(n)
    PROVE  Alone(n)'
<1>0. task \in [Nodes -> Task(clock)] /\ task[n] \in Task(clock)
    BY DEF Safe, TypeOK
<1>1. CASE Start(n)
    <2> DEFINE new == [Off EXCEPT !.pc = "upsert", !.now = clock]
    <2>1. task' = [task EXCEPT ![n] = new] /\ UNCHANGED <<def, jobs, owner>> /\ new.pc = "upsert"
        BY <1>1 DEF Start, queue, Off
    <2> HIDE DEF new
    <2> QED BY <2>1, AloneMoves DEF ReplayPcs
<1>2. CASE StoreError(n)
    <2> DEFINE pc == IF task[n].pc \in BootPcs THEN "ended" ELSE "idle"
               new == [task[n] EXCEPT !.pc = pc]
    <2>1. task' = [task EXCEPT ![n] = new] /\ UNCHANGED <<def, jobs, owner>>
        BY <1>2 DEF StoreError, Go, queue
    <2>2. new.pc \in {"ended", "idle"}
        BY <1>0 DEF Task
    <2> HIDE DEF new
    <2> QED BY <2>1, <2>2, AloneMoves DEF ReplayPcs
<1>3. CASE Crash(n)
    <2>1. /\ n # Nobody /\ task'[n] = Off /\ UNCHANGED <<def, jobs>>
          /\ \A m \in Nodes : m # n => task'[m] = task[m]
        BY <1>0, <1>3, ScheduleAssumption DEF Crash
    <2>2. \A t \in Times : owner'[t] = IF t \in RunningOn(n) THEN Nobody ELSE owner[t]
        BY <1>3 DEF Crash
    <2>3. RunningOn(n)' = {}
        BY <2>1, <2>2 DEF RunningOn
    <2>4. Active' = Active
        BY <2>1 DEF Active
    <2>5. \A t \in Times : jobs'[t] = "running" => owner'[t] \in {n, Nobody}
        BY <2>1, <2>2 DEF Alone
    <2> QED BY <2>1, <2>3, <2>4, <2>5 DEF Alone, At, Off, AtMostOne
<1> QED BY <1>1, <1>2, <1>3

\* Every step keeps a single process to its policy.
LEMMA SoloStep == Safe /\ Solo /\ [Next]_vars => Solo'
<1> SUFFICES ASSUME Safe, Solo, [Next]_vars, NEW n \in Nodes, def'.nodes = {n}
             PROVE  Alone(n)'
    BY DEF Solo
<1>1. def' = def
    BY DEF Next, Start, Schedule, Upsert, CatchSkip, CatchClaim, CatchFire, CatchCap, Poll, Due,
           Claim, CheckActive, FireTick, StartJob, EndJob, LoseJob, Crash, StoreError, Tick, vars
<1>2. Alone(n)
    BY <1>1 DEF Solo
<1>3. ASSUME NEW m \in Nodes, Start(m) \/ Crash(m) \/ StoreError(m) PROVE Alone(n)'
    BY <1>1, <1>2, <1>3, OnlyOne, AloneFaults
<1>4. ASSUME NEW m \in Nodes, Schedule(m) PROVE Alone(n)'
    BY <1>1, <1>2, <1>4, OnlyOne, AloneSchedule, AloneFires
<1>5. ASSUME NEW m \in Nodes, NEW t \in Times, StartJob(m, t) PROVE Alone(n)'
    BY <1>1, <1>2, <1>5, OnlyOne, AloneRuns
<1>6. ASSUME NEW t \in Times, EndJob(t) \/ LoseJob(t) PROVE Alone(n)'
    BY <1>2, <1>6, AloneRuns
<1>7. CASE UNCHANGED <<def, task, jobs, owner>>
    BY <1>2, <1>7 DEF Alone, At, Active, RunningOn, AtMostOne
<1> QED BY <1>3, <1>4, <1>5, <1>6, <1>7 DEF Next, Tick, queue, vars

\* register_schedule and run, in an application of one process: skip never has
\* two ticks in flight unless it replays, and neither skip nor queue executes
\* two, across crashes, restarts, failing calls and expiring leases.
THEOREM OneProcessKeepsPolicy == Spec => []OneProcessSerialises
<1>1. Init => Solo
    BY DEF Init, Solo, Alone, At, Off, Active, RunningOn, AtMostOne
<1>2. Safe /\ Solo => OneProcessSerialises
    <2> SUFFICES ASSUME Safe, Solo, Cardinality(def.nodes) = 1
                 PROVE  (def.catchup # "all" => SkipNeverOverlaps) /\ Serialises
        BY DEF OneProcessSerialises
    <2>1. PICK n : def.nodes = {n}
        <3>1. IsFiniteSet(def.nodes)
            BY ScheduleAssumption, FS_Subset DEF Safe, TypeOK
        <3> QED BY <3>1, FS_Singleton
    <2>2. n \in Nodes /\ Alone(n)
        BY <2>1, ScheduleAssumption DEF Safe, TypeOK, Solo
    <2>3. def.catchup # "all" => SkipNeverOverlaps
        <3>1. Active \in SUBSET Times
            BY DEF Active
        <3> QED BY <2>2, <3>1, OneCounts DEF Alone, SkipNeverOverlaps
    <2>4. Serialises
        <3>1. Executing = RunningOn(n) /\ RunningOn(n) \in SUBSET Times
            BY <2>2, ScheduleAssumption DEF Executing, RunningOn, Alone
        <3> QED BY <2>2, <3>1, OneCounts DEF Alone, Serialises
    <2> QED BY <2>3, <2>4
<1> QED BY <1>1, <1>2, SoloStep, LedgerAlways, PTL DEF Spec
=============================================================================
