--------------------------- MODULE WorkflowProofs ---------------------------
(***************************************************************************)
(* Theorems about the workflow engine, for every set of workflows and      *)
(* programs and every number of runs, processes, faults and calls: the     *)
(* journal is write-once, callers of one key and replays of one invoke     *)
(* step get one run, a body runs no more often than the faults explain,    *)
(* and the children of a cancelled run stay cancelled.                     *)
(*                                                                         *)
(* The first two are about the tables alone: their invariant says nothing  *)
(* of where the attempts stand, so whatever an attempt, a zombie or a      *)
(* sweep remembers, the statements it sends keep these facts.  The others  *)
(* are about the attempts: one counts those that may still reach a body    *)
(* against the faults that let them loose, the other follows those that    *)
(* were past their last look at the run when the cancellation came.        *)
(***************************************************************************)
EXTENDS Workflow, FiniteSetTheorems, TLAPS

USE DEF Active, Waiting, Terminal

Columns == {"wf", "status", "parent", "pstep", "key"}

\* The tables have a row for every id; a row has the columns of `runs`.
Tables ==
    /\ DOMAIN runs = RunIds
    /\ \A r \in RunIds : Columns \subseteq DOMAIN runs[r]
    /\ DOMAIN journal = RunIds
    /\ \A r \in RunIds : DOMAIN journal[r] = Steps

\* Ids are handed out in order.
Fresh ==
    /\ nextRun \in Nat \ {0}
    /\ \A r \in RunIds : r >= nextRun => runs[r].status = "none"

-----------------------------------------------------------------------------
(* What the store calls do to the tables *)

\* A row keeps what identifies its run, and is not revived.
RowKept(r) ==
    /\ runs'[r].wf = runs[r].wf /\ runs'[r].key = runs[r].key
    /\ runs'[r].parent = runs[r].parent /\ runs'[r].pstep = runs[r].pstep
    /\ runs'[r].status = "none" <=> runs[r].status = "none"
    /\ ~Exists(r) => ~Exists(r)'

\* What a step other than the creation of a run does to the rows.
RowsKept ==
    /\ DOMAIN runs' = RunIds
    /\ \A r \in RunIds : Columns \subseteq DOMAIN runs'[r] /\ RowKept(r)

\* What a step other than the GC does to the journal.
JournalKept ==
    /\ DOMAIN journal' = RunIds
    /\ \A r \in RunIds :
          /\ DOMAIN journal'[r] = Steps
          /\ \A i \in Steps : journal[r][i] # "none" => journal'[r][i] = journal[r][i]

\* Nothing but a cancel makes a run cancelled.
NoCancel ==
    \A r \in RunIds : runs'[r].status = "cancelled" => runs[r].status = "cancelled"

\* Nothing but the GC deletes a run.
NoDelete ==
    \A r \in RunIds : runs'[r].status = "deleted" => runs[r].status = "deleted"

\* A statement that leaves a table alone.
LEMMA Untouched ==
    ASSUME Tables
    PROVE  /\ runs' = runs => RowsKept /\ NoCancel /\ NoDelete
           /\ journal' = journal => JournalKept
<1>1. ASSUME runs' = runs PROVE RowsKept /\ NoCancel /\ NoDelete
    BY <1>1 DEF Tables, RowsKept, RowKept, NoCancel, NoDelete, Exists
<1>2. ASSUME journal' = journal PROVE JournalKept
    BY <1>2 DEF Tables, JournalKept
<1> QED BY <1>1, <1>2

\* record_step keeps every completed entry.
LEMMA RecordKeeps ==
    ASSUME Tables, NEW r, NEW i, NEW result, Record(r, i, result)
    PROVE  JournalKept
<1>1. CASE journal' = journal
    BY <1>1, Untouched
<1>2. CASE journal[r][i] = "none" /\ journal' = [journal EXCEPT ![r][i] = result]
    BY <1>2 DEF Tables, JournalKept
<1> QED BY <1>1, <1>2 DEF Record

\* An UPDATE of the status column keeps the rows and revives none.
LEMMA SetStatusKeeps ==
    ASSUME Tables, NEW r, NEW s \in {"runnable", "sleeping", "waitChild", "completed", "failed"},
           SetStatus(r, s)
    PROVE  RowsKept /\ NoCancel /\ NoDelete
<1>1. CASE runs' = runs
    BY <1>1, Untouched
<1>2. CASE Exists(r) /\ runs' = [runs EXCEPT ![r].status = s]
    <2>1. ASSUME NEW q \in RunIds
          PROVE  /\ DOMAIN runs'[q] = DOMAIN runs[q]
                 /\ runs'[q].wf = runs[q].wf /\ runs'[q].key = runs[q].key
                 /\ runs'[q].parent = runs[q].parent /\ runs'[q].pstep = runs[q].pstep
                 /\ \/ runs'[q].status = runs[q].status
                    \/ q = r /\ runs'[q].status = s
        BY <1>2 DEF Tables, Columns
    <2> QED BY <1>2, <2>1 DEF Tables, RowsKept, RowKept, NoCancel, NoDelete, Exists
<1> QED BY <1>1, <1>2 DEF SetStatus

\* The steps of an attempt other than the creation of a child.
LEMMA AttemptKeeps ==
    ASSUME Tables, NEW p \in Procs, Attempt(p), ~InvokeInsert(p)
    PROVE  RowsKept /\ NoCancel /\ NoDelete /\ JournalKept /\ nextRun' = nextRun
<1>1. ASSUME UNCHANGED <<nextRun, runs, journal>>
      PROVE  RowsKept /\ NoCancel /\ NoDelete /\ JournalKept /\ nextRun' = nextRun
    BY <1>1, Untouched
<1>2. CASE \/ CheckRun(p) \/ LoadJournal(p) \/ Finish(p) \/ BodyDone(p)
           \/ BodyFails(p) \/ Suspend(p) \/ Recheck(p) \/ SleepEnqueue(p)
           \/ StepFailedAttempt(p) \/ StepRetryEnqueue(p) \/ InvokeEnqueue(p)
           \/ InvokeLookup(p) \/ ReplayLook(p) \/ ReplayEnqueue(p) \/ WakeEnqueue(p)
           \/ Ack(p) \/ Nack(p)
    BY <1>1, <1>2 DEF CheckRun, LoadJournal, Finish, BodyDone, BodyFails, Suspend,
                      Recheck, SleepEnqueue, StepFailedAttempt, StepRetryEnqueue,
                      InvokeEnqueue, InvokeLookup, ReplayLook, ReplayEnqueue, WakeEnqueue,
                      Ack, Nack, store
<1>3. CASE RecordStep(p) \/ SleepRecord(p) \/ ReplayRecord(p) \/ SettleRecord(p)
    <2>1. UNCHANGED <<nextRun, runs>>
        BY <1>3 DEF RecordStep, SleepRecord, ReplayRecord, SettleRecord
    <2>2. \E r, i, result : Record(r, i, result)
        BY <1>3 DEF RecordStep, SleepRecord, ReplayRecord, SettleRecord
    <2> QED BY <2>1, <2>2, RecordKeeps, Untouched
<1>4. CASE \/ RunCompleted(p) \/ RunFailed(p) \/ RunSleeping(p) \/ InvokeUnknown(p)
           \/ InvokePark(p) \/ ParkAgain(p)
    <2>1. UNCHANGED <<nextRun, journal>>
        BY <1>4 DEF RunCompleted, RunFailed, RunSleeping, InvokeUnknown, InvokePark, ParkAgain
    <2>2. \E r : \E s \in {"runnable", "sleeping", "waitChild", "completed", "failed"} :
              SetStatus(r, s)
        BY <1>4 DEF RunCompleted, RunFailed, RunSleeping, InvokeUnknown, InvokePark, ParkAgain
    <2> QED BY <2>1, <2>2, SetStatusKeeps, Untouched
<1>5. CASE WakeParent(p)
    <2>1. UNCHANGED <<nextRun, journal>>
        BY <1>5 DEF WakeParent
    <2>2. runs' = runs \/ \E r : SetStatus(r, "runnable")
        BY <1>5 DEF WakeParent
    <2> QED BY <2>1, <2>2, SetStatusKeeps, Untouched
<1>6. CASE RunWaitingEvent(p)
    <2>1. UNCHANGED <<nextRun, journal>>
        BY <1>6 DEF RunWaitingEvent
    <2>2. CASE runs' = runs
        BY <2>1, <2>2, Untouched
    <2>3. CASE runs' # runs
        <3> DEFINE r == exec[p].run
        <3>1. Exists(r) /\ runs' = [runs EXCEPT ![r].status = "waitEvent",
                                                ![r].wait = exec[p].step,
                                                ![r].timer = exec[p].wake]
            BY <1>6, <2>3 DEF RunWaitingEvent
        <3> HIDE DEF r
        <3>2. ASSUME NEW q \in RunIds
              PROVE  /\ DOMAIN runs'[q] = DOMAIN runs[q]
                     /\ runs'[q].wf = runs[q].wf /\ runs'[q].key = runs[q].key
                     /\ runs'[q].parent = runs[q].parent /\ runs'[q].pstep = runs[q].pstep
                     /\ \/ runs'[q].status = runs[q].status
                        \/ q = r /\ runs'[q].status = "waitEvent"
            BY <3>1 DEF Tables, Columns
        <3>3. RowsKept /\ NoCancel /\ NoDelete
            BY <3>1, <3>2 DEF Tables, RowsKept, RowKept, NoCancel, NoDelete, Exists
        <3> QED BY <2>1, <3>3, Untouched
    <2> QED BY <2>2, <2>3
<1> QED BY <1>2, <1>3, <1>4, <1>5, <1>6 DEF Attempt

\* The timeout sweep releases waiting runs and records their steps.
LEMMA SweepKeeps ==
    ASSUME Tables, NEW p \in Procs, TimeoutSweep(p)
    PROVE  RowsKept /\ NoCancel /\ NoDelete /\ JournalKept /\ nextRun' = nextRun
<1>1. CASE SweepRelease(p)
    <2>1. ASSUME NEW q \in RunIds
          PROVE  \/ runs'[q] = runs[q]
                 \/ /\ runs[q].status = "waitEvent" /\ runs'[q].status = "runnable"
                    /\ DOMAIN runs'[q] = DOMAIN runs[q]
                    /\ runs'[q].wf = runs[q].wf /\ runs'[q].key = runs[q].key
                    /\ runs'[q].parent = runs[q].parent /\ runs'[q].pstep = runs[q].pstep
        BY <1>1 DEF SweepRelease, TimedOut, Tables, Columns
    <2>2. DOMAIN runs' = RunIds /\ UNCHANGED <<nextRun, journal>>
        BY <1>1 DEF SweepRelease
    <2>3. RowsKept /\ NoCancel /\ NoDelete
        BY <2>1, <2>2 DEF Tables, RowsKept, RowKept, NoCancel, NoDelete, Exists
    <2> QED BY <2>2, <2>3, Untouched
<1>2. CASE SweepRecord(p)
    <2>1. UNCHANGED <<nextRun, runs>> /\ \E r, i, result : Record(r, i, result)
        BY <1>2 DEF SweepRecord
    <2> QED BY <2>1, RecordKeeps, Untouched
<1>3. CASE SweepEnqueue(p)
    BY <1>3, Untouched DEF SweepEnqueue
<1> QED BY <1>1, <1>2, <1>3 DEF TimeoutSweep

\* The passing of time moves timers only.
LEMMA TickKeeps ==
    ASSUME Tables, Tick
    PROVE  RowsKept /\ NoCancel /\ NoDelete /\ JournalKept /\ nextRun' = nextRun
<1>1. ASSUME NEW q \in RunIds
      PROVE  /\ DOMAIN runs'[q] = DOMAIN runs[q]
             /\ runs'[q].status = runs[q].status
             /\ runs'[q].wf = runs[q].wf /\ runs'[q].key = runs[q].key
             /\ runs'[q].parent = runs[q].parent /\ runs'[q].pstep = runs[q].pstep
    BY DEF Tick, Tables, Columns
<1>2. DOMAIN runs' = RunIds /\ UNCHANGED <<nextRun, journal>>
    BY DEF Tick
<1>3. RowsKept /\ NoCancel /\ NoDelete
    BY <1>1, <1>2 DEF Tables, RowsKept, RowKept, NoCancel, NoDelete, Exists
<1> QED BY <1>2, <1>3, Untouched

\* A cancel changes live runs only.
LEMMA CancelKeeps ==
    ASSUME Tables, NEW root \in RunIds, Cancel(root)
    PROVE  RowsKept /\ NoDelete /\ JournalKept /\ nextRun' = nextRun
<1>2. \A r \in CancelTree(root) : Live(r)
    BY DEF CancelTree, Walked
<1>3. ASSUME NEW q \in RunIds
      PROVE  \/ runs'[q] = runs[q]
             \/ /\ Live(q) /\ runs'[q].status = "cancelled" /\ DOMAIN runs'[q] = DOMAIN runs[q]
                /\ runs'[q].wf = runs[q].wf /\ runs'[q].key = runs[q].key
                /\ runs'[q].parent = runs[q].parent /\ runs'[q].pstep = runs[q].pstep
    BY <1>2 DEF Cancel, Tables, Columns
<1>4. DOMAIN runs' = RunIds /\ UNCHANGED <<nextRun, journal>>
    BY DEF Cancel
<1>5. RowsKept /\ NoDelete
    BY <1>3, <1>4 DEF Tables, RowsKept, RowKept, NoDelete, Exists, Live
<1> QED BY <1>4, <1>5, Untouched

\* The GC only takes terminal runs, and with them their journal.
LEMMA GcKeeps ==
    ASSUME Tables, NEW S \in SUBSET RunIds, Gc(S)
    PROVE  /\ RowsKept /\ NoCancel /\ Tables' /\ nextRun' = nextRun
           /\ \A r \in RunIds : r \notin S => journal'[r] = journal[r]
           /\ \A r \in S : runs'[r].status = "deleted"
<1>1. ASSUME NEW q \in RunIds
      PROVE  \/ q \notin S /\ runs'[q] = runs[q]
             \/ /\ q \in S /\ runs'[q].status = "deleted"
                /\ runs[q].status \in Terminal /\ DOMAIN runs'[q] = DOMAIN runs[q]
                /\ runs'[q].wf = runs[q].wf /\ runs'[q].key = runs[q].key
                /\ runs'[q].parent = runs[q].parent /\ runs'[q].pstep = runs[q].pstep
    BY DEF Gc, Tables, Columns
<1>2. DOMAIN runs' = RunIds /\ nextRun' = nextRun
    BY DEF Gc
<1>3. RowsKept /\ NoCancel
    BY <1>1, <1>2 DEF Tables, RowsKept, RowKept, NoCancel, Exists
<1>4. DOMAIN journal' = RunIds /\ \A r \in RunIds : DOMAIN journal'[r] = Steps
    BY DEF Gc, Tables, NoSteps
<1>5. Tables'
    BY <1>3, <1>4 DEF Tables, RowsKept, RowKept
<1> QED BY <1>1, <1>2, <1>3, <1>5 DEF Gc

\* An emit wakes waiting runs and fills rows after the last one, without keys.
LEMMA EmitKeeps ==
    ASSUME Tables, Fresh, NEW e \in Events, NEW payload \in Payloads, Emit(e, payload)
    PROVE  /\ Tables' /\ Fresh' /\ JournalKept /\ NoCancel /\ NoDelete
           /\ \A r \in RunIds :
                 \/ /\ runs[r].status = "none"
                    /\ runs'[r].key = NoKey /\ runs'[r].parent = 0
                 \/ RowKept(r)
<1> DEFINE n == Cardinality(Triggered(e))
<1>1. n \in Nat
    <2>1. IsFiniteSet(Triggered(e))
        BY ProgramAssumption, FS_Subset DEF Triggered
    <2> QED BY <2>1, FS_CardinalityType
<1>2. PICK new \in TriggeredRuns(e) :
          runs' = [r \in RunIds |->
                      IF Matches(r, e, payload)
                      THEN [runs[r] EXCEPT !.status = "runnable", !.wait = 0, !.timer = -1]
                      ELSE IF r \in DOMAIN new THEN NewRun(new[r], 0, 0, NoKey)
                      ELSE runs[r]]
    BY DEF Emit
<1>3. DOMAIN new = nextRun..(nextRun + n - 1)
    BY DEF TriggeredRuns
<1>4. nextRun' = nextRun + n
    BY DEF Emit
<1> HIDE DEF n
<1>5. ASSUME NEW r \in RunIds
      PROVE  \/ runs'[r] = runs[r]
             \/ /\ runs[r].status = "waitEvent" /\ runs'[r].status = "runnable"
                /\ DOMAIN runs'[r] = DOMAIN runs[r]
                /\ runs'[r].wf = runs[r].wf /\ runs'[r].key = runs[r].key
                /\ runs'[r].parent = runs[r].parent /\ runs'[r].pstep = runs[r].pstep
             \/ /\ r \in nextRun..(nextRun + n - 1) /\ runs'[r].status = "runnable"
                /\ runs'[r].key = NoKey /\ runs'[r].parent = 0
                /\ Columns \subseteq DOMAIN runs'[r]
    <2>1. CASE Matches(r, e, payload)
        BY <1>2, <2>1 DEF Matches, Tables, Columns
    <2>2. CASE ~Matches(r, e, payload) /\ r \in DOMAIN new
        BY <1>2, <1>3, <2>2 DEF NewRun, Columns
    <2>3. CASE ~Matches(r, e, payload) /\ r \notin DOMAIN new
        BY <1>2, <2>3
    <2> QED BY <2>1, <2>2, <2>3
<1>6. DOMAIN runs' = RunIds
    BY <1>2
<1>7. JournalKept
    BY DEF Emit, Tables, JournalKept
<1>8. Tables'
    BY <1>5, <1>6, <1>7 DEF Tables, JournalKept
<1>9. Fresh'
    <2>1. nextRun' \in Nat \ {0}
        BY <1>1, <1>4 DEF Fresh
    <2>2. ASSUME NEW r \in RunIds, r >= nextRun' PROVE runs'[r].status = "none"
        <3>1. r \in Int /\ r >= nextRun /\ r \notin nextRun..(nextRun + n - 1)
            BY <1>1, <1>4, <2>2 DEF Fresh, RunIds
        <3>2. runs[r].status = "none"
            BY <3>1 DEF Fresh
        <3> QED BY <1>5, <3>1, <3>2
    <2> QED BY <2>1, <2>2 DEF Fresh
<1>10. NoCancel /\ NoDelete
    BY <1>5 DEF NoCancel, NoDelete
<1>11. \A r \in RunIds :
          \/ runs[r].status = "none" /\ runs'[r].key = NoKey /\ runs'[r].parent = 0
          \/ RowKept(r)
    <2> TAKE r \in RunIds
    <2>1. r \in nextRun..(nextRun + n - 1) => runs[r].status = "none"
        BY DEF Fresh, RunIds
    <2> QED BY <1>5, <2>1 DEF RowKept, Exists
<1> QED BY <1>7, <1>8, <1>9, <1>10, <1>11

\* create_run fills the row after the last one.
LEMMA CreateKeeps ==
    ASSUME Tables, Fresh, NEW run, Create(run), Columns \subseteq DOMAIN run,
           run.status = "runnable", journal' = journal
    PROVE  /\ Tables' /\ Fresh' /\ JournalKept /\ NoCancel /\ NoDelete
           /\ nextRun \in RunIds => runs'[nextRun] = run
           /\ \A r \in RunIds : r # nextRun => runs'[r] = runs[r]
<1>1. \A r \in RunIds : (r = nextRun /\ runs'[r] = run) \/ (r # nextRun /\ runs'[r] = runs[r])
    BY DEF Create, Tables
<1>2. DOMAIN runs' = RunIds /\ nextRun' = nextRun + 1
    BY DEF Create, Tables
<1>3. Tables'
    BY <1>1, <1>2 DEF Tables
<1>4. Fresh'
    BY <1>1, <1>2 DEF Fresh, RunIds
<1>5. NoCancel /\ NoDelete
    BY <1>1 DEF NoCancel, NoDelete
<1> QED BY <1>1, <1>3, <1>4, <1>5, Untouched

\* Every other step leaves the two tables alone.
LEMMA OtherKeeps ==
    ASSUME Tables,
           \/ \E p \in Procs : TriggerEnqueue(p) \/ Crash(p) \/ StoreError(p)
                               \/ SweepError(p) \/ TriggerError(p)
           \/ \E p \in Procs, w \in Entry, k \in Keys : TriggerLookup(p, w, k)
           \/ \E p \in Procs, r \in RunIds, i \in Slots : Claim(p, r, i)
           \/ \E r \in RunIds, i \in Slots : LeaseExpires(r, i)
           \/ UNCHANGED vars
    PROVE  RowsKept /\ NoCancel /\ NoDelete /\ JournalKept /\ nextRun' = nextRun
<1>1. UNCHANGED <<nextRun, runs, journal>>
    BY DEF TriggerEnqueue, TriggerLookup, Crash, StoreError, SweepError, TriggerError,
           Claim, LeaseExpires, vars, store
<1> QED BY <1>1, Untouched

-----------------------------------------------------------------------------
(* The theorems *)

SameKey(r, q) ==
    runs[r].wf = runs[q].wf /\ runs[r].key = runs[q].key /\ runs[r].key # NoKey
SameStep(r, q) ==
    /\ runs[r].wf = runs[q].wf /\ runs[r].parent = runs[q].parent /\ runs[r].parent # 0
    /\ runs[r].pstep = runs[q].pstep

\* The unique index: a key has one retained run, and so has an invoke step.
KeyIndex ==
    \A r, q \in RunIds :
        Exists(r) /\ Exists(q) /\ (SameKey(r, q) \/ SameStep(r, q)) => r = q

\* What a trigger call returned is a run of its key, retained or deleted.
AnswersTrue ==
    \A a \in answers :
        /\ a.key # NoKey /\ a.run \in RunIds /\ runs[a.run].status # "none"
        /\ runs[a.run].wf = a.wf /\ runs[a.run].key = a.key

Sound == Tables /\ Fresh /\ KeyIndex /\ AnswersTrue

\* A step that keeps the rows keeps the invariant.
LEMMA KeptSound ==
    ASSUME Sound, RowsKept, nextRun' = nextRun, answers' = answers,
           DOMAIN journal' = RunIds, \A r \in RunIds : DOMAIN journal'[r] = Steps
    PROVE  Sound'
<1>1. Tables'
    BY DEF Tables, RowsKept
<1>2. Fresh'
    BY DEF Sound, Fresh, RowsKept, RowKept
<1>3. KeyIndex'
    BY DEF Sound, KeyIndex, SameKey, SameStep, RowsKept, RowKept
<1>4. AnswersTrue'
    BY DEF Sound, AnswersTrue, RowsKept, RowKept
<1> QED BY <1>1, <1>2, <1>3, <1>4 DEF Sound

\* An answer that names a run of its key.
LEMMA AnswerTrue ==
    ASSUME AnswersTrue, NEW w, NEW k, NEW r, Answered(w, k, r),
           \A a \in answers : runs'[a.run] = runs[a.run],
           k # NoKey => /\ r \in RunIds /\ runs'[r].status # "none"
                        /\ runs'[r].wf = w /\ runs'[r].key = k
    PROVE  AnswersTrue'
<1>1. CASE k = NoKey
    BY <1>1 DEF Answered, AnswersTrue
<1>2. CASE k # NoKey
    BY <1>2 DEF Answered, AnswersTrue
<1> QED BY <1>1, <1>2

\* The lookup of a trigger call: a run it finds is the answer.
LEMMA LookupSound ==
    ASSUME Sound, NEW p \in Procs, NEW w \in Entry, NEW k \in Keys, TriggerLookup(p, w, k)
    PROVE  Sound' /\ JournalKept /\ NoCancel /\ NoDelete
<1>1. UNCHANGED <<nextRun, runs, journal>>
    BY DEF TriggerLookup
<1>2. RowsKept /\ NoCancel /\ NoDelete /\ JournalKept
    BY <1>1, Untouched DEF Sound
<1>3. Tables' /\ Fresh' /\ KeyIndex'
    BY <1>1 DEF Sound, Tables, Fresh, KeyIndex, SameKey, SameStep, Exists
<1>4. AnswersTrue'
    <2>1. CASE answers' = answers
        BY <1>1, <2>1 DEF Sound, AnswersTrue
    <2>2. CASE answers' # answers
        <3>1. PICK r \in KeyedRuns(w, k) : Answered(w, k, r)
            BY <2>2 DEF TriggerLookup
        <3>2. /\ r \in RunIds /\ runs'[r].status # "none"
              /\ runs'[r].wf = w /\ runs'[r].key = k
            BY <1>1, <3>1 DEF KeyedRuns, Exists
        <3> QED BY <1>1, <3>1, <3>2, AnswerTrue DEF Sound
    <2> QED BY <2>1, <2>2
<1> QED BY <1>2, <1>3, <1>4 DEF Sound

\* The insert of a trigger call: a run for a key that has none, or the winner.
LEMMA TriggerSound ==
    ASSUME Sound, NEW p \in Procs, TriggerInsert(p)
    PROVE  Sound' /\ JournalKept /\ NoCancel /\ NoDelete
<1>1. PICK w, k : w = asking[p].wf /\ k = asking[p].key
    OBVIOUS
<1>2. journal' = journal
    BY DEF TriggerInsert
<1>3. CASE UNCHANGED <<nextRun, runs>>
    <2>1. RowsKept /\ NoCancel /\ NoDelete /\ JournalKept
        BY <1>2, <1>3, Untouched DEF Sound
    <2>2. Tables' /\ Fresh' /\ KeyIndex'
        BY <1>2, <1>3 DEF Sound, Tables, Fresh, KeyIndex, SameKey, SameStep, Exists
    <2>3. PICK r \in KeyedRuns(w, k) : Answered(w, k, r)
        <3>1. ~Create(NewRun(w, 0, 0, k))
            BY <1>3 DEF Create, Sound, Fresh
        <3> QED BY <1>1, <3>1 DEF TriggerInsert
    <2>4. AnswersTrue'
        <3>1. /\ r \in RunIds /\ runs'[r].status # "none"
              /\ runs'[r].wf = w /\ runs'[r].key = k
            BY <1>3, <2>3 DEF KeyedRuns, Exists
        <3> QED BY <1>3, <2>3, <3>1, AnswerTrue DEF Sound
    <2> QED BY <2>1, <2>2, <2>4 DEF Sound
<1>4. CASE ~UNCHANGED <<nextRun, runs>>
    <2> DEFINE run == NewRun(w, 0, 0, k)
    <2>1. /\ run.status = "runnable" /\ run.wf = w /\ run.key = k /\ run.parent = 0
          /\ Columns \subseteq DOMAIN run
        BY DEF NewRun, Columns
    <2>2. Create(run) /\ Answered(w, k, nextRun) /\ KeyedRuns(w, k) = {}
        BY <1>1, <1>4 DEF TriggerInsert
    <2> HIDE DEF run
    <2>3. /\ Tables' /\ Fresh' /\ JournalKept /\ NoCancel /\ NoDelete
          /\ nextRun \in RunIds => runs'[nextRun] = run
          /\ \A r \in RunIds : r # nextRun => runs'[r] = runs[r]
        BY <1>2, <2>1, <2>2, CreateKeeps DEF Sound
    <2>4. nextRun \in RunIds /\ runs[nextRun].status = "none"
        BY <2>2, BoundsAssumption DEF Create, Sound, Fresh, RunIds
    <2>5. ASSUME NEW r \in RunIds, Exists(r), runs[r].wf = w, runs[r].key = k, k # NoKey
          PROVE  FALSE
        BY <2>2, <2>5 DEF KeyedRuns
    <2>6. KeyIndex'
        <3> SUFFICES ASSUME NEW r \in RunIds, NEW q \in RunIds, Exists(r)', Exists(q)',
                            SameKey(r, q)' \/ SameStep(r, q)', r # q
                     PROVE  FALSE
            BY DEF KeyIndex
        <3>1. CASE r = nextRun
            BY <2>1, <2>3, <2>5, <3>1 DEF Exists, SameKey, SameStep
        <3>2. CASE q = nextRun
            BY <2>1, <2>3, <2>5, <3>2 DEF Exists, SameKey, SameStep
        <3>3. CASE r # nextRun /\ q # nextRun
            BY <2>3, <3>3 DEF Sound, KeyIndex, SameKey, SameStep, Exists
        <3> QED BY <3>1, <3>2, <3>3
    <2>7. AnswersTrue'
        <3>1. \A a \in answers : runs'[a.run] = runs[a.run]
            BY <2>3, <2>4 DEF Sound, AnswersTrue
        <3>2. /\ runs'[nextRun].status # "none"
              /\ runs'[nextRun].wf = w /\ runs'[nextRun].key = k
            BY <2>1, <2>3, <2>4
        <3> QED BY <2>2, <2>4, <3>1, <3>2, AnswerTrue DEF Sound
    <2> QED BY <2>3, <2>6, <2>7 DEF Sound
<1> QED BY <1>3, <1>4

\* The child of an invoke step is created once.
LEMMA InvokeSound ==
    ASSUME Sound, NEW p \in Procs, InvokeInsert(p)
    PROVE  Sound' /\ JournalKept /\ NoCancel /\ NoDelete
<1>1. journal' = journal /\ answers' = answers
    BY DEF InvokeInsert, history
<1>2. CASE UNCHANGED <<nextRun, runs>>
    <2>1. RowsKept /\ NoCancel /\ NoDelete /\ JournalKept
        BY <1>1, <1>2, Untouched DEF Sound
    <2> QED BY <1>1, <1>2, <2>1, KeptSound DEF JournalKept
<1>3. CASE ~UNCHANGED <<nextRun, runs>>
    <2>1. PICK w, r, i : Create(NewRun(w, r, i, NoKey)) /\ ChildRuns(w, r, i) = {}
        BY <1>3 DEF InvokeInsert, ChildOf
    <2> DEFINE run == NewRun(w, r, i, NoKey)
    <2>2. /\ run.status = "runnable" /\ run.key = NoKey /\ run.wf = w
          /\ run.parent = r /\ run.pstep = i /\ Columns \subseteq DOMAIN run
        BY DEF NewRun, Columns
    <2>3. Create(run)
        BY <2>1
    <2> HIDE DEF run
    <2>4. /\ Tables' /\ Fresh' /\ JournalKept /\ NoCancel /\ NoDelete
          /\ nextRun \in RunIds => runs'[nextRun] = run
          /\ \A q \in RunIds : q # nextRun => runs'[q] = runs[q]
        BY <1>1, <2>2, <2>3, CreateKeeps DEF Sound
    <2>5. ASSUME NEW q \in RunIds, Exists(q), runs[q].wf = w, runs[q].parent = r,
                 runs[q].pstep = i
          PROVE  FALSE
        BY <2>1, <2>5 DEF ChildRuns
    <2>6. KeyIndex'
        <3> SUFFICES ASSUME NEW a \in RunIds, NEW b \in RunIds, Exists(a)', Exists(b)',
                            SameKey(a, b)' \/ SameStep(a, b)', a # b
                     PROVE  FALSE
            BY DEF KeyIndex
        <3>1. CASE a = nextRun
            BY <2>2, <2>4, <2>5, <3>1 DEF Exists, SameKey, SameStep
        <3>2. CASE b = nextRun
            BY <2>2, <2>4, <2>5, <3>2 DEF Exists, SameKey, SameStep
        <3>3. CASE a # nextRun /\ b # nextRun
            BY <2>4, <3>3 DEF Sound, KeyIndex, SameKey, SameStep, Exists
        <3> QED BY <3>1, <3>2, <3>3
    <2>7. AnswersTrue'
        <3>1. nextRun \in RunIds /\ runs[nextRun].status = "none"
            BY <2>3, BoundsAssumption DEF Create, Sound, Fresh, RunIds
        <3> QED BY <1>1, <2>4, <3>1 DEF Sound, AnswersTrue
    <2> QED BY <2>4, <2>6, <2>7 DEF Sound
<1> QED BY <1>2, <1>3

\* No step of an attempt answers a trigger call, or counts as a race.
LEMMA AttemptAnswers ==
    ASSUME NEW p \in Procs, Attempt(p)
    PROVE  answers' = answers /\ raced' = raced
BY DEF Attempt, CheckRun, LoadJournal, Finish, BodyDone, RecordStep, BodyFails, Suspend,
       Recheck, RunCompleted, RunFailed, SleepRecord, RunSleeping, SleepEnqueue,
       RunWaitingEvent, StepFailedAttempt, StepRetryEnqueue, InvokeUnknown, InvokeLookup,
       InvokeInsert, InvokePark, InvokeEnqueue, ReplayLook, ReplayRecord, ReplayEnqueue,
       ParkAgain, SettleRecord, WakeParent, WakeEnqueue, Ack, Nack, history

\* What every step does to the tables: one lemma for the theorems.
LEMMA SoundStep ==
    ASSUME Sound, [Next]_vars
    PROVE  /\ Sound'
           /\ JournalKept \/ \E S \in SUBSET RunIds : Gc(S)
           /\ NoCancel \/ \E root \in RunIds : Cancel(root)
           /\ NoDelete \/ \E S \in SUBSET RunIds : Gc(S)
<1> Tables /\ Fresh /\ KeyIndex
    BY DEF Sound
<1>0. ASSUME NEW p \in Procs, NEW w \in Entry, NEW k \in Keys, TriggerLookup(p, w, k)
      PROVE  Sound' /\ JournalKept /\ NoCancel /\ NoDelete
    BY <1>0, LookupSound
<1>1. ASSUME NEW p \in Procs, TriggerInsert(p)
      PROVE  Sound' /\ JournalKept /\ NoCancel /\ NoDelete
    BY <1>1, TriggerSound
<1>2. ASSUME NEW p \in Procs, InvokeInsert(p) PROVE Sound' /\ JournalKept /\ NoCancel /\ NoDelete
    BY <1>2, InvokeSound
<1>3. ASSUME RowsKept /\ NoCancel /\ NoDelete /\ JournalKept /\ nextRun' = nextRun,
             answers' = answers
      PROVE  Sound' /\ JournalKept /\ NoCancel /\ NoDelete
    BY <1>3, KeptSound DEF JournalKept
<1>4. ASSUME NEW p \in Procs, Attempt(p), ~InvokeInsert(p)
      PROVE  Sound' /\ JournalKept /\ NoCancel /\ NoDelete
    BY <1>3, <1>4, AttemptKeeps, AttemptAnswers
<1>5. ASSUME NEW p \in Procs, TimeoutSweep(p) PROVE Sound' /\ JournalKept /\ NoCancel /\ NoDelete
    <2>1. answers' = answers
        BY <1>5 DEF TimeoutSweep, SweepRelease, SweepRecord, SweepEnqueue, history
    <2> QED BY <1>3, <1>5, <2>1, SweepKeeps
<1>6. CASE Tick
    BY <1>3, <1>6, TickKeeps DEF Tick
<1>7. ASSUME NEW e \in Events, NEW payload \in Payloads, Emit(e, payload)
      PROVE  Sound' /\ JournalKept /\ NoCancel /\ NoDelete
    <2>1. /\ Tables' /\ Fresh' /\ JournalKept /\ NoCancel /\ NoDelete
          /\ \A r \in RunIds :
                 \/ runs[r].status = "none" /\ runs'[r].key = NoKey /\ runs'[r].parent = 0
                 \/ RowKept(r)
        BY <1>7, EmitKeeps
    <2>2. KeyIndex'
        BY <2>1 DEF KeyIndex, SameKey, SameStep, RowKept
    <2>3. AnswersTrue'
        <3>1. answers' = answers
            BY <1>7 DEF Emit, history
        <3> QED BY <2>1, <3>1 DEF Sound, AnswersTrue, RowKept
    <2> QED BY <2>1, <2>2, <2>3 DEF Sound
<1>8. ASSUME NEW root \in RunIds, Cancel(root) PROVE Sound' /\ JournalKept /\ NoDelete
    <2>1. answers' = answers
        BY <1>8 DEF Cancel
    <2> QED BY <1>8, <2>1, CancelKeeps, KeptSound DEF JournalKept
<1>9. ASSUME NEW S \in SUBSET RunIds, Gc(S) PROVE Sound' /\ NoCancel
    <2>1. answers' = answers
        BY <1>9 DEF Gc, history
    <2> QED BY <1>9, <2>1, GcKeeps, KeptSound DEF Tables
<1>10. ASSUME \/ \E p \in Procs : TriggerEnqueue(p) \/ Crash(p) \/ StoreError(p)
                                  \/ SweepError(p) \/ TriggerError(p)
              \/ \E p \in Procs, r \in RunIds, i \in Slots : Claim(p, r, i)
              \/ \E r \in RunIds, i \in Slots : LeaseExpires(r, i)
              \/ UNCHANGED vars
       PROVE  Sound' /\ JournalKept /\ NoCancel /\ NoDelete
    <2>1. answers' = answers
        BY <1>10 DEF TriggerEnqueue, Crash, StoreError, SweepError, TriggerError, Claim,
                     LeaseExpires, vars, history
    <2> QED BY <1>3, <1>10, <2>1, OtherKeeps
<1> QED BY <1>0, <1>1, <1>2, <1>4, <1>5, <1>6, <1>7, <1>8, <1>9, <1>10 DEF Next

\* The tables keep their shape, ids are handed out in order, a key and an invoke
\* step have one retained run, and every answer names the run of its key.
THEOREM SoundAlways == Spec => []Sound
<1>1. Init => Sound
    BY DEF Init, Sound, Tables, Fresh, KeyIndex, SameKey, SameStep, AnswersTrue, Columns,
           NoRun, NoSteps, Exists
<1>2. Sound /\ [Next]_vars => Sound'
    BY SoundStep
<1> QED BY <1>1, <1>2, PTL DEF Spec

\* "Run creation with idempotencyKey: exactly-once per key": callers that use one
\* key get one run and an invoke step has one child, however the lookups and
\* inserts of several processes, zombies, crashes and the GC interleave.
THEOREM KeysAreUnique == Spec => []OneRunPerKey
<1>1. Sound => OneRunPerKey
    BY DEF Sound, KeyIndex, SameKey, SameStep, AnswersTrue, OneRunPerKey
<1> QED BY <1>1, SoundAlways, PTL

\* "A completed journal entry is never overwritten": the upsert of record_step
\* and the emit transaction leave it alone whoever sends them, and when.
THEOREM JournalWriteOnce == Spec => JournalImmutable
<1> DEFINE A == \A r \in RunIds, i \in Steps :
          journal[r][i] # "none" /\ runs'[r].status # "deleted"
              => journal'[r][i] = journal[r][i]
<1>1. ASSUME Sound, [Next]_vars PROVE A
    <2>1. CASE JournalKept
        BY <2>1 DEF JournalKept
    <2>2. ASSUME NEW S \in SUBSET RunIds, Gc(S) PROVE A
        BY <1>1, <2>2, GcKeeps DEF Sound
    <2> QED BY <1>1, <2>1, <2>2, SoundStep
<1> HIDE DEF A
<1>2. Sound /\ [Next]_vars => [A]_vars
    BY <1>1
<1>3. Spec => [][A]_vars
    BY <1>2, SoundAlways, PTL DEF Spec
<1> QED BY <1>3 DEF JournalImmutable, A

-----------------------------------------------------------------------------
(***************************************************************************)
(* Re-execution is bounded by the faults.  The account of a step counts    *)
(* the chances its body still has: the attempts that may get to it, and,   *)
(* while the step is not journaled, everything that will start an attempt. *)
(* A step of the system hands a chance on, takes one or none; the body     *)
(* uses its attempt's chance up; only a fault adds one.                    *)
(***************************************************************************)

\* Before the journal is loaded, and after the function has ended.
Replaying == {"check", "load"}
Settling == {"recheck", "apply", "sleepMark", "sleepEnqueue", "retry", "insert", "park",
             "look", "replayOutput", "replayError", "replayEnqueue", "parkAgain", "settle", "wake",
             "wakeEnqueue", "nack"}

\* The attempt of process p, or the one its job leads to, may run the body of i.
MayRun(p, i) ==
    \/ At(p, "exec") /\ exec[p].snap[i] = "none"
    \/ At(p, "record") /\ exec[p].snap[i] = "none" /\ exec[p].step # i
    \/ exec[p].pc \in Replaying \cup Settling /\ journal[exec[p].run][i] = "none"

Attempting(r, i) == {<<"attempt", p>> : p \in {p \in Procs : exec[p].run = r /\ MayRun(p, i)}}

\* What will start an attempt of run r: a job that is pending or whose attempt
\* died, a suspension that will be lifted, and the calls that are about to push
\* a job for it.
Unclaimed(r, s) == jobs[r][s].state = "pending" \/ Orphaned(r, s)
Starts(p, r) == exec[p].pc \in {"park", "start"} /\ exec[p].child = r
Wakes(p, r) == At(p, "wakeEnqueue") /\ runs[exec[p].run].parent = r

JobsOf(r) == {<<"job", s>> : s \in {s \in Slots : Unclaimed(r, s)}}
WaitOf(r) == IF runs[r].status \in Waiting THEN {<<"wait", 0>>} ELSE {}
StartsOf(r) == {<<"start", p>> : p \in {p \in Procs : Starts(p, r)}}
WakesOf(r) == {<<"wake", p>> : p \in {p \in Procs : Wakes(p, r)}}
TriggersOf(r) == {<<"trigger", p>> : p \in {p \in Procs : client[p] = r}}
SweepsOf(r) ==
    UNION {{<<"sweep", <<p, w>>>> : w \in {w \in sweep[p].todo : w[1] = r}} : p \in Procs}

Drivers(r) == JobsOf(r) \cup WaitOf(r) \cup StartsOf(r) \cup WakesOf(r) \cup TriggersOf(r)
              \cup SweepsOf(r)

Chances(r, i) == Attempting(r, i) \cup (IF journal[r][i] = "none" THEN Drivers(r) ELSE {})

\* The account of step i of run r.
Account(r, i) ==
    /\ IsFiniteSet(Chances(r, i))
    /\ effects[r][i] \in Nat
    /\ effects[r][i] + Cardinality(Chances(r, i)) <= 1 + faults

\* The accounts of the runs that the GC has not taken.
Accounts == \A r \in RunIds, i \in Steps : runs[r].status # "deleted" => Account(r, i)

Fields == {"pc", "run", "job", "snap", "out", "step", "wake", "child"}

\* The shape of what the processes hold, and of the jobs.
ExecShape(p) ==
    /\ Fields \subseteq DOMAIN exec[p]
    /\ DOMAIN exec[p].snap = Steps
    /\ At(p, "idle") => exec[p] = Idle
    /\ ~At(p, "idle") => exec[p].run \in RunIds
SweepShape(p) ==
    /\ {"todo", "cur"} \subseteq DOMAIN sweep[p]
    /\ sweep[p].cur # <<0, 0>> => sweep[p].cur \in sweep[p].todo
JobShape == 
    /\ DOMAIN jobs = RunIds
    /\ \A r \in RunIds :
          /\ DOMAIN jobs[r] = Slots
          /\ \A s \in Slots : {"state", "tries", "delay"} \subseteq DOMAIN jobs[r][s]
EffectShape ==
    /\ DOMAIN effects = RunIds
    /\ \A r \in RunIds : DOMAIN effects[r] = Steps
Memory ==
    /\ DOMAIN exec = Procs /\ DOMAIN client = Procs /\ DOMAIN sweep = Procs
    /\ \A p \in Procs : ExecShape(p) /\ SweepShape(p)
    /\ JobShape /\ EffectShape /\ faults \in Nat

\* What an attempt has seen of the journal is there.
SnapRecorded ==
    \A p \in Procs, i \in Steps :
        exec[p].snap[i] # "none" /\ runs[exec[p].run].status # "deleted"
            => journal[exec[p].run][i] # "none"

\* Nothing refers to a run that was not created yet.
Unknown(r) ==
    /\ \A p \in Procs : /\ exec[p].run # r /\ exec[p].child # r /\ client[p] # r
                        /\ \A w \in sweep[p].todo : w[1] # r
    /\ \A s \in Slots : jobs[r][s].state \notin {"pending", "running"}
    /\ \A q \in RunIds : runs[q].parent # r
    /\ \A i \in Steps : effects[r][i] = 0
UnknownYet == \A r \in RunIds : runs[r].status = "none" => Unknown(r)

Ledger == Memory /\ SnapRecorded /\ UnknownYet /\ Accounts

-----------------------------------------------------------------------------
(* The arithmetic of an account *)

\* What a step may do to an account: hand a chance on or drop it, use one, get
\* one for a fault, or open the account of a new run.
Spends(r, i) ==
    \/ /\ effects'[r][i] = effects[r][i]
       /\ Chances(r, i)' \subseteq Chances(r, i)
    \/ /\ effects'[r][i] = effects[r][i]
       /\ \E a \in Chances(r, i) : \E b :
             Chances(r, i)' \subseteq (Chances(r, i) \ {a}) \cup {b}
    \/ /\ effects'[r][i] = effects[r][i] + 1
       /\ \E a \in Chances(r, i) : Chances(r, i)' \subseteq Chances(r, i) \ {a}
    \/ /\ effects'[r][i] = effects[r][i] /\ faults' = faults + 1
       /\ \E b : Chances(r, i)' \subseteq Chances(r, i) \cup {b}
    \/ /\ effects[r][i] = 0 /\ effects'[r][i] = 0
       /\ \E b : Chances(r, i)' \subseteq {b}

Spending ==
    \A r \in RunIds, i \in Steps :
        runs[r].status # "deleted" /\ runs'[r].status # "deleted" => Spends(r, i)

\* A subset of a finite set with one element exchanged is no larger.
LEMMA Exchange ==
    ASSUME NEW S, NEW T, NEW a \in S, NEW b, IsFiniteSet(S), T \subseteq (S \ {a}) \cup {b}
    PROVE  IsFiniteSet(T) /\ Cardinality(T) <= Cardinality(S)
<1>1. IsFiniteSet(S \ {a}) /\ Cardinality(S \ {a}) = Cardinality(S) - 1
    BY FS_RemoveElement
<1>2. /\ IsFiniteSet((S \ {a}) \cup {b})
      /\ \/ Cardinality((S \ {a}) \cup {b}) = Cardinality(S \ {a})
         \/ Cardinality((S \ {a}) \cup {b}) = Cardinality(S \ {a}) + 1
    BY <1>1, FS_AddElement
<1>3. IsFiniteSet(T) /\ Cardinality(T) <= Cardinality((S \ {a}) \cup {b})
    BY <1>2, FS_Subset
<1>4. Cardinality(S) \in Nat /\ Cardinality(T) \in Nat
    BY <1>3, FS_CardinalityType
<1> QED BY <1>1, <1>2, <1>3, <1>4

\* A step that spends as it may keeps the account.
LEMMA Balance ==
    ASSUME NEW r, NEW i, Account(r, i), Spends(r, i), faults \in Nat,
           faults' \in {faults, faults + 1}
    PROVE  Account(r, i)'
<1> DEFINE S == Chances(r, i)
           n == effects[r][i]
<1>1. PICK T, m : T = Chances(r, i)' /\ m = effects'[r][i]
    OBVIOUS
<1> SUFFICES IsFiniteSet(T) /\ m \in Nat /\ m + Cardinality(T) <= 1 + faults'
    BY <1>1 DEF Account
<1>2. IsFiniteSet(S) /\ n \in Nat /\ n + Cardinality(S) <= 1 + faults /\ Cardinality(S) \in Nat
    BY FS_CardinalityType DEF Account
<1>3. \/ m = n /\ T \subseteq S
      \/ m = n /\ \E a \in S : \E b : T \subseteq (S \ {a}) \cup {b}
      \/ m = n + 1 /\ \E a \in S : T \subseteq S \ {a}
      \/ m = n /\ faults' = faults + 1 /\ \E b : T \subseteq S \cup {b}
      \/ m = 0 /\ \E b : T \subseteq {b}
    BY <1>1 DEF Spends
<1> HIDE DEF S, n
<1>4. CASE m = n /\ T \subseteq S
    <2>1. IsFiniteSet(T) /\ Cardinality(T) <= Cardinality(S) /\ Cardinality(T) \in Nat
        BY <1>2, <1>4, FS_Subset, FS_CardinalityType
    <2> QED BY <1>2, <1>4, <2>1
<1>5. ASSUME m = n, NEW a \in S, NEW b, T \subseteq (S \ {a}) \cup {b}
      PROVE  IsFiniteSet(T) /\ m \in Nat /\ m + Cardinality(T) <= 1 + faults'
    <2>1. IsFiniteSet(T) /\ Cardinality(T) <= Cardinality(S)
        BY <1>2, <1>5, Exchange
    <2>2. Cardinality(T) \in Nat
        BY <2>1, FS_CardinalityType
    <2> QED BY <1>2, <1>5, <2>1, <2>2
<1>6. ASSUME m = n + 1, NEW a \in S, T \subseteq S \ {a}
      PROVE  IsFiniteSet(T) /\ m \in Nat /\ m + Cardinality(T) <= 1 + faults'
    <2>1. IsFiniteSet(S \ {a}) /\ Cardinality(S \ {a}) = Cardinality(S) - 1
        BY <1>2, FS_RemoveElement
    <2>2. IsFiniteSet(T) /\ Cardinality(T) <= Cardinality(S \ {a}) /\ Cardinality(T) \in Nat
        BY <1>6, <2>1, FS_Subset, FS_CardinalityType
    <2> QED BY <1>2, <1>6, <2>1, <2>2
<1>7. ASSUME m = n, faults' = faults + 1, NEW b, T \subseteq S \cup {b}
      PROVE  IsFiniteSet(T) /\ m \in Nat /\ m + Cardinality(T) <= 1 + faults'
    <2>1. /\ IsFiniteSet(S \cup {b})
          /\ \/ Cardinality(S \cup {b}) = Cardinality(S)
             \/ Cardinality(S \cup {b}) = Cardinality(S) + 1
        BY <1>2, FS_AddElement
    <2>2. IsFiniteSet(T) /\ Cardinality(T) <= Cardinality(S \cup {b}) /\ Cardinality(T) \in Nat
        BY <1>7, <2>1, FS_Subset, FS_CardinalityType
    <2> QED BY <1>2, <1>7, <2>1, <2>2
<1>8. ASSUME m = 0, NEW b, T \subseteq {b}
      PROVE  IsFiniteSet(T) /\ m \in Nat /\ m + Cardinality(T) <= 1 + faults'
    <2>1. IsFiniteSet({b}) /\ Cardinality({b}) = 1
        BY FS_Singleton
    <2>2. IsFiniteSet(T) /\ Cardinality(T) <= 1 /\ Cardinality(T) \in Nat
        BY <1>8, <2>1, FS_Subset, FS_CardinalityType
    <2> QED BY <1>2, <1>8, <2>2
<1> QED BY <1>3, <1>4, <1>5, <1>6, <1>7, <1>8

-----------------------------------------------------------------------------
(* How the parts of an account move *)

\* Every chance carries the kind it is of.
LEMMA Kinds ==
    ASSUME NEW r, NEW i
    PROVE  /\ \A t \in Attempting(r, i) : t[1] = "attempt"
           /\ \A t \in JobsOf(r) : t[1] = "job"
           /\ \A t \in WaitOf(r) : t[1] = "wait"
           /\ \A t \in StartsOf(r) : t[1] = "start"
           /\ \A t \in WakesOf(r) : t[1] = "wake"
           /\ \A t \in TriggersOf(r) : t[1] = "trigger"
           /\ \A t \in SweepsOf(r) : t[1] = "sweep"
BY DEF Attempting, JobsOf, WaitOf, StartsOf, WakesOf, TriggersOf, SweepsOf

\* The journal of a step is not taken back.
StaysRecorded(r, i) == journal'[r][i] = "none" => journal[r][i] = "none"

\* No chance is added.
LEMMA Keeps ==
    ASSUME NEW r, NEW i, StaysRecorded(r, i), effects'[r][i] = effects[r][i],
           Attempting(r, i)' \subseteq Attempting(r, i), Drivers(r)' \subseteq Drivers(r)
    PROVE  Spends(r, i)
BY DEF StaysRecorded, Spends, Chances

\* One driver becomes another.
LEMMA Swaps ==
    ASSUME NEW r, NEW i, StaysRecorded(r, i), effects'[r][i] = effects[r][i],
           Attempting(r, i)' \subseteq Attempting(r, i),
           NEW a \in Drivers(r), NEW b, Drivers(r)' \subseteq (Drivers(r) \ {a}) \cup {b}
    PROVE  Spends(r, i)
<1>1. a \notin Attempting(r, i)
    BY Kinds DEF Drivers
<1>2. CASE journal'[r][i] = "none"
    <2>1. a \in Chances(r, i)
        BY <1>2 DEF StaysRecorded, Chances
    <2>2. Chances(r, i)' \subseteq (Chances(r, i) \ {a}) \cup {b}
        BY <1>1, <1>2 DEF StaysRecorded, Chances
    <2> QED BY <2>1, <2>2 DEF Spends
<1>3. CASE journal'[r][i] # "none"
    BY <1>3 DEF Spends, Chances
<1> QED BY <1>2, <1>3

\* An attempt leaves a driver behind.
LEMMA HandsOver ==
    ASSUME NEW r, NEW i, StaysRecorded(r, i), effects'[r][i] = effects[r][i],
           NEW p, Attempting(r, i)' \subseteq Attempting(r, i) \ {<<"attempt", p>>},
           journal[r][i] = "none" => <<"attempt", p>> \in Attempting(r, i),
           NEW b, Drivers(r)' \subseteq Drivers(r) \cup {b}
    PROVE  Spends(r, i)
<1> DEFINE a == <<"attempt", p>>
<1>1. a \notin Drivers(r)
    BY Kinds DEF Drivers
<1> HIDE DEF a
<1>2. CASE journal'[r][i] = "none"
    <2>1. a \in Chances(r, i)
        BY <1>2 DEF StaysRecorded, Chances, a
    <2>2. Chances(r, i)' \subseteq (Chances(r, i) \ {a}) \cup {b}
        BY <1>1, <1>2 DEF StaysRecorded, Chances, a
    <2> QED BY <2>1, <2>2 DEF Spends
<1>3. CASE journal'[r][i] # "none"
    BY <1>3 DEF Spends, Chances
<1> QED BY <1>2, <1>3

\* A fault adds an attempt or a driver.
LEMMA Faults ==
    ASSUME NEW r, NEW i, StaysRecorded(r, i), effects'[r][i] = effects[r][i],
           faults' = faults + 1, NEW b,
           \/ /\ Attempting(r, i)' \subseteq Attempting(r, i) \cup {b}
              /\ Drivers(r)' \subseteq Drivers(r)
           \/ /\ Attempting(r, i)' \subseteq Attempting(r, i)
              /\ Drivers(r)' \subseteq Drivers(r) \cup {b}
    PROVE  Spends(r, i)
<1>1. Chances(r, i)' \subseteq Chances(r, i) \cup {b}
    BY DEF StaysRecorded, Chances
<1> QED BY <1>1 DEF Spends


\* Only process p changes what it holds in memory of its attempt.
Alone(p) ==
    /\ DOMAIN exec' = Procs
    /\ \A q \in Procs : q # p => exec'[q] = exec[q]
Holding(p) == exec'[p].run = exec[p].run /\ exec'[p].job = exec[p].job

\* No job changes hands.
HoldersKept == \A q \in Procs : exec'[q].run = exec[q].run /\ exec'[q].job = exec[q].job

\* The parent of a run that was created is fixed.
ParentsKept == \A r \in RunIds : runs[r].status # "none" => runs'[r].parent = runs[r].parent

\* The row a busy process works on exists.
LEMMA BusyKnown ==
    ASSUME Memory, UnknownYet, NEW p \in Procs, ~At(p, "idle")
    PROVE  exec[p].run \in RunIds /\ runs[exec[p].run].status # "none"
BY DEF Memory, ExecShape, UnknownYet, Unknown

\* A step of p adds no attempt, start or wake-up but p's own.
LEMMA OthersAttempt ==
    ASSUME Memory, UnknownYet, NEW p \in Procs, Alone(p), NEW r \in RunIds, NEW i \in Steps,
           StaysRecorded(r, i)
    PROVE  /\ Attempting(r, i)' \subseteq Attempting(r, i) \cup {<<"attempt", p>>}
           /\ (exec'[p].run = r /\ MayRun(p, i)' => exec[p].run = r /\ MayRun(p, i))
              => Attempting(r, i)' \subseteq Attempting(r, i)
           /\ ~(exec'[p].run = r /\ MayRun(p, i)')
              => Attempting(r, i)' \subseteq Attempting(r, i) \ {<<"attempt", p>>}
<1>1. ASSUME NEW q \in Procs, q # p, exec'[q].run = r, MayRun(q, i)'
      PROVE  exec[q].run = r /\ MayRun(q, i)
    BY <1>1 DEF Alone, MayRun, At, StaysRecorded
<1> QED BY <1>1 DEF Attempting

\* The child runs about to be started.
LEMMA OthersStart ==
    ASSUME NEW p \in Procs, Alone(p), NEW r \in RunIds
    PROVE  /\ (Starts(p, r)' => Starts(p, r)) => StartsOf(r)' \subseteq StartsOf(r)
           /\ ~Starts(p, r)' => StartsOf(r)' \subseteq StartsOf(r) \ {<<"start", p>>}
           /\ StartsOf(r)' \subseteq StartsOf(r) \cup {<<"start", p>>}
<1>1. ASSUME NEW q \in Procs, q # p, Starts(q, r)' PROVE Starts(q, r)
    BY <1>1 DEF Alone, Starts
<1> QED BY <1>1 DEF StartsOf

\* The parents about to be woken.
LEMMA OthersWake ==
    ASSUME Memory, UnknownYet, ParentsKept, NEW p \in Procs, Alone(p), NEW r \in RunIds
    PROVE  /\ (Wakes(p, r)' => Wakes(p, r)) => WakesOf(r)' \subseteq WakesOf(r)
           /\ ~Wakes(p, r)' => WakesOf(r)' \subseteq WakesOf(r) \ {<<"wake", p>>}
           /\ WakesOf(r)' \subseteq WakesOf(r) \cup {<<"wake", p>>}
<1>1. ASSUME NEW q \in Procs, q # p, Wakes(q, r)' PROVE Wakes(q, r)
    <2>1. exec'[q] = exec[q] /\ ~At(q, "idle") /\ At(q, "wakeEnqueue")
        BY <1>1 DEF Alone, Wakes, At
    <2>2. exec[q].run \in RunIds /\ runs[exec[q].run].status # "none"
        BY <2>1, BusyKnown
    <2> QED BY <1>1, <2>1, <2>2 DEF ParentsKept, Wakes
<1> QED BY <1>1 DEF WakesOf

\* The jobs that are unclaimed, when no row and no holder changes.
LEMMA SameJobs ==
    ASSUME NEW p \in Procs, Alone(p), Holding(p), NEW r \in RunIds, jobs' = jobs
    PROVE  JobsOf(r)' = JobsOf(r)
<1>1. ASSUME NEW s \in Slots PROVE Orphaned(r, s)' <=> Orphaned(r, s)
    BY DEF Alone, Holding, Orphaned
<1>2. ASSUME NEW s \in Slots PROVE Unclaimed(r, s)' <=> Unclaimed(r, s)
    BY <1>1 DEF Unclaimed
<1> QED BY <1>2 DEF JobsOf

\* A push adds at most one unclaimed job, to the runs it is for.
LEMMA Pushed ==
    ASSUME Memory, HoldersKept, NEW R, NEW delay, Enqueue(R, delay), NEW r \in RunIds
    PROVE  /\ r \notin R => JobsOf(r)' = JobsOf(r)
           /\ \E b : JobsOf(r)' \subseteq JobsOf(r) \cup {b}
           /\ JobShape'
<1>1. ASSUME NEW s \in Slots, jobs'[r][s] = jobs[r][s] PROVE Unclaimed(r, s)' <=> Unclaimed(r, s)
    BY <1>1 DEF HoldersKept, Orphaned, Unclaimed
<1>2. ASSUME r \notin R PROVE JobsOf(r)' = JobsOf(r)
    <2>1. jobs'[r] = jobs[r]
        BY <1>2 DEF Enqueue
    <2> QED BY <1>1, <2>1 DEF JobsOf
<1>3. ASSUME r \in R PROVE \E b : JobsOf(r)' \subseteq JobsOf(r) \cup {b}
    <2>1. PICK f : f = FreeSlot(r)
        OBVIOUS
    <2>2. \A s \in Slots : s # f => jobs'[r][s] = jobs[r][s]
        BY <1>3, <2>1 DEF Enqueue, Memory, JobShape
    <2>3. JobsOf(r)' \subseteq JobsOf(r) \cup {<<"job", f>>}
        BY <1>1, <2>2 DEF JobsOf
    <2> QED BY <1>3, <2>3
<1>4. JobShape'
    <2>1. DOMAIN jobs' = RunIds
        BY DEF Enqueue
    <2>2. ASSUME NEW q \in RunIds
          PROVE  /\ DOMAIN jobs'[q] = Slots
                 /\ \A s \in Slots : {"state", "tries", "delay"} \subseteq DOMAIN jobs'[q][s]
        <3>1. CASE q \notin R
            BY <3>1 DEF Enqueue, Memory, JobShape
        <3>2. CASE q \in R
            <4>1. PICK f : f = FreeSlot(q)
                OBVIOUS
            <4>2. jobs'[q] = [jobs[q] EXCEPT ![f] =
                                 [state |-> "pending", delay |-> delay, tries |-> 0]]
                BY <3>2, <4>1 DEF Enqueue
            <4> QED BY <4>2 DEF Memory, JobShape
        <3> QED BY <3>1, <3>2
    <2> QED BY <2>1, <2>2 DEF JobShape
<1> QED BY <1>2, <1>3, <1>4

\* The same, for a push by an attempt that keeps its job.
LEMMA PushedJobs ==
    ASSUME Memory, NEW p \in Procs, Alone(p), Holding(p), NEW R, NEW delay, Enqueue(R, delay),
           NEW r \in RunIds
    PROVE  /\ r \notin R => JobsOf(r)' = JobsOf(r)
           /\ \E b : JobsOf(r)' \subseteq JobsOf(r) \cup {b}
           /\ JobShape'
<1>1. HoldersKept
    BY DEF Alone, Holding, HoldersKept
<1> QED BY <1>1, Pushed

\* What does not move stays in the account.
LEMMA SameWait ==
    ASSUME NEW r, runs'[r].status \in Waiting => runs[r].status \in Waiting
    PROVE  WaitOf(r)' \subseteq WaitOf(r)
BY DEF WaitOf

\* The trigger calls and the sweeps that do not move.
LEMMA SameClients ==
    ASSUME NEW r
    PROVE  /\ client' = client => TriggersOf(r)' = TriggersOf(r)
           /\ sweep' = sweep => SweepsOf(r)' = SweepsOf(r)
BY DEF TriggersOf, SweepsOf


-----------------------------------------------------------------------------
(* The steps of an attempt *)

\* An attempt goes on: it keeps its run, its job and its child.
GoesOn(p) ==
    /\ Alone(p) /\ Holding(p) /\ ExecShape(p)'
    /\ ~At(p, "idle") /\ ~At(p, "idle")'
    /\ exec'[p].child = exec[p].child
    /\ client' = client /\ sweep' = sweep /\ faults' \in {faults, faults + 1}

\* Only the place changes.
LEMMA GoGoesOn ==
    ASSUME Memory, NEW p \in Procs, NEW to, Go(p, to), to # "idle", ~At(p, "idle"),
           UNCHANGED <<client, sweep, faults>>
    PROVE  GoesOn(p) /\ exec'[p].pc = to /\ exec'[p].snap = exec[p].snap
           /\ exec'[p].step = exec[p].step /\ exec'[p].out = exec[p].out
BY DEF Memory, ExecShape, Fields, Go, GoesOn, Alone, Holding, At

\* The function ends with an outcome.
LEMMA OutcomeGoesOn ==
    ASSUME Memory, NEW p \in Procs, NEW out, NEW i, NEW wake, Outcome(p, out, i, wake),
           At(p, "exec"), UNCHANGED <<client, sweep, faults>>
    PROVE  GoesOn(p) /\ exec'[p].pc = "recheck" /\ exec'[p].snap = exec[p].snap
BY DEF Memory, ExecShape, Fields, Outcome, GoesOn, Alone, Holding, At

\* The drivers that p does not touch when it goes on.
LEMMA GoingOnDrivers ==
    ASSUME Memory, UnknownYet, NEW p \in Procs, GoesOn(p), ParentsKept, NEW r \in RunIds,
           exec'[p].pc \in {"park", "start"} => exec[p].pc \in {"park", "start"},
           exec'[p].pc # "wakeEnqueue"
    PROVE  /\ StartsOf(r)' \subseteq StartsOf(r) /\ WakesOf(r)' \subseteq WakesOf(r)
           /\ TriggersOf(r)' = TriggersOf(r) /\ SweepsOf(r)' = SweepsOf(r)
<1>1. Alone(p)
    BY DEF GoesOn
<1>2. StartsOf(r)' \subseteq StartsOf(r)
    <2>1. Starts(p, r)' => Starts(p, r)
        BY DEF GoesOn, Starts
    <2> QED BY <1>1, <2>1, OthersStart
<1>3. WakesOf(r)' \subseteq WakesOf(r)
    <2>1. ~Wakes(p, r)'
        BY DEF Wakes, At
    <2> QED BY <1>1, <2>1, OthersWake
<1>4. TriggersOf(r)' = TriggersOf(r) /\ SweepsOf(r)' = SweepsOf(r)
    BY SameClients DEF GoesOn
<1> QED BY <1>2, <1>3, <1>4

\* The drivers when, besides, neither jobs nor waiting runs are added.
LEMMA GoingOnQuietly ==
    ASSUME Memory, UnknownYet, NEW p \in Procs, GoesOn(p), jobs' = jobs, ParentsKept,
           NEW r \in RunIds, runs'[r].status \in Waiting => runs[r].status \in Waiting,
           exec'[p].pc \in {"park", "start"} => exec[p].pc \in {"park", "start"},
           exec'[p].pc # "wakeEnqueue"
    PROVE  Drivers(r)' \subseteq Drivers(r)
<1>1. JobsOf(r)' = JobsOf(r)
    BY SameJobs DEF GoesOn
<1>2. WaitOf(r)' \subseteq WaitOf(r)
    BY SameWait
<1> QED BY <1>1, <1>2, GoingOnDrivers DEF Drivers

\* The chances of the run of p, and of every other run, when p goes on and
\* neither jobs nor waiting runs are added.
LEMMA GoingOnKeeps ==
    ASSUME Memory, UnknownYet, NEW p \in Procs, GoesOn(p), jobs' = jobs, effects' = effects,
           JournalKept, ParentsKept,
           \A r \in RunIds : runs'[r].status \in Waiting => runs[r].status \in Waiting,
           \A i \in Steps : runs[exec[p].run].status # "deleted" /\ MayRun(p, i)' => MayRun(p, i),
           exec'[p].pc \in {"park", "start"} => exec[p].pc \in {"park", "start"},
           exec'[p].pc # "wakeEnqueue"
    PROVE  Spending
<1> SUFFICES ASSUME NEW r \in RunIds, NEW i \in Steps, runs[r].status # "deleted"
             PROVE  Spends(r, i)
    BY DEF Spending
<1>1. StaysRecorded(r, i)
    BY DEF JournalKept, StaysRecorded
<1>2. Alone(p) /\ Holding(p)
    BY DEF GoesOn
<1>3. Attempting(r, i)' \subseteq Attempting(r, i)
    BY <1>1, <1>2, OthersAttempt DEF Holding
<1>4. Drivers(r)' \subseteq Drivers(r)
    BY GoingOnQuietly
<1>5. effects'[r][i] = effects[r][i]
    OBVIOUS
<1> QED BY <1>1, <1>3, <1>4, <1>5, Keeps

\* An attempt that goes on keeps the shape, what it knows and what is unknown,
\* if its snapshot grows with the journal only.
LEMMA GoingOnShape ==
    ASSUME Tables, Memory, SnapRecorded, UnknownYet, NEW p \in Procs, GoesOn(p), JobShape',
           RowsKept, JournalKept,
           EffectShape',
           \A i \in Steps : exec'[p].snap[i] # "none" /\ runs[exec[p].run].status # "deleted" =>
               exec[p].snap[i] # "none" \/ journal'[exec[p].run][i] # "none",
           \A r \in RunIds : runs[r].status = "none" =>
               /\ \A s \in Slots : jobs'[r][s].state = jobs[r][s].state
               /\ \A i \in Steps : effects'[r][i] = effects[r][i]
    PROVE  Memory' /\ SnapRecorded' /\ UnknownYet'
<1>1. Memory'
    <2>1. DOMAIN exec' = Procs /\ DOMAIN client' = Procs /\ DOMAIN sweep' = Procs /\ faults' \in Nat
        BY DEF GoesOn, Alone, Memory
    <2>2. \A q \in Procs : ExecShape(q)'
        BY DEF GoesOn, Alone, Memory, ExecShape, At
    <2>3. \A q \in Procs : SweepShape(q)'
        BY DEF GoesOn, Memory, SweepShape
    <2> QED BY <2>1, <2>2, <2>3 DEF Memory
<1>2. SnapRecorded'
    <2> SUFFICES ASSUME NEW q \in Procs, NEW i \in Steps, exec'[q].snap[i] # "none",
                        runs'[exec'[q].run].status # "deleted"
                 PROVE  journal'[exec'[q].run][i] # "none"
        BY DEF SnapRecorded
    <2>1. exec'[q].run = exec[q].run
        BY DEF GoesOn, Alone, Holding
    <2>2. exec[q].snap[i] # "none" => exec[q].run \in RunIds
        <3>1. CASE At(q, "idle")
            BY <3>1 DEF Memory, ExecShape, Idle, NoSteps
        <3>2. CASE ~At(q, "idle")
            BY <3>2 DEF Memory, ExecShape
        <3> QED BY <3>1, <3>2
    <2>3. exec[q].run \in RunIds => runs[exec[q].run].status # "deleted"
        BY <2>1 DEF RowsKept, RowKept, Exists
    <2>4. CASE q # p
        <3>1. exec[q].snap[i] # "none"
            BY <2>4 DEF GoesOn, Alone
        <3> QED BY <2>1, <2>2, <2>3, <3>1 DEF SnapRecorded, JournalKept
    <2>5. CASE q = p
        <3>1. exec[p].run \in RunIds
            BY DEF GoesOn, Memory, ExecShape
        <3>2. CASE exec[p].snap[i] # "none"
            BY <2>1, <2>3, <2>5, <3>1, <3>2 DEF SnapRecorded, JournalKept
        <3> QED BY <2>1, <2>3, <2>5, <3>1, <3>2
    <2> QED BY <2>4, <2>5
<1>3. UnknownYet'
    <2> SUFFICES ASSUME NEW r \in RunIds, runs'[r].status = "none" PROVE Unknown(r)'
        BY DEF UnknownYet
    <2>1. Unknown(r) /\ runs[r].status = "none"
        BY DEF RowsKept, RowKept, UnknownYet
    <2>2. \A q \in Procs : /\ exec'[q].run = exec[q].run /\ exec'[q].child = exec[q].child
                           /\ client'[q] = client[q] /\ sweep'[q] = sweep[q]
        BY DEF GoesOn, Alone, Holding
    <2>3. \A q \in RunIds : runs'[q].parent # r
        BY <2>1 DEF RowsKept, RowKept, Unknown
    <2> QED BY <2>1, <2>2, <2>3 DEF Unknown
<1> QED BY <1>1, <1>2, <1>3


\* What a step has to show for the ledger.
Posts ==
    /\ Memory' /\ SnapRecorded' /\ UnknownYet' /\ Spending
    /\ faults' \in {faults, faults + 1}

\* A step that only takes the attempt further.
LEMMA SilentPosts ==
    ASSUME Tables, Memory, SnapRecorded, UnknownYet, NEW p \in Procs, GoesOn(p),
           RowsKept, JournalKept, UNCHANGED <<jobs, effects>>,
           \A r \in RunIds : runs'[r].status \in Waiting => runs[r].status \in Waiting,
           \A i \in Steps : runs[exec[p].run].status # "deleted" =>
               /\ MayRun(p, i)' => MayRun(p, i)
               /\ exec'[p].snap[i] # "none" =>
                      exec[p].snap[i] # "none" \/ journal'[exec[p].run][i] # "none",
           exec'[p].pc \in {"park", "start"} => exec[p].pc \in {"park", "start"},
           exec'[p].pc # "wakeEnqueue"
    PROVE  Posts
<1>1. ParentsKept
    BY DEF RowsKept, RowKept, ParentsKept
<1>2. Spending
    BY <1>1, GoingOnKeeps
<1>3. JobShape' /\ EffectShape'
    BY DEF Memory, JobShape, EffectShape
<1>4. Memory' /\ SnapRecorded' /\ UnknownYet'
    BY <1>3, GoingOnShape
<1> QED BY <1>2, <1>4 DEF Posts, GoesOn

\* An attempt whose function has ended has the chances its journal leaves it.
LEMMA EndedMayRun ==
    ASSUME Memory, SnapRecorded, NEW p \in Procs, GoesOn(p), JournalKept, NEW i \in Steps,
           exec[p].pc \in {"exec", "record"} \cup Replaying \cup Settling,
           At(p, "record") => exec[p].snap[i] # "none" \/ exec[p].step # i,
           exec'[p].pc \notin {"exec", "record"},
           runs[exec[p].run].status # "deleted", MayRun(p, i)'
    PROVE  MayRun(p, i)
<1>1. exec[p].run \in RunIds /\ exec'[p].run = exec[p].run
    BY DEF GoesOn, Holding, Memory, ExecShape
<1>2. journal'[exec[p].run][i] = "none"
    BY <1>1 DEF MayRun, At
<1>3. journal[exec[p].run][i] = "none"
    BY <1>1, <1>2 DEF JournalKept
<1>4. exec[p].snap[i] = "none"
    BY <1>3 DEF SnapRecorded
<1> QED BY <1>3, <1>4 DEF MayRun, At

USE DEF Replaying, Settling

\* Steps of the attempt that move its place and touch neither rows nor journal.
LEMMA PlacePosts ==
    ASSUME Tables, Memory, SnapRecorded, UnknownYet, NEW p \in Procs,
           CheckRun(p) \/ Recheck(p) \/ ReplayLook(p) \/ (InvokeLookup(p) /\ Go(p, "insert"))
    PROVE  Posts
<1>1. UNCHANGED <<runs, journal, jobs, effects, client, sweep, faults>>
    BY DEF CheckRun, Recheck, ReplayLook, InvokeLookup, store, bounds, history
<1>2. PICK to : /\ Go(p, to)
                /\ to \in {"load", "ack", "apply", "nack", "replayOutput", "replayError",
                           "parkAgain", "insert"}
    BY DEF CheckRun, Recheck, ReplayLook
<1>3. At(p, "check") \/ At(p, "recheck") \/ At(p, "look") \/ At(p, "apply")
    BY DEF CheckRun, Recheck, ReplayLook, InvokeLookup, Applies
<1>4. GoesOn(p) /\ exec'[p].pc = to /\ exec'[p].snap = exec[p].snap
    BY <1>1, <1>2, <1>3, GoGoesOn DEF At
<1>5. RowsKept /\ JournalKept
    BY <1>1, Untouched
<1>6. ASSUME NEW i \in Steps, runs[exec[p].run].status # "deleted", MayRun(p, i)'
      PROVE  MayRun(p, i)
    BY <1>2, <1>3, <1>4, <1>5, <1>6, EndedMayRun DEF At
<1> QED BY <1>1, <1>2, <1>4, <1>5, <1>6, SilentPosts

\* The journal is loaded.
LEMMA LoadPosts ==
    ASSUME Tables, Memory, SnapRecorded, UnknownYet, NEW p \in Procs, LoadJournal(p)
    PROVE  Posts
<1>1. UNCHANGED <<runs, journal, jobs, effects, client, sweep, faults>>
    BY DEF LoadJournal, store, bounds, history
<1>2. exec[p].run \in RunIds
    BY DEF LoadJournal, Memory, ExecShape, At
<1>3. exec' = [exec EXCEPT ![p].pc = "exec", ![p].snap = journal[exec[p].run]]
      /\ At(p, "load")
    BY DEF LoadJournal
<1>4. GoesOn(p) /\ exec'[p].pc = "exec" /\ exec'[p].snap = journal[exec[p].run]
    BY <1>1, <1>2, <1>3 DEF Memory, ExecShape, Fields, GoesOn, Alone, Holding, At, Tables
<1>5. RowsKept /\ JournalKept
    BY <1>1, Untouched
<1>6. ASSUME NEW i \in Steps PROVE MayRun(p, i)' => MayRun(p, i)
    BY <1>1, <1>3, <1>4 DEF MayRun, At
<1> QED BY <1>1, <1>4, <1>5, <1>6, SilentPosts

\* The function ends without a body having finished.
LEMMA OutcomePosts ==
    ASSUME Tables, Memory, SnapRecorded, UnknownYet, NEW p \in Procs,
           Finish(p) \/ BodyFails(p) \/ Suspend(p)
    PROVE  Posts
<1>1. UNCHANGED <<runs, journal, jobs, effects, client, sweep, faults>>
    BY DEF Finish, BodyFails, Suspend, store, bounds, history
<1>2. At(p, "exec") /\ \E out, i, wake : Outcome(p, out, i, wake)
    BY DEF Finish, BodyFails, Suspend, Reaches
<1>3. GoesOn(p) /\ exec'[p].pc = "recheck" /\ exec'[p].snap = exec[p].snap
    BY <1>1, <1>2, OutcomeGoesOn
<1>4. RowsKept /\ JournalKept
    BY <1>1, Untouched
<1>5. ASSUME NEW i \in Steps, runs[exec[p].run].status # "deleted", MayRun(p, i)'
      PROVE  MayRun(p, i)
    BY <1>2, <1>3, <1>4, <1>5, EndedMayRun DEF At
<1> QED BY <1>1, <1>3, <1>4, <1>5, SilentPosts

\* recordStep: the step is in the journal and in the attempt's snapshot.
LEMMA RecordPosts ==
    ASSUME Tables, Memory, SnapRecorded, UnknownYet, NEW p \in Procs, RecordStep(p)
    PROVE  Posts
<1>1. UNCHANGED <<runs, jobs, effects, client, sweep, faults>>
    BY DEF RecordStep, bounds, history
<1>2. PICK r, k : r = exec[p].run /\ k = exec[p].step
    OBVIOUS
<1>3. r \in RunIds /\ At(p, "record") /\ Record(r, k, "ok")
    BY <1>2 DEF RecordStep, Memory, ExecShape, At
<1>4. exec' = [exec EXCEPT ![p].pc = "exec", ![p].snap[k] = "ok", ![p].step = 0]
    BY <1>2 DEF RecordStep
<1>5. GoesOn(p) /\ exec'[p].pc = "exec" /\ exec'[p].snap = [exec[p].snap EXCEPT ![k] = "ok"]
    BY <1>1, <1>3, <1>4 DEF Memory, ExecShape, Fields, GoesOn, Alone, Holding, At
<1>6. RowsKept /\ JournalKept
    BY <1>1, <1>3, Untouched, RecordKeeps
<1>7. ASSUME NEW i \in Steps
      PROVE  /\ i # k => exec'[p].snap[i] = exec[p].snap[i]
             /\ i = k => exec'[p].snap[i] = "ok"
    BY <1>5 DEF Memory, ExecShape
<1>8. ASSUME NEW i \in Steps PROVE MayRun(p, i)' => MayRun(p, i)
    BY <1>2, <1>3, <1>5, <1>7 DEF MayRun, At
<1>9. k \in Steps => journal'[r][k] # "none"
    BY <1>3 DEF Record, Tables
<1>10. ASSUME NEW i \in Steps, exec'[p].snap[i] # "none"
       PROVE  exec[p].snap[i] # "none" \/ journal'[exec[p].run][i] # "none"
    BY <1>2, <1>7, <1>9, <1>10
<1> QED BY <1>1, <1>5, <1>6, <1>8, <1>10, SilentPosts


\* A status other than a waiting one makes no run wait.
LEMMA StatusNotWaiting ==
    ASSUME Tables, NEW r, NEW s \in {"runnable", "sleeping", "completed", "failed"}, SetStatus(r, s)
    PROVE  \A q \in RunIds : runs'[q].status \in Waiting => runs[q].status \in Waiting
<1>1. CASE runs' = runs
    BY <1>1
<1>2. CASE runs' = [runs EXCEPT ![r].status = s]
    <2>1. ASSUME NEW q \in RunIds
          PROVE  runs'[q].status = runs[q].status \/ runs'[q].status = s
        BY <1>2 DEF Tables, Columns
    <2> QED BY <2>1
<1> QED BY <1>1, <1>2 DEF SetStatus

\* The run gets a status in which it does not wait.
LEMMA StatusPosts ==
    ASSUME Tables, Memory, SnapRecorded, UnknownYet, NEW p \in Procs,
           RunCompleted(p) \/ RunFailed(p) \/ RunSleeping(p) \/ InvokeUnknown(p)
    PROVE  Posts
<1>1. UNCHANGED <<nextRun, journal, jobs, effects, client, sweep, faults>>
    BY DEF RunCompleted, RunFailed, RunSleeping, InvokeUnknown, bounds, history
<1>2. PICK r : \E s \in {"runnable", "sleeping", "completed", "failed"} : SetStatus(r, s)
    BY DEF RunCompleted, RunFailed, RunSleeping, InvokeUnknown
<1>3. At(p, "apply") \/ At(p, "sleepMark")
    BY DEF RunCompleted, RunFailed, RunSleeping, InvokeUnknown, Applies
<1>4. GoesOn(p) /\ exec'[p].pc \in {"ack", "settle", "sleepEnqueue"} /\ exec'[p].snap = exec[p].snap
    <2>1. CASE InvokeUnknown(p)
        <3>1. PICK to : to \in {"ack", "settle"} /\ to = AfterEnd(p)
            BY DEF AfterEnd
        <3>2. exec' = [exec EXCEPT ![p].pc = to, ![p].out = "failed"]
            BY <2>1, <3>1 DEF InvokeUnknown
        <3> QED BY <1>1, <1>3, <3>1, <3>2 DEF Memory, ExecShape, Fields, GoesOn, Alone, Holding, At
    <2>2. CASE ~InvokeUnknown(p)
        <3>1. PICK to : Go(p, to) /\ to \in {"ack", "settle", "sleepEnqueue"}
            BY <2>2 DEF RunCompleted, RunFailed, RunSleeping, AfterEnd
        <3> QED BY <1>1, <1>3, <3>1, GoGoesOn DEF At
    <2> QED BY <2>1, <2>2
<1>5. RowsKept /\ JournalKept
    BY <1>1, <1>2, Untouched, SetStatusKeeps
<1>6. ASSUME NEW i \in Steps, runs[exec[p].run].status # "deleted", MayRun(p, i)'
      PROVE  MayRun(p, i)
    BY <1>3, <1>4, <1>5, <1>6, EndedMayRun DEF At
<1>7. \A q \in RunIds : runs'[q].status \in Waiting => runs[q].status \in Waiting
    BY <1>2, StatusNotWaiting
<1> QED BY <1>1, <1>4, <1>5, <1>6, <1>7, SilentPosts

\* A step's result is recorded from outside its body, or a failed attempt counted.
LEMMA NotePosts ==
    ASSUME Tables, Memory, SnapRecorded, UnknownYet, NEW p \in Procs,
           SleepRecord(p) \/ ReplayRecord(p) \/ SettleRecord(p) \/ StepFailedAttempt(p)
    PROVE  Posts
<1>1. UNCHANGED <<nextRun, runs, jobs, effects, client, sweep, faults>>
    BY DEF SleepRecord, ReplayRecord, SettleRecord, StepFailedAttempt, bounds, history
<1>2. journal' = journal \/ \E r, i, result : Record(r, i, result)
    BY DEF SleepRecord, ReplayRecord, SettleRecord, StepFailedAttempt
<1>3. /\ GoesOn(p) /\ exec'[p].snap = exec[p].snap
      /\ \/ /\ exec[p].pc \in {"apply", "replayOutput", "replayError"}
            /\ exec'[p].pc \in {"sleepMark", "replayEnqueue", "apply", "retry"}
         \/ exec[p].pc = "settle" /\ exec'[p].pc = "wake"
    <2>1. CASE StepFailedAttempt(p)
        <3> DEFINE more == tries[exec[p].run][exec[p].step] + 1 < MaxStepTries
                   to == IF more THEN "retry" ELSE "apply"
                   out == IF more THEN "stepFailed" ELSE "failed"
        <3>1. to \in {"retry", "apply"} /\ exec' = [exec EXCEPT ![p].pc = to, ![p].out = out]
            BY <2>1 DEF StepFailedAttempt
        <3> HIDE DEF more, to, out
        <3>2. At(p, "apply")
            BY <2>1 DEF StepFailedAttempt, Applies
        <3> QED BY <1>1, <3>1, <3>2 DEF Memory, ExecShape, Fields, GoesOn, Alone, Holding, At
    <2>2. CASE SleepRecord(p)
        <3>1. Go(p, "sleepMark") /\ At(p, "apply")
            BY <2>2 DEF SleepRecord, Applies
        <3> QED BY <1>1, <3>1, GoGoesOn DEF At
    <2>3. CASE ReplayRecord(p)
        <3>1. Go(p, "replayEnqueue") /\ (At(p, "replayOutput") \/ At(p, "replayError"))
            BY <2>3 DEF ReplayRecord
        <3> QED BY <1>1, <3>1, GoGoesOn DEF At
    <2>4. CASE SettleRecord(p)
        <3>1. Go(p, "wake") /\ At(p, "settle")
            BY <2>4 DEF SettleRecord
        <3> QED BY <1>1, <3>1, GoGoesOn DEF At
    <2> QED BY <2>1, <2>2, <2>3, <2>4
<1>4. RowsKept /\ JournalKept
    BY <1>1, <1>2, Untouched, RecordKeeps
<1>5. ASSUME NEW i \in Steps, runs[exec[p].run].status # "deleted", MayRun(p, i)'
      PROVE  MayRun(p, i)
    BY <1>3, <1>4, <1>5, EndedMayRun DEF At
<1> QED BY <1>1, <1>3, <1>4, <1>5, SilentPosts


\* step.run: the body finishes and uses the attempt's chance up.
LEMMA BodyPosts ==
    ASSUME Tables, Memory, SnapRecorded, UnknownYet, NEW p \in Procs, BodyDone(p)
    PROVE  Posts
<1>1. UNCHANGED <<runs, journal, jobs, client, sweep, faults>>
    BY DEF BodyDone, store, bounds
<1>2. PICK R, k : R = exec[p].run /\ k = Position(p)
    OBVIOUS
<1>3. /\ At(p, "exec") /\ exec[p].snap[k] = "none"
      /\ exec' = [exec EXCEPT ![p].pc = "record", ![p].step = k]
      /\ effects' = [effects EXCEPT ![R][k] = @ + 1]
    BY <1>2 DEF BodyDone, Reaches
<1>4. /\ GoesOn(p) /\ exec'[p].pc = "record" /\ exec'[p].snap = exec[p].snap
      /\ exec'[p].step = k
    BY <1>1, <1>3 DEF Memory, ExecShape, Fields, GoesOn, Alone, Holding, At
<1>5. RowsKept /\ JournalKept /\ ParentsKept
    BY <1>1, Untouched DEF RowsKept, RowKept, ParentsKept
<1>6. R \in RunIds /\ runs[R].status # "none"
    BY <1>2, <1>3, BusyKnown DEF At
<1>7. ASSUME NEW r \in RunIds, NEW i \in Steps
      PROVE  /\ r = R /\ i = k => effects'[r][i] = effects[r][i] + 1
             /\ r # R \/ i # k => effects'[r][i] = effects[r][i]
    BY <1>3 DEF Memory, EffectShape
<1>8. Spending
    <2> SUFFICES ASSUME NEW r \in RunIds, NEW i \in Steps, runs[r].status # "deleted"
                 PROVE  Spends(r, i)
        BY DEF Spending
    <2>1. StaysRecorded(r, i) /\ Alone(p)
        BY <1>1, <1>4 DEF StaysRecorded, GoesOn
    <2>2. Drivers(r)' \subseteq Drivers(r)
        BY <1>1, <1>4, <1>5, GoingOnQuietly
    <2>3. CASE r = R /\ i = k
        <3> DEFINE a == <<"attempt", p>>
        <3>1. ~MayRun(p, i)' /\ MayRun(p, i)
            BY <1>3, <1>4, <2>3 DEF MayRun, At
        <3>2. Attempting(r, i)' \subseteq Attempting(r, i) \ {a}
            BY <2>1, <3>1, OthersAttempt
        <3>3. a \in Attempting(r, i)
            BY <1>2, <2>3, <3>1 DEF Attempting
        <3>4. a \notin Drivers(r)
            BY Kinds DEF Drivers
        <3> HIDE DEF a
        <3>5. a \in Chances(r, i) /\ Chances(r, i)' \subseteq Chances(r, i) \ {a}
            BY <1>1, <2>2, <3>2, <3>3, <3>4 DEF Chances
        <3> QED BY <1>7, <2>3, <3>5 DEF Spends
    <2>4. CASE r # R \/ i # k
        <3>1. exec'[p].run = r /\ MayRun(p, i)' => exec[p].run = r /\ MayRun(p, i)
            BY <1>2, <1>3, <1>4, <2>4 DEF MayRun, At, GoesOn, Holding
        <3>2. Attempting(r, i)' \subseteq Attempting(r, i)
            BY <2>1, <3>1, OthersAttempt
        <3> QED BY <1>7, <2>1, <2>2, <2>4, <3>2, Keeps
    <2> QED BY <2>3, <2>4
<1>9. JobShape' /\ EffectShape'
    BY <1>1, <1>3 DEF Memory, JobShape, EffectShape
<1>10. Memory' /\ SnapRecorded' /\ UnknownYet'
    <2>1. \A r \in RunIds : runs[r].status = "none" =>
              /\ \A s \in Slots : jobs'[r][s].state = jobs[r][s].state
              /\ \A i \in Steps : effects'[r][i] = effects[r][i]
        BY <1>1, <1>6, <1>7
    <2> QED BY <1>4, <1>5, <1>9, <2>1, GoingOnShape
<1> QED BY <1>1, <1>8, <1>10 DEF Posts


\* An attempt that leaves its run to a job or to a suspension, and is done.
LEMMA LeavingPosts ==
    ASSUME Tables, Memory, SnapRecorded, UnknownYet, NEW p \in Procs, GoesOn(p), JobShape',
           RowsKept, UNCHANGED <<journal, effects>>, exec'[p].snap = exec[p].snap,
           exec[p].pc \in Settling, exec'[p].pc \in {"ack", "start"},
           exec'[p].pc = "start" => exec[p].pc = "park",
           \A r \in RunIds :
              /\ r # exec[p].run => /\ JobsOf(r)' \subseteq JobsOf(r)
                                    /\ WaitOf(r)' \subseteq WaitOf(r)
              /\ \E b : JobsOf(r)' \cup WaitOf(r)' \subseteq JobsOf(r) \cup WaitOf(r) \cup {b}
              /\ runs[r].status = "none" =>
                    \A s \in Slots : jobs'[r][s].state = jobs[r][s].state
    PROVE  Posts
<1>1. JournalKept /\ ParentsKept /\ Alone(p)
    BY Untouched DEF RowsKept, RowKept, ParentsKept, GoesOn
<1>2. Spending
    <2> SUFFICES ASSUME NEW r \in RunIds, NEW i \in Steps, runs[r].status # "deleted"
                 PROVE  Spends(r, i)
        BY DEF Spending
    <2>1. StaysRecorded(r, i) /\ effects'[r][i] = effects[r][i]
        BY DEF StaysRecorded
    <2>2. Attempting(r, i)' \subseteq Attempting(r, i) \ {<<"attempt", p>>}
        <3>1. ~MayRun(p, i)'
            BY DEF MayRun, At
        <3> QED BY <1>1, <2>1, <3>1, OthersAttempt
    <2>3. /\ StartsOf(r)' \subseteq StartsOf(r) /\ WakesOf(r)' \subseteq WakesOf(r)
          /\ TriggersOf(r)' = TriggersOf(r) /\ SweepsOf(r)' = SweepsOf(r)
        BY <1>1, GoingOnDrivers
    <2>4. CASE r # exec[p].run
        <3>1. Drivers(r)' \subseteq Drivers(r)
            BY <2>3, <2>4 DEF Drivers
        <3> QED BY <2>1, <2>2, <3>1, Keeps
    <2>5. CASE r = exec[p].run
        <3>1. PICK b : JobsOf(r)' \cup WaitOf(r)' \subseteq JobsOf(r) \cup WaitOf(r) \cup {b}
            OBVIOUS
        <3>2. Drivers(r)' \subseteq Drivers(r) \cup {b}
            BY <2>3, <3>1 DEF Drivers
        <3>3. journal[r][i] = "none" => <<"attempt", p>> \in Attempting(r, i)
            BY <2>5 DEF Attempting, MayRun
        <3> QED BY <2>1, <2>2, <3>2, <3>3, HandsOver
    <2> QED BY <2>4, <2>5
<1>3. EffectShape'
    BY DEF Memory, EffectShape
<1>4. Memory' /\ SnapRecorded' /\ UnknownYet'
    BY <1>1, <1>3, GoingOnShape
<1> QED BY <1>2, <1>4 DEF Posts, GoesOn

\* What a push does to the rows of runs it is not for.
LEMMA PushElsewhere ==
    ASSUME NEW R, NEW delay, Enqueue(R, delay), NEW r \in RunIds, r \notin R
    PROVE  jobs'[r] = jobs[r]
BY DEF Enqueue

\* The attempt pushes the next job of its own run.
LEMMA PushPosts ==
    ASSUME Tables, Memory, SnapRecorded, UnknownYet, NEW p \in Procs,
           SleepEnqueue(p) \/ StepRetryEnqueue(p) \/ ReplayEnqueue(p)
    PROVE  Posts
<1>1. UNCHANGED <<runs, journal, effects, client, sweep, faults>>
    BY DEF SleepEnqueue, StepRetryEnqueue, ReplayEnqueue, bounds, history
<1>2. PICK d : Enqueue({exec[p].run}, d)
    BY DEF SleepEnqueue, StepRetryEnqueue, ReplayEnqueue
<1>3. Go(p, "ack") /\ exec[p].pc \in {"sleepEnqueue", "retry", "replayEnqueue"}
    BY DEF SleepEnqueue, StepRetryEnqueue, ReplayEnqueue, At
<1>4. GoesOn(p) /\ exec'[p].pc = "ack" /\ exec'[p].snap = exec[p].snap
    BY <1>1, <1>3, GoGoesOn DEF At
<1>5. RowsKept
    BY <1>1, Untouched
<1>6. exec[p].run \in RunIds /\ runs[exec[p].run].status # "none"
    BY <1>3, BusyKnown DEF At
<1>7. ASSUME NEW r \in RunIds
      PROVE  /\ r # exec[p].run => JobsOf(r)' = JobsOf(r)
             /\ \E b : JobsOf(r)' \subseteq JobsOf(r) \cup {b}
             /\ JobShape'
             /\ WaitOf(r)' = WaitOf(r)
             /\ runs[r].status = "none" => jobs'[r] = jobs[r]
    <2>1. WaitOf(r)' = WaitOf(r)
        BY <1>1 DEF WaitOf
    <2>2. PICK R : R = {exec[p].run}
        OBVIOUS
    <2>3. Enqueue(R, d) /\ Alone(p) /\ Holding(p)
        BY <1>2, <1>4, <2>2 DEF GoesOn
    <2>4. r \notin R => jobs'[r] = jobs[r]
        BY <2>3, PushElsewhere
    <2>5. /\ r \notin R => JobsOf(r)' = JobsOf(r)
          /\ \E b : JobsOf(r)' \subseteq JobsOf(r) \cup {b}
          /\ JobShape'
        BY <2>3, PushedJobs
    <2> QED BY <1>6, <2>1, <2>2, <2>4, <2>5
<1>8. \A r \in RunIds :
          /\ r # exec[p].run => /\ JobsOf(r)' \subseteq JobsOf(r)
                                /\ WaitOf(r)' \subseteq WaitOf(r)
          /\ \E b : JobsOf(r)' \cup WaitOf(r)' \subseteq JobsOf(r) \cup WaitOf(r) \cup {b}
          /\ runs[r].status = "none" =>
                \A s \in Slots : jobs'[r][s].state = jobs[r][s].state
    BY <1>7
<1>9. JobShape'
    BY <1>6, <1>7
<1> QED BY <1>1, <1>3, <1>4, <1>5, <1>8, <1>9, LeavingPosts

\* The attempt leaves its run waiting.
LEMMA WaitPosts ==
    ASSUME Tables, Memory, SnapRecorded, UnknownYet, NEW p \in Procs, Attempt(p),
           RunWaitingEvent(p) \/ InvokePark(p) \/ ParkAgain(p)
    PROVE  Posts
<1>1. UNCHANGED <<journal, jobs, effects, client, sweep, faults>>
    BY DEF RunWaitingEvent, InvokePark, ParkAgain, bounds, history
<1>2. PICK to : /\ Go(p, to) /\ to \in {"ack", "start"}
                /\ exec[p].pc \in {"apply", "park", "parkAgain"}
                /\ to = "start" => exec[p].pc = "park"
    BY DEF RunWaitingEvent, InvokePark, ParkAgain, Applies, At
<1>3. GoesOn(p) /\ exec'[p].pc = to /\ exec'[p].snap = exec[p].snap
    BY <1>1, <1>2, GoGoesOn DEF At
<1>4. RowsKept
    <2>1. ~InvokeInsert(p)
        BY <1>2, <1>3 DEF RunWaitingEvent, InvokePark, ParkAgain, InvokeInsert, Applies, At
    <2> QED BY <2>1, AttemptKeeps
<1>5. ASSUME NEW r \in RunIds, r # exec[p].run PROVE runs'[r] = runs[r]
    BY <1>5 DEF RunWaitingEvent, InvokePark, ParkAgain, SetStatus, Tables
<1>6. ASSUME NEW r \in RunIds
      PROVE  /\ JobsOf(r)' = JobsOf(r)
             /\ r # exec[p].run => WaitOf(r)' = WaitOf(r)
             /\ WaitOf(r)' \subseteq {<<"wait", 0>>}
    <2>1. JobsOf(r)' = JobsOf(r)
        BY <1>1, <1>3, SameJobs DEF GoesOn
    <2>2. r # exec[p].run => WaitOf(r)' = WaitOf(r)
        BY <1>5 DEF WaitOf
    <2>3. WaitOf(r)' \subseteq {<<"wait", 0>>}
        BY DEF WaitOf
    <2> QED BY <2>1, <2>2, <2>3
<1>7. \A r \in RunIds :
          /\ r # exec[p].run => /\ JobsOf(r)' \subseteq JobsOf(r)
                                /\ WaitOf(r)' \subseteq WaitOf(r)
          /\ \E b : JobsOf(r)' \cup WaitOf(r)' \subseteq JobsOf(r) \cup WaitOf(r) \cup {b}
          /\ runs[r].status = "none" =>
                \A s \in Slots : jobs'[r][s].state = jobs[r][s].state
    BY <1>1, <1>6
<1>8. JobShape'
    BY <1>1 DEF Memory, JobShape
<1> QED BY <1>1, <1>2, <1>3, <1>4, <1>7, <1>8, LeavingPosts


\* The first job of a child run.
LEMMA StartPosts ==
    ASSUME Tables, Memory, SnapRecorded, UnknownYet, NEW p \in Procs, InvokeEnqueue(p)
    PROVE  Posts
<1>1. UNCHANGED <<runs, journal, effects, client, sweep, faults>>
    BY DEF InvokeEnqueue, bounds, history
<1>2. Go(p, "ack") /\ At(p, "start")
    BY DEF InvokeEnqueue
<1>3. GoesOn(p) /\ exec'[p].pc = "ack" /\ exec'[p].snap = exec[p].snap
    BY <1>1, <1>2, GoGoesOn DEF At
<1>4. RowsKept /\ JournalKept /\ ParentsKept /\ Alone(p) /\ Holding(p)
    BY <1>1, <1>3, Untouched DEF RowsKept, RowKept, ParentsKept, GoesOn
<1>5. PICK c, R : c = exec[p].child /\ R = {c}
    OBVIOUS
<1>6. Enqueue(R, 0)
    BY <1>5 DEF InvokeEnqueue
<1>7. ASSUME NEW r \in RunIds
      PROVE  /\ r # c => JobsOf(r)' = JobsOf(r) /\ jobs'[r] = jobs[r]
             /\ \E b : JobsOf(r)' \subseteq JobsOf(r) \cup {b}
             /\ JobShape'
    <2>1. r \notin R => jobs'[r] = jobs[r]
        BY <1>6, PushElsewhere
    <2>2. /\ r \notin R => JobsOf(r)' = JobsOf(r)
          /\ \E b : JobsOf(r)' \subseteq JobsOf(r) \cup {b}
          /\ JobShape'
        BY <1>4, <1>6, PushedJobs
    <2> QED BY <1>5, <2>1, <2>2
<1>8. Spending
    <2> SUFFICES ASSUME NEW r \in RunIds, NEW i \in Steps, runs[r].status # "deleted"
                 PROVE  Spends(r, i)
        BY DEF Spending
    <2>1. StaysRecorded(r, i) /\ effects'[r][i] = effects[r][i]
        BY <1>1 DEF StaysRecorded
    <2>2. Attempting(r, i)' \subseteq Attempting(r, i)
        <3>1. ~MayRun(p, i)'
            BY <1>3 DEF MayRun, At
        <3> QED BY <1>4, <2>1, <3>1, OthersAttempt
    <2>3. /\ WakesOf(r)' \subseteq WakesOf(r) /\ StartsOf(r)' \subseteq StartsOf(r)
          /\ TriggersOf(r)' = TriggersOf(r) /\ SweepsOf(r)' = SweepsOf(r)
        BY <1>3, <1>4, GoingOnDrivers
    <2>4. StartsOf(r)' \subseteq StartsOf(r) \ {<<"start", p>>}
        <3>1. ~Starts(p, r)'
            BY <1>3 DEF Starts
        <3> QED BY <1>4, <3>1, OthersStart
    <2>5. WaitOf(r)' = WaitOf(r)
        BY <1>1 DEF WaitOf
    <2>6. CASE r # c
        <3>1. Drivers(r)' \subseteq Drivers(r)
            BY <1>7, <2>3, <2>5, <2>6 DEF Drivers
        <3> QED BY <2>1, <2>2, <3>1, Keeps
    <2>7. CASE r = c
        <3>1. PICK b : JobsOf(r)' \subseteq JobsOf(r) \cup {b}
            BY <1>7
        <3> DEFINE a == <<"start", p>>
        <3>2. a \in StartsOf(r)
            BY <1>2, <1>5, <2>7 DEF StartsOf, Starts, At
        <3>3. a \notin JobsOf(r) \cup WaitOf(r) \cup WakesOf(r) \cup TriggersOf(r) \cup SweepsOf(r)
            BY Kinds
        <3>4. a \in Drivers(r)
            BY <3>2 DEF Drivers
        <3>5. Drivers(r)' \subseteq (Drivers(r) \ {a}) \cup {b}
            BY <2>3, <2>4, <2>5, <3>1, <3>3 DEF Drivers
        <3> HIDE DEF a
        <3> QED BY <2>1, <2>2, <3>4, <3>5, Swaps
    <2> QED BY <2>6, <2>7
<1>9. JobShape' /\ EffectShape'
    <2>1. 1 \in RunIds
        BY BoundsAssumption DEF RunIds
    <2> QED BY <1>1, <1>7, <2>1 DEF Memory, EffectShape
<1>10. Memory' /\ SnapRecorded' /\ UnknownYet'
    <2>1. \A r \in RunIds : runs[r].status = "none" => r # c
        BY <1>5 DEF UnknownYet, Unknown
    <2>2. \A r \in RunIds : runs[r].status = "none" =>
              /\ \A s \in Slots : jobs'[r][s].state = jobs[r][s].state
              /\ \A i \in Steps : effects'[r][i] = effects[r][i]
        BY <1>1, <1>7, <2>1
    <2> QED BY <1>3, <1>4, <1>9, <2>2, GoingOnShape
<1> QED BY <1>1, <1>8, <1>10 DEF Posts

\* The parent of a child that has ended: its wait is lifted.
LEMMA WakePosts ==
    ASSUME Tables, Memory, SnapRecorded, UnknownYet, NEW p \in Procs, WakeParent(p)
    PROVE  Posts
<1>1. UNCHANGED <<nextRun, journal, jobs, effects, client, sweep, faults>>
    BY DEF WakeParent, bounds, history
<1>2. PICK P : P = runs[exec[p].run].parent
    OBVIOUS
<1>3. /\ At(p, "wake")
      /\ \/ runs[P].status = "waitChild" /\ SetStatus(P, "runnable") /\ Go(p, "wakeEnqueue")
         \/ runs' = runs /\ Go(p, "ack")
    BY <1>2 DEF WakeParent
<1>4. PICK to : Go(p, to) /\ to \in {"ack", "wakeEnqueue"} /\ (to = "wakeEnqueue" =>
          runs[P].status = "waitChild" /\ SetStatus(P, "runnable"))
    BY <1>3
<1>5. GoesOn(p) /\ exec'[p].pc = to /\ exec'[p].snap = exec[p].snap
    BY <1>1, <1>3, <1>4, GoGoesOn DEF At
<1>6. RowsKept
    BY <1>3, Untouched, SetStatusKeeps
<1>7. JournalKept /\ ParentsKept /\ Alone(p) /\ Holding(p)
    BY <1>1, <1>5, <1>6, Untouched DEF RowsKept, RowKept, ParentsKept, GoesOn
<1>8. \A q \in RunIds : runs'[q].status \in Waiting => runs[q].status \in Waiting
    BY <1>3, StatusNotWaiting
<1>9. Spending
    <2> SUFFICES ASSUME NEW r \in RunIds, NEW i \in Steps, runs[r].status # "deleted"
                 PROVE  Spends(r, i)
        BY DEF Spending
    <2>1. StaysRecorded(r, i) /\ effects'[r][i] = effects[r][i]
        BY <1>1 DEF StaysRecorded
    <2>2. Attempting(r, i)' \subseteq Attempting(r, i)
        <3>1. exec'[p].run = r /\ MayRun(p, i)' => exec[p].run = r /\ MayRun(p, i)
            BY <1>1, <1>3, <1>4, <1>5 DEF MayRun, At, GoesOn, Holding
        <3> QED BY <1>7, <2>1, <3>1, OthersAttempt
    <2>3. JobsOf(r)' = JobsOf(r)
        BY <1>1, <1>7, SameJobs
    <2>4. WaitOf(r)' \subseteq WaitOf(r)
        BY <1>8, SameWait
    <2>5. StartsOf(r)' \subseteq StartsOf(r)
        <3>1. ~Starts(p, r)'
            BY <1>4, <1>5 DEF Starts
        <3> QED BY <1>7, <3>1, OthersStart
    <2>6. TriggersOf(r)' = TriggersOf(r) /\ SweepsOf(r)' = SweepsOf(r)
        BY <1>1, SameClients
    <2>7. exec[p].run \in RunIds /\ runs'[exec[p].run].parent = P /\ exec'[p].run = exec[p].run
        <3>1. exec[p].run \in RunIds /\ runs[exec[p].run].status # "none"
            BY <1>3, BusyKnown DEF At
        <3> QED BY <1>2, <1>7, <3>1 DEF ParentsKept, Holding
    <2>8. CASE ~(to = "wakeEnqueue" /\ r = P)
        <3>1. ~Wakes(p, r)'
            BY <1>5, <2>7, <2>8 DEF Wakes, At
        <3>2. WakesOf(r)' \subseteq WakesOf(r)
            BY <1>7, <3>1, OthersWake
        <3>3. Drivers(r)' \subseteq Drivers(r)
            BY <2>3, <2>4, <2>5, <2>6, <3>2 DEF Drivers
        <3> QED BY <2>1, <2>2, <3>3, Keeps
    <2>9. CASE to = "wakeEnqueue" /\ r = P
        <3>1. WakesOf(r)' \subseteq WakesOf(r) \cup {<<"wake", p>>}
            BY <1>7, OthersWake
        <3>2. runs[r].status = "waitChild" /\ SetStatus(r, "runnable")
            BY <1>4, <2>9
        <3>3. runs'[r].status = "runnable"
            BY <3>2 DEF SetStatus, Exists, Tables, Columns
        <3> DEFINE a == <<"wait", 0>>
        <3>4. WaitOf(r)' = {} /\ a \in WaitOf(r)
            BY <3>2, <3>3 DEF WaitOf
        <3>5. a \notin JobsOf(r) \cup StartsOf(r) \cup WakesOf(r) \cup TriggersOf(r) \cup SweepsOf(r)
            BY Kinds
        <3>6. a \in Drivers(r)
            BY <3>4 DEF Drivers
        <3>7. Drivers(r)' \subseteq (Drivers(r) \ {a}) \cup {<<"wake", p>>}
            BY <2>3, <2>5, <2>6, <3>1, <3>4, <3>5 DEF Drivers
        <3> HIDE DEF a
        <3> QED BY <2>1, <2>2, <3>6, <3>7, Swaps
    <2> QED BY <2>8, <2>9
<1>10. Memory' /\ SnapRecorded' /\ UnknownYet'
    <2>1. JobShape' /\ EffectShape'
        BY <1>1 DEF Memory, JobShape, EffectShape
    <2> QED BY <1>1, <1>5, <1>6, <1>7, <2>1, GoingOnShape
<1> QED BY <1>1, <1>9, <1>10 DEF Posts

\* The job of the parent that was released; a parent that is gone is an error.
LEMMA WakeEnqueuePosts ==
    ASSUME Tables, Memory, SnapRecorded, UnknownYet, NEW p \in Procs, WakeEnqueue(p)
    PROVE  Posts
<1>1. UNCHANGED <<runs, journal, effects, client, sweep, faults>>
    BY DEF WakeEnqueue, bounds, history
<1>2. PICK P, R : P = runs[exec[p].run].parent /\ R = {P}
    OBVIOUS
<1>3. /\ At(p, "wakeEnqueue")
      /\ \/ Enqueue(R, 0) /\ Go(p, "ack")
         \/ jobs' = jobs /\ Go(p, "nack")
    BY <1>2 DEF WakeEnqueue
<1>4. PICK to : Go(p, to) /\ to \in {"ack", "nack"}
    BY <1>3
<1>5. GoesOn(p) /\ exec'[p].pc = to /\ exec'[p].snap = exec[p].snap
    BY <1>1, <1>3, <1>4, GoGoesOn DEF At
<1>6. RowsKept /\ JournalKept /\ ParentsKept /\ Alone(p) /\ Holding(p)
    BY <1>1, <1>5, Untouched DEF RowsKept, RowKept, ParentsKept, GoesOn
<1>7. ASSUME NEW r \in RunIds
      PROVE  /\ r # P => JobsOf(r)' = JobsOf(r) /\ jobs'[r] = jobs[r]
             /\ \E b : JobsOf(r)' \subseteq JobsOf(r) \cup {b}
             /\ JobShape'
    <2>1. CASE jobs' = jobs
        <3>1. JobsOf(r)' = JobsOf(r)
            BY <1>6, <2>1, SameJobs
        <3>2. JobShape'
            BY <2>1 DEF Memory, JobShape
        <3> QED BY <2>1, <3>1, <3>2
    <2>2. CASE Enqueue(R, 0)
        <3>1. r \notin R => jobs'[r] = jobs[r]
            BY <2>2, PushElsewhere
        <3>2. /\ r \notin R => JobsOf(r)' = JobsOf(r)
              /\ \E b : JobsOf(r)' \subseteq JobsOf(r) \cup {b}
              /\ JobShape'
            BY <1>6, <2>2, PushedJobs
        <3> QED BY <1>2, <3>1, <3>2
    <2> QED BY <1>3, <2>1, <2>2
<1>8. Spending
    <2> SUFFICES ASSUME NEW r \in RunIds, NEW i \in Steps, runs[r].status # "deleted"
                 PROVE  Spends(r, i)
        BY DEF Spending
    <2>1. StaysRecorded(r, i) /\ effects'[r][i] = effects[r][i]
        BY <1>1 DEF StaysRecorded
    <2>2. Attempting(r, i)' \subseteq Attempting(r, i)
        <3>1. exec'[p].run = r /\ MayRun(p, i)' => exec[p].run = r /\ MayRun(p, i)
            BY <1>1, <1>3, <1>4, <1>5 DEF MayRun, At, GoesOn, Holding
        <3> QED BY <1>6, <2>1, <3>1, OthersAttempt
    <2>3. /\ StartsOf(r)' \subseteq StartsOf(r) /\ WakesOf(r)' \subseteq WakesOf(r)
          /\ TriggersOf(r)' = TriggersOf(r) /\ SweepsOf(r)' = SweepsOf(r)
        BY <1>4, <1>5, <1>6, GoingOnDrivers
    <2>4. WakesOf(r)' \subseteq WakesOf(r) \ {<<"wake", p>>}
        <3>1. ~Wakes(p, r)'
            BY <1>4, <1>5 DEF Wakes, At
        <3> QED BY <1>6, <3>1, OthersWake
    <2>5. WaitOf(r)' = WaitOf(r)
        BY <1>1 DEF WaitOf
    <2>6. CASE r # P
        <3>1. Drivers(r)' \subseteq Drivers(r)
            BY <1>7, <2>3, <2>5, <2>6 DEF Drivers
        <3> QED BY <2>1, <2>2, <3>1, Keeps
    <2>7. CASE r = P
        <3>1. PICK b : JobsOf(r)' \subseteq JobsOf(r) \cup {b}
            BY <1>7
        <3> DEFINE a == <<"wake", p>>
        <3>2. a \in WakesOf(r)
            BY <1>2, <1>3, <2>7 DEF WakesOf, Wakes, At
        <3>3. a \notin JobsOf(r) \cup WaitOf(r) \cup StartsOf(r) \cup TriggersOf(r) \cup SweepsOf(r)
            BY Kinds
        <3>4. a \in Drivers(r)
            BY <3>2 DEF Drivers
        <3>5. Drivers(r)' \subseteq (Drivers(r) \ {a}) \cup {b}
            BY <2>3, <2>4, <2>5, <3>1, <3>3 DEF Drivers
        <3> HIDE DEF a
        <3> QED BY <2>1, <2>2, <3>4, <3>5, Swaps
    <2> QED BY <2>6, <2>7
<1>9. JobShape' /\ EffectShape'
    <2>1. 1 \in RunIds
        BY BoundsAssumption DEF RunIds
    <2> QED BY <1>1, <1>7, <2>1 DEF Memory, EffectShape
<1>10. Memory' /\ SnapRecorded' /\ UnknownYet'
    <2>1. exec[p].run \in RunIds
        BY <1>3, BusyKnown DEF At
    <2>2. \A r \in RunIds : runs[r].status = "none" => r # P
        BY <1>2, <2>1 DEF UnknownYet, Unknown
    <2>3. \A r \in RunIds : runs[r].status = "none" =>
              /\ \A s \in Slots : jobs'[r][s].state = jobs[r][s].state
              /\ \A i \in Steps : effects'[r][i] = effects[r][i]
        BY <1>1, <1>7, <2>2
    <2> QED BY <1>5, <1>6, <1>9, <2>3, GoingOnShape
<1> QED BY <1>1, <1>8, <1>10 DEF Posts


-----------------------------------------------------------------------------
(* The end of an attempt, and the loss of a process *)

GoesIdle(p) == Alone(p) /\ exec'[p] = Idle

\* A process without an attempt refers to nothing.
LEMMA IdleIs ==
    /\ Fields \subseteq DOMAIN Idle /\ Idle.pc = "idle" /\ Idle.run = 0 /\ Idle.job = 0
    /\ Idle.child = 0 /\ DOMAIN Idle.snap = Steps /\ \A i \in Steps : Idle.snap[i] = "none"
    /\ 0 \notin RunIds /\ 0 \notin Slots
BY DEF Idle, NoSteps, Fields, RunIds, Slots

\* The shape, and what is unknown, when the attempt of p is gone.
LEMMA IdleShape ==
    ASSUME Tables, Memory, SnapRecorded, UnknownYet, NEW p \in Procs, GoesIdle(p), JobShape',
           RowsKept, JournalKept, effects' = effects, faults' \in {faults, faults + 1},
           DOMAIN client' = Procs, DOMAIN sweep' = Procs,
           \A q \in Procs : /\ client'[q] \in {client[q], 0} /\ SweepShape(q)'
                            /\ sweep'[q].todo \subseteq sweep[q].todo,
           \A r \in RunIds : runs[r].status = "none" =>
               \A s \in Slots : jobs'[r][s].state \notin {"pending", "running"}
    PROVE  Memory' /\ SnapRecorded' /\ UnknownYet'
<1>1. Memory'
    <2>1. DOMAIN exec' = Procs /\ faults' \in Nat /\ EffectShape'
        BY DEF GoesIdle, Alone, Memory, EffectShape
    <2>2. ExecShape(p)'
        BY IdleIs DEF GoesIdle, ExecShape, At
    <2>3. \A q \in Procs : ExecShape(q)'
        BY <2>2 DEF GoesIdle, Alone, Memory, ExecShape, At
    <2> QED BY <2>1, <2>3 DEF Memory
<1>2. SnapRecorded'
    <2> SUFFICES ASSUME NEW q \in Procs, NEW i \in Steps, exec'[q].snap[i] # "none",
                        runs'[exec'[q].run].status # "deleted"
                 PROVE  journal'[exec'[q].run][i] # "none"
        BY DEF SnapRecorded
    <2>1. q # p /\ exec'[q] = exec[q]
        BY IdleIs DEF GoesIdle, Alone
    <2>2. exec[q].run \in RunIds
        BY <2>1, IdleIs DEF Memory, ExecShape
    <2>3. runs[exec[q].run].status # "deleted"
        BY <2>1, <2>2 DEF RowsKept, RowKept, Exists
    <2> QED BY <2>1, <2>2, <2>3 DEF SnapRecorded, JournalKept
<1>3. UnknownYet'
    <2> SUFFICES ASSUME NEW r \in RunIds, runs'[r].status = "none" PROVE Unknown(r)'
        BY DEF UnknownYet
    <2>1. Unknown(r) /\ runs[r].status = "none"
        BY DEF RowsKept, RowKept, UnknownYet
    <2>2. \A q \in Procs : exec'[q].run # r /\ exec'[q].child # r
        BY <2>1, IdleIs DEF GoesIdle, Alone, Unknown
    <2>3. \A q \in Procs : client'[q] # r /\ \A w \in sweep'[q].todo : w[1] # r
        BY <2>1, IdleIs DEF Unknown
    <2>4. \A q \in RunIds : runs'[q].parent # r
        BY <2>1 DEF RowsKept, RowKept, Unknown
    <2> QED BY <2>1, <2>2, <2>3, <2>4 DEF Unknown
<1> QED BY <1>1, <1>2, <1>3

\* What goes with the attempt of p.
LEMMA IdleChances ==
    ASSUME Memory, UnknownYet, ParentsKept, NEW p \in Procs, GoesIdle(p), NEW r \in RunIds,
           NEW i \in Steps, StaysRecorded(r, i)
    PROVE  /\ Attempting(r, i)' \subseteq Attempting(r, i) \ {<<"attempt", p>>}
           /\ StartsOf(r)' \subseteq StartsOf(r) /\ WakesOf(r)' \subseteq WakesOf(r)
<1>1. ~MayRun(p, i)' /\ ~Starts(p, r)' /\ ~Wakes(p, r)'
    BY IdleIs DEF GoesIdle, MayRun, Starts, Wakes, At
<1> QED BY <1>1, OthersAttempt, OthersStart, OthersWake DEF GoesIdle

\* The only job that p leaves unclaimed is its own.
LEMMA IdleJobs ==
    ASSUME Memory, NEW p \in Procs, GoesIdle(p), NEW r \in RunIds, NEW s \in Slots,
           jobs'[r][s] = jobs[r][s], Unclaimed(r, s)'
    PROVE  Unclaimed(r, s) \/ (r = exec[p].run /\ s = exec[p].job)
BY IdleIs DEF GoesIdle, Alone, Unclaimed, Orphaned

\* The job is acknowledged.
LEMMA AckPosts ==
    ASSUME Tables, Memory, SnapRecorded, UnknownYet, NEW p \in Procs, Ack(p)
    PROVE  Posts
<1>1. UNCHANGED <<runs, journal, effects, client, sweep, faults>>
    BY DEF Ack, bounds, history
<1>2. PICK R, j : R = exec[p].run /\ j = exec[p].job
    OBVIOUS
<1>3. /\ At(p, "ack") /\ exec' = [exec EXCEPT ![p] = Idle]
      /\ jobs' = IF j # 0 THEN [jobs EXCEPT ![R][j] = NoJob] ELSE jobs
    BY <1>2 DEF Ack, Holds
<1>4. GoesIdle(p)
    BY <1>3 DEF GoesIdle, Alone, Memory
<1>5. RowsKept /\ JournalKept /\ ParentsKept
    BY <1>1, Untouched DEF RowsKept, RowKept, ParentsKept
<1>6. ASSUME NEW r \in RunIds, NEW s \in Slots
      PROVE  \/ jobs'[r][s] = jobs[r][s] /\ ~(r = R /\ s = j)
             \/ jobs'[r][s] = NoJob
    BY <1>3, IdleIs DEF Memory, JobShape
<1>7. JobShape'
    <2>1. DOMAIN jobs' = RunIds /\ \A r \in RunIds : DOMAIN jobs'[r] = Slots
        BY <1>3 DEF Memory, JobShape
    <2> QED BY <1>6, <2>1 DEF Memory, JobShape, NoJob
<1>8. Spending
    <2> SUFFICES ASSUME NEW r \in RunIds, NEW i \in Steps, runs[r].status # "deleted"
                 PROVE  Spends(r, i)
        BY DEF Spending
    <2>1. StaysRecorded(r, i) /\ effects'[r][i] = effects[r][i]
        BY <1>1 DEF StaysRecorded
    <2>2. /\ Attempting(r, i)' \subseteq Attempting(r, i) \ {<<"attempt", p>>}
          /\ StartsOf(r)' \subseteq StartsOf(r) /\ WakesOf(r)' \subseteq WakesOf(r)
        BY <1>4, <1>5, <2>1, IdleChances
    <2>3. JobsOf(r)' \subseteq JobsOf(r)
        <3>1. ASSUME NEW s \in Slots, Unclaimed(r, s)' PROVE Unclaimed(r, s)
            <4>1. jobs'[r][s] # NoJob
                BY <3>1 DEF Unclaimed, Orphaned, NoJob
            <4> QED BY <1>2, <1>4, <1>6, <3>1, <4>1, IdleJobs
        <3> QED BY <3>1 DEF JobsOf
    <2>4. WaitOf(r)' = WaitOf(r) /\ TriggersOf(r)' = TriggersOf(r) /\ SweepsOf(r)' = SweepsOf(r)
        BY <1>1, SameClients DEF WaitOf
    <2>5. Drivers(r)' \subseteq Drivers(r)
        BY <2>2, <2>3, <2>4 DEF Drivers
    <2> QED BY <2>1, <2>2, <2>5, Keeps
<1>9. Memory' /\ SnapRecorded' /\ UnknownYet'
    <2>1. \A r \in RunIds : runs[r].status = "none" =>
               \A s \in Slots : jobs'[r][s].state \notin {"pending", "running"}
        BY <1>6 DEF UnknownYet, Unknown, NoJob
    <2>2. \A q \in Procs : SweepShape(q)'
        BY <1>1 DEF Memory, SweepShape
    <2> QED BY <1>1, <1>4, <1>5, <1>7, <2>1, <2>2, IdleShape DEF Memory
<1> QED BY <1>1, <1>8, <1>9 DEF Posts

\* The handler returned an error: the job comes back in place of the attempt.
LEMMA NackPosts ==
    ASSUME Tables, Memory, SnapRecorded, UnknownYet, NEW p \in Procs, Nack(p)
    PROVE  Posts
<1>1. UNCHANGED <<runs, journal, effects, client, sweep, faults>>
    BY DEF Nack, bounds, history
<1>2. PICK R, j : R = exec[p].run /\ j = exec[p].job
    OBVIOUS
<1>3. /\ At(p, "nack") /\ exec' = [exec EXCEPT ![p] = Idle]
      /\ jobs' = IF j # 0
                 THEN [jobs EXCEPT ![R][j] =
                        IF @.tries < MaxJobTries
                        THEN [@ EXCEPT !.state = "pending", !.delay = 1]
                        ELSE [@ EXCEPT !.state = "dead"]]
                 ELSE jobs
    BY <1>2 DEF Nack, Holds
<1>4. GoesIdle(p)
    BY <1>3 DEF GoesIdle, Alone, Memory
<1>5. RowsKept /\ JournalKept /\ ParentsKept
    BY <1>1, Untouched DEF RowsKept, RowKept, ParentsKept
<1>6. R \in RunIds /\ runs[R].status # "none"
    BY <1>2, <1>3, BusyKnown DEF At
<1>7. ASSUME NEW r \in RunIds, NEW s \in Slots
      PROVE  /\ ~(r = R /\ s = j) => jobs'[r][s] = jobs[r][s]
             /\ {"state", "tries", "delay"} \subseteq DOMAIN jobs'[r][s]
    <2>1. ~(r = R /\ s = j) => jobs'[r][s] = jobs[r][s]
        BY <1>3 DEF Memory, JobShape
    <2>2. ASSUME r = R, s = j PROVE DOMAIN jobs'[r][s] = DOMAIN jobs[r][s]
        <3>1. j # 0
            BY <2>2, IdleIs
        <3>2. jobs'[R][j] = IF jobs[R][j].tries < MaxJobTries
                        THEN [jobs[R][j] EXCEPT !.state = "pending", !.delay = 1]
                        ELSE [jobs[R][j] EXCEPT !.state = "dead"]
            BY <1>3, <2>2, <3>1 DEF Memory, JobShape
        <3> QED BY <2>2, <3>2
    <2> QED BY <2>1, <2>2 DEF Memory, JobShape
<1>8. JobShape'
    <2>1. DOMAIN jobs' = RunIds /\ \A r \in RunIds : DOMAIN jobs'[r] = Slots
        BY <1>3 DEF Memory, JobShape
    <2> QED BY <1>7, <2>1 DEF JobShape
<1>9. Spending
    <2> SUFFICES ASSUME NEW r \in RunIds, NEW i \in Steps, runs[r].status # "deleted"
                 PROVE  Spends(r, i)
        BY DEF Spending
    <2>1. StaysRecorded(r, i) /\ effects'[r][i] = effects[r][i]
        BY <1>1 DEF StaysRecorded
    <2>2. /\ Attempting(r, i)' \subseteq Attempting(r, i) \ {<<"attempt", p>>}
          /\ StartsOf(r)' \subseteq StartsOf(r) /\ WakesOf(r)' \subseteq WakesOf(r)
        BY <1>4, <1>5, <2>1, IdleChances
    <2>3. ASSUME NEW s \in Slots, Unclaimed(r, s)' PROVE Unclaimed(r, s) \/ (r = R /\ s = j)
        BY <1>2, <1>4, <1>7, <2>3, IdleJobs
    <2>4. WaitOf(r)' = WaitOf(r) /\ TriggersOf(r)' = TriggersOf(r) /\ SweepsOf(r)' = SweepsOf(r)
        BY <1>1, SameClients DEF WaitOf
    <2>5. CASE r # R
        <3>1. JobsOf(r)' \subseteq JobsOf(r)
            BY <2>3, <2>5 DEF JobsOf
        <3>2. Drivers(r)' \subseteq Drivers(r)
            BY <2>2, <2>4, <3>1 DEF Drivers
        <3> QED BY <2>1, <2>2, <3>2, Keeps
    <2>6. CASE r = R
        <3>1. JobsOf(r)' \subseteq JobsOf(r) \cup {<<"job", j>>}
            BY <2>3 DEF JobsOf
        <3>2. Drivers(r)' \subseteq Drivers(r) \cup {<<"job", j>>}
            BY <2>2, <2>4, <3>1 DEF Drivers
        <3>3. journal[r][i] = "none" => <<"attempt", p>> \in Attempting(r, i)
            BY <1>2, <1>3, <2>6 DEF Attempting, MayRun, At
        <3> QED BY <2>1, <2>2, <3>2, <3>3, HandsOver
    <2> QED BY <2>5, <2>6
<1>10. Memory' /\ SnapRecorded' /\ UnknownYet'
    <2>1. \A r \in RunIds : runs[r].status = "none" =>
               \A s \in Slots : jobs'[r][s].state \notin {"pending", "running"}
        BY <1>6, <1>7 DEF UnknownYet, Unknown
    <2>2. \A q \in Procs : SweepShape(q)'
        BY <1>1 DEF Memory, SweepShape
    <2> QED BY <1>1, <1>4, <1>5, <1>8, <2>1, <2>2, IdleShape DEF Memory
<1> QED BY <1>1, <1>9, <1>10 DEF Posts


\* A process is killed: its job is left without an attempt, and what its calls
\* were about to push is lost.
LEMMA CrashPosts ==
    ASSUME Tables, Memory, SnapRecorded, UnknownYet, NEW p \in Procs,
           \/ Crash(p)
           \/ StoreError(p) /\ exec[p].pc \in {"ack", "nack"}
    PROVE  Posts
<1>1. UNCHANGED <<runs, journal, jobs, effects>> /\ faults' = faults + 1
    BY DEF Crash, StoreError, store, history
<1>2. GoesIdle(p)
    <2>1. CASE Crash(p)
        BY <2>1 DEF Crash, GoesIdle, Alone, Memory
    <2>2. CASE StoreError(p) /\ exec[p].pc \in {"ack", "nack"}
        BY <2>2 DEF StoreError, GoesIdle, Alone, Memory
    <2> QED BY <2>1, <2>2
<1>3. /\ DOMAIN client' = Procs /\ DOMAIN sweep' = Procs
      /\ \A q \in Procs : /\ client'[q] \in {client[q], 0}
                          /\ sweep'[q] = sweep[q] \/ sweep'[q] = NoSweep
    BY DEF Crash, StoreError, Memory
<1>4. \A q \in Procs : SweepShape(q)' /\ sweep'[q].todo \subseteq sweep[q].todo
    BY <1>3 DEF Memory, SweepShape, NoSweep
<1>5. RowsKept /\ JournalKept /\ ParentsKept
    BY <1>1, Untouched DEF RowsKept, RowKept, ParentsKept
<1>6. JobShape'
    BY <1>1 DEF Memory, JobShape
<1>7. Spending
    <2> SUFFICES ASSUME NEW r \in RunIds, NEW i \in Steps, runs[r].status # "deleted"
                 PROVE  Spends(r, i)
        BY DEF Spending
    <2>1. StaysRecorded(r, i) /\ effects'[r][i] = effects[r][i]
        BY <1>1 DEF StaysRecorded
    <2>2. /\ Attempting(r, i)' \subseteq Attempting(r, i)
          /\ StartsOf(r)' \subseteq StartsOf(r) /\ WakesOf(r)' \subseteq WakesOf(r)
        BY <1>2, <1>5, <2>1, IdleChances
    <2>3. PICK b : b = <<"job", exec[p].job>>
        OBVIOUS
    <2>4. JobsOf(r)' \subseteq JobsOf(r) \cup {b}
        <3>1. ASSUME NEW s \in Slots, Unclaimed(r, s)' PROVE Unclaimed(r, s) \/ s = exec[p].job
            BY <1>1, <1>2, <3>1, IdleJobs
        <3> QED BY <2>3, <3>1 DEF JobsOf
    <2>5. WaitOf(r)' = WaitOf(r)
        BY <1>1 DEF WaitOf
    <2>6. TriggersOf(r)' \subseteq TriggersOf(r)
        BY <1>3, IdleIs DEF TriggersOf
    <2>7. SweepsOf(r)' \subseteq SweepsOf(r)
        BY <1>4 DEF SweepsOf
    <2>8. Drivers(r)' \subseteq Drivers(r) \cup {b}
        BY <2>2, <2>4, <2>5, <2>6, <2>7 DEF Drivers
    <2> QED BY <1>1, <2>1, <2>2, <2>8, Faults
<1>8. Memory' /\ SnapRecorded' /\ UnknownYet'
    <2>1. \A r \in RunIds : runs[r].status = "none" =>
               \A s \in Slots : jobs'[r][s].state \notin {"pending", "running"}
        BY <1>1 DEF UnknownYet, Unknown
    <2> QED BY <1>1, <1>2, <1>3, <1>4, <1>5, <1>6, <2>1, IdleShape
<1> QED BY <1>1, <1>7, <1>8 DEF Posts

\* A store call of the attempt fails: the attempt, or its job, has another chance.
LEMMA StoreErrorPosts ==
    ASSUME Tables, Memory, SnapRecorded, UnknownYet, NEW p \in Procs, StoreError(p),
           exec[p].pc \notin {"ack", "nack"}
    PROVE  Posts
<1>1. UNCHANGED <<runs, journal, jobs, effects, client, sweep>> /\ faults' = faults + 1
    BY DEF StoreError, store, history
<1>2. GoesOn(p) /\ exec'[p].pc \in {"recheck", "nack"} /\ exec'[p].snap = exec[p].snap
    <2>1. ~At(p, "idle")
        BY DEF StoreError, At
    <2>2. CASE At(p, "record")
        <3>1. exec' = [exec EXCEPT ![p] = [@ EXCEPT !.pc = "recheck", !.out = "failed", !.step = 0]]
            BY <2>2 DEF StoreError, At
        <3> QED BY <1>1, <2>1, <3>1 DEF Memory, ExecShape, Fields, GoesOn, Alone, Holding, At
    <2>3. CASE ~At(p, "record")
        <3>1. exec' = [exec EXCEPT ![p] = [@ EXCEPT !.pc = "nack"]]
            BY <2>3 DEF StoreError, At
        <3> QED BY <1>1, <2>1, <3>1 DEF Memory, ExecShape, Fields, GoesOn, Alone, Holding, At
    <2> QED BY <2>2, <2>3
<1>3. RowsKept /\ JournalKept /\ ParentsKept
    BY <1>1, Untouched DEF RowsKept, RowKept, ParentsKept
<1>4. Spending
    <2> SUFFICES ASSUME NEW r \in RunIds, NEW i \in Steps, runs[r].status # "deleted"
                 PROVE  Spends(r, i)
        BY DEF Spending
    <2>1. StaysRecorded(r, i) /\ effects'[r][i] = effects[r][i]
        BY <1>1 DEF StaysRecorded
    <2>2. PICK b : b = <<"attempt", p>>
        OBVIOUS
    <2>3. Attempting(r, i)' \subseteq Attempting(r, i) \cup {b}
        BY <1>2, <2>1, <2>2, OthersAttempt DEF GoesOn
    <2>4. Drivers(r)' \subseteq Drivers(r)
        BY <1>1, <1>2, <1>3, GoingOnQuietly
    <2> QED BY <1>1, <2>1, <2>3, <2>4, Faults
<1>5. Memory' /\ SnapRecorded' /\ UnknownYet'
    <2>1. JobShape' /\ EffectShape'
        BY <1>1 DEF Memory, JobShape, EffectShape
    <2> QED BY <1>1, <1>2, <1>3, <2>1, GoingOnShape
<1> QED BY <1>1, <1>4, <1>5 DEF Posts

-----------------------------------------------------------------------------
(* Steps in which no attempt moves *)

RowsGrow ==
    \A r \in RunIds :
        /\ runs[r].status # "none" => /\ runs'[r].status # "none"
                                      /\ runs'[r].parent = runs[r].parent
        /\ runs[r].status = "deleted" => runs'[r].status = "deleted"
JournalGrows ==
    \A r \in RunIds, i \in Steps :
        runs'[r].status # "deleted" /\ journal[r][i] # "none" => journal'[r][i] # "none"

\* The rows and the journal of a step that creates nothing.
LEMMA KeptGrow ==
    /\ RowsKept => RowsGrow /\ ParentsKept
    /\ RowsGrow => ParentsKept
    /\ JournalKept => JournalGrows
<1>1. RowsKept => RowsGrow /\ ParentsKept
    BY DEF RowsKept, RowKept, RowsGrow, ParentsKept, Exists
<1>2. RowsGrow => ParentsKept
    BY DEF RowsGrow, ParentsKept
<1>3. JournalKept => JournalGrows
    BY DEF JournalKept, JournalGrows
<1> QED BY <1>1, <1>2, <1>3

\* The attempts, starts and wake-ups when no attempt moves.
LEMMA StillChances ==
    ASSUME Memory, UnknownYet, exec' = exec, ParentsKept, NEW r \in RunIds, NEW i \in Steps,
           StaysRecorded(r, i)
    PROVE  /\ Attempting(r, i)' \subseteq Attempting(r, i)
           /\ StartsOf(r)' = StartsOf(r) /\ WakesOf(r)' \subseteq WakesOf(r)
<1>1. ASSUME NEW q \in Procs, exec[q].run = r, MayRun(q, i)' PROVE MayRun(q, i)
    BY <1>1 DEF MayRun, At, StaysRecorded
<1>2. Attempting(r, i)' \subseteq Attempting(r, i)
    BY <1>1 DEF Attempting
<1>3. StartsOf(r)' = StartsOf(r)
    BY DEF StartsOf, Starts
<1>4. ASSUME NEW q \in Procs, Wakes(q, r)' PROVE Wakes(q, r)
    <2>1. At(q, "wakeEnqueue") /\ ~At(q, "idle")
        BY <1>4 DEF Wakes, At
    <2>2. exec[q].run \in RunIds /\ runs[exec[q].run].status # "none"
        BY <2>1, BusyKnown
    <2> QED BY <1>4, <2>1, <2>2 DEF ParentsKept, Wakes
<1>5. WakesOf(r)' \subseteq WakesOf(r)
    BY <1>4 DEF WakesOf
<1> QED BY <1>2, <1>3, <1>5

\* The unclaimed jobs when no attempt moves.
LEMMA StillJobs ==
    ASSUME exec' = exec, NEW r \in RunIds, NEW s \in Slots, jobs'[r][s].state = jobs[r][s].state
    PROVE  Unclaimed(r, s)' <=> Unclaimed(r, s)
BY DEF Unclaimed, Orphaned

\* The shape, and what is unknown, when no attempt moves.
LEMMA StillShape ==
    ASSUME Memory, SnapRecorded, UnknownYet, exec' = exec, JobShape', effects' = effects,
           faults' \in {faults, faults + 1}, DOMAIN client' = Procs, DOMAIN sweep' = Procs,
           \A q \in Procs : SweepShape(q)', RowsGrow, JournalGrows,
           \A r \in RunIds : runs'[r].status = "none" =>
               /\ \A q \in Procs : client'[q] # r /\ \A w \in sweep'[q].todo : w[1] # r
               /\ \A s \in Slots : jobs'[r][s].state \notin {"pending", "running"}
               /\ \A q \in RunIds : runs'[q].parent # r
    PROVE  Memory' /\ SnapRecorded' /\ UnknownYet'
<1>1. Memory'
    <2>1. faults' \in Nat /\ EffectShape' /\ DOMAIN exec' = Procs
        BY DEF Memory, EffectShape
    <2>2. \A q \in Procs : ExecShape(q)'
        BY DEF Memory, ExecShape, At
    <2> QED BY <2>1, <2>2 DEF Memory
<1>2. SnapRecorded'
    <2> SUFFICES ASSUME NEW q \in Procs, NEW i \in Steps, exec[q].snap[i] # "none",
                        runs'[exec[q].run].status # "deleted"
                 PROVE  journal'[exec[q].run][i] # "none"
        BY DEF SnapRecorded
    <2>1. exec[q].run \in RunIds
        BY IdleIs DEF Memory, ExecShape
    <2>2. runs[exec[q].run].status # "deleted"
        BY <2>1 DEF RowsGrow
    <2> QED BY <2>1, <2>2 DEF SnapRecorded, JournalGrows
<1>3. UnknownYet'
    <2> SUFFICES ASSUME NEW r \in RunIds, runs'[r].status = "none" PROVE Unknown(r)'
        BY DEF UnknownYet
    <2>1. Unknown(r)
        BY DEF RowsGrow, UnknownYet
    <2> QED BY <2>1 DEF Unknown
<1> QED BY <1>1, <1>2, <1>3


\* A sweep gives up, or a trigger call fails: what they would have pushed is lost.
LEMMA GiveUpPosts ==
    ASSUME Tables, Memory, SnapRecorded, UnknownYet, NEW p \in Procs,
           SweepError(p) \/ TriggerError(p)
    PROVE  Posts
<1>1. UNCHANGED <<runs, journal, jobs, exec, effects>> /\ faults' = faults + 1
    BY DEF SweepError, TriggerError, store, history
<1>2. /\ DOMAIN client' = Procs /\ DOMAIN sweep' = Procs
      /\ \A q \in Procs : /\ client'[q] \in {client[q], 0}
                          /\ sweep'[q] = sweep[q] \/ sweep'[q] = NoSweep
    BY DEF SweepError, TriggerError, Memory
<1>3. \A q \in Procs : SweepShape(q)' /\ sweep'[q].todo \subseteq sweep[q].todo
    BY <1>2 DEF Memory, SweepShape, NoSweep
<1>4. RowsKept /\ JournalKept
    BY <1>1, Untouched
<1>5. RowsGrow /\ ParentsKept /\ JournalGrows
    BY <1>4, KeptGrow
<1>6. Spending
    <2> SUFFICES ASSUME NEW r \in RunIds, NEW i \in Steps, runs[r].status # "deleted"
                 PROVE  Spends(r, i)
        BY DEF Spending
    <2>1. StaysRecorded(r, i) /\ effects'[r][i] = effects[r][i]
        BY <1>1 DEF StaysRecorded
    <2>2. /\ Attempting(r, i)' \subseteq Attempting(r, i)
          /\ StartsOf(r)' = StartsOf(r) /\ WakesOf(r)' \subseteq WakesOf(r)
        BY <1>1, <1>5, <2>1, StillChances
    <2>3. JobsOf(r)' = JobsOf(r) /\ WaitOf(r)' = WaitOf(r)
        BY <1>1 DEF JobsOf, Unclaimed, Orphaned, WaitOf
    <2>4. TriggersOf(r)' \subseteq TriggersOf(r)
        BY <1>2, IdleIs DEF TriggersOf
    <2>5. SweepsOf(r)' \subseteq SweepsOf(r)
        BY <1>3 DEF SweepsOf
    <2>6. Drivers(r)' \subseteq Drivers(r)
        BY <2>2, <2>3, <2>4, <2>5 DEF Drivers
    <2> QED BY <2>1, <2>2, <2>6, Keeps
<1>7. Memory' /\ SnapRecorded' /\ UnknownYet'
    <2>1. JobShape'
        BY <1>1 DEF Memory, JobShape
    <2>2. \A r \in RunIds : runs'[r].status = "none" =>
               /\ \A q \in Procs : client'[q] # r /\ \A w \in sweep'[q].todo : w[1] # r
               /\ \A s \in Slots : jobs'[r][s].state \notin {"pending", "running"}
               /\ \A q \in RunIds : runs'[q].parent # r
        BY <1>1, <1>2, <1>3, IdleIs DEF UnknownYet, Unknown
    <2> QED BY <1>1, <1>2, <1>3, <1>5, <2>1, <2>2, StillShape
<1> QED BY <1>1, <1>6, <1>7 DEF Posts

\* sweep_expired: the job of a dead attempt was unclaimed already; to take that of
\* a live one is a fault.
LEMMA LeasePosts ==
    ASSUME Tables, Memory, SnapRecorded, UnknownYet, NEW R \in RunIds, NEW j \in Slots,
           LeaseExpires(R, j)
    PROVE  Posts
<1>1. UNCHANGED <<runs, journal, exec, effects, client, sweep>>
    BY DEF LeaseExpires, history
<1>2. /\ jobs[R][j].state = "running"
      /\ (Orphaned(R, j) /\ faults' = faults) \/ faults' = faults + 1
    BY DEF LeaseExpires
<1>3. PICK to : jobs' = [jobs EXCEPT ![R][j].state = to] /\ to \in {"pending", "dead"}
    BY DEF LeaseExpires
<1>4. RowsGrow /\ ParentsKept /\ JournalGrows
    BY <1>1, Untouched, KeptGrow
<1>5. ASSUME NEW r \in RunIds, NEW s \in Slots
      PROVE  /\ ~(r = R /\ s = j) => jobs'[r][s] = jobs[r][s]
             /\ DOMAIN jobs'[r][s] = DOMAIN jobs[r][s]
    BY <1>3 DEF Memory, JobShape
<1>6. JobShape'
    <2>1. DOMAIN jobs' = RunIds /\ \A r \in RunIds : DOMAIN jobs'[r] = Slots
        BY <1>3 DEF Memory, JobShape
    <2> QED BY <1>5, <2>1 DEF Memory, JobShape
<1>7. Spending
    <2> SUFFICES ASSUME NEW r \in RunIds, NEW i \in Steps, runs[r].status # "deleted"
                 PROVE  Spends(r, i)
        BY DEF Spending
    <2>1. StaysRecorded(r, i) /\ effects'[r][i] = effects[r][i]
        BY <1>1 DEF StaysRecorded
    <2>2. /\ Attempting(r, i)' \subseteq Attempting(r, i)
          /\ StartsOf(r)' = StartsOf(r) /\ WakesOf(r)' \subseteq WakesOf(r)
        BY <1>1, <1>4, <2>1, StillChances
    <2>3. WaitOf(r)' = WaitOf(r) /\ TriggersOf(r)' = TriggersOf(r) /\ SweepsOf(r)' = SweepsOf(r)
        BY <1>1, SameClients DEF WaitOf
    <2>4. ASSUME NEW s \in Slots, Unclaimed(r, s)' PROVE Unclaimed(r, s) \/ (r = R /\ s = j)
        BY <1>1, <1>5, <2>4, StillJobs
    <2>5. CASE Orphaned(R, j)
        <3>1. JobsOf(r)' \subseteq JobsOf(r)
            BY <2>4, <2>5 DEF JobsOf, Unclaimed
        <3>2. Drivers(r)' \subseteq Drivers(r)
            BY <2>2, <2>3, <3>1 DEF Drivers
        <3> QED BY <2>1, <2>2, <3>2, Keeps
    <2>6. CASE faults' = faults + 1
        <3>1. PICK b : b = <<"job", j>>
            OBVIOUS
        <3>2. JobsOf(r)' \subseteq JobsOf(r) \cup {b}
            BY <2>4, <3>1 DEF JobsOf
        <3>3. Drivers(r)' \subseteq Drivers(r) \cup {b}
            BY <2>2, <2>3, <3>2 DEF Drivers
        <3> QED BY <2>1, <2>2, <2>6, <3>3, Faults
    <2> QED BY <1>2, <2>5, <2>6
<1>8. Memory' /\ SnapRecorded' /\ UnknownYet'
    <2>1. runs[R].status # "none"
        BY <1>2 DEF UnknownYet, Unknown
    <2>2. \A r \in RunIds : runs'[r].status = "none" =>
               /\ \A q \in Procs : client'[q] # r /\ \A w \in sweep'[q].todo : w[1] # r
               /\ \A s \in Slots : jobs'[r][s].state \notin {"pending", "running"}
               /\ \A q \in RunIds : runs'[q].parent # r
        BY <1>1, <1>5, <2>1 DEF UnknownYet, Unknown
    <2>3. /\ \A q \in Procs : SweepShape(q)'
          /\ DOMAIN client' = Procs /\ DOMAIN sweep' = Procs
        BY <1>1 DEF Memory, SweepShape
    <2> QED BY <1>1, <1>2, <1>4, <1>6, <2>2, <2>3, StillShape
<1> QED BY <1>2, <1>7, <1>8 DEF Posts

\* The second store call of a trigger.
LEMMA TriggerEnqueuePosts ==
    ASSUME Tables, Memory, SnapRecorded, UnknownYet, NEW p \in Procs, TriggerEnqueue(p)
    PROVE  Posts
<1>1. UNCHANGED <<runs, journal, exec, effects, sweep, faults>>
    BY DEF TriggerEnqueue, bounds, history
<1>2. PICK c, R : c = client[p] /\ R = {c}
    OBVIOUS
<1>3. Enqueue(R, 0) /\ client' = [client EXCEPT ![p] = 0]
    BY <1>2 DEF TriggerEnqueue
<1>4. RowsGrow /\ ParentsKept /\ JournalGrows
    BY <1>1, Untouched, KeptGrow
<1>5. HoldersKept
    BY <1>1 DEF HoldersKept
<1>6. ASSUME NEW r \in RunIds
      PROVE  /\ r # c => JobsOf(r)' = JobsOf(r) /\ jobs'[r] = jobs[r]
             /\ \E b : JobsOf(r)' \subseteq JobsOf(r) \cup {b}
             /\ JobShape'
    <2>1. r \notin R => jobs'[r] = jobs[r]
        BY <1>3, PushElsewhere
    <2>2. /\ r \notin R => JobsOf(r)' = JobsOf(r)
          /\ \E b : JobsOf(r)' \subseteq JobsOf(r) \cup {b}
          /\ JobShape'
        BY <1>3, <1>5, Pushed
    <2> QED BY <1>2, <2>1, <2>2
<1>7. Spending
    <2> SUFFICES ASSUME NEW r \in RunIds, NEW i \in Steps, runs[r].status # "deleted"
                 PROVE  Spends(r, i)
        BY DEF Spending
    <2>1. StaysRecorded(r, i) /\ effects'[r][i] = effects[r][i]
        BY <1>1 DEF StaysRecorded
    <2>2. /\ Attempting(r, i)' \subseteq Attempting(r, i)
          /\ StartsOf(r)' = StartsOf(r) /\ WakesOf(r)' \subseteq WakesOf(r)
        BY <1>1, <1>4, <2>1, StillChances
    <2>3. WaitOf(r)' = WaitOf(r) /\ SweepsOf(r)' = SweepsOf(r)
        BY <1>1, SameClients DEF WaitOf
    <2> DEFINE a == <<"trigger", p>>
    <2>4. TriggersOf(r)' \subseteq TriggersOf(r) \ {a}
        BY <1>3, IdleIs DEF TriggersOf, Memory
    <2>5. CASE r # c
        <3>1. Drivers(r)' \subseteq Drivers(r)
            BY <1>6, <2>2, <2>3, <2>4, <2>5 DEF Drivers
        <3> QED BY <2>1, <2>2, <3>1, Keeps
    <2>6. CASE r = c
        <3>1. PICK b : JobsOf(r)' \subseteq JobsOf(r) \cup {b}
            BY <1>6
        <3>2. a \in TriggersOf(r)
            BY <1>2, <2>6 DEF TriggersOf
        <3>3. a \notin JobsOf(r) \cup WaitOf(r) \cup StartsOf(r) \cup WakesOf(r) \cup SweepsOf(r)
            BY Kinds
        <3>4. a \in Drivers(r)
            BY <3>2 DEF Drivers
        <3>5. Drivers(r)' \subseteq (Drivers(r) \ {a}) \cup {b}
            BY <2>2, <2>3, <2>4, <3>1, <3>3 DEF Drivers
        <3> HIDE DEF a
        <3> QED BY <2>1, <2>2, <3>4, <3>5, Swaps
    <2> QED BY <2>5, <2>6
<1>8. Memory' /\ SnapRecorded' /\ UnknownYet'
    <2>1. \A r \in RunIds : runs[r].status = "none" => r # c
        BY <1>2 DEF UnknownYet, Unknown
    <2>2. DOMAIN client' = Procs /\ \A q \in Procs : client'[q] \in {client[q], 0}
        BY <1>3 DEF Memory
    <2>3. \A r \in RunIds : runs'[r].status = "none" =>
               /\ \A q \in Procs : client'[q] # r /\ \A w \in sweep'[q].todo : w[1] # r
               /\ \A s \in Slots : jobs'[r][s].state \notin {"pending", "running"}
               /\ \A q \in RunIds : runs'[q].parent # r
        BY <1>1, <1>6, <2>1, <2>2, IdleIs DEF UnknownYet, Unknown
    <2>4. \A q \in Procs : SweepShape(q)'
        BY <1>1 DEF Memory, SweepShape
    <2>5. JobShape'
        <3>1. 1 \in RunIds
            BY BoundsAssumption DEF RunIds
        <3> QED BY <1>6, <3>1
    <2> QED BY <1>1, <1>4, <2>2, <2>3, <2>4, <2>5, StillShape DEF Memory
<1> QED BY <1>1, <1>7, <1>8 DEF Posts

\* A run that was just created has the chances the step that created it gave it.
LEMMA NewChances ==
    ASSUME Memory, UnknownYet, sweep' = sweep, NEW r \in RunIds, NEW i \in Steps,
           \A q \in Procs : /\ exec'[q].run = exec[q].run
                            /\ At(q, "wakeEnqueue")' => At(q, "wakeEnqueue"),
           runs[r].status = "none", runs'[r].status = "runnable",
           \A q \in RunIds : runs[q].status # "none" => runs'[q].parent # r
    PROVE  /\ Attempting(r, i)' = {} /\ WaitOf(r)' = {} /\ WakesOf(r)' = {}
           /\ SweepsOf(r)' = {} /\ JobsOf(r) = {} /\ TriggersOf(r) = {} /\ StartsOf(r) = {}
           /\ effects[r][i] = 0
<1>1. Unknown(r)
    BY DEF UnknownYet
<1>2. Attempting(r, i)' = {}
    BY <1>1 DEF Attempting, Unknown
<1>3. WaitOf(r)' = {}
    BY DEF WaitOf
<1>4. ASSUME NEW q \in Procs, Wakes(q, r)' PROVE FALSE
    <2>1. exec[q].run \in RunIds /\ runs[exec[q].run].status # "none"
        BY <1>4, BusyKnown DEF Wakes, At
    <2> QED BY <1>4, <2>1 DEF Wakes
<1>5. WakesOf(r)' = {}
    BY <1>4 DEF WakesOf
<1>6. SweepsOf(r)' = {}
    BY <1>1 DEF SweepsOf, Unknown
<1>7. JobsOf(r) = {}
    BY <1>1 DEF JobsOf, Unclaimed, Orphaned, Unknown
<1>8. TriggersOf(r) = {} /\ StartsOf(r) = {} /\ effects[r][i] = 0
    BY <1>1 DEF TriggersOf, StartsOf, Starts, Unknown
<1> QED BY <1>2, <1>3, <1>5, <1>6, <1>7, <1>8

\* The insert of a trigger opens the account of a run.
LEMMA TriggerPosts ==
    ASSUME Tables, Fresh, Memory, SnapRecorded, UnknownYet, NEW p \in Procs, NEW w, NEW k,
           TriggerInsert(p), Create(NewRun(w, 0, 0, k)),
           client' = [client EXCEPT ![p] = nextRun]
    PROVE  Posts
<1>1. UNCHANGED <<journal, jobs, exec, sweep, faults, effects>>
    BY DEF TriggerInsert, bounds
<1>2. /\ client' = [client EXCEPT ![p] = nextRun]
      /\ nextRun <= MaxRuns /\ runs' = [runs EXCEPT ![nextRun] = NewRun(w, 0, 0, k)]
    BY DEF Create
<1>3. PICK n : n = nextRun
    OBVIOUS
<1>4. n \in RunIds /\ runs[n].status = "none"
    BY <1>2, <1>3, BoundsAssumption DEF Fresh, RunIds
<1>5. /\ runs'[n].status = "runnable" /\ runs'[n].parent = 0
      /\ \A r \in RunIds : r # n => runs'[r] = runs[r]
    BY <1>2, <1>3, <1>4 DEF NewRun, Tables
<1>6. RowsGrow
    BY <1>4, <1>5 DEF RowsGrow
<1>7. ParentsKept /\ JournalGrows
    BY <1>1, <1>6, KeptGrow DEF JournalGrows
<1>8. \A r \in RunIds : JobsOf(r)' = JobsOf(r) /\ SweepsOf(r)' = SweepsOf(r)
    BY <1>1 DEF JobsOf, Unclaimed, Orphaned, SweepsOf
<1>9. \A q \in Procs : client'[q] = IF q = p THEN n ELSE client[q]
    BY <1>2, <1>3 DEF Memory
<1>10. Spending
    <2> SUFFICES ASSUME NEW r \in RunIds, NEW i \in Steps, runs[r].status # "deleted"
                 PROVE  Spends(r, i)
        BY DEF Spending
    <2>1. StaysRecorded(r, i) /\ effects'[r][i] = effects[r][i]
        BY <1>1 DEF StaysRecorded
    <2>2. CASE r # n
        <3>1. /\ Attempting(r, i)' \subseteq Attempting(r, i)
              /\ StartsOf(r)' = StartsOf(r) /\ WakesOf(r)' \subseteq WakesOf(r)
            BY <1>1, <1>7, <2>1, StillChances
        <3>2. WaitOf(r)' = WaitOf(r) /\ TriggersOf(r)' \subseteq TriggersOf(r)
            BY <1>5, <1>9, <2>2 DEF WaitOf, TriggersOf
        <3>3. Drivers(r)' \subseteq Drivers(r)
            BY <1>8, <3>1, <3>2 DEF Drivers
        <3> QED BY <2>1, <3>1, <3>3, Keeps
    <2>3. CASE r = n
        <3>1. Unknown(r)
            BY <1>4, <2>3 DEF UnknownYet
        <3>2. \A q \in RunIds : runs[q].status # "none" => runs'[q].parent # r
            BY <1>4, <1>5, <2>3, <3>1 DEF Unknown
        <3>3. /\ Attempting(r, i)' = {} /\ WaitOf(r)' = {} /\ WakesOf(r)' = {}
              /\ SweepsOf(r)' = {} /\ JobsOf(r) = {} /\ TriggersOf(r) = {} /\ StartsOf(r) = {}
              /\ effects[r][i] = 0
            BY <1>1, <1>4, <1>5, <2>3, <3>2, NewChances DEF At
        <3>4. StartsOf(r)' = StartsOf(r)
            BY <1>1 DEF StartsOf, Starts
        <3>5. TriggersOf(r)' \subseteq {<<"trigger", p>>}
            BY <1>9, <3>1 DEF TriggersOf, Unknown
        <3>6. Chances(r, i)' \subseteq {<<"trigger", p>>}
            BY <1>8, <3>3, <3>4, <3>5 DEF Chances, Drivers
        <3> QED BY <2>1, <3>3, <3>6 DEF Spends
    <2> QED BY <2>2, <2>3
<1>11. Memory' /\ SnapRecorded' /\ UnknownYet'
    <2>1. JobShape'
        BY <1>1 DEF Memory, JobShape
    <2>2. /\ \A q \in Procs : SweepShape(q)'
          /\ DOMAIN client' = Procs /\ DOMAIN sweep' = Procs
        BY <1>1, <1>2 DEF Memory, SweepShape
    <2>3. \A r \in RunIds : runs'[r].status = "none" => Unknown(r) /\ r # n
        BY <1>5 DEF UnknownYet
    <2>4. \A r \in RunIds : runs'[r].status = "none" =>
               /\ \A q \in Procs : client'[q] # r /\ \A x \in sweep'[q].todo : x[1] # r
               /\ \A s \in Slots : jobs'[r][s].state \notin {"pending", "running"}
               /\ \A q \in RunIds : runs'[q].parent # r
        BY <1>1, <1>5, <1>9, <2>3, IdleIs DEF Unknown
    <2> QED BY <1>1, <1>6, <1>7, <2>1, <2>2, <2>4, StillShape
<1> QED BY <1>1, <1>10, <1>11 DEF Posts


\* create_run of a child: an existing child is looked up, a new one will be started.
LEMMA InvokePosts ==
    ASSUME Tables, Fresh, Memory, SnapRecorded, UnknownYet, NEW p \in Procs,
           InvokeInsert(p) \/ (InvokeLookup(p) /\ ~Go(p, "insert"))
    PROVE  Posts
<1>1. /\ UNCHANGED <<journal, jobs, sweep, client, faults, effects>>
      /\ At(p, "apply") \/ At(p, "insert")
    BY DEF InvokeInsert, InvokeLookup, Applies, store, bounds, history
<1>2. PICK n : n = nextRun
    OBVIOUS
<1>3. PICK to, c :
        /\ exec' = [exec EXCEPT ![p].pc = to, ![p].child = c]
        /\ \/ /\ to = "park" /\ c = n /\ nextRun <= MaxRuns
              /\ \E run : /\ runs' = [runs EXCEPT ![n] = run]
                          /\ run.status = "runnable" /\ run.parent = exec[p].run
           \/ to = "look" /\ c \in RunIds /\ Exists(c) /\ runs' = runs
    <2>1. ASSUME NEW d \in ChildOf(p), exec' = [exec EXCEPT ![p].pc = "look", ![p].child = d],
                 runs' = runs
          PROVE  d \in RunIds /\ Exists(d)
        BY <2>1 DEF ChildOf, ChildRuns
    <2>2. \A w : /\ NewRun(w, exec[p].run, exec[p].step, NoKey).status = "runnable"
                 /\ NewRun(w, exec[p].run, exec[p].step, NoKey).parent = exec[p].run
        BY DEF NewRun
    <2>3. CASE InvokeInsert(p)
        BY <1>2, <2>1, <2>2, <2>3 DEF InvokeInsert, Create
    <2>4. CASE InvokeLookup(p) /\ ~Go(p, "insert")
        BY <2>1, <2>4 DEF InvokeLookup, store
    <2> QED BY <2>3, <2>4
<1>4. exec[p].run \in RunIds /\ runs[exec[p].run].status # "none"
    BY <1>1, BusyKnown DEF At
<1>5. /\ Alone(p) /\ Holding(p) /\ ExecShape(p)' /\ exec'[p].pc = to /\ exec'[p].child = c
      /\ exec'[p].snap = exec[p].snap
    BY <1>1, <1>3 DEF Memory, ExecShape, Fields, Alone, Holding, At
<1>6. to \in {"park", "look"}
    BY <1>3
<1>7. to = "park" => /\ n \in RunIds /\ runs[n].status = "none" /\ runs'[n].status = "runnable"
                     /\ runs'[n].parent = exec[p].run /\ c = n
                     /\ \A r \in RunIds : r # n => runs'[r] = runs[r]
    <2>1. to = "park" => n \in RunIds /\ runs[n].status = "none"
        BY <1>2, <1>3, BoundsAssumption DEF Fresh, RunIds
    <2> QED BY <1>3, <2>1 DEF Tables
<1>8. to = "look" => runs' = runs /\ c \in RunIds /\ runs[c].status # "none"
    BY <1>3 DEF Exists
<1>9. RowsGrow
    BY <1>6, <1>7, <1>8 DEF RowsGrow
<1>10. ParentsKept /\ HoldersKept
    BY <1>5, <1>9, KeptGrow DEF Alone, Holding, HoldersKept
<1>11. \A q \in Procs : At(q, "wakeEnqueue")' => At(q, "wakeEnqueue")
    BY <1>5, <1>6 DEF Alone, At
<1>12. Spending
    <2> SUFFICES ASSUME NEW r \in RunIds, NEW i \in Steps, runs[r].status # "deleted"
                 PROVE  Spends(r, i)
        BY DEF Spending
    <2>1. StaysRecorded(r, i) /\ effects'[r][i] = effects[r][i]
        BY <1>1 DEF StaysRecorded
    <2>2. JobsOf(r)' = JobsOf(r) /\ SweepsOf(r)' = SweepsOf(r) /\ TriggersOf(r)' = TriggersOf(r)
        BY <1>1, <1>5, SameJobs, SameClients
    <2>3. CASE ~(to = "park" /\ r = n)
        <3>1. Attempting(r, i)' \subseteq Attempting(r, i)
            <4>1. exec'[p].run = r /\ MayRun(p, i)' => exec[p].run = r /\ MayRun(p, i)
                BY <1>1, <1>5, <1>6 DEF MayRun, At, Holding, Settling
            <4> QED BY <1>5, <2>1, <4>1, OthersAttempt
        <3>2. WakesOf(r)' \subseteq WakesOf(r)
            <4>1. ~Wakes(p, r)'
                BY <1>5, <1>6 DEF Wakes, At
            <4> QED BY <1>5, <1>10, <4>1, OthersWake
        <3>3. StartsOf(r)' \subseteq StartsOf(r)
            <4>1. ~Starts(p, r)'
                BY <1>5, <1>6, <1>7, <2>3 DEF Starts
            <4> QED BY <1>5, <4>1, OthersStart
        <3>4. WaitOf(r)' = WaitOf(r)
            BY <1>6, <1>7, <1>8, <2>3 DEF WaitOf
        <3>5. Drivers(r)' \subseteq Drivers(r)
            BY <2>2, <3>2, <3>3, <3>4 DEF Drivers
        <3> QED BY <2>1, <3>1, <3>5, Keeps
    <2>4. CASE to = "park" /\ r = n
        <3>1. Unknown(r)
            BY <1>7, <2>4 DEF UnknownYet
        <3>2. \A q \in RunIds : runs[q].status # "none" => runs'[q].parent # r
            BY <1>7, <2>4, <3>1 DEF Unknown
        <3>3. /\ Attempting(r, i)' = {} /\ WaitOf(r)' = {} /\ WakesOf(r)' = {}
              /\ SweepsOf(r)' = {} /\ JobsOf(r) = {} /\ TriggersOf(r) = {} /\ StartsOf(r) = {}
              /\ effects[r][i] = 0
            BY <1>1, <1>7, <1>10, <1>11, <2>4, <3>2, NewChances DEF HoldersKept
        <3>4. StartsOf(r)' \subseteq {<<"start", p>>}
            BY <1>5, <3>3, OthersStart
        <3>5. Chances(r, i)' \subseteq {<<"start", p>>}
            BY <2>2, <3>3, <3>4 DEF Chances, Drivers
        <3> QED BY <2>1, <3>3, <3>5 DEF Spends
    <2> QED BY <2>3, <2>4
<1>13. Memory'
    <2>1. \A q \in Procs : ExecShape(q)'
        BY <1>5 DEF Alone, Memory, ExecShape, At
    <2>2. \A q \in Procs : SweepShape(q)'
        BY <1>1 DEF Memory, SweepShape
    <2>3. JobShape' /\ EffectShape'
        BY <1>1 DEF Memory, JobShape, EffectShape
    <2> QED BY <1>1, <1>5, <2>1, <2>2, <2>3 DEF Memory, Alone
<1>14. SnapRecorded'
    <2> SUFFICES ASSUME NEW q \in Procs, NEW i \in Steps, exec'[q].snap[i] # "none",
                        runs'[exec'[q].run].status # "deleted"
                 PROVE  journal'[exec'[q].run][i] # "none"
        BY DEF SnapRecorded
    <2>1. exec'[q].run = exec[q].run /\ exec'[q].snap = exec[q].snap
        BY <1>5 DEF Alone, Holding
    <2>2. exec[q].run \in RunIds
        BY <2>1, IdleIs DEF Memory, ExecShape
    <2>3. runs[exec[q].run].status # "deleted"
        BY <1>9, <2>1, <2>2 DEF RowsGrow
    <2> QED BY <1>1, <2>1, <2>2, <2>3 DEF SnapRecorded
<1>15. UnknownYet'
    <2> SUFFICES ASSUME NEW r \in RunIds, runs'[r].status = "none" PROVE Unknown(r)'
        BY DEF UnknownYet
    <2>1. Unknown(r) /\ runs[r].status = "none"
        BY <1>9 DEF RowsGrow, UnknownYet
    <2>2. r # c
        BY <1>6, <1>7, <1>8, <2>1
    <2>3. \A q \in Procs : exec'[q].run # r /\ exec'[q].child # r
        BY <1>5, <2>1, <2>2 DEF Alone, Holding, Unknown
    <2>4. \A q \in RunIds : runs'[q].parent # r
        BY <1>4, <1>6, <1>7, <1>8, <2>1 DEF Unknown
    <2> QED BY <1>1, <2>1, <2>3, <2>4 DEF Unknown
<1> QED BY <1>1, <1>12, <1>13, <1>14, <1>15 DEF Posts


-----------------------------------------------------------------------------
(* The timeout sweep *)

\* The waiters that timed out: the sweep will push their jobs.
LEMMA ReleasePosts ==
    ASSUME Tables, Memory, SnapRecorded, UnknownYet, NEW p \in Procs, SweepRelease(p)
    PROVE  Posts
<1>1. UNCHANGED <<journal, jobs, exec, client, faults, effects>>
    BY DEF SweepRelease, bounds, history
<1>2. PICK todo : /\ todo = {<<r, runs[r].wait>> : r \in TimedOut}
                  /\ sweep' = [sweep EXCEPT ![p].todo = todo] /\ sweep[p] = NoSweep
    BY DEF SweepRelease
<1>3. RowsKept /\ JournalKept
    BY SweepKeeps DEF TimeoutSweep
<1>4. RowsGrow /\ ParentsKept /\ JournalGrows
    BY <1>3, KeptGrow
<1>5. /\ DOMAIN sweep' = Procs /\ \A q \in Procs : SweepShape(q)'
      /\ sweep'[p].todo = todo /\ \A q \in Procs : q # p => sweep'[q] = sweep[q]
    BY <1>2 DEF Memory, SweepShape, NoSweep
<1>6. \A r \in RunIds : r \notin TimedOut => runs'[r] = runs[r]
    BY DEF SweepRelease
<1>7. \A r \in TimedOut : /\ r \in RunIds /\ runs[r].status = "waitEvent"
                          /\ runs'[r].status = "runnable"
    BY DEF SweepRelease, TimedOut, Tables, Columns
<1>8. Spending
    <2> SUFFICES ASSUME NEW r \in RunIds, NEW i \in Steps, runs[r].status # "deleted"
                 PROVE  Spends(r, i)
        BY DEF Spending
    <2>1. StaysRecorded(r, i) /\ effects'[r][i] = effects[r][i]
        BY <1>1 DEF StaysRecorded
    <2>2. /\ Attempting(r, i)' \subseteq Attempting(r, i)
          /\ StartsOf(r)' = StartsOf(r) /\ WakesOf(r)' \subseteq WakesOf(r)
        BY <1>1, <1>4, <2>1, StillChances
    <2>3. JobsOf(r)' = JobsOf(r) /\ TriggersOf(r)' = TriggersOf(r)
        BY <1>1, SameClients DEF JobsOf, Unclaimed, Orphaned
    <2>4. CASE r \notin TimedOut
        <3>1. WaitOf(r)' = WaitOf(r)
            BY <1>6, <2>4 DEF WaitOf
        <3>2. ASSUME NEW w \in todo PROVE w[1] # r
            BY <1>2, <2>4, <3>2
        <3>3. SweepsOf(r)' \subseteq SweepsOf(r)
            BY <1>5, <3>2 DEF SweepsOf
        <3>4. Drivers(r)' \subseteq Drivers(r)
            BY <2>2, <2>3, <3>1, <3>3 DEF Drivers
        <3> QED BY <2>1, <2>2, <3>4, Keeps
    <2>5. CASE r \in TimedOut
        <3> DEFINE a == <<"wait", 0>>
        <3>1. PICK b : b = <<"sweep", <<p, <<r, runs[r].wait>>>>>>
            OBVIOUS
        <3>2. WaitOf(r)' = {} /\ a \in WaitOf(r)
            BY <1>7, <2>5 DEF WaitOf
        <3>3. ASSUME NEW w \in todo, w[1] = r PROVE w = <<r, runs[r].wait>>
            BY <1>2, <3>3
        <3>4. SweepsOf(r)' \subseteq SweepsOf(r) \cup {b}
            BY <1>5, <3>1, <3>3 DEF SweepsOf
        <3>5. a \notin JobsOf(r) \cup StartsOf(r) \cup WakesOf(r) \cup TriggersOf(r) \cup SweepsOf(r)
            BY Kinds
        <3>6. a \in Drivers(r)
            BY <3>2 DEF Drivers
        <3>7. Drivers(r)' \subseteq (Drivers(r) \ {a}) \cup {b}
            BY <2>2, <2>3, <3>2, <3>4, <3>5 DEF Drivers
        <3> HIDE DEF a
        <3> QED BY <2>1, <2>2, <3>6, <3>7, Swaps
    <2> QED BY <2>4, <2>5
<1>9. Memory' /\ SnapRecorded' /\ UnknownYet'
    <2>1. JobShape' /\ DOMAIN client' = Procs
        BY <1>1 DEF Memory, JobShape
    <2>2. \A r \in RunIds : runs'[r].status = "none" => Unknown(r) /\ runs[r].status = "none"
        BY <1>3 DEF RowsKept, RowKept, UnknownYet
    <2>3. \A w \in todo : w[1] \in RunIds /\ runs[w[1]].status = "waitEvent"
        BY <1>2, <1>7
    <2>4. \A r \in RunIds : runs'[r].status = "none" =>
               /\ \A q \in Procs : client'[q] # r /\ \A w \in sweep'[q].todo : w[1] # r
               /\ \A s \in Slots : jobs'[r][s].state \notin {"pending", "running"}
               /\ \A q \in RunIds : runs'[q].parent # r
        <3> SUFFICES ASSUME NEW r \in RunIds, runs'[r].status = "none"
                     PROVE  /\ \A q \in Procs : client'[q] # r /\ \A w \in sweep'[q].todo : w[1] # r
                            /\ \A s \in Slots : jobs'[r][s].state \notin {"pending", "running"}
                            /\ \A q \in RunIds : runs'[q].parent # r
            OBVIOUS
        <3>1. \A q \in Procs : \A w \in sweep'[q].todo : w[1] # r
            BY <1>5, <2>2, <2>3 DEF Unknown
        <3>2. \A q \in RunIds : runs'[q].parent # r
            BY <1>3, <2>2 DEF RowsKept, RowKept, Unknown
        <3> QED BY <1>1, <2>2, <3>1, <3>2 DEF Unknown
    <2> QED BY <1>1, <1>4, <1>5, <2>1, <2>4, StillShape
<1> QED BY <1>1, <1>8, <1>9 DEF Posts

\* The sweep records the step of one waiter.
LEMMA SweepRecordPosts ==
    ASSUME Tables, Memory, SnapRecorded, UnknownYet, NEW p \in Procs, SweepRecord(p)
    PROVE  Posts
<1>1. UNCHANGED <<runs, jobs, exec, client, faults, effects>>
    BY DEF SweepRecord, bounds, history
<1>2. PICK w \in sweep[p].todo : sweep' = [sweep EXCEPT ![p].cur = w]
    BY DEF SweepRecord
<1>3. RowsKept /\ JournalKept
    BY SweepKeeps DEF TimeoutSweep
<1>4. RowsGrow /\ ParentsKept /\ JournalGrows
    BY <1>3, KeptGrow
<1>5. /\ DOMAIN sweep' = Procs /\ \A q \in Procs : SweepShape(q)'
      /\ \A q \in Procs : sweep'[q].todo = sweep[q].todo
    BY <1>2 DEF Memory, SweepShape
<1>6. Spending
    <2> SUFFICES ASSUME NEW r \in RunIds, NEW i \in Steps, runs[r].status # "deleted"
                 PROVE  Spends(r, i)
        BY DEF Spending
    <2>1. StaysRecorded(r, i) /\ effects'[r][i] = effects[r][i]
        BY <1>1, <1>3 DEF StaysRecorded, JournalKept
    <2>2. /\ Attempting(r, i)' \subseteq Attempting(r, i)
          /\ StartsOf(r)' = StartsOf(r) /\ WakesOf(r)' \subseteq WakesOf(r)
        BY <1>1, <1>4, <2>1, StillChances
    <2>3. JobsOf(r)' = JobsOf(r) /\ TriggersOf(r)' = TriggersOf(r) /\ WaitOf(r)' = WaitOf(r)
        BY <1>1, SameClients DEF JobsOf, Unclaimed, Orphaned, WaitOf
    <2>4. SweepsOf(r)' = SweepsOf(r)
        BY <1>5 DEF SweepsOf
    <2>5. Drivers(r)' \subseteq Drivers(r)
        BY <2>2, <2>3, <2>4 DEF Drivers
    <2> QED BY <2>1, <2>2, <2>5, Keeps
<1>7. Memory' /\ SnapRecorded' /\ UnknownYet'
    <2>1. JobShape' /\ DOMAIN client' = Procs
        BY <1>1 DEF Memory, JobShape
    <2>2. \A r \in RunIds : runs'[r].status = "none" =>
               /\ \A q \in Procs : client'[q] # r /\ \A x \in sweep'[q].todo : x[1] # r
               /\ \A s \in Slots : jobs'[r][s].state \notin {"pending", "running"}
               /\ \A q \in RunIds : runs'[q].parent # r
        BY <1>1, <1>5 DEF UnknownYet, Unknown
    <2> QED BY <1>1, <1>4, <1>5, <2>1, <2>2, StillShape
<1> QED BY <1>1, <1>6, <1>7 DEF Posts

\* The sweep pushes the job of the waiter it is at.
LEMMA SweepEnqueuePosts ==
    ASSUME Tables, Memory, SnapRecorded, UnknownYet, NEW p \in Procs, SweepEnqueue(p)
    PROVE  Posts
<1>1. UNCHANGED <<runs, journal, exec, client, faults, effects>>
    BY DEF SweepEnqueue, bounds, history
<1>2. PICK w, c, R : w = sweep[p].cur /\ c = w[1] /\ R = {c}
    OBVIOUS
<1>3. /\ Enqueue(R, 0) /\ w \in sweep[p].todo
      /\ sweep' = [sweep EXCEPT ![p] = [todo |-> sweep[p].todo \ {w}, cur |-> <<0, 0>>]]
    BY <1>2 DEF SweepEnqueue, Memory, SweepShape
<1>4. RowsGrow /\ ParentsKept /\ JournalGrows
    BY <1>1, Untouched, KeptGrow
<1>5. /\ DOMAIN sweep' = Procs /\ \A q \in Procs : SweepShape(q)'
      /\ \A q \in Procs : sweep'[q].todo \subseteq sweep[q].todo
      /\ w \notin sweep'[p].todo
    BY <1>3 DEF Memory, SweepShape
<1>6. HoldersKept
    BY <1>1 DEF HoldersKept
<1>7. ASSUME NEW r \in RunIds
      PROVE  /\ r # c => JobsOf(r)' = JobsOf(r) /\ jobs'[r] = jobs[r]
             /\ \E b : JobsOf(r)' \subseteq JobsOf(r) \cup {b}
             /\ JobShape'
    <2>1. r \notin R => jobs'[r] = jobs[r]
        BY <1>3, PushElsewhere
    <2>2. /\ r \notin R => JobsOf(r)' = JobsOf(r)
          /\ \E b : JobsOf(r)' \subseteq JobsOf(r) \cup {b}
          /\ JobShape'
        BY <1>3, <1>6, Pushed
    <2> QED BY <1>2, <2>1, <2>2
<1>8. Spending
    <2> SUFFICES ASSUME NEW r \in RunIds, NEW i \in Steps, runs[r].status # "deleted"
                 PROVE  Spends(r, i)
        BY DEF Spending
    <2>1. StaysRecorded(r, i) /\ effects'[r][i] = effects[r][i]
        BY <1>1 DEF StaysRecorded
    <2>2. /\ Attempting(r, i)' \subseteq Attempting(r, i)
          /\ StartsOf(r)' = StartsOf(r) /\ WakesOf(r)' \subseteq WakesOf(r)
        BY <1>1, <1>4, <2>1, StillChances
    <2>3. WaitOf(r)' = WaitOf(r) /\ TriggersOf(r)' = TriggersOf(r)
        BY <1>1, SameClients DEF WaitOf
    <2> DEFINE a == <<"sweep", <<p, w>>>>
    <2>4. SweepsOf(r)' \subseteq SweepsOf(r) \ {a}
        BY <1>5 DEF SweepsOf
    <2>5. CASE r # c
        <3>1. Drivers(r)' \subseteq Drivers(r)
            BY <1>7, <2>2, <2>3, <2>4, <2>5 DEF Drivers
        <3> QED BY <2>1, <2>2, <3>1, Keeps
    <2>6. CASE r = c
        <3>1. PICK b : JobsOf(r)' \subseteq JobsOf(r) \cup {b}
            BY <1>7
        <3>2. a \in SweepsOf(r)
            BY <1>2, <1>3, <2>6 DEF SweepsOf
        <3>3. a \notin JobsOf(r) \cup WaitOf(r) \cup StartsOf(r) \cup WakesOf(r) \cup TriggersOf(r)
            BY Kinds
        <3>4. a \in Drivers(r)
            BY <3>2 DEF Drivers
        <3>5. Drivers(r)' \subseteq (Drivers(r) \ {a}) \cup {b}
            BY <2>2, <2>3, <2>4, <3>1, <3>3 DEF Drivers
        <3> HIDE DEF a
        <3> QED BY <2>1, <2>2, <3>4, <3>5, Swaps
    <2> QED BY <2>5, <2>6
<1>9. Memory' /\ SnapRecorded' /\ UnknownYet'
    <2>1. \A r \in RunIds : runs[r].status = "none" => r # c
        BY <1>2, <1>3 DEF UnknownYet, Unknown
    <2>2. \A r \in RunIds : runs'[r].status = "none" =>
               /\ \A q \in Procs : client'[q] # r /\ \A x \in sweep'[q].todo : x[1] # r
               /\ \A s \in Slots : jobs'[r][s].state \notin {"pending", "running"}
               /\ \A q \in RunIds : runs'[q].parent # r
        BY <1>1, <1>5, <1>7, <2>1 DEF UnknownYet, Unknown
    <2>3. JobShape'
        <3>1. 1 \in RunIds
            BY BoundsAssumption DEF RunIds
        <3> QED BY <1>7, <3>1
    <2> QED BY <1>1, <1>4, <1>5, <2>2, <2>3, StillShape DEF Memory
<1> QED BY <1>1, <1>8, <1>9 DEF Posts


-----------------------------------------------------------------------------
(* Cancellation, retention and time *)

\* A step on the rows and the journal alone, that makes no run wait.
LEMMA TablePosts ==
    ASSUME Memory, SnapRecorded, UnknownYet, RowsKept, JournalGrows,
           UNCHANGED <<jobs, exec, sweep, client, faults, effects>>,
           \A r \in RunIds : runs'[r].status \in Waiting => runs[r].status \in Waiting
    PROVE  Posts
<1>1. RowsGrow /\ ParentsKept
    BY KeptGrow
<1>2. Spending
    <2> SUFFICES ASSUME NEW r \in RunIds, NEW i \in Steps, runs'[r].status # "deleted"
                 PROVE  Spends(r, i)
        BY DEF Spending
    <2>1. StaysRecorded(r, i) /\ effects'[r][i] = effects[r][i]
        BY DEF StaysRecorded, JournalGrows
    <2>2. /\ Attempting(r, i)' \subseteq Attempting(r, i)
          /\ StartsOf(r)' = StartsOf(r) /\ WakesOf(r)' \subseteq WakesOf(r)
        BY <1>1, <2>1, StillChances
    <2>3. /\ JobsOf(r)' = JobsOf(r) /\ TriggersOf(r)' = TriggersOf(r)
          /\ SweepsOf(r)' = SweepsOf(r)
        BY SameClients DEF JobsOf, Unclaimed, Orphaned
    <2>4. WaitOf(r)' \subseteq WaitOf(r)
        BY SameWait
    <2>5. Drivers(r)' \subseteq Drivers(r)
        BY <2>2, <2>3, <2>4 DEF Drivers
    <2> QED BY <2>1, <2>2, <2>5, Keeps
<1>3. Memory' /\ SnapRecorded' /\ UnknownYet'
    <2>1. /\ JobShape' /\ DOMAIN client' = Procs /\ DOMAIN sweep' = Procs
          /\ \A q \in Procs : SweepShape(q)'
        BY DEF Memory, JobShape, SweepShape
    <2>2. \A r \in RunIds : runs'[r].status = "none" => Unknown(r)
        BY DEF RowsKept, RowKept, UnknownYet
    <2>3. \A r \in RunIds : runs'[r].status = "none" =>
               /\ \A q \in Procs : client'[q] # r /\ \A x \in sweep'[q].todo : x[1] # r
               /\ \A s \in Slots : jobs'[r][s].state \notin {"pending", "running"}
               /\ \A q \in RunIds : runs'[q].parent # r
        BY <2>2 DEF Unknown, RowsKept, RowKept
    <2> QED BY <1>1, <2>1, <2>3, StillShape
<1> QED BY <1>2, <1>3 DEF Posts

\* A cancel lifts waits and adds none.
LEMMA CancelPosts ==
    ASSUME Tables, Memory, SnapRecorded, UnknownYet, NEW root \in RunIds, Cancel(root)
    PROVE  Posts
<1>1. UNCHANGED <<jobs, exec, sweep, client, faults, effects>>
    BY DEF Cancel, history
<1>2. RowsKept /\ JournalGrows
    BY CancelKeeps, KeptGrow
<1>3. \A r \in RunIds : runs'[r] = runs[r] \/ runs'[r].status = "cancelled"
    BY DEF Cancel, Tables, Columns
<1> QED BY <1>1, <1>2, <1>3, TablePosts

\* The GC closes the accounts of the runs it takes.
LEMMA GcPosts ==
    ASSUME Tables, Memory, SnapRecorded, UnknownYet, NEW S \in SUBSET RunIds, Gc(S)
    PROVE  Posts
<1>1. UNCHANGED <<jobs, exec, sweep, client, faults, effects>>
    BY DEF Gc, bounds, history
<1>2. /\ RowsKept
      /\ \A r \in RunIds : r \notin S => journal'[r] = journal[r]
      /\ \A r \in S : runs'[r].status = "deleted"
    BY GcKeeps
<1>3. JournalGrows
    BY <1>2 DEF JournalGrows
<1>4. \A r \in RunIds : r \notin S => runs'[r] = runs[r]
    BY DEF Gc
<1> QED BY <1>1, <1>2, <1>3, <1>4, TablePosts

\* Time moves timers, delays and wake-up times only.
LEMMA TickPosts ==
    ASSUME Tables, Memory, SnapRecorded, UnknownYet, Tick
    PROVE  Posts
<1>1. UNCHANGED <<journal, sweep, client, faults, effects>>
    BY DEF Tick, bounds
<1>2. RowsKept
    BY TickKeeps
<1>3. RowsGrow /\ ParentsKept
    BY <1>2, KeptGrow
<1>4. \A r \in RunIds : runs'[r].status = runs[r].status
    BY DEF Tick, Tables, Columns
<1>5. DOMAIN exec' = Procs /\ \A q \in Procs :
        /\ DOMAIN exec'[q] = DOMAIN exec[q]
        /\ exec'[q].pc = exec[q].pc /\ exec'[q].run = exec[q].run
        /\ exec'[q].job = exec[q].job /\ exec'[q].snap = exec[q].snap
        /\ exec'[q].step = exec[q].step /\ exec'[q].child = exec[q].child
        /\ exec[q] = Idle => exec'[q] = Idle
    <2>1. DOMAIN exec' = Procs
        BY DEF Tick
    <2>2. \A q \in Procs : exec'[q] = [exec[q] EXCEPT !.wake = Down(@)]
        BY DEF Tick
    <2>3. ASSUME NEW q \in Procs
          PROVE  /\ DOMAIN exec'[q] = DOMAIN exec[q]
                 /\ exec'[q].pc = exec[q].pc /\ exec'[q].run = exec[q].run
                 /\ exec'[q].job = exec[q].job /\ exec'[q].snap = exec[q].snap
                 /\ exec'[q].step = exec[q].step /\ exec'[q].child = exec[q].child
        <3>1. Fields \subseteq DOMAIN exec[q]
            BY DEF Memory, ExecShape
        <3>2. exec'[q] = [exec[q] EXCEPT !.wake = Down(@)]
            BY <2>2
        <3> QED BY <3>1, <3>2 DEF Fields
    <2>4. [Idle EXCEPT !.wake = Down(@)] = Idle
        BY DEF Idle, Down
    <2> QED BY <2>1, <2>2, <2>3, <2>4
<1>6. /\ DOMAIN jobs' = RunIds
      /\ \A r \in RunIds : /\ DOMAIN jobs'[r] = Slots
                           /\ \A s \in Slots : /\ DOMAIN jobs'[r][s] = DOMAIN jobs[r][s]
                                               /\ jobs'[r][s].state = jobs[r][s].state
    BY DEF Tick, Memory, JobShape
<1>7. Spending
    <2> SUFFICES ASSUME NEW r \in RunIds, NEW i \in Steps PROVE Spends(r, i)
        BY DEF Spending
    <2>1. StaysRecorded(r, i) /\ effects'[r][i] = effects[r][i]
        BY <1>1 DEF StaysRecorded
    <2>2. \A q \in Procs : MayRun(q, i)' <=> MayRun(q, i)
        BY <1>1, <1>5 DEF MayRun, At
    <2>3. Attempting(r, i)' = Attempting(r, i)
        BY <1>5, <2>2 DEF Attempting
    <2>4. StartsOf(r)' = StartsOf(r)
        BY <1>5 DEF StartsOf, Starts
    <2>5. ASSUME NEW q \in Procs, Wakes(q, r)' PROVE Wakes(q, r)
        <3>1. At(q, "wakeEnqueue") /\ ~At(q, "idle")
            BY <1>5, <2>5 DEF Wakes, At
        <3>2. exec[q].run \in RunIds /\ runs[exec[q].run].status # "none"
            BY <3>1, BusyKnown
        <3> QED BY <1>3, <1>5, <2>5, <3>1, <3>2 DEF ParentsKept, Wakes
    <2>6. WakesOf(r)' \subseteq WakesOf(r)
        BY <2>5 DEF WakesOf
    <2>7. \A s \in Slots : Unclaimed(r, s)' <=> Unclaimed(r, s)
        BY <1>5, <1>6 DEF Unclaimed, Orphaned
    <2>8. JobsOf(r)' = JobsOf(r)
        BY <2>7 DEF JobsOf
    <2>9. /\ WaitOf(r)' = WaitOf(r) /\ TriggersOf(r)' = TriggersOf(r)
          /\ SweepsOf(r)' = SweepsOf(r)
        BY <1>1, <1>4, SameClients DEF WaitOf
    <2>10. Drivers(r)' \subseteq Drivers(r)
        BY <2>4, <2>6, <2>8, <2>9 DEF Drivers
    <2> QED BY <2>1, <2>3, <2>10, Keeps
<1>8. Memory'
    <2>1. \A q \in Procs : ExecShape(q)'
        BY <1>5 DEF Memory, ExecShape, At
    <2>2. JobShape' /\ EffectShape'
        BY <1>1, <1>6 DEF Memory, JobShape, EffectShape
    <2>3. \A q \in Procs : SweepShape(q)'
        BY <1>1 DEF Memory, SweepShape
    <2> QED BY <1>1, <1>5, <2>1, <2>2, <2>3 DEF Memory
<1>9. SnapRecorded'
    <2>1. ASSUME NEW q \in Procs, NEW i \in Steps, exec[q].snap[i] # "none"
          PROVE  exec[q].run \in RunIds
        BY <2>1, IdleIs DEF Memory, ExecShape
    <2> QED BY <1>1, <1>4, <1>5, <2>1 DEF SnapRecorded
<1>10. UnknownYet'
    <2> SUFFICES ASSUME NEW r \in RunIds, runs'[r].status = "none" PROVE Unknown(r)'
        BY DEF UnknownYet
    <2>1. Unknown(r)
        BY <1>4 DEF UnknownYet
    <2>2. \A q \in RunIds : runs'[q].parent # r
        BY <1>2, <2>1 DEF RowsKept, RowKept, Unknown
    <2> QED BY <1>1, <1>5, <1>6, <2>1, <2>2 DEF Unknown
<1> QED BY <1>1, <1>7, <1>8, <1>9, <1>10 DEF Posts


-----------------------------------------------------------------------------
(* Deliveries and events *)

\* A delivery turns an unclaimed job into an attempt.
LEMMA ClaimPosts ==
    ASSUME Tables, Memory, SnapRecorded, UnknownYet, NEW p \in Procs, NEW R \in RunIds,
           NEW j \in Slots, Claim(p, R, j)
    PROVE  Posts
<1>1. UNCHANGED <<runs, journal, sweep, client, faults, effects>>
    BY DEF Claim, bounds, history
<1>2. /\ exec[p] = Idle /\ jobs[R][j].state = "pending" /\ runs[R].status # "none"
    BY DEF Claim, Memory, ExecShape, UnknownYet, Unknown
<1>3. /\ DOMAIN jobs' = RunIds
      /\ \A r \in RunIds : /\ DOMAIN jobs'[r] = Slots
                           /\ \A s \in Slots : DOMAIN jobs'[r][s] = DOMAIN jobs[r][s]
      /\ \A r \in RunIds, s \in Slots : ~(r = R /\ s = j) => jobs'[r][s] = jobs[r][s]
      /\ jobs'[R][j].state = "running"
    BY DEF Claim, Memory, JobShape
<1>4. /\ DOMAIN exec' = Procs /\ exec'[p].pc = "check" /\ exec'[p].run = R /\ exec'[p].job = j
      /\ exec'[p].snap = Idle.snap /\ exec'[p].child = 0 /\ DOMAIN exec'[p] = DOMAIN Idle
    BY DEF Claim, Idle
<1>5. ASSUME NEW q \in Procs, q # p
      PROVE  /\ DOMAIN exec'[q] = DOMAIN exec[q]
             /\ exec'[q].pc = exec[q].pc /\ exec'[q].run = exec[q].run
             /\ exec'[q].snap = exec[q].snap /\ exec'[q].step = exec[q].step
             /\ exec'[q].child = exec[q].child
             /\ exec[q].run # R => exec'[q] = exec[q]
             /\ exec'[q].job = IF exec[q].run = R /\ exec[q].job = j THEN 0 ELSE exec[q].job
    <2>1. exec'[q] = IF exec[q].run = R /\ exec[q].job = j THEN [exec[q] EXCEPT !.job = 0]
                     ELSE exec[q]
        BY <1>5 DEF Claim
    <2> QED BY <2>1 DEF Memory, ExecShape, Fields
<1>6. RowsKept /\ JournalKept /\ ParentsKept
    BY <1>1, Untouched, KeptGrow
<1>7. Spending
    <2> SUFFICES ASSUME NEW r \in RunIds, NEW i \in Steps, runs[r].status # "deleted"
                 PROVE  Spends(r, i)
        BY DEF Spending
    <2>1. StaysRecorded(r, i) /\ effects'[r][i] = effects[r][i]
        BY <1>1 DEF StaysRecorded
    <2>2. ASSUME NEW q \in Procs, q # p PROVE MayRun(q, i)' <=> MayRun(q, i)
        BY <1>1, <1>5, <2>2 DEF MayRun, At
    <2>3. exec'[p].run = r /\ MayRun(p, i)' => r = R /\ journal[r][i] = "none"
        BY <1>1, <1>4 DEF MayRun, At
    <2>4. /\ Attempting(r, i)' \subseteq Attempting(r, i) \cup {<<"attempt", p>>}
          /\ ~(r = R /\ journal[r][i] = "none") => Attempting(r, i)' \subseteq Attempting(r, i)
        BY <1>5, <2>2, <2>3 DEF Attempting
    <2>5. StartsOf(r)' \subseteq StartsOf(r) /\ WakesOf(r)' \subseteq WakesOf(r)
        BY <1>1, <1>4, <1>5 DEF StartsOf, WakesOf, Starts, Wakes, At
    <2>6. /\ WaitOf(r)' = WaitOf(r) /\ TriggersOf(r)' = TriggersOf(r)
          /\ SweepsOf(r)' = SweepsOf(r)
        BY <1>1, SameClients DEF WaitOf
    <2>7. ASSUME NEW s \in Slots, Unclaimed(r, s)' PROVE Unclaimed(r, s) /\ ~(r = R /\ s = j)
        <3>1. ~(r = R /\ s = j)
            BY <1>3, <1>4, <2>7 DEF Unclaimed, Orphaned
        <3>2. jobs'[r][s] = jobs[r][s]
            BY <1>3, <3>1
        <3>3. ASSUME NEW q \in Procs, exec[q].run = r, exec[q].job = s
              PROVE  exec'[q].run = r /\ exec'[q].job = s
            BY <1>2, <1>5, <3>1, <3>3, IdleIs
        <3> QED BY <2>7, <3>1, <3>2, <3>3 DEF Unclaimed, Orphaned
    <2> DEFINE a == <<"job", j>>
    <2>8. JobsOf(r)' \subseteq JobsOf(r) /\ (r = R => a \notin JobsOf(r)')
        BY <2>7 DEF JobsOf
    <2>9. CASE ~(r = R /\ journal[r][i] = "none")
        <3>1. Drivers(r)' \subseteq Drivers(r)
            BY <2>5, <2>6, <2>8 DEF Drivers
        <3> QED BY <2>1, <2>4, <2>9, <3>1, Keeps
    <2>10. CASE r = R /\ journal[r][i] = "none"
        <3>1. a \in JobsOf(r)
            BY <1>2, <2>10 DEF JobsOf, Unclaimed
        <3>2. a \notin WaitOf(r) \cup StartsOf(r) \cup WakesOf(r) \cup TriggersOf(r)
                       \cup SweepsOf(r) \cup Attempting(r, i)
            BY Kinds
        <3>3. a \in Chances(r, i)
            BY <2>10, <3>1 DEF Chances, Drivers
        <3>4. Drivers(r)' \subseteq Drivers(r) \ {a}
            BY <2>5, <2>6, <2>8, <2>10, <3>2 DEF Drivers
        <3>5. PICK b : b = <<"attempt", p>>
            OBVIOUS
        <3>6. Chances(r, i)' \subseteq (Chances(r, i) \ {a}) \cup {b}
            BY <2>4, <2>10, <3>2, <3>4, <3>5 DEF Chances
        <3> HIDE DEF a
        <3> QED BY <2>1, <3>3, <3>6 DEF Spends
    <2> QED BY <2>9, <2>10
<1>8. Memory'
    <2>1. ExecShape(p)'
        BY <1>4, IdleIs DEF ExecShape, At
    <2>2. ASSUME NEW q \in Procs, q # p PROVE ExecShape(q)'
        <3>1. At(q, "idle") => exec[q].run # R
            BY <2>2, IdleIs DEF Memory, ExecShape
        <3> QED BY <1>5, <2>2, <3>1 DEF Memory, ExecShape, At
    <2>3. JobShape' /\ EffectShape'
        BY <1>1, <1>3 DEF Memory, JobShape, EffectShape
    <2>4. \A q \in Procs : SweepShape(q)'
        BY <1>1 DEF Memory, SweepShape
    <2> QED BY <1>1, <1>4, <2>1, <2>2, <2>3, <2>4 DEF Memory
<1>9. SnapRecorded'
    BY <1>1, <1>4, <1>5, IdleIs DEF SnapRecorded
<1>10. UnknownYet'
    <2> SUFFICES ASSUME NEW r \in RunIds, runs'[r].status = "none" PROVE Unknown(r)'
        BY DEF UnknownYet
    <2>1. Unknown(r) /\ r # R
        BY <1>1, <1>2 DEF UnknownYet
    <2>2. \A q \in Procs : exec'[q].run # r /\ exec'[q].child # r
        BY <1>4, <1>5, <2>1, IdleIs DEF Unknown
    <2> QED BY <1>1, <1>3, <2>1, <2>2 DEF Unknown
<1> QED BY <1>1, <1>7, <1>8, <1>9, <1>10 DEF Posts


\* An emit turns the waits that match into jobs, and opens the accounts of the
\* runs it creates.
LEMMA EmitPosts ==
    ASSUME Tables, Fresh, Memory, SnapRecorded, UnknownYet, NEW e \in Events,
           NEW payload \in Payloads, Emit(e, payload)
    PROVE  Posts
<1>1. UNCHANGED <<exec, sweep, client, faults, effects>>
    BY DEF Emit, history
<1>2. PICK new \in TriggeredRuns(e) :
        /\ runs' = [r \in RunIds |->
                      IF Matches(r, e, payload)
                      THEN [runs[r] EXCEPT !.status = "runnable", !.wait = 0, !.timer = -1]
                      ELSE IF r \in DOMAIN new THEN NewRun(new[r], 0, 0, NoKey)
                      ELSE runs[r]]
        /\ Enqueue({r \in RunIds : Matches(r, e, payload)} \cup DOMAIN new, 0)
    BY DEF Emit
<1>3. PICK M, N, R : /\ M = {r \in RunIds : Matches(r, e, payload)} /\ N = DOMAIN new
                     /\ R = M \cup N
    OBVIOUS
<1>4. Enqueue(R, 0)
    BY <1>2, <1>3
<1>5. ASSUME NEW r \in N, r \in RunIds PROVE runs[r].status = "none"
    <2>1. r >= nextRun
        BY <1>3, <1>5 DEF TriggeredRuns
    <2> QED BY <1>5, <2>1 DEF Fresh
<1>6. /\ \A r \in RunIds : r \notin R => runs'[r] = runs[r]
      /\ \A r \in M : /\ r \in RunIds /\ runs[r].status = "waitEvent"
                      /\ runs'[r].status = "runnable" /\ runs'[r].parent = runs[r].parent
      /\ \A r \in N : r \in RunIds /\ r \notin M =>
                         runs'[r].status = "runnable" /\ runs'[r].parent = 0
    BY <1>2, <1>3 DEF Matches, NewRun, Tables, Columns
<1>7. RowsGrow /\ ParentsKept
    <2>1. RowsGrow
        BY <1>3, <1>5, <1>6 DEF RowsGrow
    <2> QED BY <2>1, KeptGrow
<1>8. JournalKept /\ JournalGrows
    BY EmitKeeps, KeptGrow
<1>9. HoldersKept
    BY <1>1 DEF HoldersKept
<1>10. ASSUME NEW r \in RunIds
       PROVE  /\ r \notin R => JobsOf(r)' = JobsOf(r) /\ jobs'[r] = jobs[r]
              /\ \E b : JobsOf(r)' \subseteq JobsOf(r) \cup {b}
              /\ JobShape'
    <2>1. r \notin R => jobs'[r] = jobs[r]
        BY <1>4, PushElsewhere
    <2> QED BY <1>4, <1>9, <2>1, Pushed
<1>11. Spending
    <2> SUFFICES ASSUME NEW r \in RunIds, NEW i \in Steps, runs[r].status # "deleted"
                 PROVE  Spends(r, i)
        BY DEF Spending
    <2>1. StaysRecorded(r, i) /\ effects'[r][i] = effects[r][i]
        BY <1>1, <1>8 DEF StaysRecorded, JournalKept
    <2>2. /\ Attempting(r, i)' \subseteq Attempting(r, i)
          /\ StartsOf(r)' = StartsOf(r) /\ WakesOf(r)' \subseteq WakesOf(r)
        BY <1>1, <1>7, <2>1, StillChances
    <2>3. TriggersOf(r)' = TriggersOf(r) /\ SweepsOf(r)' = SweepsOf(r)
        BY <1>1, SameClients
    <2>4. PICK b : JobsOf(r)' \subseteq JobsOf(r) \cup {b}
        BY <1>10
    <2>5. CASE r \notin R
        <3>1. WaitOf(r)' = WaitOf(r) /\ JobsOf(r)' = JobsOf(r)
            BY <1>6, <1>10, <2>5 DEF WaitOf
        <3>2. Drivers(r)' \subseteq Drivers(r)
            BY <2>2, <2>3, <3>1 DEF Drivers
        <3> QED BY <2>1, <2>2, <3>2, Keeps
    <2>6. CASE r \in M
        <3> DEFINE a == <<"wait", 0>>
        <3>1. WaitOf(r)' = {} /\ a \in WaitOf(r)
            BY <1>6, <2>6 DEF WaitOf
        <3>2. a \notin JobsOf(r) \cup StartsOf(r) \cup WakesOf(r) \cup TriggersOf(r) \cup SweepsOf(r)
            BY Kinds
        <3>3. a \in Drivers(r)
            BY <3>1 DEF Drivers
        <3>4. Drivers(r)' \subseteq (Drivers(r) \ {a}) \cup {b}
            BY <2>2, <2>3, <2>4, <3>1, <3>2 DEF Drivers
        <3> HIDE DEF a
        <3> QED BY <2>1, <2>2, <3>3, <3>4, Swaps
    <2>7. CASE r \in N /\ r \notin M
        <3>1. runs[r].status = "none" /\ runs'[r].status = "runnable"
            BY <1>5, <1>6, <2>7
        <3>2. Unknown(r)
            BY <3>1 DEF UnknownYet
        <3>3. \A q \in RunIds : runs[q].status # "none" => runs'[q].parent # r
            BY <1>7, <3>2 DEF ParentsKept, Unknown
        <3>4. /\ Attempting(r, i)' = {} /\ WaitOf(r)' = {} /\ WakesOf(r)' = {}
              /\ SweepsOf(r)' = {} /\ JobsOf(r) = {} /\ TriggersOf(r) = {} /\ StartsOf(r) = {}
              /\ effects[r][i] = 0
            BY <1>1, <3>1, <3>3, NewChances DEF At
        <3>5. Chances(r, i)' \subseteq {b}
            BY <2>2, <2>3, <2>4, <3>4 DEF Chances, Drivers
        <3> QED BY <2>1, <3>4, <3>5 DEF Spends
    <2> QED BY <1>3, <2>5, <2>6, <2>7
<1>12. Memory' /\ SnapRecorded' /\ UnknownYet'
    <2>1. JobShape'
        <3>1. 1 \in RunIds
            BY BoundsAssumption DEF RunIds
        <3> QED BY <1>10, <3>1
    <2>2. /\ \A q \in Procs : SweepShape(q)'
          /\ DOMAIN client' = Procs /\ DOMAIN sweep' = Procs
        BY <1>1 DEF Memory, SweepShape
    <2>3. \A r \in RunIds : runs'[r].status = "none" => Unknown(r) /\ r \notin R
        BY <1>3, <1>6, <1>7 DEF UnknownYet, RowsGrow
    <2>4. \A r \in RunIds : runs'[r].status = "none" => \A q \in RunIds : runs'[q].parent # r
        <3>1. \A q \in RunIds : runs'[q].parent \in {runs[q].parent, 0}
            BY <1>3, <1>6
        <3> QED BY <2>3, <3>1, IdleIs DEF Unknown
    <2>5. \A r \in RunIds : runs'[r].status = "none" =>
               /\ \A q \in Procs : client'[q] # r /\ \A x \in sweep'[q].todo : x[1] # r
               /\ \A s \in Slots : jobs'[r][s].state \notin {"pending", "running"}
               /\ \A q \in RunIds : runs'[q].parent # r
        BY <1>1, <1>10, <2>3, <2>4 DEF Unknown
    <2> QED BY <1>1, <1>7, <1>8, <2>1, <2>2, <2>5, StillShape
<1> QED BY <1>1, <1>11, <1>12 DEF Posts


-----------------------------------------------------------------------------
(* The theorems about re-execution *)

\* Every step of an attempt spends as it may.
LEMMA AttemptPosts ==
    ASSUME Tables, Fresh, Memory, SnapRecorded, UnknownYet, NEW p \in Procs, Attempt(p)
    PROVE  Posts
<1>1. CASE CheckRun(p) \/ Recheck(p) \/ ReplayLook(p) \/ (InvokeLookup(p) /\ Go(p, "insert"))
    BY <1>1, PlacePosts
<1>2. CASE LoadJournal(p)
    BY <1>2, LoadPosts
<1>3. CASE Finish(p) \/ BodyFails(p) \/ Suspend(p)
    BY <1>3, OutcomePosts
<1>4. CASE BodyDone(p)
    BY <1>4, BodyPosts
<1>5. CASE RecordStep(p)
    BY <1>5, RecordPosts
<1>6. CASE RunCompleted(p) \/ RunFailed(p) \/ RunSleeping(p) \/ InvokeUnknown(p)
    BY <1>6, StatusPosts
<1>7. CASE SleepRecord(p) \/ ReplayRecord(p) \/ SettleRecord(p) \/ StepFailedAttempt(p)
    BY <1>7, NotePosts
<1>8. CASE SleepEnqueue(p) \/ StepRetryEnqueue(p) \/ ReplayEnqueue(p)
    BY <1>8, PushPosts
<1>9. CASE RunWaitingEvent(p) \/ InvokePark(p) \/ ParkAgain(p)
    BY <1>9, WaitPosts
<1>10. CASE InvokeInsert(p) \/ (InvokeLookup(p) /\ ~Go(p, "insert"))
    BY <1>10, InvokePosts
<1>11. CASE InvokeEnqueue(p)
    BY <1>11, StartPosts
<1>12. CASE WakeParent(p)
    BY <1>12, WakePosts
<1>13. CASE WakeEnqueue(p)
    BY <1>13, WakeEnqueuePosts
<1>14. CASE Ack(p)
    BY <1>14, AckPosts
<1>15. CASE Nack(p)
    BY <1>15, NackPosts
<1> QED BY <1>1, <1>2, <1>3, <1>4, <1>5, <1>6, <1>7, <1>8, <1>9, <1>10, <1>11, <1>12,
           <1>13, <1>14, <1>15 DEF Attempt

\* Every step of the system does.
LEMMA NextPosts ==
    ASSUME Sound, Memory, SnapRecorded, UnknownYet, [Next]_vars
    PROVE  Posts
<1> Tables /\ Fresh
    BY DEF Sound
<1>0. ASSUME UNCHANGED <<runs, journal, jobs, exec, sweep, client, faults, effects>> PROVE Posts
    <2>1. RowsKept /\ JournalGrows
        BY <1>0, Untouched, KeptGrow
    <2> QED BY <1>0, <2>1, TablePosts
<1>1. ASSUME NEW p \in Procs, TriggerInsert(p) PROVE Posts
    <2>1. CASE UNCHANGED <<nextRun, runs, client>>
        BY <1>0, <1>1, <2>1 DEF TriggerInsert, bounds
    <2>2. CASE ~UNCHANGED <<nextRun, runs, client>>
        BY <1>1, <2>2, TriggerPosts DEF TriggerInsert
    <2> QED BY <2>1, <2>2
<1>15. ASSUME NEW p \in Procs, NEW w \in Entry, NEW k \in Keys, TriggerLookup(p, w, k)
       PROVE  Posts
    BY <1>0, <1>15 DEF TriggerLookup
<1>2. ASSUME NEW p \in Procs, TriggerEnqueue(p) PROVE Posts
    BY <1>2, TriggerEnqueuePosts
<1>3. ASSUME NEW p \in Procs, NEW r \in RunIds, NEW i \in Slots, Claim(p, r, i) PROVE Posts
    BY <1>3, ClaimPosts
<1>4. ASSUME NEW p \in Procs, Attempt(p) PROVE Posts
    BY <1>4, AttemptPosts
<1>5. ASSUME NEW r \in RunIds, NEW i \in Slots, LeaseExpires(r, i) PROVE Posts
    BY <1>5, LeasePosts
<1>6. ASSUME NEW e \in Events, NEW payload \in Payloads, Emit(e, payload) PROVE Posts
    BY <1>6, EmitPosts
<1>7. ASSUME NEW p \in Procs, TimeoutSweep(p) PROVE Posts
    BY <1>7, ReleasePosts, SweepRecordPosts, SweepEnqueuePosts DEF TimeoutSweep
<1>8. ASSUME NEW r \in RunIds, Cancel(r) PROVE Posts
    BY <1>8, CancelPosts
<1>9. ASSUME NEW S \in SUBSET RunIds, Gc(S) PROVE Posts
    BY <1>9, GcPosts
<1>10. ASSUME NEW p \in Procs, Crash(p) PROVE Posts
    BY <1>10, CrashPosts
<1>11. ASSUME NEW p \in Procs, StoreError(p) PROVE Posts
    BY <1>11, CrashPosts, StoreErrorPosts
<1>12. ASSUME NEW p \in Procs, SweepError(p) \/ TriggerError(p) PROVE Posts
    BY <1>12, GiveUpPosts
<1>13. CASE Tick
    BY <1>13, TickPosts
<1>14. CASE UNCHANGED vars
    BY <1>0, <1>14 DEF vars
<1> QED BY <1>1, <1>15, <1>2, <1>3, <1>4, <1>5, <1>6, <1>7, <1>8, <1>9, <1>10, <1>11, <1>12,
           <1>13, <1>14 DEF Next

\* A run that the GC took does not come back.
LEMMA NoneRevived ==
    ASSUME Sound, [Next]_vars, NEW r \in RunIds, runs[r].status = "deleted"
    PROVE  runs'[r].status = "deleted"
<1> Tables /\ Fresh
    BY DEF Sound
<1>1. CASE RowsKept
    BY <1>1 DEF RowsKept, RowKept, Exists
<1>2. r # nextRun
    BY DEF Fresh, RunIds
<1>3. ASSUME NEW run, Create(run) PROVE runs'[r] = runs[r]
    BY <1>2, <1>3 DEF Create, Tables
<1>4. ASSUME NEW p \in Procs, TriggerInsert(p) PROVE runs'[r] = runs[r]
    BY <1>3, <1>4 DEF TriggerInsert
<1>5. ASSUME NEW p \in Procs, InvokeInsert(p) PROVE runs'[r] = runs[r]
    BY <1>3, <1>5 DEF InvokeInsert
<1>6. ASSUME NEW e \in Events, NEW payload \in Payloads, Emit(e, payload)
      PROVE  runs'[r] = runs[r]
    <2>1. ~Matches(r, e, payload)
        BY DEF Matches
    <2>2. ASSUME NEW new \in TriggeredRuns(e) PROVE r \notin DOMAIN new
        <3>1. \A n \in DOMAIN new : n >= nextRun
            BY DEF TriggeredRuns
        <3> QED BY <3>1 DEF Fresh
    <2> QED BY <1>6, <2>1, <2>2 DEF Emit
<1>7. ASSUME NEW p \in Procs, Attempt(p), ~InvokeInsert(p) PROVE RowsKept
    BY <1>7, AttemptKeeps
<1>8. ASSUME NEW p \in Procs, TimeoutSweep(p) PROVE RowsKept
    BY <1>8, SweepKeeps
<1>9. ASSUME NEW root \in RunIds, Cancel(root) PROVE RowsKept
    BY <1>9, CancelKeeps
<1>10. ASSUME NEW S \in SUBSET RunIds, Gc(S) PROVE RowsKept
    BY <1>10, GcKeeps
<1>11. Tick => RowsKept
    BY TickKeeps
<1>12. ASSUME \/ \E p \in Procs : TriggerEnqueue(p) \/ Crash(p) \/ StoreError(p)
                                  \/ SweepError(p) \/ TriggerError(p)
              \/ \E p \in Procs, w \in Entry, k \in Keys : TriggerLookup(p, w, k)
              \/ \E p \in Procs, q \in RunIds, i \in Slots : Claim(p, q, i)
              \/ \E q \in RunIds, i \in Slots : LeaseExpires(q, i)
              \/ UNCHANGED vars
       PROVE  RowsKept
    BY <1>12, OtherKeeps
<1> QED BY <1>1, <1>4, <1>5, <1>6, <1>7, <1>8, <1>9, <1>10, <1>11, <1>12 DEF Next

\* The ledger is kept.
LEMMA LedgerStep ==
    ASSUME Sound, Ledger, [Next]_vars
    PROVE  Ledger'
<1>1. Posts
    BY NextPosts DEF Ledger
<1>2. ASSUME NEW r \in RunIds, NEW i \in Steps, runs'[r].status # "deleted"
      PROVE  Account(r, i)'
    <2>1. runs[r].status # "deleted"
        BY <1>2, NoneRevived
    <2>2. Account(r, i)
        BY <2>1 DEF Ledger, Accounts
    <2>3. Spends(r, i) /\ faults' \in {faults, faults + 1}
        BY <1>1, <1>2, <2>1 DEF Posts, Spending
    <2>4. faults \in Nat
        BY DEF Ledger, Memory
    <2> QED BY <2>2, <2>3, <2>4, Balance
<1>3. Accounts'
    BY <1>2 DEF Accounts
<1> QED BY <1>1, <1>3 DEF Ledger, Posts

\* Nothing has happened yet: all accounts are empty.
LEMMA LedgerInit == Init => Ledger
<1> SUFFICES ASSUME Init PROVE Ledger
    OBVIOUS
<1>1. \A p \in Procs : exec[p] = Idle /\ sweep[p] = NoSweep /\ client[p] = 0
    BY DEF Init
<1>2. /\ \A r \in RunIds : /\ runs[r].status = "none" /\ runs[r].parent = 0
                           /\ \A s \in Slots : jobs[r][s].state = "free"
                           /\ \A i \in Steps : effects[r][i] = 0
      /\ faults = 0
    BY DEF Init, NoRun, NoJob
<1>3. Memory
    <2>1. \A p \in Procs : ExecShape(p)
        BY <1>1, IdleIs DEF ExecShape, At
    <2>2. \A p \in Procs : SweepShape(p)
        BY <1>1 DEF SweepShape, NoSweep
    <2>3. JobShape /\ EffectShape
        BY DEF Init, JobShape, EffectShape, NoJob
    <2> QED BY <2>1, <2>2, <2>3 DEF Init, Memory
<1>4. SnapRecorded
    BY <1>1, IdleIs DEF SnapRecorded
<1>5. UnknownYet
    BY <1>1, <1>2, IdleIs DEF UnknownYet, Unknown, NoSweep
<1>6. ASSUME NEW r \in RunIds, NEW i \in Steps PROVE Account(r, i)
    <2>1. Attempting(r, i) = {} /\ StartsOf(r) = {} /\ WakesOf(r) = {}
        BY <1>1, IdleIs DEF Attempting, MayRun, StartsOf, Starts, WakesOf, Wakes, At
    <2>2. JobsOf(r) = {} /\ WaitOf(r) = {}
        BY <1>2 DEF JobsOf, Unclaimed, Orphaned, WaitOf
    <2>3. TriggersOf(r) = {} /\ SweepsOf(r) = {}
        BY <1>1, IdleIs DEF TriggersOf, SweepsOf, NoSweep
    <2>4. Chances(r, i) = {}
        BY <2>1, <2>2, <2>3 DEF Chances, Drivers
    <2>5. IsFiniteSet({}) /\ Cardinality({}) = 0
        BY FS_EmptySet
    <2> QED BY <1>2, <2>4, <2>5 DEF Account
<1> QED BY <1>3, <1>4, <1>5, <1>6 DEF Ledger, Accounts

\* In every reachable state the bodies of a step that finished and those that
\* may still finish are no more than one and the faults so far, for every run
\* that is retained.
THEOREM LedgerBalances == Spec => []Ledger
<1>1. Sound /\ Ledger /\ [Next]_vars => Ledger'
    BY LedgerStep
<1> QED BY <1>1, LedgerInit, SoundAlways, PTL DEF Spec

\* The bound on re-execution, for the runs that the GC has not taken.
RetainedBounded ==
    \A r \in RunIds, i \in Steps : runs[r].status # "deleted" => effects[r][i] <= 1 + faults

\* "Re-execution bounded by the kill count", whichever attempts, zombies,
\* sweeps, emits and children interleave, and whatever the GC takes meanwhile.
THEOREM RetainedEffectsBounded == Spec => []RetainedBounded
<1>1. Ledger => RetainedBounded
    <2> SUFFICES ASSUME Ledger, NEW r \in RunIds, NEW i \in Steps, runs[r].status # "deleted"
                 PROVE  effects[r][i] <= 1 + faults
        BY DEF RetainedBounded
    <2>1. Account(r, i) /\ faults \in Nat
        BY DEF Ledger, Accounts, Memory
    <2>2. Cardinality(Chances(r, i)) \in Nat
        BY <2>1, FS_CardinalityType DEF Account
    <2> QED BY <2>1, <2>2 DEF Account
<1> QED BY <1>1, LedgerBalances, PTL

\* Without retention configured no run is ever deleted.
THEOREM NothingDeleted ==
    ASSUME Collects = FALSE
    PROVE  Spec => [](\A r \in RunIds : runs[r].status # "deleted")
<1> DEFINE Kept == \A r \in RunIds : runs[r].status # "deleted"
<1>1. Init => Kept
    BY DEF Init, NoRun
<1>2. Sound /\ Kept /\ [Next]_vars => Kept'
    <2> SUFFICES ASSUME Sound, Kept, [Next]_vars PROVE Kept'
        OBVIOUS
    <2>1. ~\E S \in SUBSET RunIds : Gc(S)
        BY DEF Gc
    <2>2. NoDelete
        BY <2>1, SoundStep
    <2> QED BY <2>2 DEF NoDelete
<1> HIDE DEF Kept
<1>3. Spec => []Kept
    BY <1>1, <1>2, SoundAlways, PTL DEF Spec
<1> QED BY <1>3 DEF Kept

\* Then the bound is the one of the documentation, for every run.
THEOREM ReexecutionBounded ==
    ASSUME Collects = FALSE
    PROVE  Spec => []EffectsBounded
<1> DEFINE Kept == \A r \in RunIds : runs[r].status # "deleted"
<1>1. RetainedBounded /\ Kept => EffectsBounded
    BY DEF RetainedBounded, EffectsBounded
<1>2. Spec => []Kept
    BY NothingDeleted
<1> HIDE DEF Kept
<1> QED BY <1>1, <1>2, RetainedEffectsBounded, PTL

-----------------------------------------------------------------------------
(* Cancellation reaches the children *)

\* Where an attempt works on a run it has found active, or past its last look.
Working == {"load", "exec", "record", "recheck"} \cup PastStopping

\* An attempt past its last look at a cancelled run was there when the cancel
\* came: a later one is stopped by the second get_run.
LastLooks ==
    \A p \in Procs :
        runs[exec[p].run].status = "cancelled" /\ exec[p].pc \in PastStopping
            => exec[p].run \in raced

\* Run c is over, and no attempt is left that could revive it.
Over(c) ==
    \/ runs[c].status \in {"none", "cancelled", "deleted"}
    \/ /\ runs[c].status \in {"completed", "failed"}
       /\ \A p \in Procs : exec[p].pc \in Working => exec[p].run # c

\* The children of a cancelled run are over, unless an attempt of the run or of
\* the child could not be stopped any more.
ChildrenOver ==
    \A r, c \in RunIds :
        /\ runs[r].status = "cancelled" /\ runs[c].parent = r
        /\ r \notin raced /\ c \notin raced
        => Over(c)

Statuses == {"none", "deleted"} \cup Active \cup Waiting \cup Terminal

Family ==
    /\ \A r \in RunIds : runs[r].status \in Statuses
    /\ LastLooks /\ ChildrenOver

\* An attempt is about to write the status of run c, or a child of it.
Writes(c) == \E p \in Procs : exec[p].run = c /\ exec[p].pc \in PastStopping

\* Where a status other than "cancelled" comes from: it was there, a waiting run
\* is woken, an attempt past its last look wrote it, or the run is new.
StatusFrom(c) ==
    \/ runs'[c].status \in {"none", "cancelled", "deleted"}
    \/ /\ runs'[c].parent = runs[c].parent
       /\ \/ runs'[c].status = runs[c].status
          \/ runs[c].status \in Waiting
          \/ Exists(c) /\ Writes(c)
    \/ runs'[c].parent = 0 \/ Writes(runs'[c].parent)

\* Where the place of an attempt comes from: work starts on an active run, and
\* the last look is at one that is not cancelled.
PlaceFrom(p) ==
    exec'[p].pc \in Working =>
        /\ exec'[p].run = exec[p].run
        /\ exec[p].pc \in Working \/ runs[exec[p].run].status \in Active
        /\ exec'[p].pc \in PastStopping =>
              \/ exec[p].pc \in PastStopping
              \/ exec[p].pc = "recheck" /\ runs[exec[p].run].status # "cancelled"

Orderly ==
    /\ NoCancel
    /\ \A c \in RunIds : runs'[c].status \in Statuses /\ StatusFrom(c)
    /\ \A p \in Procs : PlaceFrom(p)
    /\ raced' = raced

\* Steps other than a cancel keep the children of cancelled runs over.
LEMMA OrderlyKeeps ==
    ASSUME Memory, Family, Orderly
    PROVE  Family'
<1>1. ASSUME NEW p \in Procs, runs'[exec'[p].run].status = "cancelled",
             exec'[p].pc \in PastStopping
      PROVE  exec'[p].run \in raced'
    <2>1. /\ exec'[p].run = exec[p].run
          /\ \/ exec[p].pc \in PastStopping
             \/ exec[p].pc = "recheck" /\ runs[exec[p].run].status # "cancelled"
        BY <1>1 DEF Orderly, PlaceFrom, Working
    <2>2. exec[p].run \in RunIds
        BY <2>1 DEF Memory, ExecShape, At, PastStopping
    <2>3. runs[exec[p].run].status = "cancelled"
        BY <1>1, <2>1, <2>2 DEF Orderly, NoCancel
    <2> QED BY <2>1, <2>3 DEF Family, LastLooks, Orderly
<1>2. ASSUME NEW r \in RunIds, NEW c \in RunIds, runs'[r].status = "cancelled",
             runs'[c].parent = r, r \notin raced', c \notin raced'
      PROVE  Over(c)'
    <2>1. runs[r].status = "cancelled" /\ r \notin raced /\ c \notin raced
        BY <1>2 DEF Orderly, NoCancel
    <2>2. ~Writes(r)
        BY <2>1 DEF Writes, Family, LastLooks
    <2>3. r # 0
        BY DEF RunIds
    <2>4. CASE runs'[c].status \in {"none", "cancelled", "deleted"}
        BY <2>4 DEF Over
    <2>5. CASE runs'[c].status \notin {"none", "cancelled", "deleted"}
        <3>1. /\ runs'[c].parent = runs[c].parent
              /\ \/ runs'[c].status = runs[c].status
                 \/ runs[c].status \in Waiting
                 \/ Exists(c) /\ Writes(c)
            BY <1>2, <2>2, <2>3, <2>5 DEF Orderly, StatusFrom
        <3>2. Over(c)
            BY <1>2, <2>1, <3>1 DEF Family, ChildrenOver
        <3>3. ~(Exists(c) /\ Writes(c))
            BY <2>1, <3>2 DEF Over, Exists, Writes, Working, Family, LastLooks
        <3>4. runs'[c].status = runs[c].status /\ runs[c].status \in {"completed", "failed"}
            BY <2>5, <3>1, <3>2, <3>3 DEF Over
        <3>5. ASSUME NEW p \in Procs, exec'[p].pc \in Working PROVE exec'[p].run # c
            BY <3>2, <3>4, <3>5 DEF Over, Orderly, PlaceFrom
        <3> QED BY <3>4, <3>5 DEF Over
    <2> QED BY <2>4, <2>5
<1> QED BY <1>1, <1>2 DEF Family, LastLooks, ChildrenOver, Orderly

\* The walk takes the live children of every run it takes.
LEMMA TreeClosed ==
    ASSUME NEW root \in RunIds, NEW r \in CancelTree(root), NEW c \in RunIds,
           runs[c].parent = r, Live(c)
    PROVE  c \in CancelTree(root)
<1> DEFINE live == {q \in RunIds : Live(q)}
           parent == [q \in RunIds |-> runs[q].parent]
<1>1. PICK T \in SUBSET live : r \in T /\ \A t \in T : t = root \/ parent[t] \in T
    BY DEF CancelTree, Walked
<1>2. /\ T \cup {c} \in SUBSET live
      /\ \A t \in T \cup {c} : t = root \/ parent[t] \in T \cup {c}
    BY <1>1
<1> QED BY <1>2 DEF CancelTree, Walked

\* A cancel takes the live children with it; what it cannot stop is in `raced`.
LEMMA CancelFamily ==
    ASSUME Sound, Memory, Family, NEW root \in RunIds, Cancel(root)
    PROVE  Family'
<1>1. /\ exec' = exec /\ raced' = raced \cup Races
      /\ \A r \in RunIds : r \in CancelTree(root) => runs'[r].status = "cancelled"
      /\ \A r \in RunIds : r \notin CancelTree(root) => runs'[r] = runs[r]
    <2>1. \A r \in RunIds : r \in CancelTree(root) => runs'[r].status = "cancelled"
        BY DEF Cancel, Sound, Tables, Columns
    <2> QED BY <2>1 DEF Cancel
<1>2. RowsKept
    BY CancelKeeps DEF Sound
<1>3. ASSUME NEW p \in Procs, exec[p].pc \in PastStopping PROVE exec[p].run \in Races
    BY <1>3 DEF Races, Unstoppable, Memory, ExecShape, At, PastStopping
<1>4. LastLooks'
    BY <1>1, <1>3 DEF LastLooks
<1>5. ASSUME NEW r \in RunIds, NEW c \in RunIds, runs'[r].status = "cancelled",
             runs'[c].parent = r, r \notin raced', c \notin raced'
      PROVE  Over(c)'
    <2>1. runs[c].parent = r
        BY <1>2, <1>5 DEF RowsKept, RowKept
    <2>2. CASE c \in CancelTree(root)
        BY <1>1, <2>2 DEF Over
    <2>3. CASE c \notin CancelTree(root) /\ r \in CancelTree(root)
        <3>1. ~Live(c)
            BY <2>1, <2>3, TreeClosed
        <3>2. runs'[c] = runs[c]
            BY <1>1, <2>3
        <3>3. ASSUME NEW p \in Procs, exec[p].pc \in Working, exec[p].run = c,
                     runs[c].status \in {"completed", "failed"}
              PROVE  FALSE
            BY <1>1, <1>5, <3>3 DEF Working, Races, Unstoppable
        <3>4. runs[c].status \in {"none", "cancelled", "deleted", "completed", "failed"}
            BY <3>1 DEF Live, Family, Statuses
        <3> QED BY <1>1, <3>2, <3>3, <3>4 DEF Over
    <2>4. CASE c \notin CancelTree(root) /\ r \notin CancelTree(root)
        <3>1. Over(c)
            BY <1>1, <1>5, <2>1, <2>4 DEF Family, ChildrenOver
        <3> QED BY <1>1, <2>4, <3>1 DEF Over
    <2> QED BY <2>2, <2>3, <2>4
<1>6. \A r \in RunIds : runs'[r].status \in Statuses
    BY <1>1 DEF Family, Statuses
<1> QED BY <1>4, <1>5, <1>6 DEF Family, ChildrenOver, LastLooks

\* A step that writes no status leaves every run where it was.
LEMMA RunsFrom ==
    ASSUME Family, runs' = runs, NEW c \in RunIds
    PROVE  runs'[c].status \in Statuses /\ StatusFrom(c)
BY DEF Family, StatusFrom

\* An UPDATE of the status column by an attempt past its last look, or of a run
\* that waits.
LEMMA SetStatusFrom ==
    ASSUME Sound, Family, NEW r, NEW s \in {"runnable", "sleeping", "waitChild", "completed", "failed"},
           SetStatus(r, s), Writes(r) \/ runs[r].status \in Waiting, NEW c \in RunIds
    PROVE  runs'[c].status \in Statuses /\ StatusFrom(c)
<1>1. CASE runs' = runs
    BY <1>1, RunsFrom
<1>2. CASE Exists(r) /\ runs' = [runs EXCEPT ![r].status = s]
    <2>1. /\ runs'[c].parent = runs[c].parent
          /\ runs'[c].status = runs[c].status \/ (c = r /\ runs'[c].status = s)
        BY <1>2 DEF Sound, Tables, Columns
    <2> QED BY <1>2, <2>1 DEF StatusFrom, Family, Statuses
<1> QED BY <1>1, <1>2 DEF SetStatus

\* create_run, by a trigger call or by an attempt past its last look.
LEMMA CreateFrom ==
    ASSUME Sound, Family, NEW run, Create(run), run.status = "runnable",
           run.parent = 0 \/ Writes(run.parent), NEW c \in RunIds
    PROVE  runs'[c].status \in Statuses /\ StatusFrom(c)
<1>1. CASE c = nextRun
    BY <1>1 DEF Create, Sound, Tables, StatusFrom, Statuses
<1>2. CASE c # nextRun
    BY <1>2 DEF Create, Sound, Tables, StatusFrom, Family
<1> QED BY <1>1, <1>2

\* The statuses that an attempt writes.
LEMMA AttemptStatus ==
    ASSUME Sound, Family, NEW p \in Procs, Attempt(p), NEW c \in RunIds
    PROVE  runs'[c].status \in Statuses /\ StatusFrom(c)
<1>1. CASE \/ CheckRun(p) \/ LoadJournal(p) \/ Finish(p) \/ BodyDone(p) \/ RecordStep(p)
           \/ BodyFails(p) \/ Suspend(p) \/ Recheck(p) \/ SleepRecord(p) \/ SleepEnqueue(p)
           \/ StepFailedAttempt(p) \/ StepRetryEnqueue(p) \/ InvokeLookup(p)
           \/ InvokeEnqueue(p) \/ ReplayLook(p) \/ ReplayRecord(p) \/ ReplayEnqueue(p)
           \/ SettleRecord(p) \/ WakeEnqueue(p) \/ Ack(p) \/ Nack(p)
    <2>1. runs' = runs
        BY <1>1 DEF CheckRun, LoadJournal, Finish, BodyDone, RecordStep, BodyFails, Suspend,
            Recheck, SleepRecord, SleepEnqueue, StepFailedAttempt, StepRetryEnqueue,
            InvokeLookup, InvokeEnqueue, ReplayLook, ReplayRecord, ReplayEnqueue,
            SettleRecord, WakeEnqueue, Ack, Nack, store
    <2> QED BY <2>1, RunsFrom
<1>2. CASE \/ RunCompleted(p) \/ RunFailed(p) \/ RunSleeping(p) \/ InvokeUnknown(p)
           \/ InvokePark(p) \/ ParkAgain(p)
    <2>1. \E s \in {"runnable", "sleeping", "waitChild", "completed", "failed"} :
              SetStatus(exec[p].run, s)
        BY <1>2 DEF RunCompleted, RunFailed, RunSleeping, InvokeUnknown, InvokePark, ParkAgain
    <2>2. Writes(exec[p].run)
        BY <1>2 DEF RunCompleted, RunFailed, RunSleeping, InvokeUnknown, InvokePark, ParkAgain,
                    Applies, At, Writes, PastStopping
    <2> QED BY <2>1, <2>2, SetStatusFrom
<1>3. CASE RunWaitingEvent(p)
    <2>1. Writes(exec[p].run)
        BY <1>3 DEF RunWaitingEvent, Applies, At, Writes, PastStopping
    <2>2. CASE runs' = runs
        BY <2>2, RunsFrom
    <2>3. CASE runs' # runs
        <3> DEFINE r == exec[p].run
        <3>1. Exists(r) /\ runs' = [runs EXCEPT ![r].status = "waitEvent",
                                                ![r].wait = exec[p].step,
                                                ![r].timer = exec[p].wake]
            BY <1>3, <2>3 DEF RunWaitingEvent
        <3> HIDE DEF r
        <3>2. /\ runs'[c].parent = runs[c].parent
              /\ runs'[c].status = runs[c].status \/ (c = r /\ runs'[c].status = "waitEvent")
            BY <3>1 DEF Sound, Tables, Columns
        <3>3. Writes(r)
            BY <2>1 DEF r
        <3> QED BY <3>1, <3>2, <3>3 DEF StatusFrom, Family, Statuses
    <2> QED BY <2>2, <2>3
<1>4. CASE WakeParent(p)
    <2>1. \/ runs' = runs
          \/ \E r : runs[r].status = "waitChild" /\ SetStatus(r, "runnable")
        BY <1>4 DEF WakeParent
    <2> QED BY <2>1, RunsFrom, SetStatusFrom
<1>5. CASE InvokeInsert(p)
    <2>1. CASE runs' = runs
        BY <2>1, RunsFrom
    <2>2. CASE runs' # runs
        <3> DEFINE run == NewRun(StepAt(exec[p].run, exec[p].step).child,
                                 exec[p].run, exec[p].step, NoKey)
        <3>1. Create(run)
            BY <1>5, <2>2 DEF InvokeInsert
        <3>2. run.status = "runnable" /\ run.parent = exec[p].run
            BY DEF NewRun
        <3>3. Writes(exec[p].run)
            BY <1>5 DEF InvokeInsert, At, Writes, PastStopping
        <3> HIDE DEF run
        <3> QED BY <3>1, <3>2, <3>3, CreateFrom
    <2> QED BY <2>1, <2>2
<1> QED BY <1>1, <1>2, <1>3, <1>4, <1>5 DEF Attempt

\* The places an attempt goes to.
LEMMA AttemptPlace ==
    ASSUME Memory, NEW p \in Procs, Attempt(p), NEW q \in Procs
    PROVE  PlaceFrom(q)
<1>1. CASE q # p
    <2>1. exec'[q] = exec[q]
        BY <1>1 DEF Memory, Attempt, CheckRun, LoadJournal, Finish, BodyDone, RecordStep,
            BodyFails, Suspend, Recheck, RunCompleted, RunFailed, SleepRecord, RunSleeping,
            SleepEnqueue, RunWaitingEvent, StepFailedAttempt, StepRetryEnqueue,
            InvokeUnknown, InvokeLookup, InvokeInsert, InvokePark, InvokeEnqueue, ReplayLook,
            ReplayRecord, ReplayEnqueue, ParkAgain, SettleRecord, WakeParent, WakeEnqueue,
            Ack, Nack, Go, Outcome
    <2> QED BY <2>1 DEF PlaceFrom
<1>2. CASE q = p
    <2>1. CASE Ack(p) \/ Nack(p)
        <3>1. exec'[p] = Idle
            BY <2>1 DEF Ack, Nack, Memory
        <3> QED BY <1>2, <3>1, IdleIs DEF PlaceFrom, Working, PastStopping
    <2>2. CASE CheckRun(p)
        BY <1>2, <2>2 DEF CheckRun, Go, Memory, ExecShape, Fields, PlaceFrom, Working, PastStopping
    <2>3. CASE Recheck(p)
        BY <1>2, <2>3 DEF Recheck, At, Go, Memory, ExecShape, Fields, PlaceFrom, Working, PastStopping
    <2>4. CASE LoadJournal(p) \/ Finish(p) \/ BodyDone(p) \/ RecordStep(p) \/ BodyFails(p)
               \/ Suspend(p)
        <3>1. exec[p].pc \in {"load", "exec", "record"}
            BY <2>4 DEF LoadJournal, Finish, BodyDone, RecordStep, BodyFails, Suspend, Reaches, At
        <3>2. exec'[p].run = exec[p].run /\ exec'[p].pc \in {"exec", "record", "recheck"}
            BY <2>4 DEF LoadJournal, Finish, BodyDone, RecordStep, BodyFails, Suspend, Outcome,
                        Memory, ExecShape, Fields
        <3> QED BY <1>2, <3>1, <3>2 DEF PlaceFrom, Working, PastStopping
    <2>5. CASE \/ RunCompleted(p) \/ RunFailed(p) \/ SleepRecord(p) \/ RunSleeping(p)
               \/ RunWaitingEvent(p) \/ StepFailedAttempt(p) \/ InvokeUnknown(p)
               \/ InvokeLookup(p) \/ InvokeInsert(p) \/ InvokePark(p) \/ ReplayLook(p)
               \/ ParkAgain(p)
        <3>1. exec[p].pc \in PastStopping
            BY <2>5 DEF RunCompleted, RunFailed, SleepRecord, RunSleeping, RunWaitingEvent,
                StepFailedAttempt, InvokeUnknown, InvokeLookup, InvokeInsert, InvokePark,
                ReplayLook, ParkAgain, Applies, At, PastStopping
        <3>2. exec'[p].run = exec[p].run
            BY <2>5 DEF RunCompleted, RunFailed, SleepRecord, RunSleeping, RunWaitingEvent,
                StepFailedAttempt, InvokeUnknown, InvokeLookup, InvokeInsert, InvokePark,
                ReplayLook, ParkAgain, Go, Memory, ExecShape, Fields
        <3> QED BY <1>2, <3>1, <3>2 DEF PlaceFrom, Working
    <2>6. CASE \/ SleepEnqueue(p) \/ StepRetryEnqueue(p) \/ InvokeEnqueue(p)
               \/ ReplayRecord(p) \/ ReplayEnqueue(p) \/ SettleRecord(p) \/ WakeParent(p)
               \/ WakeEnqueue(p)
        <3>1. exec'[p].pc \in {"ack", "nack", "replayEnqueue", "wake", "wakeEnqueue"}
            BY <2>6 DEF SleepEnqueue, StepRetryEnqueue, InvokeEnqueue, ReplayRecord,
                ReplayEnqueue, SettleRecord, WakeParent, WakeEnqueue, Go, Memory, ExecShape,
                Fields
        <3> QED BY <1>2, <3>1 DEF PlaceFrom, Working, PastStopping
    <2> QED BY <2>1, <2>2, <2>3, <2>4, <2>5, <2>6 DEF Attempt
<1> QED BY <1>1, <1>2

\* Every step but a cancel is orderly.
LEMMA StepOrderly ==
    ASSUME Sound, Memory, Family, [Next]_vars, ~\E root \in RunIds : Cancel(root)
    PROVE  Orderly
<1>1. NoCancel
    BY SoundStep
<1>2. ASSUME exec' = exec, NEW p \in Procs PROVE PlaceFrom(p)
    BY <1>2 DEF PlaceFrom
<1>3. ASSUME runs' = runs, exec' = exec, raced' = raced PROVE Orderly
    BY <1>1, <1>2, <1>3, RunsFrom DEF Orderly
<1>4. ASSUME NEW p \in Procs, Attempt(p) PROVE Orderly
    BY <1>1, <1>4, AttemptStatus, AttemptPlace, AttemptAnswers DEF Orderly
<1>5. ASSUME NEW p \in Procs, TriggerInsert(p) PROVE Orderly
    <2>1. exec' = exec /\ raced' = raced
        BY <1>5 DEF TriggerInsert
    <2>2. CASE runs' = runs
        BY <1>3, <2>1, <2>2
    <2>3. CASE runs' # runs
        <3> DEFINE run == NewRun(asking[p].wf, 0, 0, asking[p].key)
        <3>1. Create(run)
            BY <1>5, <2>3 DEF TriggerInsert
        <3>2. run.status = "runnable" /\ run.parent = 0
            BY DEF NewRun
        <3> HIDE DEF run
        <3> QED BY <1>1, <1>2, <2>1, <3>1, <3>2, CreateFrom DEF Orderly
    <2> QED BY <2>2, <2>3
<1>6. ASSUME NEW p \in Procs, NEW r \in RunIds, NEW i \in Slots, Claim(p, r, i) PROVE Orderly
    <2>1. runs' = runs /\ raced' = raced
        BY <1>6 DEF Claim, history
    <2>2. ASSUME NEW q \in Procs PROVE PlaceFrom(q)
        <3>1. CASE q = p
            BY <1>6, <3>1 DEF Claim, Idle, PlaceFrom, Working, PastStopping
        <3>2. CASE q # p
            <4>1. exec'[q].pc = exec[q].pc /\ exec'[q].run = exec[q].run
                BY <1>6, <3>2 DEF Claim, Memory, ExecShape, Fields
            <4> QED BY <4>1 DEF PlaceFrom
        <3> QED BY <3>1, <3>2
    <2> QED BY <1>1, <2>1, <2>2, RunsFrom DEF Orderly
<1>7. ASSUME NEW p \in Procs, Crash(p) PROVE Orderly
    <2>1. runs' = runs /\ raced' = raced
        BY <1>7 DEF Crash, history, store
    <2>2. ASSUME NEW q \in Procs PROVE PlaceFrom(q)
        <3>1. exec'[q] = exec[q] \/ exec'[q] = Idle
            BY <1>7 DEF Crash, Memory
        <3> QED BY <3>1, IdleIs DEF PlaceFrom, Working, PastStopping
    <2> QED BY <1>1, <2>1, <2>2, RunsFrom DEF Orderly
<1>8. ASSUME NEW p \in Procs, StoreError(p) PROVE Orderly
    <2>1. runs' = runs /\ raced' = raced
        BY <1>8 DEF StoreError, history, store
    <2>2. ASSUME NEW q \in Procs PROVE PlaceFrom(q)
        <3>1. \/ exec'[q] = exec[q] \/ exec'[q] = Idle
              \/ exec'[q].pc = "nack"
              \/ /\ exec[q].pc = "record" /\ exec'[q].pc = "recheck"
                 /\ exec'[q].run = exec[q].run
            BY <1>8 DEF StoreError, Memory, ExecShape, Fields
        <3> QED BY <3>1, IdleIs DEF PlaceFrom, Working, PastStopping
    <2> QED BY <1>1, <2>1, <2>2, RunsFrom DEF Orderly
<1>9. ASSUME NEW p \in Procs, TimeoutSweep(p) PROVE Orderly
    <2>1. exec' = exec /\ raced' = raced
        BY <1>9 DEF TimeoutSweep, SweepRelease, SweepRecord, SweepEnqueue, history
    <2>2. ASSUME NEW c \in RunIds PROVE runs'[c].status \in Statuses /\ StatusFrom(c)
        <3>1. CASE runs' = runs
            BY <3>1, RunsFrom
        <3>2. CASE SweepRelease(p)
            <4>1. /\ runs'[c].parent = runs[c].parent
                  /\ \/ runs'[c].status = runs[c].status
                     \/ runs[c].status = "waitEvent" /\ runs'[c].status = "runnable"
                BY <3>2 DEF SweepRelease, TimedOut, Sound, Tables, Columns
            <4> QED BY <4>1 DEF StatusFrom, Family, Statuses
        <3> QED BY <1>9, <3>1, <3>2 DEF TimeoutSweep, SweepRecord, SweepEnqueue
    <2> QED BY <1>1, <1>2, <2>1, <2>2 DEF Orderly
<1>10. ASSUME NEW e \in Events, NEW payload \in Payloads, Emit(e, payload) PROVE Orderly
    <2>1. exec' = exec /\ raced' = raced
        BY <1>10 DEF Emit, history
    <2>2. ASSUME NEW c \in RunIds PROVE runs'[c].status \in Statuses /\ StatusFrom(c)
        <3>1. PICK new : runs' = [r \in RunIds |->
                         IF Matches(r, e, payload)
                         THEN [runs[r] EXCEPT !.status = "runnable", !.wait = 0,
                                              !.timer = -1]
                         ELSE IF r \in DOMAIN new THEN NewRun(new[r], 0, 0, NoKey)
                         ELSE runs[r]]
            BY <1>10 DEF Emit
        <3>2. CASE Matches(c, e, payload)
            <4>1. /\ runs'[c].parent = runs[c].parent
                  /\ runs[c].status = "waitEvent" /\ runs'[c].status = "runnable"
                BY <3>1, <3>2 DEF Matches, Sound, Tables, Columns
            <4> QED BY <4>1 DEF StatusFrom, Statuses
        <3>3. CASE ~Matches(c, e, payload) /\ c \in DOMAIN new
            BY <3>1, <3>3 DEF NewRun, StatusFrom, Statuses
        <3>4. CASE ~Matches(c, e, payload) /\ c \notin DOMAIN new
            BY <3>1, <3>4 DEF StatusFrom, Family
        <3> QED BY <3>2, <3>3, <3>4
    <2> QED BY <1>1, <1>2, <2>1, <2>2 DEF Orderly
<1>11. ASSUME NEW S \in SUBSET RunIds, Gc(S) PROVE Orderly
    <2>1. exec' = exec /\ raced' = raced
        BY <1>11 DEF Gc, history
    <2>2. ASSUME NEW c \in RunIds PROVE runs'[c].status \in Statuses /\ StatusFrom(c)
        <3>1. runs'[c] = runs[c] \/ runs'[c].status = "deleted"
            BY <1>11 DEF Gc, Sound, Tables, Columns
        <3> QED BY <3>1 DEF StatusFrom, Family, Statuses
    <2> QED BY <1>1, <1>2, <2>1, <2>2 DEF Orderly
<1>12. ASSUME Tick PROVE Orderly
    <2>1. raced' = raced
        BY <1>12 DEF Tick
    <2>2. ASSUME NEW p \in Procs PROVE PlaceFrom(p)
        <3>1. exec'[p].pc = exec[p].pc /\ exec'[p].run = exec[p].run
            BY <1>12 DEF Tick, Memory, ExecShape, Fields
        <3> QED BY <3>1 DEF PlaceFrom
    <2>3. ASSUME NEW c \in RunIds PROVE runs'[c].status \in Statuses /\ StatusFrom(c)
        <3>1. runs'[c].status = runs[c].status /\ runs'[c].parent = runs[c].parent
            BY <1>12 DEF Tick, Sound, Tables, Columns
        <3> QED BY <3>1 DEF StatusFrom, Family
    <2> QED BY <1>1, <2>1, <2>2, <2>3 DEF Orderly
<1>13. ASSUME \/ \E p \in Procs : TriggerEnqueue(p) \/ SweepError(p) \/ TriggerError(p)
              \/ \E p \in Procs, w \in Entry, k \in Keys : TriggerLookup(p, w, k)
              \/ \E r \in RunIds, i \in Slots : LeaseExpires(r, i)
              \/ UNCHANGED vars
       PROVE  Orderly
    <2>1. runs' = runs /\ exec' = exec /\ raced' = raced
        BY <1>13 DEF TriggerEnqueue, SweepError, TriggerError, TriggerLookup, LeaseExpires,
                     vars, store, history
    <2> QED BY <1>3, <2>1
<1> QED BY <1>4, <1>5, <1>6, <1>7, <1>8, <1>9, <1>10, <1>11, <1>12, <1>13 DEF Next

\* "Cancels the run and all descendant runs", for good: a live child of a
\* cancelled run was created or written by an attempt that was past its last look
\* when the cancel came, whatever attempts, zombies, wake-ups, sweeps, emits,
\* crashes and the GC do before and after.
THEOREM CancelReachesChildren == Spec => []ChildrenStayCancelled
<1>1. Init => Family
    <2> SUFFICES ASSUME Init PROVE Family
        OBVIOUS
    <2>1. \A r \in RunIds : runs[r].status = "none"
        BY DEF Init, NoRun
    <2>2. \A p \in Procs : exec[p].pc = "idle"
        BY IdleIs DEF Init
    <2> QED BY <2>1, <2>2 DEF Family, Statuses, LastLooks, ChildrenOver, PastStopping
<1>2. ASSUME Sound, Ledger, Family, [Next]_vars PROVE Family'
    <2>1. ASSUME NEW root \in RunIds, Cancel(root) PROVE Family'
        BY <1>2, <2>1, CancelFamily DEF Ledger
    <2> QED BY <1>2, <2>1, StepOrderly, OrderlyKeeps DEF Ledger
<1>3. Family => ChildrenStayCancelled
    BY DEF Family, ChildrenOver, Over, ChildrenStayCancelled, Live
<1> QED BY <1>1, <1>2, <1>3, SoundAlways, LedgerBalances, PTL DEF Spec
=============================================================================
