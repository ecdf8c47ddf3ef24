--------------------------- MODULE JobQueueProofs ---------------------------
(***************************************************************************)
(* Theorems about JobQueue, for every number of processes, jobs and        *)
(* crashes and every configuration of the queue.                           *)
(***************************************************************************)
EXTENDS JobQueue, FiniteSetTheorems, TLAPS

USE DEF Ids, Rows, Deleted, Results

\* The maximum and minimum of two numbers.
LEMMA MaxOfType ==
    ASSUME NEW a \in Int, NEW b \in Int
    PROVE  MaxOf(a, b) \in Int /\ MaxOf(a, b) >= a /\ MaxOf(a, b) >= b
BY DEF MaxOf

\* max_attempts.max(1) of a job is a positive number.
LEMMA MaxAttemptsType ==
    ASSUME TypeOK, NEW j \in Ids
    PROVE  MaxAttempts(j) \in Nat \ {0}
<1>1. opts[j] \in PushOpts
    BY DEF TypeOK
<1>2. opts[j].max \in Nat
    BY <1>1, PushOptsAssumption
<1> QED BY <1>2 DEF MaxAttempts, MaxOf

\* The status column after an UPDATE that a fence may have stopped.
LEMMA StatusUpdate ==
    ASSUME TypeOK, NEW j, NEW v \in Rows \cup Deleted, NEW b,
           status' = IF b THEN [status EXCEPT ![j] = v] ELSE status
    PROVE  status' \in [Ids -> {"none"} \cup Rows \cup Deleted]
<1>1. status \in [Ids -> {"none"} \cup Rows \cup Deleted]
    BY DEF TypeOK
<1> QED BY <1>1

\* The lease column after an UPDATE that a fence may have stopped.
LEMMA LeaseReset ==
    ASSUME TypeOK, NEW j, NEW b,
           lease' = IF b THEN [lease EXCEPT ![j] = 0] ELSE lease
    PROVE  lease' \in [Ids -> Int]
<1>1. lease \in [Ids -> Int]
    BY DEF TypeOK
<1>2. lease' = lease \/ lease' = [lease EXCEPT ![j] = 0]
    OBVIOUS
<1>3. 0 \in Int
    OBVIOUS
<1> QED BY <1>1, <1>2, <1>3

\* A claim takes rows that are ready.
LEMMA ClaimableIsReady ==
    ASSUME NEW limit PROVE Claimable(limit) \subseteq Ready
BY DEF Claimable, Eligible

\* Some kind of job is pushed.
LEMMA AnyOptsType == AnyOpts \in PushOpts
BY PushOptsAssumption DEF AnyOpts

\* The slot or the delay a call of push takes is a number of time units.
LEMMA SlotType ==
    ASSUME TypeOK, NEW q \in Call
    PROVE  /\ StartOf(q) \in Int
           /\ CursorAfter(q) \in [TKeys -> Int]
           /\ q.opts.tkey # NoKey => /\ q.opts.tkey \in TKeys
                                     /\ cursor[q.opts.tkey] \in Int
           /\ q.age \in Int /\ q.opts.spacing \in Nat
<1>1. q.opts \in PushOpts /\ q.age \in Int
    BY DEF Call
<1>2. /\ q.opts.tkey \in TKeys \cup {NoKey} /\ q.opts.spacing \in Nat
      /\ q.opts.delay \in Int
    BY <1>1, PushOptsAssumption
<1>3. \A k \in TKeys : cursor[k] \in Int
    BY DEF TypeOK
<1>4. \A k \in TKeys : MaxOf(cursor[k], -q.age) \in Int
    <2>1. -q.age \in Int
        BY <1>1
    <2> QED BY <1>3, <2>1, MaxOfType
<1>5. StartOf(q) \in Int
    <2>1. MaxOf(q.opts.delay, 0) \in Int
        BY <1>2 DEF MaxOf
    <2> QED BY <1>1, <1>2, <1>4, <2>1 DEF StartOf
<1>6. CursorAfter(q) \in [TKeys -> Int]
    BY <1>2, <1>3, <1>4 DEF CursorAfter
<1> QED BY <1>1, <1>2, <1>3, <1>5, <1>6

\* Opening and abandoning a call of push keeps the types.
LEMMA CallType ==
    ASSUME TypeOK, NEW p \in Producers,
           PushAbort(p) \/ \E o \in PushOpts : PushStart(p, o)
    PROVE  TypeOK'
<1>1. Idle \in Call
    BY AnyOptsType DEF Idle, Call
<1>2. \A o \in PushOpts : Opened(o) \in Call
    BY DEF Opened, Call, Debounced
<1>3. pushing' \in [Producers -> Call]
    BY <1>1, <1>2 DEF PushAbort, PushStart, TypeOK
<1> QED BY <1>3 DEF PushAbort, PushStart, TypeOK

\* The commit of a push keeps the types.
LEMMA CommitType ==
    ASSUME TypeOK, NEW p \in Producers, PushCommit(p) PROVE TypeOK'
<1>1. pushing[p] \in Call /\ pushing[p].opts \in PushOpts /\ pushing[p].beside \in SUBSET Ids
    BY DEF TypeOK, Call
<1>2. nextId \in Ids /\ nextId' \in 1..(MaxJobs + 1)
    BY CountsAssumption DEF TypeOK, PushCommit
<1>3. status' \in [Ids -> {"none"} \cup Rows \cup Deleted]
    BY DEF TypeOK, PushCommit
<1>4. opts' \in [Ids -> PushOpts] /\ unseen' \in [Ids -> SUBSET Ids]
    BY <1>1, <1>2 DEF TypeOK, PushCommit
<1>5. avail' \in [Ids -> Int] /\ cursor' \in [TKeys -> Int]
    BY <1>1, <1>2, SlotType DEF TypeOK, PushCommit
<1>6. pushing' \in [Producers -> Call]
    <2>1. Idle \in Call
        BY AnyOptsType DEF Idle, Call
    <2>2. ASSUME NEW q \in Producers
          PROVE  [pushing[q] EXCEPT !.beside = @ \cup {nextId}] \in Call /\ pushing[q] \in Call
        BY <1>2 DEF TypeOK, Call
    <2> QED BY <2>1, <2>2 DEF PushCommit
<1> QED BY <1>2, <1>3, <1>4, <1>5, <1>6 DEF TypeOK, PushCommit, Delivery

\* What time does to the calls of push, the slots and the cursors.
LEMMA TickType ==
    ASSUME TypeOK, Tick PROVE TypeOK'
<1>1. pushing' \in [Producers -> Call]
    <2>1. ASSUME NEW p \in Producers
          PROVE  [pushing[p] EXCEPT !.age = @ + 1] \in Call /\ pushing[p] \in Call
        <3>1. pushing[p] \in Call
            BY DEF TypeOK
        <3> QED BY <3>1 DEF Call
    <2> QED BY <2>1 DEF Tick
<1>2. avail' \in [Ids -> Int] /\ cursor' \in [TKeys -> Int]
    <2>1. -Slack \in Int
        BY CountsAssumption
    <2>2. \A j \in Ids : MaxOf(avail[j] - 1, -Slack) \in Int
        <3>1. \A j \in Ids : avail[j] - 1 \in Int
            BY DEF TypeOK
        <3> QED BY <2>1, <3>1, MaxOfType
    <2>3. \A k \in TKeys : MaxOf(cursor[k] - 1, -Slack) \in Int
        <3>1. \A k \in TKeys : cursor[k] - 1 \in Int
            BY DEF TypeOK
        <3> QED BY <2>1, <3>1, MaxOfType
    <2> QED BY <2>2, <2>3 DEF Tick
<1>3. lease' \in [Ids -> Int]
    BY DEF Tick, MaxOf, TypeOK
<1> QED BY <1>1, <1>2, <1>3 DEF Tick, TypeOK

\* A claim keeps the types: every delivery it starts is well formed.
LEMMA ClaimType ==
    ASSUME TypeOK, NEW n \in Nodes, Claim(n) PROVE TypeOK'
<1>1. PICK limit \in Wants(n) :
          /\ ClaimRows(Claimable(limit))
          /\ inflight' = inflight \cup {ClaimedJob(n, Claimable(limit), j) :
                                           j \in Claimable(limit)}
    BY DEF Claim
<1> DEFINE S == Claimable(limit)
<1>2. S \subseteq Ids
    BY ClaimableIsReady DEF Ready
<1>3. \A j \in S : ClaimedJob(n, S, j) \in Delivery
    <2> SUFFICES ASSUME NEW j \in S PROVE ClaimedJob(n, S, j) \in Delivery
        OBVIOUS
    <2>1. {<<k, fence[k] + 1>> : k \in Chunk(S, j)} \subseteq Ids \X Nat
        BY <1>2 DEF Chunk, TypeOK
    <2>2. fence[j] + 1 \in Nat /\ attempt[j] + 1 \in Nat /\ j \in Ids
        BY <1>2 DEF TypeOK
    <2> HIDE DEF S
    <2> QED BY <2>1, <2>2 DEF ClaimedJob, Delivery
<1> HIDE DEF S
<1>4. inflight' \subseteq Delivery
    BY <1>1, <1>3 DEF TypeOK, S
<1>5. status' \in [Ids -> {"none"} \cup Rows \cup Deleted]
    BY <1>1 DEF TypeOK, ClaimRows
<1>6. attempt' \in [Ids -> Nat] /\ fence' \in [Ids -> Nat]
    BY <1>1 DEF TypeOK, ClaimRows
<1>7. lease' \in [Ids -> Int]
    BY <1>1, CountsAssumption DEF TypeOK, ClaimRows
<1> QED BY <1>4, <1>5, <1>6, <1>7 DEF TypeOK, Claim

\* Every step keeps the types, and the initial state has them.
LEMMA TypeInductive ==
    /\ Init => TypeOK
    /\ TypeOK /\ [Next]_vars => TypeOK'
<1>1. Init => TypeOK
    <2> SUFFICES ASSUME Init PROVE TypeOK
        OBVIOUS
    <2>1. AnyOpts \in PushOpts /\ Idle \in Call
        BY AnyOptsType DEF Idle, Call
    <2> QED BY <2>1, CountsAssumption DEF Init, TypeOK
<1>2. TypeOK /\ [Next]_vars => TypeOK'
    <2> SUFFICES ASSUME TypeOK, [Next]_vars PROVE TypeOK'
        OBVIOUS
    <2>1. ASSUME NEW p \in Producers,
                 PushCommit(p) \/ PushAbort(p) \/ \E o \in PushOpts : PushStart(p, o)
          PROVE  TypeOK'
        BY <2>1, CommitType, CallType
    <2>2. ASSUME NEW n \in Nodes, Claim(n) PROVE TypeOK'
        BY <2>2, ClaimType
    <2>3. ASSUME NEW g \in Groups, NEW res \in {"ok", "err"}, HandlerDone(g, res)
          PROVE  TypeOK'
        <3>1. ASSUME NEW e \in inflight' PROVE e \in Delivery
            <4>1. PICK d \in inflight : e = IF d.group = g THEN [d EXCEPT !.res = res] ELSE d
                BY <2>3, <3>1 DEF HandlerDone
            <4>2. d \in Delivery
                BY DEF TypeOK
            <4>3. [d EXCEPT !.res = res] \in Delivery
                BY <4>2 DEF Delivery
            <4> QED BY <4>1, <4>2, <4>3
        <3>2. handled' \subseteq Ids
            BY <2>3 DEF TypeOK, HandlerDone, Members, Delivery
        <3> QED BY <2>3, <3>1, <3>2 DEF TypeOK, HandlerDone, store
    <2>4. ASSUME NEW g \in Groups, RenewLeases(g) PROVE TypeOK'
        BY <2>4, CountsAssumption, SMTT(30) DEF TypeOK, RenewLeases
    <2>5. ASSUME NEW d \in inflight, Ack(d) PROVE TypeOK'
        <3>1. status' \in [Ids -> {"none"} \cup Rows \cup Deleted]
            BY <2>5, StatusUpdate DEF TypeOK, Ack
        <3> QED BY <2>5, <3>1 DEF TypeOK, Ack
    <2>6. ASSUME NEW d \in inflight, FailDead(d) PROVE TypeOK'
        <3>1. status' \in [Ids -> {"none"} \cup Rows \cup Deleted]
            BY <2>6, StatusUpdate DEF FailDead
        <3>2. lease' \in [Ids -> Int]
            BY <2>6, LeaseReset DEF FailDead
        <3> QED BY <2>6, <3>1, <3>2 DEF TypeOK, FailDead
    <2>7. ASSUME NEW d \in inflight, FailRetry(d) PROVE TypeOK'
        <3>1. status' \in [Ids -> {"none"} \cup Rows \cup Deleted]
            BY <2>7, StatusUpdate DEF FailRetry
        <3>2. lease' \in [Ids -> Int]
            BY <2>7, LeaseReset DEF FailRetry
        <3>3. avail' \in [Ids -> Int]
            <4>1. avail \in [Ids -> Int]
                BY DEF TypeOK
            <4>2. PICK delay \in BackoffDelays :
                      avail' = IF Holds(d) THEN [avail EXCEPT ![d.id] = delay] ELSE avail
                BY <2>7 DEF FailRetry
            <4>3. delay \in Int
                BY BackoffAssumption
            <4> QED BY <4>1, <4>2, <4>3
        <3> QED BY <2>7, <3>1, <3>2, <3>3 DEF TypeOK, FailRetry
    <2>8. ASSUME NEW d \in inflight, SettleError(d) PROVE TypeOK'
        BY <2>8 DEF TypeOK, SettleError, store
    <2>9. ASSUME NEW n \in Nodes, SweepExpired(n) PROVE TypeOK'
        BY <2>9 DEF TypeOK, SweepExpired
    <2>10. ASSUME NEW n \in Nodes, SweepExhausted(n) PROVE TypeOK'
        BY <2>10 DEF TypeOK, SweepExhausted
    <2>11. ASSUME NEW n \in Nodes, SweepRest(n) PROVE TypeOK'
        BY <2>11 DEF TypeOK, SweepRest
    <2>12. ASSUME NEW S \in SUBSET Ids, RequeueDead(S) PROVE TypeOK'
        BY <2>12 DEF TypeOK, RequeueDead
    <2>13. CASE PurgeDead
        BY <2>13 DEF TypeOK, PurgeDead
    <2>14. ASSUME NEW n \in Nodes, NEW flag \in BOOLEAN, SetPaused(n, flag) PROVE TypeOK'
        BY <2>14 DEF TypeOK, SetPaused, store
    <2>15. ASSUME NEW n \in Nodes, Stop(n) PROVE TypeOK'
        BY <2>15 DEF TypeOK, Stop, store
    <2>16. ASSUME NEW n \in Nodes, Drained(n) PROVE TypeOK'
        BY <2>16 DEF TypeOK, Drained, store
    <2>17. ASSUME NEW n \in Nodes, Crash(n) PROVE TypeOK'
        BY <2>17 DEF TypeOK, Crash, store
    <2>18. ASSUME NEW n \in Nodes, Restart(n) PROVE TypeOK'
        BY <2>18 DEF TypeOK, Restart, store
    <2>19. CASE Tick
        BY <2>19, TickType
    <2>20. CASE UNCHANGED vars
        BY <2>20 DEF TypeOK, vars
    <2> QED BY <2>1, <2>2, <2>3, <2>4, <2>5, <2>6, <2>7, <2>8, <2>9, <2>10,
               <2>11, <2>12, <2>13, <2>14, <2>15, <2>16, <2>17, <2>18, <2>19,
               <2>20 DEF Next
<1> QED BY <1>1, <1>2

\* Type correctness of the queue, through every operation on the `jobs` table,
\* every dispatcher step and every crash.
THEOREM TypeCorrect == Spec => []TypeOK
<1>1. Init => TypeOK
    BY TypeInductive
<1>2. TypeOK /\ [Next]_vars => TypeOK'
    BY TypeInductive
<1> QED BY <1>1, <1>2, PTL DEF Spec

-----------------------------------------------------------------------------
(* The inductive invariant *)

\* Rows that were never pushed, and what is known about a delivery.
Untouched == \A j \in Ids : j >= nextId => status[j] = "none" /\ attempt[j] = 0
Delivered ==
    \A d \in inflight : /\ status[d.id] # "none"
                        /\ d.res = "ok" => d.id \in handled
\* The delivery that holds the current token knows at least the attempts the
\* row counts: a requeue resets the row and leaves the token with its holder.
AttemptKnown ==
    \A d \in inflight : d.fence = fence[d.id] => attempt[d.id] <= d.attempt
OneSweep == Backend = "sqlite" => \A n \in Nodes : ~sweeping[n]

Claims == UniqueClaims /\ Untouched /\ Delivered /\ AttemptKnown /\ OneSweep
Safe == TypeOK /\ Claims

USE DEF Untouched, Delivered, AttemptKnown, OneSweep

\* The fields of an in-flight delivery.
LEMMA Fields ==
    ASSUME TypeOK, NEW d \in inflight
    PROVE  /\ d.id \in Ids /\ d.fence \in Nat /\ d.attempt \in Nat
           /\ fence[d.id] \in Nat /\ attempt[d.id] \in Nat
BY DEF TypeOK, Delivery

\* A step keeps Claims if it starts no delivery, moves no token, forgets no
\* handled job and never raises the attempts or revives an unpushed row.
LEMMA ClaimsFrame ==
    ASSUME TypeOK, Claims,
           inflight' \subseteq inflight, fence' = fence, handled' = handled,
           nextId' = nextId,
           \A j \in Ids : attempt'[j] = attempt[j] \/ attempt'[j] = 0,
           \A j \in Ids : (status[j] = "none") <=> (status'[j] = "none"),
           OneSweep'
    PROVE  Claims'
<1> USE DEF Claims
<1>1. UniqueClaims'
    BY DEF UniqueClaims
<1>2. Untouched'
    OBVIOUS
<1>3. Delivered'
    BY Fields
<1>4. AttemptKnown'
    <2> SUFFICES ASSUME NEW d \in inflight, d.fence = fence[d.id]
                 PROVE  attempt'[d.id] <= d.attempt
        OBVIOUS
    <2> QED BY Fields
<1> QED BY <1>1, <1>2, <1>3, <1>4

\* A push fills the row after the last one.
LEMMA PushClaims ==
    ASSUME TypeOK, Claims, NEW p \in Producers, PushCommit(p) PROVE Claims'
<1>1. UniqueClaims' /\ AttemptKnown' /\ OneSweep'
    BY DEF PushCommit, Claims, UniqueClaims
<1>2. Untouched'
    BY DEF PushCommit, Claims, Removed, Debounced, TypeOK
<1>3. Delivered'
    BY Fields DEF PushCommit, Claims
<1> QED BY <1>1, <1>2, <1>3 DEF Claims

\* A claim hands out a token no delivery has yet.
LEMMA ClaimClaims ==
    ASSUME TypeOK, Claims, NEW n \in Nodes, Claim(n) PROVE Claims'
<1>1. PICK limit \in Wants(n) :
          /\ ClaimRows(Claimable(limit))
          /\ inflight' = inflight \cup {ClaimedJob(n, Claimable(limit), j) :
                                           j \in Claimable(limit)}
    BY DEF Claim
<1> DEFINE S == Claimable(limit)
<1>2. /\ S \subseteq Ids
      /\ \A j \in S : status[j] = "pending"
    BY ClaimableIsReady DEF Ready
<1>3. ASSUME NEW d \in inflight', d \notin inflight
      PROVE  /\ d.id \in S /\ d = ClaimedJob(n, S, d.id)
             /\ d.fence = fence'[d.id] /\ d.fence = fence[d.id] + 1
             /\ d.attempt = attempt'[d.id] /\ d.res = "run"
    <2>1. PICK j \in S : d = ClaimedJob(n, S, j)
        BY <1>1, <1>3
    <2>2. d.id = j /\ d.fence = fence[j] + 1 /\ d.attempt = attempt[j] + 1 /\ d.res = "run"
        BY <2>1 DEF ClaimedJob
    <2>3. j \in Ids
        BY <1>2
    <2> HIDE DEF S
    <2> QED BY <1>1, <2>1, <2>2, <2>3 DEF ClaimRows, S
<1>4. ASSUME NEW d \in inflight
      PROVE  /\ d.fence <= fence[d.id]
             /\ d.id \in S => fence'[d.id] = fence[d.id] + 1
             /\ d.id \notin S => fence'[d.id] = fence[d.id] /\ attempt'[d.id] = attempt[d.id]
    BY <1>1, Fields DEF Claims, UniqueClaims, ClaimRows
<1>5. \A d \in inflight : d.id \in Ids /\ d.fence \in Nat /\ fence[d.id] \in Nat
    BY Fields
<1>6. \A j \in Ids : fence[j] \in Nat
    BY DEF TypeOK
<1> HIDE DEF S
<1>7. UniqueClaims'
    <2> SUFFICES ASSUME NEW d \in inflight', NEW e \in inflight'
                 PROVE  /\ d.fence <= fence'[d.id]
                        /\ (d.id = e.id /\ d.fence = e.fence) => d = e
        BY DEF UniqueClaims
    <2>1. CASE d \in inflight /\ e \in inflight
        BY <2>1, <1>4, <1>5 DEF Claims, UniqueClaims
    <2>2. CASE d \notin inflight /\ e \in inflight
        <3>1. d.id \in S /\ d.fence = fence'[d.id] /\ d.fence = fence[d.id] + 1
            BY <2>2, <1>3
        <3>2. fence[d.id] \in Nat
            BY <3>1, <1>2, <1>6
        <3>3. e.fence <= fence[e.id]
            BY <2>2, <1>4
        <3> QED BY <3>1, <3>2, <3>3, <2>2, <1>5
    <2>3. CASE d \in inflight /\ e \notin inflight
        <3>1. e.id \in S /\ e.fence = fence[e.id] + 1
            BY <2>3, <1>3
        <3>2. fence[e.id] \in Nat
            BY <3>1, <1>2, <1>6
        <3> QED BY <3>1, <3>2, <2>3, <1>4, <1>5
    <2>4. CASE d \notin inflight /\ e \notin inflight
        <3>1. d.id \in S /\ d.fence = fence'[d.id] /\ d.fence = fence[d.id] + 1
            BY <2>4, <1>3
        <3>2. fence[d.id] \in Nat
            BY <3>1, <1>2, <1>6
        <3>3. d = ClaimedJob(n, S, d.id) /\ e = ClaimedJob(n, S, e.id)
            BY <2>4, <1>3
        <3> QED BY <3>1, <3>2, <3>3
    <2> QED BY <2>1, <2>2, <2>3, <2>4
<1>8. Untouched'
    BY <1>1, <1>2 DEF Claim, Claims, ClaimRows, TypeOK, S
<1>9. Delivered'
    <2> SUFFICES ASSUME NEW d \in inflight'
                 PROVE  status'[d.id] # "none" /\ (d.res = "ok" => d.id \in handled')
        OBVIOUS
    <2>1. CASE d \in inflight
        BY <2>1, <1>1, <1>5 DEF Claim, Claims, ClaimRows, S
    <2>2. CASE d \notin inflight
        BY <2>2, <1>1, <1>2, <1>3 DEF ClaimRows, S
    <2> QED BY <2>1, <2>2
<1>10. AttemptKnown'
    <2> SUFFICES ASSUME NEW d \in inflight', d.fence = fence'[d.id]
                 PROVE  attempt'[d.id] <= d.attempt
        OBVIOUS
    <2>1. CASE d \in inflight
        BY <2>1, <1>4, <1>5 DEF Claims
    <2>2. CASE d \notin inflight
        <3>1. attempt[d.id] \in Nat /\ d.id \in S /\ d.id \in Ids
            BY <2>2, <1>2, <1>3 DEF TypeOK
        <3> QED BY <2>2, <3>1, <1>1, <1>3 DEF ClaimRows, S
    <2> QED BY <2>1, <2>2
<1> QED BY <1>7, <1>8, <1>9, <1>10 DEF Claims, Claim

\* A handler that returns only changes the result of its group's deliveries,
\* and an "ok" puts their jobs among the handled ones.
LEMMA HandlerDoneClaims ==
    ASSUME TypeOK, Claims, NEW g, NEW res \in {"ok", "err"}, HandlerDone(g, res)
    PROVE  Claims'
<1> DEFINE After(d) == IF d.group = g THEN [d EXCEPT !.res = res] ELSE d
<1>1. inflight' = {After(d) : d \in inflight}
    BY DEF HandlerDone
<1>2. ASSUME NEW d \in inflight
      PROVE  /\ After(d).id = d.id /\ After(d).fence = d.fence
             /\ After(d).attempt = d.attempt
             /\ After(d).res = "ok" => d.id \in handled'
    <2>1. d \in Delivery
        BY DEF TypeOK
    <2>2. handled \subseteq handled'
        BY DEF HandlerDone
    <2>3. d.res = "ok" => d.id \in handled
        BY DEF Claims
    <2>4. CASE d.group = g
        <3>1. res = "ok" => d.id \in handled'
            BY <2>4 DEF HandlerDone, Members
        <3> QED BY <2>1, <2>4, <3>1 DEF Delivery
    <2>5. CASE d.group # g
        BY <2>2, <2>3, <2>5
    <2> QED BY <2>4, <2>5
<1>3. /\ status' = status /\ fence' = fence /\ attempt' = attempt
      /\ nextId' = nextId /\ sweeping' = sweeping
    BY DEF HandlerDone, store
<1> HIDE DEF After
<1>4. UniqueClaims'
    <2> SUFFICES ASSUME NEW d \in inflight, NEW e \in inflight
                 PROVE  /\ After(d).fence <= fence[After(d).id]
                        /\ (After(d).id = After(e).id /\ After(d).fence = After(e).fence)
                               => After(d) = After(e)
        BY <1>1, <1>3 DEF UniqueClaims
    <2> QED BY <1>2 DEF Claims, UniqueClaims
<1>5. Delivered' /\ AttemptKnown'
    BY <1>1, <1>2, <1>3 DEF Claims
<1>6. Untouched' /\ OneSweep'
    BY <1>3 DEF Claims
<1> QED BY <1>4, <1>5, <1>6 DEF Claims

\* A settlement ends one delivery; the row it may update exists.
LEMMA SettleClaims ==
    ASSUME TypeOK, Claims, NEW d \in inflight,
           Ack(d) \/ FailDead(d) \/ FailRetry(d) \/ SettleError(d)
    PROVE  Claims'
<1>1. status' = status \/ \E v \in Rows \cup Deleted :
          Holds(d) /\ status' = [status EXCEPT ![d.id] = v]
    BY DEF Ack, FailDead, FailRetry, SettleError, store
<1>2. \A j \in Ids : (status[j] = "none") <=> (status'[j] = "none")
    BY <1>1 DEF Holds, TypeOK
<1>3. /\ inflight' \subseteq inflight /\ fence' = fence /\ attempt' = attempt
      /\ handled' = handled /\ nextId' = nextId /\ sweeping' = sweeping
    BY DEF Ack, FailDead, FailRetry, SettleError, store
<1>4. OneSweep'
    BY <1>3 DEF Claims
<1> QED BY <1>2, <1>3, <1>4, ClaimsFrame

\* Every step keeps the inductive invariant, and the initial state has it.
LEMMA SafeInductive ==
    /\ Init => Safe
    /\ Safe /\ [Next]_vars => Safe'
<1>1. Init => Safe
    BY TypeInductive DEF Init, Safe, Claims, UniqueClaims
<1>2. ASSUME Safe, [Next]_vars PROVE Claims'
    <2> TypeOK /\ Claims /\ OneSweep
        BY <1>2 DEF Safe, Claims
    <2>1. ASSUME NEW p \in Producers, PushCommit(p) PROVE Claims'
        BY <2>1, PushClaims
    <2>0. ASSUME NEW p \in Producers, PushAbort(p) \/ \E o \in PushOpts : PushStart(p, o)
          PROVE  Claims'
        <3>1. UNCHANGED <<inflight, fence, handled, nextId, attempt, status, sweeping>>
            BY <2>0 DEF PushAbort, PushStart
        <3>2. OneSweep'
            BY <3>1
        <3> QED BY <3>1, <3>2, ClaimsFrame
    <2>2. ASSUME NEW n \in Nodes, Claim(n) PROVE Claims'
        BY <2>2, ClaimClaims
    <2>3. ASSUME NEW g \in Groups, NEW res \in {"ok", "err"}, HandlerDone(g, res)
          PROVE  Claims'
        BY <2>3, HandlerDoneClaims
    <2>4. ASSUME NEW g \in Groups, RenewLeases(g) PROVE Claims'
        BY <2>4, ClaimsFrame DEF RenewLeases
    <2>5. ASSUME NEW d \in inflight,
                 Ack(d) \/ FailDead(d) \/ FailRetry(d) \/ SettleError(d)
          PROVE  Claims'
        BY <2>5, SettleClaims
    <2>6. ASSUME NEW n \in Nodes, SweepExpired(n) PROVE Claims'
        BY <2>6, ClaimsFrame DEF SweepExpired, Expired, Exhausted
    <2>7. ASSUME NEW n \in Nodes, SweepExhausted(n) PROVE Claims'
        BY <2>7, ClaimsFrame DEF SweepExhausted, Expired, Exhausted
    <2>8. ASSUME NEW n \in Nodes, SweepRest(n) PROVE Claims'
        <3>1. OneSweep'
            BY <2>8 DEF SweepRest
        <3> QED BY <2>8, <3>1, ClaimsFrame DEF SweepRest, Expired
    <2>9. ASSUME NEW S \in SUBSET Ids, RequeueDead(S) PROVE Claims'
        BY <2>9, ClaimsFrame DEF RequeueDead
    <2>10. CASE PurgeDead
        BY <2>10, ClaimsFrame DEF PurgeDead
    <2>11. CASE Tick
        BY <2>11, ClaimsFrame DEF Tick
    <2>12. ASSUME NEW n \in Nodes,
                  Stop(n) \/ Drained(n) \/ Crash(n) \/ Restart(n)
                  \/ \E flag \in BOOLEAN : SetPaused(n, flag)
           PROVE  Claims'
        <3>1. OneSweep'
            BY <2>12 DEF Stop, Drained, Crash, Restart, SetPaused, TypeOK
        <3>2. inflight' \subseteq inflight /\ handled' = handled /\ UNCHANGED store
            BY <2>12 DEF Stop, Drained, Crash, Restart, SetPaused
        <3> QED BY <3>1, <3>2, ClaimsFrame DEF store
    <2>13. CASE UNCHANGED vars
        BY <2>13, ClaimsFrame DEF vars
    <2> QED BY <1>2, <2>0, <2>1, <2>2, <2>3, <2>4, <2>5, <2>6, <2>7, <2>8, <2>9,
               <2>10, <2>11, <2>12, <2>13 DEF Next
<1> QED BY <1>1, <1>2, TypeInductive DEF Safe

\* The inductive invariant holds throughout.
THEOREM SafeAlways == Spec => []Safe
<1>1. Init => Safe
    BY SafeInductive
<1>2. Safe /\ [Next]_vars => Safe'
    BY SafeInductive
<1> QED BY <1>1, <1>2, PTL DEF Spec

-----------------------------------------------------------------------------
(* Fencing *)

\* No fencing token is handed out twice (store.rs, ClaimedJob.fence): of all
\* deliveries of a job in flight, zombies included, one at most can settle it.
THEOREM TokensUnique == Spec => []UniqueClaims
<1>1. Safe => UniqueClaims
    BY DEF Safe, Claims
<1> QED BY <1>1, SafeAlways, PTL

\* A running row leaves that status only by its expired lease or by the store
\* call of the delivery that holds its current token (WHERE id AND fence).
THEOREM Fenced == Spec => FencedTransitions
<1> DEFINE A == \A j \in Ids :
          status[j] = "running" /\ status'[j] # "running"
              => \/ lease[j] < 0
                 \/ \E d \in inflight \ inflight' : d.id = j /\ d.fence = fence[j]
<1>1. ASSUME Safe, [Next]_vars PROVE A
    <2> SUFFICES ASSUME NEW j \in Ids, status[j] = "running", status'[j] # "running"
                 PROVE  \/ lease[j] < 0
                        \/ \E d \in inflight \ inflight' : d.id = j /\ d.fence = fence[j]
        OBVIOUS
    <2>1. TypeOK /\ j < nextId
        BY <1>1 DEF Safe, Claims, TypeOK
    <2>2. ASSUME NEW p \in Producers, PushCommit(p) PROVE FALSE
        BY <2>1, <2>2 DEF PushCommit, Removed, Debounced
    <2>3. ASSUME NEW n \in Nodes, Claim(n) PROVE FALSE
        BY <2>3 DEF Claim, ClaimRows
    <2>4. ASSUME NEW d \in inflight, Ack(d) \/ FailDead(d) \/ FailRetry(d)
          PROVE  /\ d \in inflight \ inflight'
                 /\ d.id = j /\ d.fence = fence[j]
        <3>1. d \in inflight \ inflight'
            BY <2>4 DEF Ack, FailDead, FailRetry
        <3>2. Holds(d) /\ \E v : status' = [status EXCEPT ![d.id] = v]
            BY <2>4 DEF Ack, FailDead, FailRetry
        <3>3. d.id = j
            BY <2>1, <3>2 DEF TypeOK
        <3> QED BY <3>1, <3>2, <3>3 DEF Holds
    <2>5. ASSUME NEW n \in Nodes, SweepExpired(n) PROVE lease[j] < 0
        BY <2>5 DEF SweepExpired, Expired, Exhausted
    <2>6. ASSUME NEW n \in Nodes, SweepExhausted(n) PROVE lease[j] < 0
        BY <2>6 DEF SweepExhausted, Expired, Exhausted
    <2>7. ASSUME NEW n \in Nodes, SweepRest(n) PROVE lease[j] < 0
        BY <2>7 DEF SweepRest, Expired
    <2>8. ASSUME NEW S \in SUBSET Ids, RequeueDead(S) PROVE FALSE
        BY <2>8 DEF RequeueDead
    <2>9. CASE PurgeDead
        BY <2>9 DEF PurgeDead
    <2>10. ~UNCHANGED status
        OBVIOUS
    <2> QED BY <1>1, <2>2, <2>3, <2>4, <2>5, <2>6, <2>7, <2>8, <2>9, <2>10
            DEF Next, PushStart, PushAbort, HandlerDone, RenewLeases, SettleError, SetPaused, Stop,
                Drained, Crash, Restart, Tick, vars, store
<1> HIDE DEF A
<1>2. Safe /\ [Next]_vars => [A]_vars
    BY <1>1
<1>3. Spec => [][A]_vars
    BY <1>2, SafeAlways, PTL DEF Spec
<1> QED BY <1>3 DEF FencedTransitions, A

-----------------------------------------------------------------------------
(* The retry budget on SQLite *)

\* A step keeps the budget if it moves no row into pending or running, counts
\* no attempt and leaves the options of the rows alone.
LEMMA BudgetFrame ==
    ASSUME RetryBudget, opts' = opts, attempt' = attempt,
           \A j \in Ids : status'[j] \in {"pending", "running"} => status'[j] = status[j]
    PROVE  RetryBudget'
BY DEF RetryBudget, MaxAttempts

\* Every step keeps the budget when the sweep is one transaction.
LEMMA BudgetStep ==
    ASSUME Backend = "sqlite", Safe, RetryBudget, [Next]_vars PROVE RetryBudget'
<1> TypeOK /\ Claims
    BY DEF Safe
<1>0. \A j \in Ids : MaxAttempts(j) \in Nat \ {0} /\ attempt[j] \in Nat
    BY MaxAttemptsType DEF TypeOK
<1>1. ASSUME NEW p \in Producers, PushCommit(p) PROVE RetryBudget'
    <2>1. nextId \in Ids /\ attempt[nextId] = 0 /\ attempt' = attempt
        BY <1>1 DEF PushCommit, Claims, TypeOK
    <2>2. opts'[nextId] \in PushOpts
        BY <1>1, <2>1 DEF PushCommit, TypeOK, Call
    <2>3. MaxOf(opts'[nextId].max, 1) > 0
        BY <2>2, PushOptsAssumption DEF MaxOf
    <2>4. ASSUME NEW j \in Ids, j # nextId
          PROVE  /\ status'[j] \in {"pending", "running"} => status'[j] = status[j]
                 /\ MaxAttempts(j)' = MaxAttempts(j)
        BY <1>1, <2>4 DEF PushCommit, MaxAttempts, TypeOK
    <2>5. status'[nextId] = "pending"
        BY <1>1, <2>1 DEF PushCommit
    <2>6. ASSUME NEW j \in Ids
          PROVE  /\ status'[j] = "pending" => attempt'[j] < MaxOf(opts'[j].max, 1)
                 /\ status'[j] = "running" => attempt'[j] \in 1..MaxOf(opts'[j].max, 1)
        <3>1. CASE j = nextId
            BY <3>1, <2>1, <2>3, <2>5
        <3>2. CASE j # nextId
            BY <3>2, <2>1, <2>4 DEF RetryBudget, MaxAttempts
        <3> QED BY <3>1, <3>2
    <2> QED BY <2>6 DEF RetryBudget, MaxAttempts
<1>2. ASSUME NEW n \in Nodes, Claim(n) PROVE RetryBudget'
    <2>1. PICK limit \in Wants(n) : ClaimRows(Claimable(limit))
        BY <1>2 DEF Claim
    <2>2. \A j \in Claimable(limit) : j \in Ids /\ status[j] = "pending"
        BY ClaimableIsReady DEF Ready
    <2>3. opts' = opts
        BY <1>2 DEF Claim
    <2>4. ASSUME NEW j \in Ids
          PROVE  /\ status'[j] = "pending" => attempt'[j] < MaxAttempts(j)
                 /\ status'[j] = "running" => attempt'[j] \in 1..MaxAttempts(j)
        BY <1>0, <2>1, <2>2 DEF ClaimRows, RetryBudget
    <2> QED BY <2>3, <2>4 DEF RetryBudget, MaxAttempts
<1>3. ASSUME NEW d \in inflight, Ack(d) \/ FailDead(d) PROVE RetryBudget'
    BY <1>3, BudgetFrame DEF Ack, FailDead, TypeOK
<1>4. ASSUME NEW d \in inflight, FailRetry(d) PROVE RetryBudget'
    <2>1. Holds(d) => attempt[d.id] < MaxAttempts(d.id)
        BY <1>0, <1>4, Fields DEF Holds, FailRetry, Claims
    <2>2. opts' = opts /\ attempt' = attempt
        BY <1>4 DEF FailRetry
    <2>3. \A j \in Ids : status'[j] = status[j] \/ (status'[j] = "pending" /\ j = d.id /\ Holds(d))
        BY <1>4 DEF FailRetry, TypeOK
    <2> QED BY <2>1, <2>2, <2>3 DEF RetryBudget, MaxAttempts
<1>5. ASSUME NEW n \in Nodes, SweepExpired(n) PROVE RetryBudget'
    <2>1. opts' = opts /\ attempt' = attempt
        BY <1>5 DEF SweepExpired
    <2>2. ASSUME NEW j \in Ids, status'[j] \in {"pending", "running"}
          PROVE  status'[j] = status[j] \/ (status'[j] = "pending" /\ attempt[j] < MaxAttempts(j))
        BY <1>0, <1>5, <2>2 DEF SweepExpired, Expired, Exhausted
    <2> QED BY <2>1, <2>2 DEF RetryBudget, MaxAttempts
<1>6. ASSUME NEW S \in SUBSET Ids, RequeueDead(S) PROVE RetryBudget'
    <2>1. opts' = opts
        BY <1>6 DEF RequeueDead
    <2>2. ASSUME NEW j \in Ids
          PROVE  /\ status'[j] = "pending" => attempt'[j] < MaxAttempts(j)
                 /\ status'[j] = "running" => attempt'[j] \in 1..MaxAttempts(j)
        BY <1>0, <1>6 DEF RequeueDead, RetryBudget
    <2> QED BY <2>1, <2>2 DEF RetryBudget, MaxAttempts
<1>7. CASE PurgeDead
    BY <1>7, BudgetFrame DEF PurgeDead
<1>8. \A n \in Nodes : ~SweepExhausted(n) /\ ~SweepRest(n)
    BY DEF SweepExhausted, SweepRest, Claims
<1>9. CASE UNCHANGED <<opts, status, attempt>>
    BY <1>9, BudgetFrame
<1> QED BY <1>1, <1>2, <1>3, <1>4, <1>5, <1>6, <1>7, <1>8, <1>9
        DEF Next, PushStart, PushAbort, HandlerDone, RenewLeases, SettleError, SetPaused, Stop,
            Drained, Crash, Restart, Tick, vars, store

\* On SQLite no job is claimable without an attempt left and none runs beyond
\* max_attempts, whatever zombies, sweeps and requeues do.  (On Postgres the
\* sweep is two statements and this fails.)
THEOREM BudgetKept == Backend = "sqlite" => (Spec => []RetryBudget)
<1> SUFFICES ASSUME Backend = "sqlite" PROVE Spec => []RetryBudget
    OBVIOUS
<1>1. Init => RetryBudget
    BY DEF Init, RetryBudget
<1>2. Safe /\ RetryBudget /\ [Next]_vars => RetryBudget'
    BY BudgetStep
<1> QED BY <1>1, <1>2, SafeAlways, PTL DEF Spec

-----------------------------------------------------------------------------
(* The queue implements AtLeastOnce *)

\* The abstract outcome only depends on the status of the row.
LEMMA OutcomeOf ==
    ASSUME NEW j \in Ids
    PROVE  /\ status[j] = "none" => Outcome[j] = "absent"
           /\ status[j] \in {"pending", "running"} => Outcome[j] = "owed"
           /\ status[j] = "dead" => Outcome[j] = "dead"
           /\ status[j] = "acked" => Outcome[j] = "done"
           /\ status[j] \in {"purged", "collapsed"} => Outcome[j] = "dropped"
BY DEF Outcome

\* The same, after a step.
LEMMA OutcomeNext ==
    ASSUME NEW j \in Ids
    PROVE  /\ status'[j] = "none" => Outcome'[j] = "absent"
           /\ status'[j] \in {"pending", "running"} => Outcome'[j] = "owed"
           /\ status'[j] = "dead" => Outcome'[j] = "dead"
           /\ status'[j] = "acked" => Outcome'[j] = "done"
           /\ status'[j] \in {"purged", "collapsed"} => Outcome'[j] = "dropped"
BY DEF Outcome

\* A step that gives the jobs S the abstract outcome v and keeps the others.
LEMMA MoveStep ==
    ASSUME NEW S \in SUBSET Ids, NEW From, NEW v,
           \A j \in S : Outcome[j] \in From /\ Outcome'[j] = v,
           \A j \in Ids \ S : Outcome'[j] = Outcome[j],
           handled' = handled
    PROVE  Promise!Move(S, From, v)
<1>1. Outcome' = [j \in Ids |-> Outcome'[j]]
    BY DEF Outcome
<1> QED BY <1>1 DEF Promise!Move

\* A step that changes no abstract outcome.
LEMMA NoMove ==
    ASSUME \A j \in Ids : Outcome'[j] = Outcome[j], handled' = handled
    PROVE  UNCHANGED Promise!vars
<1>1. Outcome' = [j \in Ids |-> Outcome'[j]] /\ Outcome = [j \in Ids |-> Outcome[j]]
    BY DEF Outcome
<1> QED BY <1>1 DEF Promise!vars

\* The store call of a settlement acknowledges a job that was handled, gives it
\* up, takes it back or, without the token, does nothing.
LEMMA SettlePromise ==
    ASSUME Safe, NEW d \in inflight, Ack(d) \/ FailDead(d) \/ FailRetry(d)
    PROVE  [Promise!Next]_(Promise!vars)
<1>1. /\ TypeOK /\ d.id \in Ids
      /\ d.res = "ok" => d.id \in handled
    BY Fields DEF Safe, Claims
<1>2. handled' = handled
    BY DEF Ack, FailDead, FailRetry
<1>3. CASE ~Holds(d)
    <2>1. status' = status
        BY <1>3 DEF Ack, FailDead, FailRetry
    <2>2. \A j \in Ids : Outcome'[j] = Outcome[j]
        BY <2>1 DEF Outcome
    <2> QED BY <1>2, <2>2, NoMove
<1>4. CASE Holds(d)
    <2>1. status[d.id] \in Rows
        BY <1>4 DEF Holds
    <2>2. Outcome[d.id] \in {"owed", "dead"}
        BY <2>1, <1>1, OutcomeOf
    <2>3. ASSUME NEW v, status' = [status EXCEPT ![d.id] = v]
          PROVE  /\ status'[d.id] = v
                 /\ \A j \in Ids \ {d.id} : Outcome'[j] = Outcome[j]
        BY <2>3, <1>1 DEF TypeOK, Outcome
    <2>4. CASE Ack(d)
        <3>1. status' = [status EXCEPT ![d.id] = "acked"] /\ d.id \in handled
            BY <2>4, <1>1, <1>4 DEF Ack
        <3>2. Outcome'[d.id] = "done"
            BY <3>1, <2>3, <1>1, OutcomeNext
        <3>3. Promise!Move({d.id}, {"owed", "dead"}, "done")
            BY <3>1, <3>2, <2>2, <2>3, <1>1, <1>2, MoveStep
        <3> QED BY <3>1, <3>3, <1>1 DEF Promise!Next, Promise!Acknowledge
    <2>5. CASE FailDead(d)
        <3>1. status' = [status EXCEPT ![d.id] = "dead"]
            BY <2>5, <1>4 DEF FailDead
        <3>2. Outcome'[d.id] = "dead"
            BY <3>1, <2>3, <1>1, OutcomeNext
        <3>3. CASE Outcome[d.id] = "dead"
            BY <3>1, <3>2, <3>3, <2>3, <1>2, NoMove
        <3>4. CASE Outcome[d.id] = "owed"
            <4>1. Promise!Move({d.id}, {"owed"}, "dead")
                BY <3>1, <3>2, <3>4, <2>3, <1>1, <1>2, MoveStep
            <4> QED BY <4>1, <1>1 DEF Promise!Next, Promise!GiveUp
        <3> QED BY <3>3, <3>4, <2>2
    <2>6. CASE FailRetry(d)
        <3>1. status' = [status EXCEPT ![d.id] = "pending"]
            BY <2>6, <1>4 DEF FailRetry
        <3>2. Outcome'[d.id] = "owed"
            BY <3>1, <2>3, <1>1, OutcomeNext
        <3>3. CASE Outcome[d.id] = "owed"
            BY <3>1, <3>2, <3>3, <2>3, <1>2, NoMove
        <3>4. CASE Outcome[d.id] = "dead"
            <4>1. Promise!Move({d.id}, {"dead"}, "owed")
                BY <3>1, <3>2, <3>4, <2>3, <1>1, <1>2, MoveStep
            <4> QED BY <4>1, <1>1 DEF Promise!Next, Promise!Requeue
        <3> QED BY <3>3, <3>4, <2>2
    <2> QED BY <2>4, <2>5, <2>6
<1> QED BY <1>3, <1>4

\* Every step of the queue is a step of the promise or leaves it unchanged.
LEMMA PromiseStep ==
    ASSUME Safe, [Next]_vars PROVE [Promise!Next]_(Promise!vars)
<1> TypeOK
    BY DEF Safe
<1>1. ASSUME NEW p \in Producers, PushCommit(p) PROVE Promise!Next
    <2>1. nextId \in Ids /\ status[nextId] = "none"
        BY <1>1 DEF PushCommit, Safe, Claims, TypeOK
    <2>2. Removed(pushing[p]) \in SUBSET Ids /\ \A k \in Removed(pushing[p]) : Outcome[k] = "owed"
        BY OutcomeOf DEF Removed, Debounced, TypeOK, Call
    <2>3. Outcome[nextId] = "absent" /\ Outcome'[nextId] = "owed"
        BY <2>1, <1>1, OutcomeOf, OutcomeNext DEF PushCommit
    <2>4. ASSUME NEW k \in Removed(pushing[p]) PROVE k # nextId /\ Outcome'[k] = "dropped"
        <3>1. k \in Ids /\ k # nextId
            BY <2>1 DEF Removed, Debounced, TypeOK, Call
        <3>2. status'[k] = "collapsed"
            BY <1>1, <3>1 DEF PushCommit
        <3> QED BY <3>1, <3>2, OutcomeNext
    <2>5. \A k \in Ids : k # nextId /\ k \notin Removed(pushing[p]) => Outcome'[k] = Outcome[k]
        BY <1>1 DEF PushCommit, Outcome
    <2>6. Outcome' = [k \in Ids |-> Outcome'[k]]
        BY DEF Outcome
    <2>7. Outcome' = [k \in Ids |-> IF k = nextId THEN "owed"
                                    ELSE IF k \in Removed(pushing[p]) THEN "dropped"
                                    ELSE Outcome[k]]
        BY <2>3, <2>4, <2>5, <2>6
    <2>8. Promise!Accept(nextId, Removed(pushing[p]))
        BY <1>1, <2>2, <2>3, <2>7 DEF Promise!Accept, PushCommit
    <2> QED BY <2>1, <2>2, <2>8 DEF Promise!Next
<1>2. ASSUME NEW n \in Nodes, Claim(n) PROVE UNCHANGED Promise!vars
    <2>1. PICK limit \in Wants(n) : ClaimRows(Claimable(limit))
        BY <1>2 DEF Claim
    <2>2. \A j \in Claimable(limit) : status[j] = "pending" /\ j \in Ids
        BY ClaimableIsReady DEF Ready
    <2>3. ASSUME NEW j \in Ids PROVE Outcome'[j] = Outcome[j]
        BY <2>1, <2>2, OutcomeOf, OutcomeNext DEF ClaimRows, Outcome
    <2> QED BY <1>2, <2>3, NoMove DEF Claim
<1>3. ASSUME NEW g \in Groups, NEW res \in {"ok", "err"}, HandlerDone(g, res)
      PROVE  [Promise!Next]_(Promise!vars)
    <2> DEFINE S == {d.id : d \in Members(g)}
    <2>1. Outcome' = Outcome
        BY <1>3 DEF HandlerDone, store, Outcome
    <2>2. CASE res = "err"
        BY <1>3, <2>1, <2>2 DEF HandlerDone, Promise!vars
    <2>3. CASE res = "ok"
        <3>1. ASSUME NEW d \in inflight PROVE d.id \in Ids /\ Outcome[d.id] # "absent"
            <4>1. d.id \in Ids /\ status[d.id] # "none"
                BY Fields DEF Safe, Claims
            <4> QED BY <4>1 DEF Outcome
        <3>2. S \in SUBSET Ids /\ \A j \in S : Outcome[j] # "absent"
            BY <3>1 DEF Members
        <3>3. Promise!Handle(S)
            BY <1>3, <2>1, <2>3, <3>2 DEF HandlerDone, Promise!Handle
        <3> HIDE DEF S
        <3> QED BY <3>2, <3>3 DEF Promise!Next
    <2> QED BY <2>2, <2>3
<1>4. ASSUME NEW d \in inflight, Ack(d) \/ FailDead(d) \/ FailRetry(d)
      PROVE  [Promise!Next]_(Promise!vars)
    BY <1>4, SettlePromise
<1>5. ASSUME NEW n \in Nodes, SweepExpired(n) \/ SweepExhausted(n) PROVE Promise!Next
    <2>1. Exhausted \in SUBSET Ids /\ \A j \in Exhausted : Outcome[j] = "owed"
        BY OutcomeOf DEF Exhausted, Expired
    <2>2. \A j \in Exhausted : Outcome'[j] = "dead"
        BY <1>5, <2>1, OutcomeNext DEF SweepExpired, SweepExhausted
    <2>3. ASSUME NEW j \in Ids \ Exhausted PROVE Outcome'[j] = Outcome[j]
        <3>1. status'[j] = status[j] \/ (status'[j] = "pending" /\ status[j] = "running")
            BY <1>5, <2>3 DEF SweepExpired, SweepExhausted, Expired
        <3> QED BY <3>1 DEF Outcome
    <2>4. handled' = handled
        BY <1>5 DEF SweepExpired, SweepExhausted
    <2>5. Promise!Move(Exhausted, {"owed"}, "dead")
        BY <2>1, <2>2, <2>3, <2>4, MoveStep
    <2> QED BY <2>1, <2>5 DEF Promise!Next, Promise!GiveUp
<1>6. ASSUME NEW n \in Nodes, SweepRest(n) PROVE UNCHANGED Promise!vars
    <2>1. ASSUME NEW j \in Ids PROVE Outcome'[j] = Outcome[j]
        BY <1>6 DEF SweepRest, Expired, Outcome
    <2> QED BY <1>6, <2>1, NoMove DEF SweepRest
<1>7. ASSUME NEW S \in SUBSET Ids, RequeueDead(S) PROVE Promise!Next
    <2>1. \A j \in S : Outcome[j] = "dead" /\ Outcome'[j] = "owed"
        BY <1>7, OutcomeOf, OutcomeNext DEF RequeueDead
    <2>2. \A j \in Ids \ S : Outcome'[j] = Outcome[j]
        BY <1>7 DEF RequeueDead, Outcome
    <2>3. handled' = handled
        BY <1>7 DEF RequeueDead
    <2>4. Promise!Move(S, {"dead"}, "owed")
        BY <2>1, <2>2, <2>3, MoveStep
    <2> QED BY <2>4 DEF Promise!Next, Promise!Requeue
<1>8. ASSUME PurgeDead PROVE Promise!Next
    <2> DEFINE S == {j \in Ids : status[j] = "dead"}
    <2>1. \A j \in S : Outcome[j] = "dead" /\ Outcome'[j] = "dropped"
        BY <1>8, OutcomeOf, OutcomeNext DEF PurgeDead
    <2>2. \A j \in Ids \ S : Outcome'[j] = Outcome[j]
        BY <1>8 DEF PurgeDead, Outcome
    <2>3. handled' = handled
        BY <1>8 DEF PurgeDead
    <2>4. S \in SUBSET Ids
        OBVIOUS
    <2> HIDE DEF S
    <2>5. Promise!Move(S, {"dead"}, "dropped")
        BY <2>1, <2>2, <2>3, <2>4, MoveStep
    <2> QED BY <2>4, <2>5 DEF Promise!Next, Promise!Drop
<1>9. CASE UNCHANGED <<status, handled>>
    <2>1. \A j \in Ids : Outcome'[j] = Outcome[j]
        BY <1>9 DEF Outcome
    <2> QED BY <1>9, <2>1, NoMove
<1> QED BY <1>1, <1>2, <1>3, <1>4, <1>5, <1>6, <1>7, <1>8, <1>9
        DEF Next, PushStart, PushAbort, RenewLeases, SettleError, SetPaused, Stop, Drained, Crash,
            Restart, Tick, vars, store

\* The queue keeps the at-least-once promise on both backends: nothing is
\* acknowledged before a handler finished it and nothing settled comes back,
\* through zombies, sweeps, crashes, lost settlements and requeues.
THEOREM PromiseKept == Spec => KeepsPromise
<1>1. Init => Promise!Init
    BY DEF Init, Outcome, Promise!Init
<1>2. Safe /\ [Next]_vars => [Promise!Next]_(Promise!vars)
    BY PromiseStep
<1> QED BY <1>1, <1>2, SafeAlways, PTL DEF Spec, Promise!Spec, KeepsPromise
-----------------------------------------------------------------------------
(* Debouncing and throttling *)

\* A row waiting for its first start.
Waiting(j) == status[j] = "pending" /\ fence[j] = 0

\* Only a claim makes a row running, and only a claimed row can die or be
\* settled: what a retry, a sweep or a requeue makes pending again is not
\* waiting for its first start.
OnlyClaimsStart ==
    /\ \A j \in Ids : status[j] \in {"running", "dead"} => fence[j] > 0
    /\ \A d \in inflight : d.fence > 0

\* The cursor of a throttle key is past the slots it has given out.
CursorAhead ==
    \A j \in Ids :
        Slotted(j) /\ opts[j].tkey # NoKey /\ avail[j] > -Slack
            => cursor[opts[j].tkey] >= avail[j] + opts[j].spacing

\* A Postgres push in progress knows every waiting job of its debounce key, or
\* the job was committed beside it.
Accounted ==
    Backend = "postgres" =>
        \A p \in Producers, j \in Ids :
            /\ pushing[p].open /\ Waiting(j)
            /\ opts[j].dkey = pushing[p].opts.dkey /\ opts[j].dkey # NoKey
            => j \in pushing[p].rows \cup pushing[p].beside

Shaped ==
    OnlyClaimsStart /\ CursorAhead /\ Accounted /\ DebounceCollapses /\ SlotsSpaced

\* A step keeps the shaping if it leaves options, slots, cursors and calls of
\* push alone, and makes no row wait for its first start.
LEMMA ShapedFrame ==
    ASSUME Shaped, OnlyClaimsStart', opts' = opts, cursor' = cursor,
           pushing' = pushing, unseen' = unseen,
           \A j \in Ids : Waiting(j)' => Waiting(j),
           \A j \in Ids : Slotted(j)' => Slotted(j) /\ avail'[j] = avail[j]
    PROVE  Shaped'
<1>1. CursorAhead'
    BY DEF Shaped, CursorAhead
<1>2. DebounceCollapses'
    BY DEF Shaped, DebounceCollapses, Doubled, Waiting
<1>3. SlotsSpaced'
    BY DEF Shaped, SlotsSpaced
<1>4. Accounted'
    BY DEF Shaped, Accounted
<1> QED BY <1>1, <1>2, <1>3, <1>4 DEF Shaped

\* A call of push that starts has every waiting job of its key in its
\* snapshot; one that ends without a commit changes nothing.
LEMMA CallShaped ==
    ASSUME Safe, Shaped, NEW p \in Producers,
           PushAbort(p) \/ \E o \in PushOpts : PushStart(p, o)
    PROVE  Shaped'
<1> TypeOK
    BY DEF Safe
<1>1. UNCHANGED <<opts, status, fence, avail, cursor, unseen, inflight>>
    BY DEF PushAbort, PushStart
<1>2. OnlyClaimsStart' /\ CursorAhead' /\ DebounceCollapses' /\ SlotsSpaced'
    BY <1>1 DEF Shaped, OnlyClaimsStart, CursorAhead, DebounceCollapses, Doubled,
                SlotsSpaced, Slotted, Waiting
<1>3. Accounted'
    <2> SUFFICES ASSUME Backend = "postgres", NEW q \in Producers, NEW j \in Ids,
                        pushing'[q].open, Waiting(j),
                        opts[j].dkey = pushing'[q].opts.dkey, opts[j].dkey # NoKey
                 PROVE  j \in pushing'[q].rows \cup pushing'[q].beside
        BY <1>1 DEF Accounted, Waiting
    <2>1. CASE pushing'[q] = pushing[q]
        BY <2>1 DEF Shaped, Accounted
    <2>2. CASE pushing'[q] # pushing[q]
        <3>1. q = p /\ (pushing'[q] = Idle \/ \E o \in PushOpts : pushing'[q] = Opened(o))
            BY <2>2 DEF PushAbort, PushStart, TypeOK
        <3>2. PICK o \in PushOpts : pushing'[q] = Opened(o)
            BY <3>1 DEF Idle
        <3>3. pushing'[q].opts = o /\ pushing'[q].rows = Debounced(o)
            BY <3>2 DEF Opened
        <3> QED BY <3>3 DEF Debounced, Waiting
    <2> QED BY <2>1, <2>2
<1> QED BY <1>2, <1>3 DEF Shaped

\* A commit drops the waiting rows of its debounce key that it knows of and
\* takes the next slot of its throttle key.
LEMMA PushShaped ==
    ASSUME Safe, Shaped, NEW p \in Producers, PushCommit(p) PROVE Shaped'
<1> TypeOK /\ Claims
    BY DEF Safe
<1> DEFINE c == pushing[p]
           o == pushing[p].opts
<1>0. c \in Call /\ o \in PushOpts /\ c.open
    BY DEF TypeOK, Call, PushCommit
<1>1. /\ nextId \in Ids /\ opts'[nextId] = o /\ status'[nextId] = "pending"
      /\ avail'[nextId] = StartOf(c) /\ fence' = fence
      /\ unseen'[nextId] = c.beside
      /\ \A j \in Ids : j >= nextId => status[j] = "none"
    BY DEF PushCommit, TypeOK, Claims
<1>2. ASSUME NEW j \in Ids, j # nextId
      PROVE  /\ opts'[j] = opts[j] /\ avail'[j] = avail[j] /\ unseen'[j] = unseen[j]
             /\ status'[j] = status[j] \/ status'[j] = "collapsed"
             /\ status'[j] \in {"pending", "running"} => j < nextId /\ j \notin Removed(c)
    <2>1. opts'[j] = opts[j] /\ avail'[j] = avail[j] /\ unseen'[j] = unseen[j]
        BY <1>2 DEF PushCommit, TypeOK
    <2>2. status'[j] = IF j \in Removed(c) THEN "collapsed" ELSE status[j]
        BY <1>2 DEF PushCommit
    <2>3. status[j] \in {"pending", "running"} => j < nextId
        BY <1>1, CountsAssumption DEF TypeOK
    <2> QED BY <2>1, <2>2, <2>3
<1>3. OnlyClaimsStart'
    BY <1>1, <1>2 DEF PushCommit, Shaped, OnlyClaimsStart
<1>4. ASSUME NEW j \in Ids, j # nextId
      PROVE  /\ Waiting(j)' => Waiting(j)
             /\ Slotted(j)' => Slotted(j)
    BY <1>1, <1>2, <1>4 DEF Waiting, Slotted
<1>5. ASSUME NEW j \in Ids, j # nextId, Waiting(j)', opts'[j].dkey = o.dkey, o.dkey # NoKey
      PROVE  Backend = "postgres" /\ j \in c.beside
    <2>1. Waiting(j) /\ opts[j].dkey = o.dkey /\ j \notin Removed(c)
        BY <1>2, <1>4, <1>5 DEF Waiting
    <2>2. CASE Backend = "sqlite"
        <3>1. Removed(c) = Debounced(o)
            BY <2>2 DEF Removed
        <3> QED BY <2>1, <3>1, <1>5 DEF Debounced, Waiting
    <2>3. CASE Backend = "postgres"
        <3>1. j \in c.rows \cup c.beside
            BY <2>1, <2>3, <1>0, <1>5 DEF Shaped, Accounted
        <3> QED BY <2>1, <2>3, <3>1 DEF Removed, Waiting
    <2> QED BY <2>2, <2>3, FlagsAssumption
<1>6. DebounceCollapses'
    <2> SUFFICES ASSUME NEW j \in Ids, NEW k \in Ids, j # k, Waiting(j)', Waiting(k)',
                        opts'[j].dkey = opts'[k].dkey, opts'[j].dkey # NoKey
                 PROVE  Backend = "postgres" /\ (j \in unseen'[k] \/ k \in unseen'[j])
        BY DEF DebounceCollapses, Doubled, Waiting
    <2>1. CASE j = nextId
        BY <2>1, <1>1, <1>5
    <2>2. CASE k = nextId
        BY <2>2, <1>1, <1>5
    <2>3. CASE j # nextId /\ k # nextId
        BY <2>3, <1>2, <1>4 DEF Shaped, DebounceCollapses, Doubled, Waiting
    <2> QED BY <2>1, <2>2, <2>3
<1>7. Accounted'
    <2> SUFFICES ASSUME Backend = "postgres", NEW q \in Producers, NEW j \in Ids,
                        pushing'[q].open, Waiting(j)',
                        opts'[j].dkey = pushing'[q].opts.dkey, opts'[j].dkey # NoKey
                 PROVE  j \in pushing'[q].rows \cup pushing'[q].beside
        BY DEF Accounted
    <2>1. q # p /\ pushing[q].open /\ pushing[q] \in Call
        BY DEF PushCommit, Idle, TypeOK
    <2>2. pushing'[q] = [pushing[q] EXCEPT !.beside = @ \cup {nextId}]
        BY <2>1 DEF PushCommit
    <2>3. /\ pushing'[q].opts = pushing[q].opts /\ pushing'[q].rows = pushing[q].rows
          /\ pushing'[q].beside = pushing[q].beside \cup {nextId}
        BY <2>1, <2>2 DEF Call
    <2>4. CASE j = nextId
        BY <2>3, <2>4
    <2>5. CASE j # nextId
        <3>1. Waiting(j) /\ opts'[j] = opts[j]
            BY <2>5, <1>2, <1>4
        <3> QED BY <2>1, <2>3, <3>1 DEF Shaped, Accounted
    <2> QED BY <2>4, <2>5
<1>8. ASSUME NEW k \in TKeys
      PROVE  /\ cursor[k] \in Int /\ cursor'[k] \in Int
             /\ k = o.tkey => /\ cursor'[k] = StartOf(c) + o.spacing
                              /\ StartOf(c) >= cursor[k]
             /\ cursor'[k] >= cursor[k]
    <2>1. /\ cursor[k] \in Int /\ c.age \in Int /\ o.spacing \in Nat
          /\ StartOf(c) \in Int /\ CursorAfter(c) \in [TKeys -> Int]
        BY <1>0, SlotType DEF TypeOK
    <2>2. k # NoKey
        BY PushOptsAssumption
    <2>3. cursor'[k] = IF k = o.tkey THEN MaxOf(cursor[k], -c.age) + o.spacing ELSE cursor[k]
        BY DEF PushCommit, CursorAfter
    <2>4. k = o.tkey => StartOf(c) = MaxOf(cursor[k], -c.age)
        BY <2>2 DEF StartOf
    <2>5. MaxOf(cursor[k], -c.age) >= cursor[k] /\ MaxOf(cursor[k], -c.age) \in Int
        <3>1. -c.age \in Int
            BY <2>1
        <3> QED BY <2>1, <3>1, MaxOfType
    <2> HIDE DEF c, o
    <2> QED BY <2>1, <2>3, <2>4, <2>5
<1>9. /\ \A j \in Ids : /\ opts[j].tkey \in TKeys \cup {NoKey}
                        /\ opts[j].spacing \in Nat /\ avail[j] \in Int
      /\ o.tkey \in TKeys \cup {NoKey} /\ o.spacing \in Nat /\ StartOf(c) \in Int
    BY <1>0, PushOptsAssumption, SlotType DEF TypeOK
<1> HIDE DEF c, o
<1>10. CursorAhead'
    <2> SUFFICES ASSUME NEW j \in Ids, Slotted(j)', opts'[j].tkey # NoKey, avail'[j] > -Slack
                 PROVE  cursor'[opts'[j].tkey] >= avail'[j] + opts'[j].spacing
        BY DEF CursorAhead
    <2>1. CASE j = nextId
        BY <2>1, <1>1, <1>8, <1>9
    <2>2. CASE j # nextId
        <3>1. cursor[opts[j].tkey] >= avail[j] + opts[j].spacing
            BY <2>2, <1>2, <1>4 DEF Shaped, CursorAhead
        <3> QED BY <2>2, <3>1, <1>2, <1>8, <1>9
    <2> QED BY <2>1, <2>2
<1>11. SlotsSpaced'
    <2> SUFFICES ASSUME NEW j \in Ids, NEW k \in Ids, Slotted(j)', Slotted(k)',
                        opts'[j].tkey = opts'[k].tkey, opts'[j].tkey # NoKey,
                        j < k, avail'[j] > -Slack
                 PROVE  avail'[k] >= avail'[j] + opts'[j].spacing
        BY DEF SlotsSpaced
    <2>1. j # nextId
        BY <1>1, <1>2 DEF Slotted
    <2>2. Slotted(j) /\ opts'[j] = opts[j] /\ avail'[j] = avail[j]
        BY <2>1, <1>2, <1>4
    <2>3. CASE k = nextId
        <3>1. cursor[opts[j].tkey] >= avail[j] + opts[j].spacing
            BY <2>2 DEF Shaped, CursorAhead
        <3> QED BY <2>2, <2>3, <3>1, <1>1, <1>8, <1>9
    <2>4. CASE k # nextId
        <3>1. Slotted(k) /\ opts'[k] = opts[k] /\ avail'[k] = avail[k]
            BY <2>4, <1>2, <1>4
        <3> QED BY <2>2, <3>1 DEF Shaped, SlotsSpaced
    <2> QED BY <2>3, <2>4
<1> QED BY <1>3, <1>6, <1>7, <1>10, <1>11 DEF Shaped

\* Time moves the slots and the cursor of a key together.
LEMMA TickShaped ==
    ASSUME Safe, Shaped, Tick PROVE Shaped'
<1> TypeOK
    BY DEF Safe
<1>1. /\ opts' = opts /\ status' = status /\ fence' = fence /\ inflight' = inflight
      /\ unseen' = unseen
      /\ \A j \in Ids : (Waiting(j)' <=> Waiting(j)) /\ (Slotted(j)' <=> Slotted(j))
    BY DEF Tick, Waiting, Slotted
<1>2. ASSUME NEW j \in Ids
      PROVE  /\ avail[j] \in Int /\ avail'[j] \in Int /\ opts[j].spacing \in Nat
             /\ avail'[j] >= avail[j] - 1
             /\ avail'[j] > -Slack => avail'[j] = avail[j] - 1
    <2>1. avail[j] \in Int /\ opts[j].spacing \in Nat /\ Slack \in Nat
        BY PushOptsAssumption, CountsAssumption DEF TypeOK
    <2>2. avail'[j] = MaxOf(avail[j] - 1, -Slack)
        BY DEF Tick
    <2> QED BY <2>1, <2>2 DEF MaxOf
<1>3. ASSUME NEW k \in TKeys
      PROVE  cursor[k] \in Int /\ cursor'[k] \in Int /\ cursor'[k] >= cursor[k] - 1
    <2>1. cursor[k] \in Int /\ Slack \in Nat
        BY CountsAssumption DEF TypeOK
    <2>2. cursor'[k] = MaxOf(cursor[k] - 1, -Slack)
        BY DEF Tick
    <2> QED BY <2>1, <2>2 DEF MaxOf
<1>4. OnlyClaimsStart' /\ DebounceCollapses'
    BY <1>1 DEF Shaped, OnlyClaimsStart, DebounceCollapses, Doubled
<1>5. CursorAhead'
    <2> SUFFICES ASSUME NEW j \in Ids, Slotted(j), opts[j].tkey # NoKey, avail'[j] > -Slack
                 PROVE  cursor'[opts[j].tkey] >= avail'[j] + opts[j].spacing
        BY <1>1 DEF CursorAhead
    <2>1. avail[j] > -Slack /\ avail'[j] = avail[j] - 1
        BY <1>2, CountsAssumption
    <2>2. cursor[opts[j].tkey] >= avail[j] + opts[j].spacing
        BY <2>1 DEF Shaped, CursorAhead
    <2>3. opts[j].tkey \in TKeys
        BY PushOptsAssumption DEF TypeOK
    <2> QED BY <2>1, <2>2, <2>3, <1>2, <1>3
<1>6. SlotsSpaced'
    <2> SUFFICES ASSUME NEW j \in Ids, NEW k \in Ids, Slotted(j), Slotted(k),
                        opts[j].tkey = opts[k].tkey, opts[j].tkey # NoKey,
                        j < k, avail'[j] > -Slack
                 PROVE  avail'[k] >= avail'[j] + opts[j].spacing
        BY <1>1 DEF SlotsSpaced
    <2>1. avail[j] > -Slack /\ avail'[j] = avail[j] - 1
        BY <1>2, CountsAssumption
    <2>2. avail[k] >= avail[j] + opts[j].spacing
        BY <2>1 DEF Shaped, SlotsSpaced
    <2> QED BY <2>1, <2>2, <1>2
<1>7. Accounted'
    <2>1. ASSUME NEW p \in Producers
          PROVE  /\ pushing'[p].open = pushing[p].open /\ pushing'[p].opts = pushing[p].opts
                 /\ pushing'[p].rows = pushing[p].rows
                 /\ pushing'[p].beside = pushing[p].beside
        BY DEF Tick, TypeOK, Call
    <2> QED BY <2>1, <1>1 DEF Shaped, Accounted
<1> QED BY <1>4, <1>5, <1>6, <1>7 DEF Shaped

\* Every step keeps the shaping.
LEMMA ShapedStep ==
    ASSUME Safe, Shaped, [Next]_vars PROVE Shaped'
<1> TypeOK /\ Claims
    BY DEF Safe
<1>0. \A j \in Ids : fence[j] \in Nat
    BY DEF TypeOK
<1>1. ASSUME NEW p \in Producers,
             PushCommit(p) \/ PushAbort(p) \/ \E o \in PushOpts : PushStart(p, o)
      PROVE  Shaped'
    BY <1>1, PushShaped, CallShaped
<1>2. ASSUME NEW n \in Nodes, Claim(n) PROVE Shaped'
    <2>1. PICK limit \in Wants(n) :
              /\ ClaimRows(Claimable(limit))
              /\ inflight' = inflight \cup {ClaimedJob(n, Claimable(limit), j) :
                                               j \in Claimable(limit)}
        BY <1>2 DEF Claim
    <2>2. Claimable(limit) \subseteq Ids
        BY ClaimableIsReady DEF Ready
    <2>3. ASSUME NEW j \in Ids PROVE status'[j] \in {"running", "dead"} => fence'[j] > 0
        BY <1>0, <2>1 DEF ClaimRows, Shaped, OnlyClaimsStart
    <2>4. ASSUME NEW d \in inflight' PROVE d.fence > 0
        BY <1>0, <2>1, <2>2 DEF ClaimedJob, Shaped, OnlyClaimsStart
    <2>5. OnlyClaimsStart'
        BY <2>3, <2>4 DEF OnlyClaimsStart
    <2>6. ASSUME NEW j \in Ids
          PROVE  (Waiting(j)' => Waiting(j)) /\ (Slotted(j)' => Slotted(j))
        <3>1. j \in Claimable(limit) => status[j] = "pending"
            BY ClaimableIsReady DEF Ready
        <3> QED BY <1>0, <2>1, <3>1 DEF ClaimRows, Waiting, Slotted
    <2> QED BY <1>2, <2>5, <2>6, ShapedFrame DEF Claim
<1>3. ASSUME NEW g \in Groups, NEW res \in {"ok", "err"}, HandlerDone(g, res)
      PROVE  Shaped'
    <2>1. /\ opts' = opts /\ cursor' = cursor /\ pushing' = pushing /\ unseen' = unseen /\ status' = status
          /\ fence' = fence /\ avail' = avail
        BY <1>3 DEF HandlerDone, store
    <2>2. ASSUME NEW e \in inflight' PROVE e.fence > 0
        <3>1. PICK d \in inflight : e = IF d.group = g THEN [d EXCEPT !.res = res] ELSE d
            BY <1>3, <2>2 DEF HandlerDone
        <3>2. d \in Delivery /\ d.fence > 0
            BY DEF TypeOK, Shaped, OnlyClaimsStart
        <3> QED BY <3>1, <3>2 DEF Delivery
    <2>3. OnlyClaimsStart'
        BY <2>1, <2>2 DEF Shaped, OnlyClaimsStart
    <2> QED BY <2>1, <2>3, ShapedFrame DEF Waiting, Slotted
<1>4. ASSUME NEW d \in inflight, Ack(d) \/ FailDead(d) PROVE Shaped'
    <2>1. d.id \in Ids /\ (Holds(d) => fence[d.id] > 0)
        BY Fields DEF Holds, Shaped, OnlyClaimsStart
    <2>2. ASSUME NEW j \in Ids
          PROVE  status'[j] = status[j] \/ (status'[j] \in {"acked", "dead"} /\ fence[j] > 0)
        BY <1>4, <2>1 DEF Ack, FailDead, TypeOK
    <2>3. /\ opts' = opts /\ cursor' = cursor /\ pushing' = pushing /\ unseen' = unseen /\ fence' = fence
          /\ avail' = avail /\ inflight' \subseteq inflight
        BY <1>4 DEF Ack, FailDead
    <2>4. OnlyClaimsStart'
        BY <2>2, <2>3 DEF Shaped, OnlyClaimsStart
    <2> QED BY <2>2, <2>3, <2>4, ShapedFrame DEF Waiting, Slotted
<1>5. ASSUME NEW d \in inflight, FailRetry(d) PROVE Shaped'
    <2>1. d.id \in Ids /\ (Holds(d) => fence[d.id] > 0)
        BY Fields DEF Holds, Shaped, OnlyClaimsStart
    <2>2. ASSUME NEW j \in Ids
          PROVE  \/ status'[j] = status[j] /\ avail'[j] = avail[j]
                 \/ status'[j] = "pending" /\ fence[j] > 0
        BY <1>5, <2>1 DEF FailRetry, TypeOK
    <2>3. /\ opts' = opts /\ cursor' = cursor /\ pushing' = pushing /\ unseen' = unseen /\ fence' = fence
          /\ inflight' \subseteq inflight
        BY <1>5 DEF FailRetry
    <2>4. OnlyClaimsStart'
        BY <2>2, <2>3 DEF Shaped, OnlyClaimsStart
    <2>5. ASSUME NEW j \in Ids
          PROVE  /\ Waiting(j)' => Waiting(j)
                 /\ Slotted(j)' => Slotted(j) /\ avail'[j] = avail[j]
        BY <1>0, <2>2, <2>3, <2>5 DEF Waiting, Slotted
    <2> QED BY <2>3, <2>4, <2>5, ShapedFrame
<1>6. ASSUME NEW n \in Nodes, SweepExpired(n) \/ SweepExhausted(n) \/ SweepRest(n)
      PROVE  Shaped'
    <2>1. ASSUME NEW j \in Ids
          PROVE  \/ status'[j] = status[j] /\ avail'[j] = avail[j]
                 \/ status'[j] \in {"pending", "dead"} /\ fence[j] > 0
        <3>1. CASE j \in Expired
            <4>1. fence[j] > 0
                BY <3>1 DEF Expired, Shaped, OnlyClaimsStart
            <4> QED BY <1>6, <3>1, <4>1
                    DEF SweepExpired, SweepExhausted, SweepRest, Expired, Exhausted
        <3>2. CASE j \notin Expired
            BY <1>6, <3>2 DEF SweepExpired, SweepExhausted, SweepRest, Exhausted
        <3> QED BY <3>1, <3>2
    <2>2. /\ opts' = opts /\ cursor' = cursor /\ pushing' = pushing /\ unseen' = unseen /\ fence' = fence
          /\ inflight' = inflight
        BY <1>6 DEF SweepExpired, SweepExhausted, SweepRest
    <2>3. OnlyClaimsStart'
        BY <2>1, <2>2 DEF Shaped, OnlyClaimsStart
    <2>4. ASSUME NEW j \in Ids
          PROVE  /\ Waiting(j)' => Waiting(j)
                 /\ Slotted(j)' => Slotted(j) /\ avail'[j] = avail[j]
        BY <1>0, <2>1, <2>2, <2>4 DEF Waiting, Slotted
    <2> QED BY <2>2, <2>3, <2>4, ShapedFrame
<1>7. ASSUME NEW S \in SUBSET Ids, RequeueDead(S) PROVE Shaped'
    <2>1. ASSUME NEW j \in Ids
          PROVE  \/ status'[j] = status[j] /\ avail'[j] = avail[j]
                 \/ status'[j] = "pending" /\ fence[j] > 0
        BY <1>7 DEF RequeueDead, Shaped, OnlyClaimsStart
    <2>2. /\ opts' = opts /\ cursor' = cursor /\ pushing' = pushing /\ unseen' = unseen /\ fence' = fence
          /\ inflight' = inflight
        BY <1>7 DEF RequeueDead
    <2>3. OnlyClaimsStart'
        BY <2>1, <2>2 DEF Shaped, OnlyClaimsStart
    <2>4. ASSUME NEW j \in Ids
          PROVE  /\ Waiting(j)' => Waiting(j)
                 /\ Slotted(j)' => Slotted(j) /\ avail'[j] = avail[j]
        BY <1>0, <2>1, <2>2, <2>4 DEF Waiting, Slotted
    <2> QED BY <2>2, <2>3, <2>4, ShapedFrame
<1>8. CASE PurgeDead
    <2>1. OnlyClaimsStart'
        BY <1>8 DEF PurgeDead, Shaped, OnlyClaimsStart
    <2> QED BY <1>8, <2>1, ShapedFrame DEF PurgeDead, Waiting, Slotted
<1>9. CASE Tick
    BY <1>9, TickShaped
<1>10. CASE UNCHANGED <<opts, status, fence, avail, cursor, pushing, unseen>> /\ inflight' \subseteq inflight
    <2>1. OnlyClaimsStart'
        BY <1>10 DEF Shaped, OnlyClaimsStart
    <2> QED BY <1>10, <2>1, ShapedFrame DEF Waiting, Slotted
<1> QED BY <1>1, <1>2, <1>3, <1>4, <1>5, <1>6, <1>7, <1>8, <1>9, <1>10
        DEF Next, RenewLeases, SettleError, SetPaused, Stop, Drained, Crash,
            Restart, vars, store

\* The shaping holds throughout.
LEMMA ShapedAlways == Spec => []Shaped
<1>1. Init => Shaped
    BY DEF Init, Shaped, OnlyClaimsStart, CursorAhead, Accounted, DebounceCollapses,
           Doubled, SlotsSpaced, Slotted, Waiting, Idle
<1>2. Safe /\ Shaped /\ [Next]_vars => Shaped'
    BY ShapedStep
<1> QED BY <1>1, <1>2, SafeAlways, PTL DEF Spec

\* On SQLite at most one job of a debounce key waits for its first start,
\* whatever retries, sweeps and requeues bring back; on Postgres a second one
\* waits only if it was committed during the push of the first.
THEOREM DebounceHolds == Spec => []DebounceCollapses
<1>1. Shaped => DebounceCollapses
    BY DEF Shaped
<1> QED BY <1>1, ShapedAlways, PTL

\* The slots of the jobs of a throttle key are at least the spacing apart, for
\* every spacing and delay and however many pushes overlap, on both backends.
THEOREM ThrottleHolds == Spec => []SlotsSpaced
<1>1. Shaped => SlotsSpaced
    BY DEF Shaped
<1> QED BY <1>1, ShapedAlways, PTL

-----------------------------------------------------------------------------
(* The claim query: priority order and the per-key limit *)

\* Every set of jobs is finite.
LEMMA JobsFinite ==
    ASSUME NEW S, S \subseteq Ids PROVE IsFiniteSet(S) /\ Cardinality(S) \in Nat
<1>1. IsFiniteSet(1..MaxJobs)
    BY CountsAssumption, FS_Interval
<1>2. IsFiniteSet(S)
    BY <1>1, FS_Subset
<1> QED BY <1>2, FS_CardinalityType

\* The cardinality of a strictly smaller set of jobs is strictly smaller.
LEMMA JobsFewer ==
    ASSUME NEW T, T \subseteq Ids, NEW S, S \subseteq T
    PROVE  /\ Cardinality(S) <= Cardinality(T)
           /\ S # T => Cardinality(S) < Cardinality(T)
<1>1. /\ IsFiniteSet(T) /\ Cardinality(T) \in Nat
      /\ IsFiniteSet(S) /\ Cardinality(S) \in Nat
    BY JobsFinite
<1>2. Cardinality(S) <= Cardinality(T) /\ (Cardinality(T) = Cardinality(S) => T = S)
    BY <1>1, FS_Subset
<1> QED BY <1>1, <1>2

\* Dispatch order (priority DESC, id ASC) is a strict total order of the jobs.
LEMMA DispatchOrder ==
    ASSUME TypeOK, NEW i \in Ids, NEW j \in Ids, NEW k \in Ids
    PROVE  /\ ~Before(j, j)
           /\ j = k \/ Before(j, k) \/ Before(k, j)
           /\ Before(i, j) /\ Before(j, k) => Before(i, k)
<1>1. opts[i].priority \in Int /\ opts[j].priority \in Int /\ opts[k].priority \in Int
    BY PushOptsAssumption DEF TypeOK
<1>2. PICK p, q, r \in Int : opts[i].priority = p /\ opts[j].priority = q /\ opts[k].priority = r
    BY <1>1
<1>3. i \in Int /\ j \in Int /\ k \in Int
    BY CountsAssumption
<1> QED BY <1>2, <1>3 DEF Before

\* Jobs of one key that come first in dispatch order have the smaller rank
\* (ROW_NUMBER() OVER (PARTITION BY concurrency_key ...)).
LEMMA RankMonotone ==
    ASSUME TypeOK, NEW j \in Ready, NEW k \in Ready,
           opts[j].ckey = opts[k].ckey, Before(j, k)
    PROVE  RankInKey(j) < RankInKey(k)
<1> DEFINE Upto(i) == {x \in Ready : opts[x].ckey = opts[i].ckey /\ (x = i \/ Before(x, i))}
<1>1. Ready \subseteq Ids
    BY DEF Ready
<1>2. Upto(j) \subseteq Upto(k) /\ Upto(k) \subseteq Ids
    BY <1>1, DispatchOrder
<1>3. k \in Upto(k) /\ k \notin Upto(j)
    <2>1. ~Before(k, j) /\ k # j
        BY <1>1, DispatchOrder
    <2> QED BY <2>1
<1>4. RankInKey(j) = Cardinality(Upto(j)) /\ RankInKey(k) = Cardinality(Upto(k))
    BY DEF RankInKey
<1> HIDE DEF Upto
<1> QED BY <1>2, <1>3, <1>4, JobsFewer

\* A rank is a positive number.
LEMMA RankType ==
    ASSUME TypeOK, NEW j \in Ready PROVE RankInKey(j) \in Nat \ {0}
<1> DEFINE U == {x \in Ready : opts[x].ckey = opts[j].ckey /\ (x = j \/ Before(x, j))}
<1>1. U \subseteq Ids /\ j \in U
    BY DEF Ready
<1>2. RankInKey(j) = Cardinality(U)
    BY DEF RankInKey
<1> HIDE DEF U
<1>3. IsFiniteSet(U) /\ Cardinality(U) \in Nat
    BY <1>1, JobsFinite
<1>4. Cardinality(U) # 0
    BY <1>1, <1>3, FS_EmptySet
<1> QED BY <1>2, <1>3, <1>4

\* Ranks tell the ready jobs of one key apart, so at most n of them have a
\* rank up to n.
LEMMA RanksBound ==
    ASSUME TypeOK, NEW T, T \subseteq Ready, NEW n \in Nat,
           \A j, k \in T : opts[j].ckey = opts[k].ckey,
           \A j \in T : RankInKey(j) <= n
    PROVE  Cardinality(T) <= n
<1> DEFINE f == [j \in T |-> RankInKey(j)]
<1>1. T \subseteq Ids
    BY DEF Ready
<1>2. f \in [T -> 1..n]
    BY RankType
<1>3. ASSUME NEW j \in T, NEW k \in T, f[j] = f[k] PROVE j = k
    <2>1. RankInKey(j) = RankInKey(k)
        BY <1>3
    <2>2. RankInKey(j) \in Nat /\ RankInKey(k) \in Nat
        BY RankType
    <2>3. j \in Ready /\ k \in Ready /\ opts[j].ckey = opts[k].ckey
        OBVIOUS
    <2>4. ~Before(j, k) /\ ~Before(k, j)
        BY <2>1, <2>2, <2>3, RankMonotone
    <2> QED BY <2>4, <1>1, DispatchOrder
<1>4. f \in Injection(T, 1..n)
    BY <1>2, <1>3 DEF Injection, IsInjective
<1>5. IsFiniteSet(1..n) /\ Cardinality(1..n) = n
    BY FS_Interval
<1> HIDE DEF f
<1> QED BY <1>4, <1>5, FS_Injection

\* A step keeps the key limit if it claims nothing and leaves the keys alone.
LEMMA KeyLimitFrame ==
    ASSUME TypeOK, KeyLimitHolds, opts' = opts,
           \A j \in Ids : status'[j] = "running" => status[j] = "running"
    PROVE  KeyLimitHolds'
<1> SUFFICES ASSUME KeyLimit # NoLimit, NEW j \in Ids, opts[j].ckey # NoKey
             PROVE  Cardinality(RunningWith(opts[j].ckey)') <= KeyLimit
    BY DEF KeyLimitHolds, RunningWith
<1> DEFINE R == RunningWith(opts[j].ckey)
           S == {k \in Ids : status'[k] = "running" /\ opts[k].ckey = opts[j].ckey}
<1>1. S \subseteq R /\ R \subseteq Ids
    BY DEF RunningWith
<1>2. Cardinality(R) <= KeyLimit
    BY DEF KeyLimitHolds
<1>3. KeyLimit \in Nat /\ Cardinality(R) \in Nat /\ Cardinality(S) \in Nat
    BY <1>1, CountsAssumption, JobsFinite
<1>4. Cardinality(S) <= Cardinality(R)
    BY <1>1, JobsFewer
<1>5. RunningWith(opts[j].ckey)' = S
    BY DEF RunningWith
<1> HIDE DEF R, S
<1> QED BY <1>2, <1>3, <1>4, <1>5

\* A claim takes at most what the key's limit leaves over the running jobs.
LEMMA ClaimKeyLimit ==
    ASSUME TypeOK, KeyLimitHolds, NEW n \in Nodes, Claim(n) PROVE KeyLimitHolds'
<1> SUFFICES ASSUME KeyLimit # NoLimit, NEW i \in Ids, opts[i].ckey # NoKey
             PROVE  Cardinality(RunningWith(opts[i].ckey)') <= KeyLimit
    BY DEF KeyLimitHolds, RunningWith, Claim
<1>1. PICK limit \in Wants(n) : ClaimRows(Claimable(limit))
    BY DEF Claim
<1> DEFINE key == opts[i].ckey
           R == RunningWith(key)
           T == {j \in Claimable(limit) : opts[j].ckey = key}
<1>2. /\ T \subseteq Ready /\ T \subseteq Ids /\ R \subseteq Ids
      /\ \A j, k \in T : opts[j].ckey = opts[k].ckey
    BY ClaimableIsReady DEF Ready, RunningWith
<1>3. RunningWith(opts[i].ckey)' = R \cup T
    BY <1>1, <1>2 DEF RunningWith, ClaimRows, Claim
<1>4. /\ KeyLimit \in Nat /\ Cardinality(R) \in Nat /\ Cardinality(R) <= KeyLimit
      /\ IsFiniteSet(R) /\ IsFiniteSet(T) /\ Cardinality(T) \in Nat
    BY <1>2, CountsAssumption, JobsFinite DEF KeyLimitHolds
<1>5. ASSUME NEW j \in T PROVE RankInKey(j) <= KeyLimit - Cardinality(R)
    <2>1. Cardinality(R) + RankInKey(j) <= KeyLimit
        BY DEF Claimable, Eligible
    <2>2. RankInKey(j) \in Nat
        BY <1>2, RankType
    <2> HIDE DEF R, T
    <2> QED BY <2>1, <2>2, <1>4
<1> HIDE DEF key, R, T
<1>6. KeyLimit - Cardinality(R) \in Nat
    BY <1>4
<1>7. Cardinality(T) <= KeyLimit - Cardinality(R)
    BY <1>2, <1>5, <1>6, RanksBound
<1>8. R \cap T = {}
    BY <1>2 DEF R, RunningWith, Ready
<1>9. Cardinality(R \cup T) = Cardinality(R) + Cardinality(T)
    <2>1. Cardinality(R \cup T) = Cardinality(R) + Cardinality(T) - Cardinality(R \cap T)
        BY <1>4, FS_Union
    <2>2. Cardinality(R \cap T) = 0
        BY <1>8, FS_EmptySet
    <2> QED BY <2>1, <2>2, <1>4
<1> QED BY <1>3, <1>4, <1>7, <1>9

\* Never more running jobs of a concurrency key than its limit, for every
\* limit, batch size and number of processes that claim at the same time.
THEOREM KeyLimitKept == Spec => []KeyLimitHolds
<1>1. Init => KeyLimitHolds
    <2> SUFFICES ASSUME Init, KeyLimit # NoLimit, NEW j \in Ids
                 PROVE  Cardinality(RunningWith(opts[j].ckey)) <= KeyLimit
        BY DEF KeyLimitHolds
    <2>1. RunningWith(opts[j].ckey) = {}
        BY DEF Init, RunningWith
    <2>2. Cardinality(RunningWith(opts[j].ckey)) = 0
        BY <2>1, FS_EmptySet
    <2> QED BY <2>2, CountsAssumption
<1>2. ASSUME Safe, KeyLimitHolds, [Next]_vars PROVE KeyLimitHolds'
    <2> TypeOK /\ Claims
        BY <1>2 DEF Safe
    <2>1. ASSUME NEW p \in Producers, PushCommit(p) PROVE KeyLimitHolds'
        <3> SUFFICES ASSUME KeyLimit # NoLimit, NEW key, key # NoKey
                     PROVE  Cardinality(RunningWith(key)') <= KeyLimit
            BY DEF KeyLimitHolds, RunningWith
        <3>1. RunningWith(key)' = RunningWith(key)
            <4>1. nextId \in Ids /\ status[nextId] = "none"
                BY <2>1 DEF PushCommit, Claims, TypeOK
            <4>2. \A j \in Removed(pushing[p]) : status[j] = "pending"
                BY DEF Removed, Debounced
            <4>3. ASSUME NEW j \in Ids
                  PROVE  /\ (status'[j] = "running") <=> (status[j] = "running")
                         /\ status[j] = "running" => opts'[j] = opts[j]
                <5>1. status'[j] = IF j = nextId THEN "pending"
                                   ELSE IF j \in Removed(pushing[p]) THEN "collapsed"
                                   ELSE status[j]
                    BY <2>1 DEF PushCommit
                <5>2. j # nextId => opts'[j] = opts[j]
                    BY <2>1 DEF PushCommit, TypeOK
                <5> QED BY <4>1, <4>2, <5>1, <5>2
            <4>4. RunningWith(key)' = {k \in Ids : status'[k] = "running" /\ opts'[k].ckey = key}
                BY DEF RunningWith
            <4> QED BY <4>3, <4>4 DEF RunningWith
        <3>2. CASE \E j \in Ids : opts[j].ckey = key
            BY <1>2, <3>1, <3>2 DEF KeyLimitHolds
        <3>3. CASE ~\E j \in Ids : opts[j].ckey = key
            <4>1. RunningWith(key) = {}
                BY <3>3 DEF RunningWith
            <4> QED BY <3>1, <4>1, FS_EmptySet, CountsAssumption
        <3> QED BY <3>2, <3>3
    <2>2. ASSUME NEW n \in Nodes, Claim(n) PROVE KeyLimitHolds'
        BY <1>2, <2>2, ClaimKeyLimit
    <2>3. ASSUME NEW d \in inflight, Ack(d) \/ FailDead(d) \/ FailRetry(d)
          PROVE  KeyLimitHolds'
        BY <1>2, <2>3, KeyLimitFrame DEF Ack, FailDead, FailRetry, TypeOK
    <2>4. ASSUME NEW n \in Nodes, SweepExpired(n) \/ SweepExhausted(n) \/ SweepRest(n)
          PROVE  KeyLimitHolds'
        <3>1. \A j \in Ids : status'[j] = "running" => status[j] = "running"
            <4>1. CASE SweepExpired(n)
                BY <4>1 DEF SweepExpired
            <4>2. CASE SweepExhausted(n)
                BY <4>2 DEF SweepExhausted
            <4>3. CASE SweepRest(n)
                BY <4>3 DEF SweepRest
            <4> QED BY <2>4, <4>1, <4>2, <4>3
        <3>2. opts' = opts
            BY <2>4 DEF SweepExpired, SweepExhausted, SweepRest
        <3> QED BY <1>2, <3>1, <3>2, KeyLimitFrame
    <2>5. ASSUME NEW S \in SUBSET Ids, RequeueDead(S) PROVE KeyLimitHolds'
        BY <1>2, <2>5, KeyLimitFrame DEF RequeueDead
    <2>6. CASE PurgeDead
        BY <1>2, <2>6, KeyLimitFrame DEF PurgeDead
    <2>7. CASE UNCHANGED <<opts, status>>
        BY <1>2, <2>7, KeyLimitFrame
    <2> QED BY <1>2, <2>1, <2>2, <2>3, <2>4, <2>5, <2>6, <2>7
            DEF Next, PushStart, PushAbort, HandlerDone, RenewLeases, SettleError, SetPaused, Stop,
                Drained, Crash, Restart, Tick, vars, store
<1> QED BY <1>1, <1>2, SafeAlways, PTL DEF Spec

\* The image of a finite set is finite.
LEMMA ImageFinite ==
    ASSUME NEW S, IsFiniteSet(S), NEW f, DOMAIN f = S, f = [x \in S |-> f[x]]
    PROVE  IsFiniteSet({f[x] : x \in S})
<1> DEFINE T == {f[x] : x \in S}
<1>1. f \in Surjection(S, T)
    BY DEF Surjection
<1> HIDE DEF T
<1>2. IsFiniteSet(T)
    BY <1>1, FS_Surjection
<1> QED BY <1>2 DEF T

\* Finitely many deliveries are in flight.
FewInFlight == IsFiniteSet(inflight)

\* Every claim starts finitely many deliveries, and no other step starts one.
LEMMA InflightFinite == Spec => []FewInFlight
<1>1. Init => FewInFlight
    BY FS_EmptySet DEF Init, FewInFlight
<1>2. ASSUME IsFiniteSet(inflight), [Next]_vars PROVE IsFiniteSet(inflight')
    <2>1. ASSUME NEW n \in Nodes, Claim(n) PROVE IsFiniteSet(inflight')
        <3>1. PICK limit \in Wants(n) :
                  inflight' = inflight \cup {ClaimedJob(n, Claimable(limit), j) :
                                                j \in Claimable(limit)}
            BY <2>1 DEF Claim
        <3> DEFINE S == Claimable(limit)
                   f == [j \in S |-> ClaimedJob(n, S, j)]
        <3>2. IsFiniteSet(S)
            BY ClaimableIsReady, JobsFinite DEF Ready
        <3>3. inflight' = inflight \cup {f[j] : j \in S}
            BY <3>1
        <3>4. DOMAIN f = S /\ f = [x \in S |-> f[x]]
            OBVIOUS
        <3> HIDE DEF S, f
        <3>5. IsFiniteSet({f[j] : j \in S})
            BY <3>2, <3>4, ImageFinite
        <3> QED BY <1>2, <3>3, <3>5, FS_Union
    <2>2. ASSUME NEW g \in Groups, NEW res \in {"ok", "err"}, HandlerDone(g, res)
          PROVE  IsFiniteSet(inflight')
        <3> DEFINE f == [d \in inflight |-> IF d.group = g THEN [d EXCEPT !.res = res] ELSE d]
        <3>1. inflight' = {f[d] : d \in inflight}
            BY <2>2 DEF HandlerDone
        <3>2. DOMAIN f = inflight /\ f = [x \in inflight |-> f[x]]
            OBVIOUS
        <3> HIDE DEF f
        <3> QED BY <1>2, <3>1, <3>2, ImageFinite
    <2>3. CASE inflight' \subseteq inflight
        BY <1>2, <2>3, FS_Subset
    <2> QED BY <1>2, <2>1, <2>2, <2>3
            DEF Next, PushStart, PushCommit, PushAbort, RenewLeases, Ack, FailDead, FailRetry, SettleError,
                SweepExpired, SweepExhausted, SweepRest, RequeueDead, PurgeDead,
                SetPaused, Stop, Drained, Crash, Restart, Tick, vars, store
<1>3. FewInFlight /\ [Next]_vars => FewInFlight'
    BY <1>2 DEF FewInFlight
<1> QED BY <1>1, <1>3, PTL DEF Spec

\* A dispatcher asks for a number of jobs.
LEMMA WantsNumbers ==
    ASSUME IsFiniteSet(inflight), NEW n \in Nodes, NEW limit \in Wants(n)
    PROVE  limit \in Int
<1> DEFINE S == {e \in inflight : e.node = n}
           f == [d \in S |-> d.group]
<1>1. IsFiniteSet(S)
    BY FS_Subset
<1>2. GroupsOf(n) = {f[d] : d \in S}
    BY DEF GroupsOf
<1>3. DOMAIN f = S /\ f = [x \in S |-> f[x]]
    OBVIOUS
<1> HIDE DEF S, f
<1>4. IsFiniteSet(GroupsOf(n))
    BY <1>1, <1>2, <1>3, ImageFinite
<1>5. Permits(n) \in Int
    BY <1>4, FS_CardinalityType, CountsAssumption DEF Permits
<1>6. Permits(n) * HandlerBatch \in Int
    BY <1>5, CountsAssumption
<1>7. Want(n) \in Int
    BY <1>6, CountsAssumption DEF Want, MinOf, MaxOf
<1> QED BY <1>7 DEF Wants

\* The ORDER BY of each of the three claim queries is a strict total order.
LEMMA ClaimOrder ==
    ASSUME TypeOK, NEW i \in Ready, NEW j \in Ready, NEW k \in Ready
    PROVE  /\ ~ClaimsFirst(j, j)
           /\ j = k \/ ClaimsFirst(j, k) \/ ClaimsFirst(k, j)
           /\ ClaimsFirst(i, j) /\ ClaimsFirst(j, k) => ClaimsFirst(i, k)
<1>1. i \in Ids /\ j \in Ids /\ k \in Ids
    BY DEF Ready
<1>2. PICK p, q, r \in Nat : RankInKey(i) = p /\ RankInKey(j) = q /\ RankInKey(k) = r
    BY RankType
<1>3. /\ ~Before(j, j)
      /\ j = k \/ Before(j, k) \/ Before(k, j)
      /\ Before(i, j) /\ Before(j, k) => Before(i, k)
    BY <1>1, DispatchOrder
<1>4. i \in Int /\ j \in Int /\ k \in Int
    BY <1>1, CountsAssumption
<1>5. CASE Fair
    BY <1>2, <1>3, <1>5 DEF ClaimsFirst
<1>6. CASE ~Fair /\ KeyLimit # NoLimit
    BY <1>4, <1>6 DEF ClaimsFirst
<1>7. CASE ~Fair /\ KeyLimit = NoLimit
    BY <1>3, <1>7 DEF ClaimsFirst
<1> QED BY <1>5, <1>6, <1>7

\* A claim takes no job and leaves behind one that comes first in its order.
LEMMA ClaimsInOrder ==
    ASSUME TypeOK, NEW limit \in Int,
           NEW j \in Claimable(limit), NEW k \in Eligible \ Claimable(limit)
    PROVE  ClaimsFirst(j, k)
<1> DEFINE Ahead(i) == {x \in Eligible : ClaimsFirst(x, i)}
<1>1. Eligible \subseteq Ready /\ Eligible \subseteq Ids /\ j \in Eligible /\ j # k
    BY DEF Eligible, Ready, Claimable
<1>2. Cardinality(Ahead(j)) < limit /\ ~(Cardinality(Ahead(k)) < limit)
    BY DEF Claimable
<1>3. Ahead(j) \subseteq Ids /\ Ahead(k) \subseteq Ids
    BY <1>1
<1>4. Cardinality(Ahead(j)) \in Nat /\ Cardinality(Ahead(k)) \in Nat
    <2> HIDE DEF Ahead
    <2> QED BY <1>3, JobsFinite
<1>5. ASSUME ClaimsFirst(k, j) PROVE FALSE
    <2>1. Ahead(k) \subseteq Ahead(j)
        BY <1>1, <1>5, ClaimOrder
    <2> HIDE DEF Ahead
    <2>2. Cardinality(Ahead(k)) <= Cardinality(Ahead(j))
        BY <1>3, <2>1, JobsFewer
    <2> QED BY <1>2, <1>4, <2>2
<1> QED BY <1>1, <1>5, ClaimOrder

\* The jobs a step starts are the ones its claim took.
LEMMA StartedByClaim ==
    ASSUME Safe, FewInFlight, [Next]_vars
    PROVE  \/ Started = {}
           \/ \E limit \in Int : Started = Claimable(limit)
<1>1. \A j \in Ids : fence[j] \in Nat
    BY DEF Safe, TypeOK
<1>2. ASSUME NEW n \in Nodes, Claim(n)
      PROVE  \E limit \in Int : Started = Claimable(limit)
    <2>1. PICK limit \in Wants(n) : ClaimRows(Claimable(limit))
        BY <1>2 DEF Claim
    <2>2. Claimable(limit) \subseteq Ids
        BY ClaimableIsReady DEF Ready
    <2>3. Started = Claimable(limit)
        BY <1>1, <2>1, <2>2 DEF Started, ClaimRows
    <2>4. limit \in Int
        BY WantsNumbers DEF FewInFlight
    <2> QED BY <2>3, <2>4
<1>3. CASE fence' = fence
    BY <1>1, <1>3 DEF Started
<1> QED BY <1>2, <1>3
        DEF Next, PushStart, PushCommit, PushAbort, HandlerDone, RenewLeases, Ack, FailDead, FailRetry,
            SettleError, SweepExpired, SweepExhausted, SweepRest, RequeueDead,
            PurgeDead, SetPaused, Stop, Drained, Crash, Restart, Tick, vars, store

\* Without a key limit and without fair claims, a claim never overtakes:
\* priority DESC, then FIFO.  (With a key limit the query orders by id alone
\* and this fails.)
THEOREM PlainClaimsInOrder ==
    (~Fair /\ KeyLimit = NoLimit) => (Spec => PriorityOrder)
<1> SUFFICES ASSUME ~Fair, KeyLimit = NoLimit PROVE Spec => PriorityOrder
    OBVIOUS
<1> DEFINE A == \A j \in Started, k \in Eligible \ Started : Before(j, k)
<1>1. ASSUME Safe, FewInFlight, [Next]_vars PROVE A
    <2>1. CASE Started = {}
        BY <2>1
    <2>2. CASE \E limit \in Int : Started = Claimable(limit)
        <3>1. PICK limit \in Int : Started = Claimable(limit)
            BY <2>2
        <3>2. \A j \in Started, k \in Eligible \ Started : ClaimsFirst(j, k)
            BY <1>1, <3>1, ClaimsInOrder DEF Safe
        <3> QED BY <3>2 DEF ClaimsFirst
    <2> QED BY <1>1, <2>1, <2>2, StartedByClaim
<1> HIDE DEF A
<1>2. Safe /\ FewInFlight /\ [Next]_vars => [A]_vars
    BY <1>1
<1>3. Spec => [][A]_vars
    BY <1>2, SafeAlways, InflightFinite, PTL DEF Spec
<1> QED BY <1>3 DEF PriorityOrder, A

\* A non-empty set of ready jobs of one key has a first one in dispatch order.
LEMMA FirstOfKey ==
    ASSUME TypeOK, NEW U, U \subseteq Ready, U # {},
           \A x, y \in U : opts[x].ckey = opts[y].ckey
    PROVE  \E m \in U : \A x \in U : ~Before(x, m)
<1> DEFINE R == OpToRel(<, Nat)
           N == {RankInKey(x) : x \in U}
<1>1. N \subseteq Nat /\ N # {}
    BY RankType
<1>2. \A a, b \in Nat : a < b => <<a, b>> \in R
    BY DEF OpToRel
<1>3. IsWellFoundedOn(R, Nat)
    BY NatLessThanWellFounded
<1> HIDE DEF R, N
<1>4. PICK r \in N : \A s \in N : ~(<<s, r>> \in R)
    BY <1>1, <1>3, WFMin
<1>5. PICK m \in U : r = RankInKey(m)
    BY DEF N
<1>6. ASSUME NEW x \in U, Before(x, m) PROVE FALSE
    <2>1. RankInKey(x) < RankInKey(m)
        BY <1>6, RankMonotone
    <2>2. RankInKey(x) \in N /\ RankInKey(x) \in Nat /\ RankInKey(m) \in Nat
        BY RankType DEF N
    <2> QED BY <2>1, <2>2, <1>2, <1>4, <1>5
<1> QED BY <1>6

\* With a job, every ready job of its key that comes before it is eligible.
LEMMA EligiblePrefix ==
    ASSUME TypeOK, NEW m \in Eligible, NEW x \in Ready,
           opts[x].ckey = opts[m].ckey, Before(x, m)
    PROVE  x \in Eligible
<1>1. m \in Ready
    BY DEF Eligible
<1>2. RankInKey(x) < RankInKey(m)
    BY <1>1, RankMonotone
<1>3. RankInKey(x) \in Nat /\ RankInKey(m) \in Nat
    BY <1>1, RankType
<1>4. CASE KeyLimit = NoLimit \/ opts[m].ckey = NoKey
    BY <1>4 DEF Eligible
<1>5. CASE KeyLimit # NoLimit /\ opts[m].ckey # NoKey
    <2>1. Cardinality(RunningWith(opts[m].ckey)) + RankInKey(m) <= KeyLimit
        BY <1>5 DEF Eligible
    <2>2. Cardinality(RunningWith(opts[m].ckey)) \in Nat /\ KeyLimit \in Nat
        BY <1>5, JobsFinite, CountsAssumption DEF RunningWith
    <2>3. Cardinality(RunningWith(opts[x].ckey)) + RankInKey(x) <= KeyLimit
        BY <1>2, <1>3, <2>1, <2>2
    <2> QED BY <2>3 DEF Eligible
<1> QED BY <1>4, <1>5

\* The shares of a fair claim: the round-robin order takes no job of a rank
\* above the first one it leaves behind, and of that one's key it took all
\* that come before.
LEMMA FairClaim ==
    ASSUME TypeOK, Fair, NEW limit \in Int,
           NEW j \in Claimable(limit), NEW k \in Eligible \ Claimable(limit)
    PROVE  Cardinality({x \in Claimable(limit) : opts[x].ckey = opts[j].ckey})
               <= Cardinality({x \in Claimable(limit) : opts[x].ckey = opts[k].ckey}) + 1
<1> DEFINE C == Claimable(limit)
           J == {x \in C : opts[x].ckey = opts[j].ckey}
           K == {x \in C : opts[x].ckey = opts[k].ckey}
           U == {x \in Eligible \ C : opts[x].ckey = opts[k].ckey}
<1>1. Eligible \subseteq Ready /\ Ready \subseteq Ids /\ C \subseteq Eligible
    BY DEF Eligible, Ready, Claimable
<1>2. PICK m \in U : \A x \in U : ~Before(x, m)
    <2>1. U \subseteq Ready /\ k \in U /\ \A x, y \in U : opts[x].ckey = opts[y].ckey
        BY <1>1
    <2> HIDE DEF U
    <2> QED BY <2>1, FirstOfKey
<1>3. m \in Eligible \ C /\ m \in Ready /\ m \in Ids /\ opts[m].ckey = opts[k].ckey
    BY <1>1
<1>4. RankInKey(m) \in Nat
    BY <1>3, RankType
<1>5. Cardinality(J) <= RankInKey(m)
    <2>1. ASSUME NEW x \in J PROVE RankInKey(x) <= RankInKey(m)
        <3>1. ClaimsFirst(x, m)
            BY <1>3, ClaimsInOrder
        <3>2. RankInKey(x) \in Nat
            BY <1>1, RankType
        <3>3. RankInKey(x) < RankInKey(m) \/ RankInKey(x) = RankInKey(m)
            BY <3>1 DEF ClaimsFirst
        <3> QED BY <3>2, <3>3, <1>4
    <2>2. J \subseteq Ready /\ \A x, y \in J : opts[x].ckey = opts[y].ckey
        BY <1>1
    <2> HIDE DEF J
    <2> QED BY <2>1, <2>2, <1>4, RanksBound
<1>6. RankInKey(m) <= Cardinality(K) + 1
    <2> DEFINE V == {x \in Ready : opts[x].ckey = opts[m].ckey /\ (x = m \/ Before(x, m))}
    <2>1. ASSUME NEW x \in V, x # m PROVE x \in K
        <3>1. x \in Ready /\ Before(x, m) /\ opts[x].ckey = opts[m].ckey
            BY <2>1
        <3>2. x \in Eligible
            BY <3>1, <1>3, EligiblePrefix
        <3> QED BY <3>1, <3>2, <1>2, <1>3
    <2>2. V \subseteq K \cup {m} /\ m \notin K /\ K \subseteq Ids /\ K \cup {m} \subseteq Ids
        BY <2>1, <1>1, <1>3
    <2>3. RankInKey(m) = Cardinality(V)
        BY DEF RankInKey
    <2> HIDE DEF V, K
    <2>4. Cardinality(V) <= Cardinality(K \cup {m})
        BY <2>2, JobsFewer
    <2>5. IsFiniteSet(K)
        BY <2>2, JobsFinite
    <2>6. Cardinality(K \cup {m}) = Cardinality(K) + 1
        BY <2>2, <2>5, FS_AddElement
    <2> QED BY <2>3, <2>4, <2>6
<1>7. Cardinality(J) \in Nat /\ Cardinality(K) \in Nat
    <2>1. J \subseteq Ids /\ K \subseteq Ids
        BY <1>1
    <2> HIDE DEF J, K
    <2> QED BY <2>1, JobsFinite
<1>8. Cardinality(J) <= Cardinality(K) + 1
    <2> HIDE DEF J, K
    <2> QED BY <1>4, <1>5, <1>6, <1>7
<1> QED BY <1>8

\* A fair claim shares its batch among the keys: a key gets more than one job
\* above another's share only if that other key has nothing left to claim.
THEOREM FairClaims == Spec => FairShare
<1> DEFINE A == Fair => \A j \in Started, k \in Eligible \ Started :
          Cardinality(StartedWith(j)) <= Cardinality(StartedWith(k)) + 1
<1>1. ASSUME Safe, FewInFlight, [Next]_vars PROVE A
    <2>1. CASE Started = {}
        BY <2>1
    <2>2. CASE \E limit \in Int : Started = Claimable(limit)
        <3>1. PICK limit \in Int : Started = Claimable(limit)
            BY <2>2
        <3>2. TypeOK
            BY <1>1 DEF Safe
        <3> SUFFICES ASSUME Fair, NEW j \in Claimable(limit), NEW k \in Eligible \ Claimable(limit)
                     PROVE  Cardinality({x \in Claimable(limit) : opts[x].ckey = opts[j].ckey})
                        <= Cardinality({x \in Claimable(limit) : opts[x].ckey = opts[k].ckey}) + 1
            BY <3>1 DEF StartedWith
        <3> QED BY <3>2, FairClaim
    <2> QED BY <1>1, <2>1, <2>2, StartedByClaim
<1> HIDE DEF A
<1>2. Safe /\ FewInFlight /\ [Next]_vars => [A]_vars
    BY <1>1
<1>3. Spec => [][A]_vars
    BY <1>2, SafeAlways, InflightFinite, PTL DEF Spec
<1> QED BY <1>3 DEF FairShare, A

=============================================================================
