------------------------------ MODULE JobQueue ------------------------------
(***************************************************************************)
(* One durable queue of ZenZip: the rows of the `jobs` table, the          *)
(* dispatcher and the job groups of every process that consumes the queue, *)
(* the lease sweeper and the dead-letter operations.                       *)
(*                                                                         *)
(* A store operation is one SQL statement or transaction, hence one        *)
(* action, except where statements of other calls come between its own:    *)
(* push reads the clock and, on Postgres, deletes what it collapses before *)
(* the statements that commit with it.  Times are kept relative to the     *)
(* clock: `lease[j]` is lease_until - now, `avail[j]` is available_at -    *)
(* now and `cursor[k]` is next_at - now, and Tick lets one unit of time    *)
(* pass.                                                                   *)
(***************************************************************************)
EXTENDS Integers, FiniteSets

CONSTANTS
    Nodes,         \* processes that run a QueueWorker for this queue
    MaxJobs,       \* bound: number of jobs ever pushed
    Producers,     \* callers of push, in any process
    PushOpts,      \* the PushJob variants producers use
    TKeys,         \* throttle keys
    NoKey,         \* Option::None for a concurrency, debounce or throttle key
    NoLimit,       \* Option::None for KeyLimit
    Concurrency,   \* QueueConfig.concurrency, the permits of one dispatcher
    HandlerBatch,  \* QueueConfig.handler_batch, jobs per handler call
    ClaimBatch,    \* QueueConfig.batch, jobs per storage round-trip
    KeyLimit,      \* QueueConfig.concurrency_key_limit
    Fair,          \* QueueConfig.fair
    RateLimited,   \* whether a token bucket may shrink a claim
    Lease,         \* QueueConfig.lease_ms
    BackoffDelays, \* the delays Backoff::delay_for may return
    Backend,       \* "sqlite" or "postgres"
    Pausing,       \* bound: whether the operator ever pauses the queue
    Slack,         \* bound: units of time a call of push may take
    MaxRequeues,   \* bound: dead-letter requeues by the operator
    MaxStops       \* bound: crashes and shutdowns

Ids == 1..MaxJobs

ASSUME CountsAssumption ==
    /\ MaxJobs \in Nat \ {0}
    /\ Concurrency \in Nat \ {0}
    /\ HandlerBatch \in Nat \ {0}
    /\ ClaimBatch \in Nat \ {0}
    /\ Lease \in Nat
    /\ Slack \in Nat
    /\ MaxRequeues \in Nat
    /\ MaxStops \in Nat
    /\ KeyLimit \in Nat \cup {NoLimit}
ASSUME FlagsAssumption ==
    /\ Fair \in BOOLEAN
    /\ RateLimited \in BOOLEAN
    /\ Pausing \in BOOLEAN
    /\ Backend \in {"sqlite", "postgres"}
ASSUME BackoffAssumption == BackoffDelays \subseteq Nat

ASSUME PushOptsAssumption ==
    /\ PushOpts # {}
    /\ \A o \in PushOpts :
          /\ o.priority \in Int
          /\ o.delay \in Int
          /\ o.max \in Nat
          /\ o.spacing \in Nat
          /\ o.tkey \in TKeys \cup {NoKey}
    /\ NoKey \notin TKeys

VARIABLES
    nextId,    \* the next id: UUIDv7 ids increase with time
    opts,      \* the columns of a row that never change
    status,    \* "none" before the push; the last three are deleted rows
    attempt,   \* jobs.attempt
    fence,     \* jobs.fence, the fencing token
    lease,     \* jobs.lease_until - now; 0 stands for NULL when not running
    avail,     \* jobs.available_at - now, not below -Slack
    cursor,    \* throttle_cursors.next_at - now; -Slack: older, or no cursor
    pushing,   \* the call of push each producer has in progress
    unseen,    \* history: the jobs committed during the push of each job
    inflight,  \* claimed jobs whose group has not settled them
    node,      \* life cycle of a process
    paused,    \* the in-memory pause flag of a process
    sweeping,  \* a Postgres sweep is between its two statements
    requeues,  \* requeues so far (bound)
    stops,     \* crashes and shutdowns so far (bound)
    handled    \* history: jobs some handler call finished without an error

store == <<nextId, opts, status, attempt, fence, lease, avail, cursor, pushing,
           unseen>>
vars == <<nextId, opts, status, attempt, fence, lease, avail, cursor, pushing,
          unseen, inflight, node, paused, sweeping, requeues, stops, handled>>

Rows == {"pending", "running", "dead"}
Deleted == {"acked", "purged", "collapsed"}
Results == {"run", "ok", "err"}

MinOf(a, b) == IF a <= b THEN a ELSE b
MaxOf(a, b) == IF a >= b THEN a ELSE b

MaxAttempts(j) == MaxOf(opts[j].max, 1)

-----------------------------------------------------------------------------
(* Pushing *)

\* Mutant: the push forgets the pending rows of its debounce key.
NeverDebounced(o) == {}

\* Pending rows with the debounce key of o: the push deletes them first.
Debounced(o) ==
    {j \in Ids : /\ o.dkey # NoKey
                 /\ status[j] = "pending"
                 /\ opts[j].dkey = o.dkey}

\* A producer outside push, and one that has just read the clock: on Postgres
\* the DELETE that opens its transaction has seen, and locked, these rows.
AnyOpts == CHOOSE o \in PushOpts : TRUE
Idle == [open |-> FALSE, opts |-> AnyOpts, age |-> 0, rows |-> {}, beside |-> {}]
Opened(o) ==
    [open |-> TRUE, opts |-> o, age |-> 0,
     rows |-> IF Backend = "postgres" THEN Debounced(o) ELSE {}, beside |-> {}]

\* Rows an open transaction is about to delete.
Locked == UNION {pushing[p].rows : p \in Producers}

\* The rows a push deletes.  SQLite has one writer: its DELETE sees every
\* committed row.  A second Postgres DELETE waits for the rows locked by the
\* first and finds them gone, but does not look for the row put in their place.
Removed(q) ==
    IF Backend = "postgres" THEN {j \in q.rows : status[j] = "pending"}
                            ELSE Debounced(q.opts)

\* available_at - now of a new row, from the clock the push read: the throttle
\* slot replaces the delay.
StartOf(q) ==
    IF q.opts.tkey = NoKey THEN MaxOf(q.opts.delay, 0) - q.age
                           ELSE MaxOf(cursor[q.opts.tkey], -q.age)

\* Mutant: the cursor restarts from now instead of accumulating.
CursorRestarts(q) ==
    [k \in TKeys |-> IF k = q.opts.tkey THEN q.opts.spacing - q.age ELSE cursor[k]]

\* The throttle cursor after the push took its slot.
CursorAfter(q) ==
    [k \in TKeys |-> IF k = q.opts.tkey THEN MaxOf(cursor[k], -q.age) + q.opts.spacing
                                        ELSE cursor[k]]

\* push reads the clock and opens its transaction.
PushStart(p, o) ==
    /\ ~pushing[p].open
    /\ nextId <= MaxJobs
    /\ pushing' = [pushing EXCEPT ![p] = Opened(o)]
    /\ UNCHANGED <<nextId, opts, status, attempt, fence, lease, avail, cursor,
                   unseen, inflight, node, paused, sweeping, requeues, stops,
                   handled>>

\* The cursor's row, locked until the end, the new row and the commit.
PushCommit(p) ==
    /\ pushing[p].open
    /\ nextId <= MaxJobs
    /\ nextId' = nextId + 1
    /\ opts' = [opts EXCEPT ![nextId] = pushing[p].opts]
    /\ status' = [j \in Ids |-> IF j = nextId THEN "pending"
                                ELSE IF j \in Removed(pushing[p]) THEN "collapsed"
                                ELSE status[j]]
    /\ avail' = [avail EXCEPT ![nextId] = StartOf(pushing[p])]
    /\ cursor' = CursorAfter(pushing[p])
    /\ unseen' = [unseen EXCEPT ![nextId] = pushing[p].beside]
    /\ pushing' = [q \in Producers |->
                      IF q = p THEN Idle
                      ELSE IF pushing[q].open
                      THEN [pushing[q] EXCEPT !.beside = @ \cup {nextId}]
                      ELSE pushing[q]]
    /\ UNCHANGED <<attempt, fence, lease, inflight, node, paused, sweeping,
                   requeues, stops, handled>>

\* A statement fails or the process dies: the transaction is rolled back.
PushAbort(p) ==
    /\ pushing[p].open
    /\ pushing' = [pushing EXCEPT ![p] = Idle]
    /\ UNCHANGED <<nextId, opts, status, attempt, fence, lease, avail, cursor,
                   unseen, inflight, node, paused, sweeping, requeues, stops,
                   handled>>

-----------------------------------------------------------------------------
(* Claiming: the dispatcher loop of a node *)

\* Dispatch order: priority DESC, id ASC.
Before(j, k) ==
    \/ opts[j].priority > opts[k].priority
    \/ opts[j].priority = opts[k].priority /\ j < k

\* Rows FOR UPDATE SKIP LOCKED passes over; the windowed claims cannot use it.
Skipped == IF Fair \/ KeyLimit # NoLimit THEN {} ELSE Locked

Ready ==
    {j \in Ids : status[j] = "pending" /\ avail[j] <= 0 /\ j \notin Skipped}

\* ROW_NUMBER() OVER (PARTITION BY concurrency_key ...)
RankInKey(j) ==
    Cardinality({k \in Ready : /\ opts[k].ckey = opts[j].ckey
                               /\ k = j \/ Before(k, j)})

RunningWith(key) ==
    {k \in Ids : status[k] = "running" /\ opts[k].ckey = key}

\* Mutant: the limit looks at the claimed rows only, not at the running ones.
EligibleByRank ==
    {j \in Ready :
        \/ KeyLimit = NoLimit
        \/ opts[j].ckey = NoKey
        \/ RankInKey(j) <= KeyLimit}

\* The rows a claim may take: with a key limit, those within the key's share.
Eligible ==
    {j \in Ready :
        \/ KeyLimit = NoLimit
        \/ opts[j].ckey = NoKey
        \/ Cardinality(RunningWith(opts[j].ckey)) + RankInKey(j) <= KeyLimit}

\* Mutant: every claim takes the oldest rows.
OldestFirst(j, k) == j < k

\* The ORDER BY under the LIMIT: fair_sql, keyed_sql and plain_sql.
ClaimsFirst(j, k) ==
    IF Fair THEN \/ RankInKey(j) < RankInKey(k)
                 \/ RankInKey(j) = RankInKey(k) /\ Before(j, k)
    ELSE IF KeyLimit # NoLimit THEN j < k
    ELSE Before(j, k)

Claimable(limit) ==
    {j \in Eligible :
        Cardinality({k \in Eligible : ClaimsFirst(k, j)}) < limit}

GroupsOf(n) == {d.group : d \in {e \in inflight : e.node = n}}
Permits(n) == Concurrency - Cardinality(GroupsOf(n))

\* How many jobs one iteration of the dispatcher asks for.
Want(n) == MinOf(Permits(n) * HandlerBatch, MaxOf(ClaimBatch, HandlerBatch))
Wants(n) == IF RateLimited THEN 1..Want(n) ELSE {Want(n)}

\* The claimed jobs in dispatch order are cut into groups of HandlerBatch;
\* a group is named by the tokens of its jobs.
Position(S, j) == Cardinality({k \in S : Before(k, j)})
Chunk(S, j) ==
    {k \in S : Position(S, k) \div HandlerBatch = Position(S, j) \div HandlerBatch}

ClaimedJob(n, S, j) ==
    [node |-> n, id |-> j, fence |-> fence[j] + 1, attempt |-> attempt[j] + 1,
     group |-> {<<k, fence[k] + 1>> : k \in Chunk(S, j)}, res |-> "run"]

\* Mutant: a claim does not advance the fencing token.
ClaimRowsUnfenced(S) ==
    /\ status' = [j \in Ids |-> IF j \in S THEN "running" ELSE status[j]]
    /\ attempt' = [j \in Ids |-> IF j \in S THEN attempt[j] + 1 ELSE attempt[j]]
    /\ lease' = [j \in Ids |-> IF j \in S THEN Lease ELSE lease[j]]
    /\ UNCHANGED fence

\* The row updates of a claim of the jobs S.
ClaimRows(S) ==
    /\ status' = [j \in Ids |-> IF j \in S THEN "running" ELSE status[j]]
    /\ attempt' = [j \in Ids |-> IF j \in S THEN attempt[j] + 1 ELSE attempt[j]]
    /\ fence' = [j \in Ids |-> IF j \in S THEN fence[j] + 1 ELSE fence[j]]
    /\ lease' = [j \in Ids |-> IF j \in S THEN Lease ELSE lease[j]]

Claim(n) ==
    /\ node[n] = "up"
    /\ ~paused[n]
    /\ Permits(n) > 0
    /\ \E limit \in Wants(n) :
          /\ Claimable(limit) # {}
          /\ Claimable(limit) \cap Locked = {}   \* a windowed claim waits
          /\ ClaimRows(Claimable(limit))
          /\ inflight' = inflight \cup {ClaimedJob(n, Claimable(limit), j) :
                                           j \in Claimable(limit)}
    /\ UNCHANGED <<nextId, opts, avail, cursor, pushing, unseen, node, paused,
                   sweeping, requeues, stops, handled>>

-----------------------------------------------------------------------------
(* run_group: the handler, lease renewal and settlement of one group *)

Members(g) == {d \in inflight : d.group = g}

\* The handler of group g returns for all its jobs at once.
HandlerDone(g, res) ==
    /\ Members(g) # {}
    /\ \A d \in Members(g) : d.res = "run"
    /\ inflight' = {IF d.group = g THEN [d EXCEPT !.res = res] ELSE d :
                       d \in inflight}
    /\ handled' = IF res = "ok" THEN handled \cup {d.id : d \in Members(g)}
                                ELSE handled
    /\ UNCHANGED <<store, node, paused, sweeping, requeues, stops>>

\* The heartbeat renews the leases its fences still own.
Renewable(g) == {d.id : d \in {e \in Members(g) : /\ status[e.id] = "running"
                                                  /\ fence[e.id] = e.fence}}
RenewLeases(g) ==
    /\ Members(g) # {}
    /\ \A d \in Members(g) : d.res = "run"
    /\ lease' = [j \in Ids |-> IF j \in Renewable(g) THEN Lease ELSE lease[j]]
    /\ UNCHANGED <<nextId, opts, status, attempt, fence, avail, cursor,
                   pushing, unseen, inflight, node, paused, sweeping,
                   requeues, stops, handled>>

\* Mutant: settlement matches the row by id alone.
HoldsById(d) == status[d.id] \in Rows

\* WHERE id = ? AND fence = ?
Holds(d) == status[d.id] \in Rows /\ fence[d.id] = d.fence

\* A group settles its jobs one store call at a time, in dispatch order, and
\* waits for a row that a transaction has locked.
Turn(d) ==
    /\ d \in inflight
    /\ d.id \notin Locked
    /\ \A e \in Members(d.group) : e = d \/ Before(d.id, e.id)

\* Mutant: a group is acked whatever its handler returned.
AckAnyway(d) ==
    /\ Turn(d) /\ d.res # "run"
    /\ status' = IF Holds(d) THEN [status EXCEPT ![d.id] = "acked"] ELSE status
    /\ inflight' = inflight \ {d}
    /\ UNCHANGED <<nextId, opts, attempt, fence, lease, avail, cursor,
                   pushing, unseen, node, paused, sweeping, requeues, stops,
                   handled>>

Ack(d) ==
    /\ Turn(d) /\ d.res = "ok"
    /\ status' = IF Holds(d) THEN [status EXCEPT ![d.id] = "acked"] ELSE status
    /\ inflight' = inflight \ {d}
    /\ UNCHANGED <<nextId, opts, attempt, fence, lease, avail, cursor,
                   pushing, unseen, node, paused, sweeping, requeues, stops,
                   handled>>

FailDead(d) ==
    /\ Turn(d) /\ d.res = "err"
    /\ d.attempt >= MaxAttempts(d.id)
    /\ status' = IF Holds(d) THEN [status EXCEPT ![d.id] = "dead"] ELSE status
    /\ lease' = IF Holds(d) THEN [lease EXCEPT ![d.id] = 0] ELSE lease
    /\ inflight' = inflight \ {d}
    /\ UNCHANGED <<nextId, opts, attempt, fence, avail, cursor, pushing,
                   unseen, node, paused, sweeping, requeues, stops, handled>>

FailRetry(d) ==
    /\ Turn(d) /\ d.res = "err"
    /\ d.attempt < MaxAttempts(d.id)
    /\ status' = IF Holds(d) THEN [status EXCEPT ![d.id] = "pending"] ELSE status
    /\ \E delay \in BackoffDelays :
          avail' = IF Holds(d) THEN [avail EXCEPT ![d.id] = delay] ELSE avail
    /\ lease' = IF Holds(d) THEN [lease EXCEPT ![d.id] = 0] ELSE lease
    /\ inflight' = inflight \ {d}
    /\ UNCHANGED <<nextId, opts, attempt, fence, cursor, pushing, unseen,
                   node, paused, sweeping, requeues, stops, handled>>

\* The store call of a settlement fails: it is logged and the job skipped.
SettleError(d) ==
    /\ Turn(d) /\ d.res # "run"
    /\ inflight' = inflight \ {d}
    /\ UNCHANGED <<store, node, paused, sweeping, requeues, stops, handled>>

-----------------------------------------------------------------------------
(* The lease sweeper *)

\* Mutant: jobs on their last attempt are not swept.
ExpiredWithBudget ==
    {j \in Ids : /\ status[j] = "running" /\ lease[j] < 0
                 /\ attempt[j] < MaxAttempts(j)}

Expired == {j \in Ids : status[j] = "running" /\ lease[j] < 0}
\* Mutant: off by one in the comparison with max_attempts.
ExhaustedLate == {j \in Expired : attempt[j] > MaxAttempts(j)}

Exhausted == {j \in Expired : attempt[j] >= MaxAttempts(j)}

\* SQLite runs both statements under the connection mutex with one clock.
SweepExpired(n) ==
    /\ Backend = "sqlite"
    /\ node[n] = "up"
    /\ Expired # {}
    /\ status' = [j \in Ids |-> IF j \in Exhausted THEN "dead"
                                ELSE IF j \in Expired THEN "pending"
                                ELSE status[j]]
    /\ avail' = [j \in Ids |-> IF j \in Expired \ Exhausted THEN 0 ELSE avail[j]]
    /\ lease' = [j \in Ids |-> IF j \in Expired THEN 0 ELSE lease[j]]
    /\ UNCHANGED <<nextId, opts, attempt, fence, cursor, pushing, unseen,
                   inflight, node, paused, sweeping, requeues, stops, handled>>

\* Postgres runs them as two statements, each reading the server clock.
SweepExhausted(n) ==
    /\ Backend = "postgres"
    /\ node[n] = "up" /\ ~sweeping[n]
    /\ status' = [j \in Ids |-> IF j \in Exhausted THEN "dead" ELSE status[j]]
    /\ lease' = [j \in Ids |-> IF j \in Exhausted THEN 0 ELSE lease[j]]
    /\ sweeping' = [sweeping EXCEPT ![n] = TRUE]
    /\ UNCHANGED <<nextId, opts, attempt, fence, avail, cursor, pushing,
                   unseen, inflight, node, paused, requeues, stops, handled>>

SweepRest(n) ==
    /\ sweeping[n]
    /\ status' = [j \in Ids |-> IF j \in Expired THEN "pending" ELSE status[j]]
    /\ avail' = [j \in Ids |-> IF j \in Expired THEN 0 ELSE avail[j]]
    /\ lease' = [j \in Ids |-> IF j \in Expired THEN 0 ELSE lease[j]]
    /\ sweeping' = [sweeping EXCEPT ![n] = FALSE]
    /\ UNCHANGED <<nextId, opts, attempt, fence, cursor, pushing, unseen,
                   inflight, node, paused, requeues, stops, handled>>

-----------------------------------------------------------------------------
(* Dead-letter operations and pausing *)

RequeueDead(S) ==
    /\ S # {}
    /\ \A j \in S : status[j] = "dead"
    /\ requeues < MaxRequeues
    /\ requeues' = requeues + 1
    /\ status' = [j \in Ids |-> IF j \in S THEN "pending" ELSE status[j]]
    /\ attempt' = [j \in Ids |-> IF j \in S THEN 0 ELSE attempt[j]]
    /\ avail' = [j \in Ids |-> IF j \in S THEN 0 ELSE avail[j]]
    /\ UNCHANGED <<nextId, opts, fence, lease, cursor, pushing, unseen,
                   inflight, node, paused, sweeping, stops, handled>>

PurgeDead ==
    /\ \E j \in Ids : status[j] = "dead"
    /\ status' = [j \in Ids |-> IF status[j] = "dead" THEN "purged" ELSE status[j]]
    /\ UNCHANGED <<nextId, opts, attempt, fence, lease, avail, cursor,
                   pushing, unseen, inflight, node, paused, sweeping,
                   requeues, stops, handled>>

SetPaused(n, flag) ==
    /\ Pausing
    /\ node[n] = "up"
    /\ paused[n] # flag
    /\ paused' = [paused EXCEPT ![n] = flag]
    /\ UNCHANGED <<store, inflight, node, sweeping, requeues, stops, handled>>

-----------------------------------------------------------------------------
(* Life cycle of a process *)

\* stop(): the token is cancelled, no more claims; groups keep running.
Stop(n) ==
    /\ node[n] = "up"
    /\ stops < MaxStops
    /\ stops' = stops + 1
    /\ node' = [node EXCEPT ![n] = "draining"]
    /\ UNCHANGED <<store, inflight, paused, sweeping, requeues, handled>>

\* stop() returns true: every tracked task ended.
Drained(n) ==
    /\ node[n] = "draining"
    /\ GroupsOf(n) = {} /\ ~sweeping[n]
    /\ node' = [node EXCEPT ![n] = "down"]
    /\ paused' = [paused EXCEPT ![n] = FALSE]
    /\ UNCHANGED <<store, inflight, sweeping, requeues, stops, handled>>

\* The process is killed, or the drain times out and the store is closed:
\* whatever it kept in memory is gone.
Crash(n) ==
    /\ \/ node[n] = "up" /\ stops < MaxStops /\ stops' = stops + 1
       \/ node[n] = "draining" /\ UNCHANGED stops
    /\ node' = [node EXCEPT ![n] = "down"]
    /\ paused' = [paused EXCEPT ![n] = FALSE]
    /\ sweeping' = [sweeping EXCEPT ![n] = FALSE]
    /\ inflight' = {d \in inflight : d.node # n}
    /\ UNCHANGED <<store, requeues, handled>>

Restart(n) ==
    /\ node[n] = "down"
    /\ node' = [node EXCEPT ![n] = "up"]
    /\ UNCHANGED <<store, inflight, paused, sweeping, requeues, stops, handled>>

\* One unit of time passes.
Tick ==
    /\ \A p \in Producers : pushing[p].age < Slack \/ ~pushing[p].open
    /\ lease' = [j \in Ids |-> IF status[j] = "running"
                               THEN MaxOf(lease[j] - 1, -1) ELSE lease[j]]
    /\ avail' = [j \in Ids |-> MaxOf(avail[j] - 1, -Slack)]
    /\ cursor' = [k \in TKeys |-> MaxOf(cursor[k] - 1, -Slack)]
    /\ pushing' = [p \in Producers |->
                      IF pushing[p].open THEN [pushing[p] EXCEPT !.age = @ + 1]
                                         ELSE pushing[p]]
    /\ UNCHANGED <<nextId, opts, status, attempt, fence, unseen, inflight,
                   node, paused, sweeping, requeues, stops, handled>>

-----------------------------------------------------------------------------
Init ==
    /\ nextId = 1
    /\ opts = [j \in Ids |-> AnyOpts]
    /\ status = [j \in Ids |-> "none"]
    /\ attempt = [j \in Ids |-> 0]
    /\ fence = [j \in Ids |-> 0]
    /\ lease = [j \in Ids |-> 0]
    /\ avail = [j \in Ids |-> -Slack]
    /\ cursor = [k \in TKeys |-> -Slack]
    /\ pushing = [p \in Producers |-> Idle]
    /\ unseen = [j \in Ids |-> {}]
    /\ inflight = {}
    /\ node = [n \in Nodes |-> "up"]
    /\ paused = [n \in Nodes |-> FALSE]
    /\ sweeping = [n \in Nodes |-> FALSE]
    /\ requeues = 0
    /\ stops = 0
    /\ handled = {}

Settle(d) == Ack(d) \/ FailDead(d) \/ FailRetry(d)
Sweep(n) == SweepExpired(n) \/ SweepExhausted(n) \/ SweepRest(n)
Groups == {d.group : d \in inflight}

Next ==
    \/ \E p \in Producers, o \in PushOpts : PushStart(p, o)
    \/ \E p \in Producers : PushCommit(p)
    \/ \E p \in Producers : PushAbort(p)
    \/ \E n \in Nodes : Claim(n)
    \/ \E g \in Groups, res \in {"ok", "err"} : HandlerDone(g, res)
    \/ \E g \in Groups : RenewLeases(g)
    \/ \E d \in inflight : Ack(d)
    \/ \E d \in inflight : FailDead(d)
    \/ \E d \in inflight : FailRetry(d)
    \/ \E d \in inflight : SettleError(d)
    \/ \E n \in Nodes : SweepExpired(n)
    \/ \E n \in Nodes : SweepExhausted(n)
    \/ \E n \in Nodes : SweepRest(n)
    \/ \E S \in SUBSET Ids : RequeueDead(S)
    \/ PurgeDead
    \/ \E n \in Nodes, flag \in BOOLEAN : SetPaused(n, flag)
    \/ \E n \in Nodes : Stop(n)
    \/ \E n \in Nodes : Drained(n)
    \/ \E n \in Nodes : Crash(n)
    \/ \E n \in Nodes : Restart(n)
    \/ Tick

Spec == Init /\ [][Next]_vars

\* Calls of push return, dispatchers poll, handlers return, groups settle, sweepers run, processes
\* are restarted and time passes.
Fairness ==
    /\ \A n \in Nodes : /\ WF_vars(Claim(n))
                         /\ WF_vars(Sweep(n))
                         /\ WF_vars(Drained(n))
                         /\ WF_vars(Restart(n))
    /\ WF_vars(\E g \in Groups, res \in {"ok", "err"} : HandlerDone(g, res))
    /\ WF_vars(\E d \in inflight : Settle(d))
    /\ \A p \in Producers : WF_vars(PushCommit(p) \/ PushAbort(p))
    /\ WF_vars(Tick)

FairSpec == Spec /\ Fairness

-----------------------------------------------------------------------------
(* Properties *)

Call ==
    [open: BOOLEAN, opts: PushOpts, age: Int, rows: SUBSET Ids, beside: SUBSET Ids]
Delivery ==
    [node: Nodes, id: Ids, fence: Nat, attempt: Nat, group: SUBSET (Ids \X Nat),
     res: Results]

\* Type correctness of the rows, the in-flight groups and the processes.
TypeOK ==
    /\ nextId \in 1..(MaxJobs + 1)
    /\ opts \in [Ids -> PushOpts]
    /\ status \in [Ids -> {"none"} \cup Rows \cup Deleted]
    /\ attempt \in [Ids -> Nat]
    /\ fence \in [Ids -> Nat]
    /\ lease \in [Ids -> Int]
    /\ avail \in [Ids -> Int]
    /\ cursor \in [TKeys -> Int]
    /\ pushing \in [Producers -> Call]
    /\ unseen \in [Ids -> SUBSET Ids]
    /\ inflight \subseteq Delivery
    /\ node \in [Nodes -> {"up", "draining", "down"}]
    /\ paused \in [Nodes -> BOOLEAN]
    /\ sweeping \in [Nodes -> BOOLEAN]
    /\ requeues \in Nat
    /\ stops \in Nat
    /\ handled \subseteq Ids

\* Fencing (store.rs, ClaimedJob.fence): a token is never handed out twice, so
\* of all the deliveries of a job still in flight, zombies included, at most
\* one can pass the `WHERE id = ? AND fence = ?` of ack, fail and renew.
UniqueClaims ==
    \A d, e \in inflight :
        /\ d.fence <= fence[d.id]
        /\ (d.id = e.id /\ d.fence = e.fence) => d = e

\* A late write cannot clobber the new owner: a running job only leaves that
\* status because its lease ran out, or by the store call of the very delivery
\* that holds its current token.
FencedTransitions ==
    [][\A j \in Ids :
          status[j] = "running" /\ status'[j] # "running"
              => \/ lease[j] < 0
                 \/ \E d \in inflight \ inflight' :
                        d.id = j /\ d.fence = fence[j]]_vars

\* The retry budget: a claimable job has an attempt left and a running one is
\* within max_attempts, whatever mix of nacks, lease expiries, zombies and
\* requeues brought it there ("dead once attempts are exhausted").
RetryBudget ==
    \A j \in Ids :
        /\ status[j] = "pending" => attempt[j] < MaxAttempts(j)
        /\ status[j] = "running" => attempt[j] \in 1..MaxAttempts(j)

\* What became of each job, for the queue's promise.
Outcome ==
    [j \in Ids |-> CASE status[j] = "none" -> "absent"
                     [] status[j] \in {"pending", "running"} -> "owed"
                     [] status[j] = "dead" -> "dead"
                     [] status[j] = "acked" -> "done"
                     [] OTHER -> "dropped"]

Promise == INSTANCE AtLeastOnce
               WITH Jobs <- Ids, outcome <- Outcome, handled <- handled

\* The queue keeps the at-least-once promise through zombies, sweeps, crashes,
\* lost settlements and dead-letter operations: a row is only acked after a
\* handler call finished the job, and a deleted row never comes back.
KeepsPromise == Promise!Spec

\* Per-key concurrency: never more running jobs of one key than the limit,
\* across all nodes and after any sweep, nack or crash.
KeyLimitHolds ==
    KeyLimit # NoLimit =>
        \A j \in Ids : opts[j].ckey # NoKey =>
            Cardinality(RunningWith(opts[j].ckey)) <= KeyLimit

\* Two jobs of one debounce key that wait for their first start, the newer of
\* which did not collapse the other.
Doubled(j, k) ==
    /\ j # k
    /\ status[j] = "pending" /\ status[k] = "pending"
    /\ fence[j] = 0 /\ fence[k] = 0
    /\ opts[j].dkey = opts[k].dkey /\ opts[j].dkey # NoKey

\* Debounce: "the store (atomic delete-then-insert), so it holds across
\* processes" (queues page).  It holds on SQLite for every interleaving; on
\* Postgres two jobs of a key wait together only if one was committed while
\* the push of the other was in progress.
DebounceCollapses ==
    \A j, k \in Ids : Doubled(j, k) =>
        /\ Backend = "postgres"
        /\ j \in unseen[k] \/ k \in unseen[j]

\* The page's sentence as it stands, whatever the backend.
DebounceHoldsEverywhere == \A j, k \in Ids : ~Doubled(j, k)

\* A job that still has the slot its push took: no retry, sweep or requeue has
\* given it another available_at.
Slotted(j) ==
    \/ status[j] = "pending" /\ fence[j] = 0
    \/ status[j] = "running" /\ fence[j] = 1

\* Throttling spaces the slots (available_at) of the jobs of one key by at
\* least the spacing, for concurrent pushes with clocks read before they
\* commit, on both backends, and for jobs that have started as for waiting
\* ones.  A slot older than the longest push is out of the picture.
SlotsSpaced ==
    \A j, k \in Ids :
        /\ Slotted(j) /\ Slotted(k)
        /\ opts[j].tkey = opts[k].tkey /\ opts[j].tkey # NoKey
        /\ j < k /\ avail[j] > -Slack
        => avail[k] >= avail[j] + opts[j].spacing

\* Jobs a step claims.
Started == {j \in Ids : fence'[j] > fence[j]}

\* "smooth starts to at most `max` per window" (types.ts): no claim starts two
\* jobs of one throttle key at once.
StartsSmooth ==
    [][\A j, k \in Started :
          opts[j].tkey = opts[k].tkey /\ opts[j].spacing > 0 => j = k]_vars

\* "Priority order is priority DESC, then FIFO within a priority": no claim
\* takes a job and leaves behind a job it could have taken that comes first.
PriorityOrder ==
    [][\A j \in Started, k \in Eligible \ Started : Before(j, k)]_vars

\* Jobs a step claims with the key of job i.
StartedWith(i) == {x \in Started : opts[x].ckey = opts[i].ckey}

\* Fairness of the round-robin claim: a key gets a second job of a claim only
\* if every other key with a claimable job got its share first.
FairShare ==
    [][Fair => \A j \in Started, k \in Eligible \ Started :
          Cardinality(StartedWith(j)) <= Cardinality(StartedWith(k)) + 1]_vars

\* Every pending job is eventually acked, dead-lettered or dropped, through
\* crashes, shutdowns, lost settlements and zombies, unless a process stays
\* paused.
JobsSettle ==
    <>[](\A n \in Nodes : ~paused[n]) =>
        \A j \in Ids : status[j] = "pending" ~> status[j] \in Deleted \cup {"dead"}
=============================================================================
