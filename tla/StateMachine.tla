---------------------------- MODULE StateMachine ----------------------------
(***************************************************************************)
(* One instance of a persisted state machine and the callers that send     *)
(* it events: machine_send reads the state, looks the transition up, and   *)
(* commits it in one transaction guarded by the state it read, three       *)
(* attempts in all.                                                        *)
(***************************************************************************)
EXTENDS Integers, Sequences

CONSTANTS
    Procs,        \* callers of the machine, one call at a time each
    States,       \* states of the machine
    Events,       \* events of the machine
    Initial,      \* MachineDef.initial
    Transitions,  \* MachineDef.transitions, a partial function of <<state, event>>
    NoState,      \* no row of machine_instances
    Backend,      \* "sqlite" or "postgres"
    Host,         \* the operating-system process each caller runs in
    MaxHistory,   \* bound: transitions of the instance
    MaxTime       \* bound: the clock

ASSUME MachineAssumption ==
    /\ Initial \in States
    /\ NoState \notin States
    /\ DOMAIN Transitions \subseteq States \X Events
    /\ \A x \in DOMAIN Transitions : Transitions[x] \in States
    /\ Backend \in {"sqlite", "postgres"}
    /\ DOMAIN Host = Procs
    /\ MaxHistory \in Nat
    /\ MaxTime \in Nat

VARIABLES
    state,      \* machine_instances.state
    history,    \* machine_history, in the order of the rows
    events,     \* the events table: the states announced as <machine>.<state>
    call,       \* the machine_send call of each process
    overtaken,  \* history: transitions of others since the call began
    clock       \* the time, now_ms

vars == <<state, history, events, call, overtaken, clock>>

Idle == [pc |-> "idle", event |-> "none", from |-> NoState, tries |-> 0, at |-> 0]

\* machine_create: an existing instance is left alone.
Create ==
    /\ state = NoState
    /\ state' = Initial
    /\ UNCHANGED <<history, events, call, overtaken, clock>>

Send(p, e) ==
    /\ call[p].pc \in {"idle", "ok", "invalid", "conflict"}
    /\ call' = [call EXCEPT ![p] = [Idle EXCEPT !.pc = "read", !.event = e]]
    /\ overtaken' = [overtaken EXCEPT ![p] = 0]
    /\ UNCHANGED <<state, history, events, clock>>

\* machine_state, then the lookup of the transition.
Read(p) ==
    /\ call[p].pc = "read"
    /\ call' = [call EXCEPT ![p] =
                   IF <<state, call[p].event>> \in DOMAIN Transitions
                   THEN [@ EXCEPT !.pc = "begin", !.from = state]
                   ELSE [@ EXCEPT !.pc = "invalid"]]
    /\ UNCHANGED <<state, history, events, overtaken, clock>>

\* Callers that hold the connection of p's process: SQLite has one connection
\* behind a mutex, held over the whole call; other processes open their own.
Ahead(p) == {q \in Procs : Backend = "sqlite" /\ Host[q] = Host[p] /\ call[q].pc = "commit"}

\* machine_send_blocking reads the clock before its transaction waits for the
\* write lock of the file or for the row.
Begin(p) ==
    /\ call[p].pc = "begin"
    /\ Ahead(p) = {}
    /\ call' = [call EXCEPT ![p].pc = "commit", ![p].at = clock]
    /\ UNCHANGED <<state, history, events, overtaken, clock>>

\* Mutant: two attempts instead of three.
TwoAttempts == 2

\* `for _ in 0..3`
MaxTries == 3

\* Mutant: the UPDATE is not guarded by the state that was read.
CommitUnguarded(p) ==
    /\ call[p].pc = "commit"
    /\ Len(history) < MaxHistory
    /\ LET to == Transitions[<<call[p].from, call[p].event>>]
       IN  /\ state' = to
           /\ history' = Append(history, [from |-> call[p].from, event |-> call[p].event,
                                          to |-> to, at |-> call[p].at])
           /\ events' = Append(events, to)
    /\ call' = [call EXCEPT ![p].pc = "ok"]
    /\ overtaken' = [q \in Procs |-> IF q = p THEN overtaken[q] ELSE overtaken[q] + 1]
    /\ UNCHANGED clock

\* The transaction: the guarded UPDATE, the history row and the event.
Commit(p) ==
    /\ call[p].pc = "commit"
    /\ state = call[p].from
    /\ Len(history) < MaxHistory
    /\ LET to == Transitions[<<call[p].from, call[p].event>>]
       IN  /\ state' = to
           /\ history' = Append(history, [from |-> call[p].from, event |-> call[p].event,
                                          to |-> to, at |-> call[p].at])
           /\ events' = Append(events, to)
    /\ call' = [call EXCEPT ![p].pc = "ok"]
    /\ overtaken' = [q \in Procs |-> IF q = p THEN overtaken[q] ELSE overtaken[q] + 1]
    /\ UNCHANGED clock

\* The UPDATE changed no row: the next attempt, or the error.
Lose(p) ==
    /\ call[p].pc = "commit"
    /\ state # call[p].from
    /\ call' = [call EXCEPT ![p].pc = IF call[p].tries + 1 < MaxTries
                                      THEN "read" ELSE "conflict",
                            ![p].tries = @ + 1]
    /\ UNCHANGED <<state, history, events, overtaken, clock>>

\* The process is killed or the store call fails: the transaction is undone.
Abort(p) ==
    /\ call[p].pc \in {"read", "begin", "commit"}
    /\ call' = [call EXCEPT ![p] = Idle]
    /\ UNCHANGED <<state, history, events, overtaken, clock>>

Tick ==
    /\ clock < MaxTime
    /\ clock' = clock + 1
    /\ UNCHANGED <<state, history, events, call, overtaken>>

Init ==
    /\ state = NoState
    /\ history = <<>>
    /\ events = <<>>
    /\ call = [p \in Procs |-> Idle]
    /\ overtaken = [p \in Procs |-> 0]
    /\ clock = 0

Next ==
    \/ Create
    \/ \E p \in Procs, e \in Events : Send(p, e)
    \/ \E p \in Procs : Read(p)
    \/ \E p \in Procs : Begin(p)
    \/ \E p \in Procs : Commit(p)
    \/ \E p \in Procs : Lose(p)
    \/ \E p \in Procs : Abort(p)
    \/ Tick

Spec == Init /\ [][Next]_vars

-----------------------------------------------------------------------------
(* Properties *)

Transition == [from: States, event: Events, to: States, at: Nat]

\* Type correctness of the tables and the calls.
TypeOK ==
    /\ state \in States \cup {NoState}
    /\ history \in Seq(Transition)
    /\ events \in Seq(States)
    /\ call \in [Procs -> [pc: {"idle", "read", "begin", "commit", "ok", "invalid", "conflict"},
                           event: Events \cup {"none"}, from: States \cup {NoState},
                           tries: 0..MaxTries, at: 0..clock]]
    /\ \A p \in Procs : call[p].pc \in {"begin", "commit"} =>
                            <<call[p].from, call[p].event>> \in DOMAIN Transitions
    /\ overtaken \in [Procs -> Nat]
    /\ clock \in 0..MaxTime

\* h is a run of the machine that ends in state s.
Explains(h, s) ==
    /\ \A i \in 1..Len(h) :
          /\ <<h[i].from, h[i].event>> \in DOMAIN Transitions
          /\ h[i].to = Transitions[<<h[i].from, h[i].event>>]
          /\ h[i].from = IF i = 1 THEN Initial ELSE h[i - 1].to
    /\ h # <<>> => h[Len(h)].to = s

\* "Two processes can't both win": the rows of the history are one legal run
\* of the machine that ends in the current state, and every transition has its
\* event, whatever sends race, lose, retry and die.
HistoryExplains ==
    /\ Explains(history, state)
    /\ events = [i \in 1..Len(history) |-> history[i].to]

\* A send only gives up on conflicts once others made three transitions
\* meanwhile: it never fails because of its own retries or of calls that lost.
ConflictMeansProgress ==
    \A p \in Procs : call[p].pc = "conflict" => overtaken[p] >= 3

\* "Transition history, newest first": ordering by time and then by row, as
\* machine_history does, is the order in which the transitions happened.
NewestFirst ==
    \A i, j \in 1..Len(history) : i < j => history[i].at <= history[j].at
=============================================================================
