------------------------- MODULE StateMachineProofs -------------------------
(***************************************************************************)
(* Theorems about StateMachine, for every machine, every set of processes  *)
(* and both stores.                                                        *)
(***************************************************************************)
EXTENDS StateMachine, SequenceTheorems, TLAPS

\* A call that has read the state and has not yet tried to commit over it.
Holding(p) == call[p].pc \in {"begin", "commit"}

\* The attempts of a call that failed, and the one that is bound to fail since
\* the state has moved.
Lost(p) == call[p].tries + (IF Holding(p) /\ state # call[p].from THEN 1 ELSE 0)

\* Each failed or doomed attempt of a call is paid for by a transition of
\* another call.  ABA is harmless: it takes two transitions and dooms nothing.
Paid(p) ==
    /\ call[p].pc \in {"read", "begin", "commit", "conflict"} => overtaken[p] >= Lost(p)
    /\ call[p].pc \in {"read", "begin", "commit"} => call[p].tries < MaxTries
    /\ call[p].pc = "conflict" => call[p].tries = MaxTries
PaidFor == \A p \in Procs : Paid(p)

\* The rows explain the state; an instance without history is where it began.
Explained ==
    /\ HistoryExplains
    /\ history = <<>> => state \in {NoState, Initial}

\* Every caller goes through one connection mutex: one process on SQLite.
OneMutex == Backend = "sqlite" /\ \A p, q \in Procs : Host[p] = Host[q]

\* The mutex orders the stamps: one call at a time holds one, and it is not
\* earlier than those of the rows, which are not later than now.
Stamped ==
    OneMutex =>
        /\ NewestFirst
        /\ \A i \in 1..Len(history) : history[i].at <= clock
        /\ \A p, q \in Procs : call[p].pc = "commit" /\ call[q].pc = "commit" => p = q
        /\ \A p \in Procs : call[p].pc = "commit" =>
              \A i \in 1..Len(history) : history[i].at <= call[p].at

USE DEF Idle, MaxTries, Transition

-----------------------------------------------------------------------------
\* The records of calls, at the time now.
Record(now) ==
    [pc: {"idle", "read", "begin", "commit", "ok", "invalid", "conflict"},
     event: Events \cup {"none"}, from: States \cup {NoState}, tries: 0..MaxTries, at: 0..now]

\* A process that changes only its own call, to a record with a transition to
\* take if it is about to take one.
LEMMA CallStep ==
    ASSUME TypeOK, NEW p \in Procs, NEW c \in Record(clock),
           c.pc \in {"begin", "commit"} => <<c.from, c.event>> \in DOMAIN Transitions,
           call' = [call EXCEPT ![p] = c], overtaken' \in [Procs -> Nat],
           UNCHANGED <<state, history, events, clock>>
    PROVE  TypeOK'
<1>1. call' \in [Procs -> Record(clock)]
    BY DEF TypeOK, Record
<1>2. \A q \in Procs : call'[q] = IF q = p THEN c ELSE call[q]
    BY DEF TypeOK
<1>3. \A q \in Procs : call'[q].pc \in {"begin", "commit"} =>
                          <<call'[q].from, call'[q].event>> \in DOMAIN Transitions
    BY <1>2 DEF TypeOK
<1> QED BY <1>1, <1>3 DEF TypeOK, Record

\* Every step keeps the types; that a call never counts more than its three
\* attempts needs PaidFor.
LEMMA TypeStep == TypeOK /\ PaidFor /\ [Next]_vars => TypeOK'
<1> SUFFICES ASSUME TypeOK, PaidFor, [Next]_vars PROVE TypeOK'
    OBVIOUS
<1>0. /\ clock \in Nat /\ overtaken \in [Procs -> Nat]
      /\ \A p \in Procs : call[p] \in Record(clock)
      /\ \A p \in Procs : overtaken[p] \in Nat
    BY MachineAssumption DEF TypeOK, Record
<1>1. CASE Create
    BY <1>1, MachineAssumption DEF Create, TypeOK
<1>2. ASSUME NEW p \in Procs, NEW e \in Events, Send(p, e) PROVE TypeOK'
    <2> DEFINE c == [Idle EXCEPT !.pc = "read", !.event = e]
    <2>0. Idle \in Record(clock)
        BY <1>0 DEF Record
    <2>1. c \in Record(clock) /\ c.pc = "read"
        BY <2>0 DEF Record
    <2>2. overtaken' \in [Procs -> Nat]
        BY <1>0, <1>2 DEF Send
    <2> QED BY <1>2, <2>1, <2>2, CallStep DEF Send
<1>3. ASSUME NEW p \in Procs, Read(p) PROVE TypeOK'
    <2>1. CASE <<state, call[p].event>> \in DOMAIN Transitions
        <3> DEFINE c == [call[p] EXCEPT !.pc = "begin", !.from = state]
        <3>1. c \in Record(clock) /\ c.from = state /\ c.event = call[p].event
            BY <1>0 DEF Record, TypeOK
        <3>2. call' = [call EXCEPT ![p] = c]
            BY <1>3, <2>1 DEF Read
        <3> QED BY <1>0, <1>3, <2>1, <3>1, <3>2, CallStep DEF Read
    <2>2. CASE <<state, call[p].event>> \notin DOMAIN Transitions
        <3> DEFINE c == [call[p] EXCEPT !.pc = "invalid"]
        <3>1. c \in Record(clock) /\ c.pc = "invalid"
            BY <1>0 DEF Record
        <3>2. call' = [call EXCEPT ![p] = c]
            BY <1>3, <2>2 DEF Read
        <3> QED BY <1>0, <1>3, <3>1, <3>2, CallStep DEF Read
    <2> QED BY <2>1, <2>2
<1>4. ASSUME NEW p \in Procs, Begin(p) PROVE TypeOK'
    <2> DEFINE c == [call[p] EXCEPT !.pc = "commit", !.at = clock]
    <2>0. clock \in 0..clock
        BY <1>0
    <2>1. c \in Record(clock) /\ c.from = call[p].from /\ c.event = call[p].event
        BY <1>0, <2>0 DEF Record
    <2>2. <<call[p].from, call[p].event>> \in DOMAIN Transitions
        BY <1>4 DEF Begin, TypeOK
    <2>3. call' = [call EXCEPT ![p] = c]
        BY <1>4 DEF Begin, TypeOK
    <2> QED BY <1>0, <1>4, <2>1, <2>2, <2>3, CallStep DEF Begin
<1>5. ASSUME NEW p \in Procs, Commit(p) PROVE TypeOK'
    <2> DEFINE step == <<call[p].from, call[p].event>>
               new == [from |-> call[p].from, event |-> call[p].event,
                       to |-> Transitions[step], at |-> call[p].at]
    <2>1. step \in DOMAIN Transitions
        BY <1>5 DEF Commit, TypeOK
    <2>2. call[p].from \in States /\ call[p].event \in Events /\ Transitions[step] \in States
        BY <2>1, MachineAssumption
    <2>3. call[p].at \in Nat
        BY <1>0 DEF Record
    <2>4. new \in Transition
        BY <2>2, <2>3
    <2>5. history' \in Seq(Transition) /\ events' \in Seq(States)
        BY <1>5, <2>2, <2>4, AppendProperties DEF Commit, TypeOK
    <2>6. state' \in States /\ overtaken' \in [Procs -> Nat] /\ clock' = clock
        BY <1>0, <1>5, <2>2 DEF Commit
    <2>7. /\ call' \in [Procs -> Record(clock)]
          /\ \A q \in Procs : call'[q].pc \in {"begin", "commit"} => call'[q] = call[q]
        <3> DEFINE c == [call[p] EXCEPT !.pc = "ok"]
        <3>1. c \in Record(clock) /\ c.pc = "ok"
            BY <1>0 DEF Record
        <3>2. call' = [call EXCEPT ![p] = c]
            BY <1>5 DEF Commit
        <3>3. call \in [Procs -> Record(clock)]
            BY DEF TypeOK, Record
        <3> HIDE DEF c
        <3> QED BY <3>1, <3>2, <3>3
    <2> QED BY <2>5, <2>6, <2>7 DEF TypeOK, Record
<1>6. ASSUME NEW p \in Procs, Lose(p) PROVE TypeOK'
    <2> DEFINE next == IF call[p].tries + 1 < MaxTries THEN "read" ELSE "conflict"
               c == [call[p] EXCEPT !.pc = next, !.tries = @ + 1]
    <2>1. call[p].tries + 1 \in 0..MaxTries
        BY <1>0, <1>6 DEF Lose, PaidFor, Paid, Record
    <2>2. c \in Record(clock) /\ c.pc \notin {"begin", "commit"}
        BY <1>0, <2>1 DEF Record
    <2>3. call' = [call EXCEPT ![p] = c]
        BY <1>6 DEF Lose, TypeOK
    <2> QED BY <1>0, <1>6, <2>2, <2>3, CallStep DEF Lose
<1>7. ASSUME NEW p \in Procs, Abort(p) PROVE TypeOK'
    <2>1. Idle \in Record(clock) /\ Idle.pc = "idle"
        BY <1>0 DEF Record
    <2> QED BY <1>0, <1>7, <2>1, CallStep DEF Abort
<1>8. CASE Tick
    BY <1>8, MachineAssumption DEF Tick, TypeOK
<1>9. CASE UNCHANGED vars
    BY <1>9 DEF vars, TypeOK
<1> QED BY <1>1, <1>2, <1>3, <1>4, <1>5, <1>6, <1>7, <1>8, <1>9 DEF Next

-----------------------------------------------------------------------------
(* The history *)

\* A transition that was looked up and committed over the state it was read in
\* extends the run that the history is.
LEMMA CommitExplains ==
    ASSUME TypeOK, TypeOK', Explained, NEW p \in Procs, Commit(p)
    PROVE  Explained'
<1> DEFINE step == <<call[p].from, call[p].event>>
           n == Len(history)
           row == [from |-> call[p].from, event |-> call[p].event,
                   to |-> Transitions[step], at |-> call[p].at]
<1>1. step \in DOMAIN Transitions /\ call[p].from \in States /\ Transitions[step] \in States
    BY MachineAssumption DEF Commit, TypeOK
<1>2. PICK new : /\ history' = Append(history, new)
                 /\ new.from = call[p].from /\ new.event = call[p].event
                 /\ new.to = Transitions[step]
                 /\ events' = Append(events, new.to)
                 /\ state' = new.to /\ state = new.from
    <2> WITNESS row
    <2> QED BY DEF Commit
<1>3. n \in Nat /\ n' = n + 1 /\ history'[n + 1] = new /\ \A i \in 1..n : history'[i] = history[i]
    BY <1>2 DEF TypeOK
<1>4. \A i \in 1..n' : /\ <<history'[i].from, history'[i].event>> \in DOMAIN Transitions
                       /\ history'[i].to = Transitions[<<history'[i].from, history'[i].event>>]
    <2>1. \A i \in 1..n : /\ <<history[i].from, history[i].event>> \in DOMAIN Transitions
                          /\ history[i].to = Transitions[<<history[i].from, history[i].event>>]
        BY DEF Explained, HistoryExplains, Explains
    <2>2. /\ <<new.from, new.event>> \in DOMAIN Transitions
          /\ new.to = Transitions[<<new.from, new.event>>]
        BY <1>1, <1>2
    <2>3. \A i \in 1..n' : i \in 1..n \/ i = n + 1
        BY <1>3
    <2> QED BY <1>3, <2>1, <2>2, <2>3
<1>5. \A i \in 1..n' : history'[i].from = IF i = 1 THEN Initial ELSE history'[i - 1].to
    <2>1. CASE n = 0
        BY <1>1, <1>2, <1>3, <2>1, MachineAssumption, EmptySeq DEF Explained, TypeOK
    <2>2. CASE n > 0
        <3>1. \A i \in 1..n : history[i].from = IF i = 1 THEN Initial ELSE history[i - 1].to
            BY DEF Explained, HistoryExplains, Explains
        <3>2. history[n].to = state
            BY <1>3, <2>2 DEF Explained, HistoryExplains, Explains
        <3>3. history'[n + 1].from = history'[n].to /\ n + 1 # 1 /\ (n + 1) - 1 = n
            BY <1>2, <1>3, <2>2, <3>2
        <3>4. \A i \in 1..n : history'[i].from = IF i = 1 THEN Initial ELSE history'[i - 1].to
            <4> TAKE i \in 1..n
            <4>1. history'[i] = history[i] /\ (i # 1 => history'[i - 1] = history[i - 1])
                BY <1>3
            <4> QED BY <3>1, <4>1
        <3>5. \A i \in 1..n' : i \in 1..n \/ i = n + 1
            BY <1>3
        <3> QED BY <3>3, <3>4, <3>5
    <2> QED BY <1>3, <2>1, <2>2
<1>6. events' = [i \in 1..n' |-> history'[i].to]
    <2>1. Len(events) = n /\ \A i \in 1..n : events[i] = history[i].to
        BY <1>3 DEF Explained, HistoryExplains
    <2>2. Len(events') = n + 1 /\ events'[n + 1] = new.to /\ \A i \in 1..n : events'[i] = events[i]
        <3>1. PICK to : to = new.to
            OBVIOUS
        <3>2. events \in Seq(States) /\ to \in States /\ events' = Append(events, to)
            BY <1>1, <1>2, <3>1 DEF TypeOK
        <3> QED BY <2>1, <3>1, <3>2, AppendProperties
    <2>3. events' = [i \in 1..Len(events') |-> events'[i]]
        BY DEF TypeOK
    <2>4. \A i \in 1..(n + 1) : events'[i] = history'[i].to
        BY <1>3, <2>1, <2>2
    <2> QED BY <1>3, <2>2, <2>3, <2>4
<1>7. history' # <<>> /\ history'[n'].to = state'
    BY <1>2, <1>3
<1> QED BY <1>4, <1>5, <1>6, <1>7 DEF Explained, HistoryExplains, Explains

\* Every step keeps the history a run that ends in the state.
LEMMA ExplainedStep == TypeOK /\ TypeOK' /\ Explained /\ [Next]_vars => Explained'
<1> SUFFICES ASSUME TypeOK, TypeOK', Explained, [Next]_vars PROVE Explained'
    OBVIOUS
<1>1. CASE Create
    <2>1. history = <<>>
        <3> SUFFICES ASSUME history # <<>> PROVE FALSE
            OBVIOUS
        <3>0. Len(history) \in 1..Len(history)
            BY EmptySeq DEF TypeOK
        <3>1. history[Len(history)] \in Transition
            BY <3>0, ElementOfSeq DEF TypeOK
        <3> QED BY <1>1, <3>1, MachineAssumption DEF Create, Explained, HistoryExplains, Explains
    <2> QED BY <1>1, <2>1 DEF Create, Explained, HistoryExplains, Explains
<1>2. ASSUME NEW p \in Procs, Commit(p) PROVE Explained'
    BY <1>2, CommitExplains
<1>3. CASE UNCHANGED <<state, history, events>>
    BY <1>3 DEF Explained, HistoryExplains, Explains
<1> QED BY <1>1, <1>2, <1>3 DEF Next, Send, Read, Begin, Lose, Abort, Tick, vars

-----------------------------------------------------------------------------
(* Conflicts and stamps *)

\* Every step keeps the account of the lost attempts.
LEMMA PaidStep == TypeOK /\ PaidFor /\ [Next]_vars => PaidFor'
<1> SUFFICES ASSUME TypeOK, PaidFor, [Next]_vars, NEW q \in Procs
             PROVE  Paid(q)'
    BY DEF PaidFor
<1>0. /\ call \in [Procs -> Record(clock)] /\ overtaken \in [Procs -> Nat]
      /\ overtaken[q] \in Nat /\ call[q].tries \in 0..3
      /\ Paid(q)
    BY DEF PaidFor, TypeOK, Record
<1>1. ASSUME UNCHANGED <<state, overtaken>>, call'[q] = call[q] PROVE Paid(q)'
    BY <1>0, <1>1 DEF Paid, Lost, Holding
<1>2. CASE Create
    <2>1. Holding(q) => state # call[q].from
        BY <1>2, MachineAssumption DEF Create, TypeOK, Holding
    <2> QED BY <1>0, <1>2, <2>1 DEF Create, Paid, Lost, Holding
<1>3. ASSUME NEW p \in Procs, NEW e \in Events, Send(p, e) PROVE Paid(q)'
    <2>1. CASE q = p
        <3>1. call'[q].pc = "read" /\ call'[q].tries = 0 /\ overtaken'[q] = 0
            BY <1>0, <1>3, <2>1 DEF Send
        <3> QED BY <3>1 DEF Paid, Lost, Holding
    <2>2. CASE q # p
        <3>1. state' = state /\ call'[q] = call[q] /\ overtaken'[q] = overtaken[q]
            BY <1>0, <1>3, <2>2 DEF Send
        <3> QED BY <1>0, <3>1 DEF Paid, Lost, Holding
    <2> QED BY <2>1, <2>2
<1>4. ASSUME NEW p \in Procs, Read(p) PROVE Paid(q)'
    <2>1. CASE q = p
        <3>1. /\ call[q].pc = "read" /\ call'[q].tries = call[q].tries
              /\ \/ call'[q].pc = "begin" /\ call'[q].from = state'
                 \/ call'[q].pc = "invalid"
              /\ overtaken'[q] = overtaken[q]
            BY <1>0, <1>4, <2>1 DEF Read, Record
        <3> QED BY <1>0, <3>1 DEF Paid, Lost, Holding
    <2> QED BY <1>0, <1>1, <1>4, <2>1 DEF Read
<1>5. ASSUME NEW p \in Procs, Begin(p) PROVE Paid(q)'
    <2>1. CASE q = p
        <3>1. /\ call[q].pc = "begin" /\ call'[q].pc = "commit"
              /\ call'[q].tries = call[q].tries /\ call'[q].from = call[q].from
              /\ overtaken'[q] = overtaken[q] /\ state' = state
            BY <1>0, <1>5, <2>1 DEF Begin, Record
        <3> QED BY <1>0, <3>1 DEF Paid, Lost, Holding
    <2> QED BY <1>0, <1>1, <1>5, <2>1 DEF Begin
<1>6. ASSUME NEW p \in Procs, Commit(p) PROVE Paid(q)'
    <2>1. CASE q = p
        <3>1. call'[q].pc = "ok"
            BY <1>0, <1>6, <2>1 DEF Commit
        <3> QED BY <3>1 DEF Paid
    <2>2. CASE q # p
        <3>1. call'[q] = call[q] /\ overtaken'[q] = overtaken[q] + 1
            BY <1>0, <1>6, <2>2 DEF Commit
        <3> QED BY <1>0, <3>1 DEF Paid, Lost, Holding
    <2> QED BY <2>1, <2>2
<1>7. ASSUME NEW p \in Procs, Lose(p) PROVE Paid(q)'
    <2>1. CASE q = p
        <3>1. /\ call'[q].tries = call[q].tries + 1
              /\ call'[q].pc = IF call[q].tries + 1 < MaxTries THEN "read" ELSE "conflict"
              /\ overtaken'[q] = overtaken[q]
            BY <1>0, <1>7, <2>1 DEF Lose, Record
        <3>2. overtaken[q] >= call[q].tries + 1 /\ call[q].tries < MaxTries
            BY <1>0, <1>7, <2>1 DEF Lose, Paid, Lost, Holding
        <3> QED BY <1>0, <3>1, <3>2 DEF Paid, Lost, Holding
    <2> QED BY <1>0, <1>1, <1>7, <2>1 DEF Lose
<1>8. ASSUME NEW p \in Procs, Abort(p) PROVE Paid(q)'
    <2>1. CASE q = p
        <3>1. call'[q].pc = "idle"
            BY <1>0, <1>8, <2>1 DEF Abort
        <3> QED BY <3>1 DEF Paid
    <2> QED BY <1>0, <1>1, <1>8, <2>1 DEF Abort
<1>9. CASE Tick \/ UNCHANGED vars
    BY <1>1, <1>9 DEF Tick, vars
<1> QED BY <1>2, <1>3, <1>4, <1>5, <1>6, <1>7, <1>8, <1>9 DEF Next

\* In one process on SQLite a call reads the clock and commits under the
\* connection mutex, so later rows have later stamps.
LEMMA StampedStep == TypeOK /\ TypeOK' /\ Stamped /\ [Next]_vars => Stamped'
<1> SUFFICES ASSUME TypeOK, TypeOK', Stamped, [Next]_vars, OneMutex PROVE Stamped'
    BY DEF Stamped
<1>0. /\ call \in [Procs -> Record(clock)]
      /\ \A i \in 1..Len(history) : history[i].at \in Nat
      /\ \A q \in Procs : call[q].at \in Nat /\ call[q].at <= clock
      /\ clock \in Nat
    <2>1. call \in [Procs -> Record(clock)] /\ clock \in Nat
        BY MachineAssumption DEF TypeOK, Record
    <2>2. ASSUME NEW i \in 1..Len(history) PROVE history[i].at \in Nat
        <3>1. history[i] \in [from: States, event: Events, to: States, at: Nat]
            BY ElementOfSeq DEF TypeOK, Transition
        <3> QED BY <3>1
    <2> QED BY <2>1, <2>2 DEF Record
<1>1. ASSUME NEW p \in Procs, Commit(p) PROVE Stamped'
    <2> DEFINE to == Transitions[<<call[p].from, call[p].event>>]
               new == [from |-> call[p].from, event |-> call[p].event,
                       to |-> to, at |-> call[p].at]
    <2>1. PICK row : history' = Append(history, row) /\ row.at = call[p].at
        <3> WITNESS new
        <3> QED BY <1>1 DEF Commit
    <2>2. /\ Len(history) \in Nat /\ Len(history') = Len(history) + 1
          /\ history'[Len(history) + 1] = row
          /\ \A i \in 1..Len(history) : history'[i] = history[i]
        BY <2>1 DEF TypeOK
    <2>3. \A i \in 1..Len(history') : i \in 1..Len(history) \/ i = Len(history) + 1
        BY <2>2
    <2>4. /\ call[p].pc = "commit" /\ clock' = clock
          /\ \A q \in Procs : call'[q].pc # "commit"
        <3>1. \A q \in Procs : q # p => call[q].pc # "commit"
            BY <1>1 DEF Commit, Stamped
        <3> QED BY <1>0, <1>1, <3>1 DEF Commit
    <2>5. \A i \in 1..Len(history') : history'[i].at <= clock
        BY <1>0, <2>1, <2>2, <2>3 DEF Stamped
    <2>6. \A i, j \in 1..Len(history') : i < j => history'[i].at <= history'[j].at
        <3> TAKE i, j \in 1..Len(history')
        <3>1. CASE j \in 1..Len(history)
            BY <2>2, <2>3, <3>1 DEF Stamped, NewestFirst
        <3>2. CASE j = Len(history) + 1
            BY <1>0, <2>1, <2>2, <2>3, <2>4, <3>2 DEF Stamped
        <3> QED BY <2>3, <3>1, <3>2
    <2> QED BY <2>4, <2>5, <2>6 DEF Stamped, NewestFirst
<1>2. CASE Tick
    BY <1>0, <1>2 DEF Tick, Stamped, NewestFirst
<1>3. ASSUME NEW p \in Procs, Begin(p) PROVE Stamped'
    <2>1. \A q \in Procs : call[q].pc # "commit"
        BY <1>3 DEF Begin, Ahead, OneMutex
    <2>2. /\ \A q \in Procs : call'[q].pc = "commit" => q = p
          /\ call'[p].at = clock /\ UNCHANGED <<history, clock>>
        BY <1>0, <1>3, <2>1 DEF Begin
    <2> QED BY <2>2 DEF Stamped, NewestFirst
<1>4. ASSUME NEW p \in Procs, UNCHANGED <<history, clock>>,
             \A q \in Procs : q # p => call'[q] = call[q],
             call'[p].pc # "commit"
      PROVE  Stamped'
    BY <1>4 DEF Stamped, NewestFirst
<1>5. ASSUME NEW p \in Procs, NEW e \in Events, Send(p, e) PROVE Stamped'
    BY <1>0, <1>4, <1>5 DEF Send
<1>6. ASSUME NEW p \in Procs, Read(p) \/ Lose(p) \/ Abort(p) PROVE Stamped'
    <2>1. call'[p].pc # "commit"
        <3>1. CASE Read(p)
            <4>1. call'[p].pc \in {"begin", "invalid"}
                BY <1>0, <3>1 DEF Read, Record
            <4> QED BY <4>1
        <3>2. CASE Lose(p)
            <4>1. call'[p].pc \in {"read", "conflict"}
                BY <1>0, <3>2 DEF Lose, Record
            <4> QED BY <4>1
        <3>3. CASE Abort(p)
            BY <1>0, <3>3 DEF Abort
        <3> QED BY <1>6, <3>1, <3>2, <3>3
    <2> QED BY <1>0, <1>4, <1>6, <2>1 DEF Read, Lose, Abort
<1>7. CASE UNCHANGED <<history, clock, call>>
    BY <1>7 DEF Stamped, NewestFirst
<1> QED BY <1>1, <1>2, <1>3, <1>5, <1>6, <1>7 DEF Next, Create, vars

-----------------------------------------------------------------------------
\* The inductive invariant.
Sound == TypeOK /\ Explained /\ PaidFor /\ Stamped

\* Nothing has happened at first.
LEMMA SoundInit == Init => Sound
<1> SUFFICES ASSUME Init PROVE Sound
    OBVIOUS
<1>1. TypeOK
    BY MachineAssumption DEF Init, TypeOK
<1>2. Explained /\ Stamped
    BY DEF Init, Explained, HistoryExplains, Explains, Stamped, NewestFirst
<1>3. PaidFor
    BY DEF Init, PaidFor, Paid
<1> QED BY <1>1, <1>2, <1>3 DEF Sound

\* machine_send: the invariant holds for every machine, number of processes and
\* interleaving of sends, retries, failures and crashes.
THEOREM SoundAlways == Spec => []Sound
<1>1. Sound /\ [Next]_vars => Sound'
    BY TypeStep, ExplainedStep, PaidStep, StampedStep DEF Sound
<1> QED BY <1>1, SoundInit, PTL DEF Spec

\* machine_send (runtime.rs): the history is one legal run of the machine that
\* ends in its state, and the events announce it transition by transition.
THEOREM HistoryAlwaysExplains == Spec => []HistoryExplains
<1>1. Sound => HistoryExplains
    BY DEF Sound, Explained
<1> QED BY <1>1, SoundAlways, PTL

\* machine_send: a caller gets the conflict error only when three transitions
\* of others came between its attempts.
THEOREM ConflictsArePaidFor == Spec => []ConflictMeansProgress
<1>1. Sound => ConflictMeansProgress
    BY DEF Sound, PaidFor, Paid, Lost, Holding, ConflictMeansProgress, TypeOK
<1> QED BY <1>1, SoundAlways, PTL

\* machine_history on SQLite: while one process sends, ordering by stamp is the
\* order of the transitions, though each stamp is older than its commit.
THEOREM SqliteNewestFirst == OneMutex => (Spec => []NewestFirst)
<1> SUFFICES ASSUME OneMutex PROVE Spec => []NewestFirst
    OBVIOUS
<1>1. Sound => NewestFirst
    BY DEF Sound, Stamped
<1> QED BY <1>1, SoundAlways, PTL
=============================================================================
