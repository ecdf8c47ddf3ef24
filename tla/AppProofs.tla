----------------------------- MODULE AppProofs -----------------------------
(***************************************************************************)
(* Theorems about the application object, for every set of clients,        *)
(* program of steps, number of jobs and bound: the last update of a        *)
(* subscription is complete, the journal reads back what was recorded,     *)
(* alerts tell of new deaths, and maxPending bounds the jobs that wait     *)
(* whoever else is pushing.                                                *)
(***************************************************************************)
EXTENDS App, FiniteSetTheorems, SequenceTheorems, TLAPS

-----------------------------------------------------------------------------
(* What a step does to the run and to those who work on it *)

\* The kinds of client that the proofs tell apart.
LEMMA KindsApart ==
    /\ \A c \in Attempts : /\ c \notin Stoppers \cup Signals /\ c \notin Producers /\ c \notin Ticks
                           /\ c \notin Operators /\ c \notin Triggers /\ c \notin Callers
                           /\ c \notin Watchers /\ c \notin Cancellers
    /\ \A c \in Watchers : /\ c \notin Stoppers \cup Signals /\ c \notin Producers /\ c \notin Ticks
                           /\ c \notin Operators /\ c \notin Triggers /\ c \notin Callers
                           /\ c \notin Cancellers
    /\ \A c \in Ticks : /\ c \notin Stoppers \cup Signals /\ c \notin Producers
                        /\ c \notin Operators /\ c \notin Triggers /\ c \notin Callers
                        /\ c \notin Cancellers
    /\ \A c \in Stoppers \cup Signals : /\ c \notin Producers /\ c \notin Operators
                                        /\ c \notin Triggers /\ c \notin Callers
                                        /\ c \notin Cancellers
    /\ \A c \in Producers : /\ c \notin Operators /\ c \notin Triggers /\ c \notin Callers
                            /\ c \notin Cancellers
<1> DEFINE kinds == <<Stoppers \cup Signals, Producers, Ticks, Operators, Triggers, Callers, Attempts,
                      Watchers, Cancellers>>
<1>1. \A i, j \in 1..9 : i # j => kinds[i] \cap kinds[j] = {}
    BY KindsAssumption
<1>2. /\ kinds[1] = Stoppers \cup Signals /\ kinds[2] = Producers /\ kinds[3] = Ticks
      /\ kinds[4] = Operators /\ kinds[5] = Triggers /\ kinds[6] = Callers
      /\ kinds[7] = Attempts /\ kinds[8] = Watchers /\ kinds[9] = Cancellers
    OBVIOUS
<1> HIDE DEF kinds
<1>3. \A j \in {1, 2, 3, 4, 5, 6, 8, 9} : kinds[7] \cap kinds[j] = {}
    BY <1>1
<1>4. \A j \in {1, 2, 3, 4, 5, 6, 9} : kinds[8] \cap kinds[j] = {}
    BY <1>1
<1>5. \A j \in {1, 2, 4, 5, 6, 9} : kinds[3] \cap kinds[j] = {}
    BY <1>1
<1>6. \A j \in {2, 4, 5, 6, 9} : kinds[1] \cap kinds[j] = {}
    BY <1>1
<1>7. \A j \in {4, 5, 6, 9} : kinds[2] \cap kinds[j] = {}
    BY <1>1
<1> QED BY <1>2, <1>3, <1>4, <1>5, <1>6, <1>7

\* A step that moves none of the clients in S.
Leaves(S) == \A c \in S : pc'[c] = pc[c]

\* A client's step moves that client only.
LEMMA GotoFact ==
    ASSUME DOMAIN pc = Clients, NEW c \in Clients, NEW at, NEW seen, Goto(c, at, seen)
    PROVE  /\ DOMAIN pc' = Clients /\ pc'[c] = [at |-> at, seen |-> seen]
           /\ \A d \in Clients : d # c => pc'[d] = pc[d]
BY DEF Goto

Work == Attempts \cup Watchers

\* What the calls of other clients, and the store's collector, do to the run.
RunKept == run' = run /\ journal' = journal /\ blobs' = blobs /\ recorded' = recorded
RunStarts == run = "none" /\ run' = "running" /\ journal' = journal /\ blobs' = blobs /\ recorded' = recorded
RunCancelled == /\ run = "running" /\ run' = "cancelled" /\ journal' = journal /\ blobs' = blobs
                /\ recorded' = recorded
RunGoes == /\ run # "none" /\ run' = "gone" /\ journal' = <<>> /\ recorded' = <<>> /\ blobs' = blobs
AttemptActs(a) ==
  \/ AttemptStarts(a) \/ StepReturns(a) \/ Offload(a) \/ RecordStep(a)
  \/ AttemptEnds(a, "completed") \/ AttemptEnds(a, "failed") \/ AttemptApplies(a) \/ AttemptFails(a)

\* A move of a client that is neither an attempt nor a watcher.
LEMMA AsideFact ==
    ASSUME DOMAIN pc = Clients, NEW c \in Clients, c \notin Work, NEW at, NEW seen, Goto(c, at, seen)
    PROVE  DOMAIN pc' = Clients /\ Leaves(Work)
<1>1. Work \subseteq Clients
    BY DEF Work, Clients
<1> QED BY <1>1, GotoFact DEF Leaves

\* A step moves an attempt, moves a watcher, or leaves both alone and keeps, starts,
\* cancels or erases the run.
LEMMA RunCases ==
    ASSUME DOMAIN pc = Clients, [Next]_vars
    PROVE  /\ scenario' = scenario
           /\ \/ /\ DOMAIN pc' = Clients /\ Leaves(Work)
                 /\ RunKept \/ RunStarts \/ RunCancelled \/ RunGoes
              \/ \E a \in Attempts : AttemptActs(a)
              \/ \E w \in Watchers : SubscribeReadsRow(w) \/ SubscribeReadsSteps(w)
<1> DEFINE Aside == /\ DOMAIN pc' = Clients /\ Leaves(Work)
                    /\ RunKept \/ RunStarts \/ RunCancelled \/ RunGoes
<1>1. CASE \/ \E def \in scenario.program : Define(def)
           \/ \E s \in scenario.servers : Listen(s) \/ ListenEnds(s, TRUE) \/ ListenEnds(s, FALSE)
           \/ Start \/ UNCHANGED vars
    <2>1. scenario' = scenario /\ pc' = pc /\ RunKept
        BY <1>1 DEF Define, Start, Listen, ListenEnds, vars, runVars, RunKept
    <2> QED BY <2>1 DEF Leaves
<1>2. CASE Handlers
    <2>1. scenario' = scenario /\ pc' = pc /\ RunKept
        BY <1>2 DEF Handlers, HandlerCalls, HandlerReturns, HandlerThrows, Sweep, Claim, JobBecomes,
                    appVars, runVars, RunKept
    <2> QED BY <2>1 DEF Leaves
<1>3. CASE Collect
    <2>1. scenario' = scenario /\ pc' = pc /\ RunGoes
        BY <1>3 DEF Collect, Terminal, appVars, RunGoes
    <2> QED BY <2>1 DEF Leaves
<1>4. ASSUME NEW c \in Clients, Begin(c) \/ Progress(c), c \notin Work
      PROVE  scenario' = scenario /\ Aside
    <2>0. c \notin Attempts /\ c \notin Watchers
        BY <1>4 DEF Work
    <2>1. ASSUME NEW at, NEW seen, Goto(c, at, seen) PROVE DOMAIN pc' = Clients /\ Leaves(Work)
        BY <1>4, <2>1, AsideFact
    <2>2. CASE \/ ServersClosed(c) \/ DrainEnds(c) \/ DrainTimesOut(c) \/ Stop(c)
        <3>1. scenario' = scenario /\ RunKept
            BY <2>2 DEF ServersClosed, DrainEnds, DrainTimesOut, StopResolves, Stop, runVars, RunKept
        <3>2. \E at, seen : Goto(c, at, seen)
            BY <2>2 DEF ServersClosed, DrainEnds, DrainTimesOut, StopResolves, Stop
        <3> QED BY <2>1, <3>1, <3>2
    <2>3. CASE Exit(c) \/ purgeDead(c)
        <3>1. scenario' = scenario /\ RunKept /\ pc' = pc
            BY <2>3 DEF Exit, purgeDead, runVars, appVars, RunKept
        <3> QED BY <3>1 DEF Leaves
    <2>4. CASE \/ Push(c) \/ RequeueApplies(c) \/ TickApplies(c) \/ McpAnswer(c) \/ Admit(c)
               \/ (\E role \in {"operator", "viewer"} : RequeueLists(c, role))
               \/ TickReads(c) \/ CancelLists(c)
        <3>1. scenario' = scenario /\ RunKept
            BY <2>4 DEF Push, RequeueApplies, TickApplies, McpAnswer, Admit, RequeueLists, TickReads,
                        CancelLists, appVars, runVars, RunKept
        <3>2. \E at, seen : Goto(c, at, seen)
            BY <2>4 DEF Push, RequeueApplies, TickApplies, McpAnswer, Admit, RequeueLists, TickReads,
                        CancelLists
        <3> QED BY <2>1, <3>1, <3>2
    <2>5. CASE CancelEach(c)
        <3>1. scenario' = scenario /\ (RunKept \/ RunCancelled)
            BY <2>5 DEF CancelEach, appVars, RunKept, RunCancelled
        <3>2. \E at, seen : Goto(c, at, seen)
            BY <2>5 DEF CancelEach
        <3> QED BY <2>1, <3>1, <3>2
    <2>6. CASE Trigger(c) \/ (\E tool \in {"workflow", "agent"} : McpCall(c, <<tool, "w">>))
        <3>1. scenario' = scenario /\ (RunKept \/ RunStarts)
            BY <2>6 DEF Trigger, McpCall, appVars, RunKept, RunStarts
        <3>2. \E at, seen : Goto(c, at, seen)
            BY <2>6 DEF Trigger, McpCall
        <3> QED BY <2>1, <3>1, <3>2
    <2>7. CASE purgeSubject(c)
        <3>1. scenario' = scenario /\ RunGoes
            BY <2>7 DEF purgeSubject, appVars, RunGoes
        <3>2. \E at, seen : Goto(c, at, seen)
            BY <2>7 DEF purgeSubject
        <3> QED BY <2>1, <3>1, <3>2
    <2> QED BY <1>4, <2>0, <2>2, <2>3, <2>4, <2>5, <2>6, <2>7 DEF Begin, Progress
<1>5. ASSUME NEW c \in Attempts, Begin(c) \/ Progress(c)
      PROVE  scenario' = scenario /\ AttemptActs(c)
    <2>1. AttemptActs(c)
        BY <1>5, KindsApart DEF Begin, Progress, AttemptActs
    <2> QED BY <2>1 DEF AttemptActs, AttemptStarts, StepReturns, Offload, RecordStep, AttemptEnds,
                    AttemptApplies, AttemptFails, appVars
<1>6. ASSUME NEW c \in Watchers, Begin(c) \/ Progress(c)
      PROVE  scenario' = scenario /\ (SubscribeReadsRow(c) \/ SubscribeReadsSteps(c))
    <2>1. SubscribeReadsRow(c) \/ SubscribeReadsSteps(c)
        BY <1>6, KindsApart DEF Begin, Progress
    <2> QED BY <2>1 DEF SubscribeReadsRow, SubscribeReadsSteps, appVars
<1> HIDE DEF Aside
<1>7. ASSUME NEW c \in Clients, Begin(c) \/ Progress(c)
      PROVE  /\ scenario' = scenario
             /\ \/ Aside
                \/ \E a \in Attempts : AttemptActs(a)
                \/ \E w \in Watchers : SubscribeReadsRow(w) \/ SubscribeReadsSteps(w)
    BY <1>4, <1>5, <1>6, <1>7 DEF Work
<1> QED BY <1>1, <1>2, <1>3, <1>7 DEF Next, Aside

-----------------------------------------------------------------------------
(* The last update of a subscription *)

\* What an attempt holds is part of the program, and of the journal while the run is there.
Grounded(a) ==
  /\ At(a) \in {"idle", "running", "returned", "offloaded", "ending"}
  /\ (At(a) # "idle" /\ run # "gone") => Seen(a).done \subseteq DOMAIN journal
  /\ At(a) = "ending" => /\ Seen(a).status \in {"completed", "failed"}
                         /\ Seen(a).status = "completed" => Seen(a).done = Range(Steps)
  /\ At(a) \in {"returned", "offloaded"} => Seen(a).step \in Range(Steps)

\* What a watcher has read of a run that completed is covered by the journal, although
\* another attempt may have written the row since, or the run is gone.
Current(w) ==
  /\ DOMAIN Seen(w) = {"row", "steps"}
  /\ (At(w) = "row" /\ Seen(w).row = "completed" /\ run # "gone") => DOMAIN journal = Range(Steps)
  /\ (At(w) = "done" /\ Seen(w).row = "completed" /\ run # "gone") => Seen(w).steps = Range(Steps)

\* The inductive invariant: a run that completed has every step of the program.
Told ==
  /\ DOMAIN pc = Clients
  /\ DOMAIN journal \subseteq Range(Steps)
  /\ run = "completed" => DOMAIN journal = Range(Steps)
  /\ \A a \in Attempts : Grounded(a)
  /\ \A w \in Watchers : Current(w)

\* A step that leaves attempts and watchers alone.
LEMMA ToldAside ==
    ASSUME Told, DOMAIN pc' = Clients, Leaves(Work), RunKept \/ RunStarts \/ RunCancelled \/ RunGoes
    PROVE  Told'
<1>1. \A c \in Attempts \cup Watchers : pc'[c] = pc[c]
    BY DEF Leaves, Work
<1>2. DOMAIN <<>> = {}
    OBVIOUS
<1>3. /\ DOMAIN journal' \subseteq Range(Steps)
      /\ run' = "completed" => DOMAIN journal' = Range(Steps)
      /\ run' # "gone" => journal' = journal /\ run # "gone"
    BY <1>2 DEF Told, RunKept, RunStarts, RunCancelled, RunGoes
<1>4. ASSUME NEW a \in Attempts PROVE Grounded(a)'
    BY <1>1, <1>3 DEF Told, Grounded, At, Seen
<1>5. ASSUME NEW w \in Watchers PROVE Current(w)'
    BY <1>1, <1>3 DEF Told, Current, At, Seen
<1> QED BY <1>3, <1>4, <1>5 DEF Told

\* A step of a watcher.
LEMMA ToldWatch ==
    ASSUME Told, NEW w \in Watchers, SubscribeReadsRow(w) \/ SubscribeReadsSteps(w)
    PROVE  Told'
<1>0. w \in Clients /\ Attempts \subseteq Clients /\ Watchers \subseteq Clients /\ w \notin Attempts
    BY KindsApart DEF Clients
<1>1. journal' = journal /\ run' = run
    BY DEF SubscribeReadsRow, SubscribeReadsSteps, runVars
<1>2. ASSUME NEW at, NEW seen, Goto(w, at, seen),
             DOMAIN seen = {"row", "steps"},
             (at = "row" /\ seen.row = "completed" /\ run # "gone") => DOMAIN journal = Range(Steps),
             (at = "done" /\ seen.row = "completed" /\ run # "gone") => seen.steps = Range(Steps)
      PROVE  Told'
    <2>1. /\ DOMAIN pc' = Clients /\ pc'[w] = [at |-> at, seen |-> seen]
          /\ \A d \in Clients : d # w => pc'[d] = pc[d]
        BY <1>0, <1>2, GotoFact DEF Told
    <2>2. Current(w)'
        BY <1>1, <1>2, <2>1 DEF Current, At, Seen
    <2>3. ASSUME NEW a \in Attempts PROVE Grounded(a)'
        BY <1>0, <1>1, <2>1 DEF Told, Grounded, At, Seen
    <2>4. ASSUME NEW v \in Watchers, v # w PROVE Current(v)'
        BY <1>0, <1>1, <2>1, <2>4 DEF Told, Current, At, Seen
    <2> QED BY <1>1, <2>1, <2>2, <2>3, <2>4 DEF Told
<1>3. CASE SubscribeReadsRow(w)
    <2> DEFINE at == IF ~Started \/ (run \in {"none", "gone"} /\ Seen(w).row = "none") THEN "rejected"
                     ELSE IF run = "gone" THEN "done" ELSE "row"
               seen == [Seen(w) EXCEPT !.row = run]
    <2>1. Goto(w, at, seen)
        BY <1>3 DEF SubscribeReadsRow
    <2>2. DOMAIN seen = {"row", "steps"} /\ seen.row = run
        BY DEF Told, Current
    <2>3. at = "done" => run = "gone"
        OBVIOUS
    <2> HIDE DEF at, seen
    <2>4. run = "completed" => DOMAIN journal = Range(Steps)
        BY DEF Told
    <2> QED BY <1>2, <2>1, <2>2, <2>3, <2>4
<1>4. CASE SubscribeReadsSteps(w)
    <2> DEFINE seen == [row |-> Seen(w).row, steps |-> DOMAIN journal]
    <2>1. PICK at : Goto(w, at, seen) /\ at # "row"
        BY <1>4 DEF SubscribeReadsSteps
    <2>2. (Seen(w).row = "completed" /\ run # "gone") => DOMAIN journal = Range(Steps)
        BY <1>4 DEF Told, Current, SubscribeReadsSteps, Ready
    <2>3. (seen.row = "completed" /\ run # "gone") => seen.steps = Range(Steps)
        BY <2>2
    <2>4. DOMAIN seen = {"row", "steps"}
        OBVIOUS
    <2> HIDE DEF seen
    <2> QED BY <1>2, <2>1, <2>3, <2>4
<1> QED BY <1>3, <1>4

\* A step of an attempt.
LEMMA ToldAttempt ==
    ASSUME Told, NEW a \in Attempts, AttemptActs(a)
    PROVE  Told'
<1>0. a \in Clients /\ Attempts \subseteq Clients /\ Watchers \subseteq Clients /\ a \notin Watchers
    BY KindsApart DEF Clients
<1>1. ASSUME NEW at \in {"idle", "running", "returned", "offloaded", "ending"}, NEW seen, Goto(a, at, seen),
             DOMAIN journal \subseteq DOMAIN journal', DOMAIN journal' \subseteq Range(Steps),
             run # "gone" => run' # "gone", run = "gone" => run' = "gone",
             (run' = "completed" /\ run # "completed") => DOMAIN journal = Range(Steps),
             at = "ending" => seen.status \in {"completed", "failed"}
                              /\ (seen.status = "completed" => seen.done = Range(Steps)),
             (at # "idle" /\ run # "gone") => seen.done \subseteq DOMAIN journal',
             at \in {"returned", "offloaded"} => seen.step \in Range(Steps)
      PROVE  Told'
    <2>1. /\ DOMAIN pc' = Clients /\ pc'[a] = [at |-> at, seen |-> seen]
          /\ \A d \in Clients : d # a => pc'[d] = pc[d]
        BY <1>0, <1>1, GotoFact DEF Told
    <2>2. run' = "completed" => DOMAIN journal' = Range(Steps)
        BY <1>1 DEF Told
    <2>3. Grounded(a)'
        BY <1>1, <2>1 DEF Grounded, At, Seen
    <2>4. ASSUME NEW b \in Attempts, b # a PROVE Grounded(b)'
        <3>1. pc'[b] = pc[b] /\ Grounded(b)
            BY <1>0, <2>1, <2>4 DEF Told
        <3> QED BY <1>1, <3>1 DEF Grounded, At, Seen
    <2>5. ASSUME NEW w \in Watchers PROVE Current(w)'
        <3>1. pc'[w] = pc[w] /\ Current(w)
            BY <1>0, <2>1 DEF Told
        <3> QED BY <1>1, <3>1 DEF Current, At, Seen
    <2> QED BY <1>1, <2>1, <2>2, <2>3, <2>4, <2>5 DEF Told
<1>2. Grounded(a) /\ DOMAIN journal \subseteq Range(Steps)
    BY DEF Told
<1>3. CASE AttemptStarts(a)
    <2> DEFINE seen == [done |-> DOMAIN journal]
    <2>1. Goto(a, "running", seen) /\ journal' = journal /\ run' = run
        BY <1>3 DEF AttemptStarts, runVars
    <2>2. seen.done = DOMAIN journal
        OBVIOUS
    <2> HIDE DEF seen
    <2> QED BY <1>1, <1>2, <2>1, <2>2
<1>4. CASE StepReturns(a)
    <2>1. PICK i \in 1..Len(Steps), r \in Results :
            Goto(a, "returned", [done |-> Seen(a).done, step |-> Steps[i], result |-> r])
        BY <1>4 DEF StepReturns
    <2>2. journal' = journal /\ run' = run /\ At(a) = "running"
        BY <1>4 DEF StepReturns, runVars, Ready
    <2> DEFINE seen == [done |-> Seen(a).done, step |-> Steps[i], result |-> r]
    <2>3. Steps[i] \in Range(Steps)
        BY AppAssumption DEF Range
    <2>4. seen.done = Seen(a).done /\ seen.step \in Range(Steps) /\ Goto(a, "returned", seen)
        BY <2>1, <2>3
    <2> HIDE DEF seen
    <2>5. run # "gone" => seen.done \subseteq DOMAIN journal
        BY <1>2, <2>2, <2>4 DEF Grounded
    <2> QED BY <1>1, <1>2, <2>2, <2>4, <2>5
<1>5. CASE Offload(a)
    <2>1. PICK new : Goto(a, "offloaded", [Seen(a) EXCEPT !.result = new])
        BY <1>5 DEF Offload
    <2>2. journal' = journal /\ run' = run /\ At(a) = "returned"
        BY <1>5 DEF Offload, Ready
    <2> DEFINE seen == [Seen(a) EXCEPT !.result = new]
    <2>3. seen.done = Seen(a).done /\ seen.step = Seen(a).step /\ Goto(a, "offloaded", seen)
        BY <2>1
    <2> HIDE DEF seen
    <2>4. seen.step \in Range(Steps) /\ (run # "gone" => seen.done \subseteq DOMAIN journal)
        BY <1>2, <2>2, <2>3 DEF Grounded
    <2> QED BY <1>1, <1>2, <2>2, <2>3, <2>4
<1>6. CASE RecordStep(a)
    <2> DEFINE seen == [done |-> Seen(a).done \cup {Seen(a).step}]
    <2>1. /\ Goto(a, "running", seen) /\ run' = run /\ At(a) = "offloaded"
          /\ journal' = Keeping(journal, Seen(a).step, Seen(a).result.stored)
        BY <1>6 DEF RecordStep, Ready
    <2>2. DOMAIN journal' = DOMAIN journal \cup {Seen(a).step}
        BY <2>1 DEF Keeping
    <2>3. Seen(a).step \in Range(Steps) /\ (run # "gone" => Seen(a).done \subseteq DOMAIN journal)
        BY <1>2, <2>1 DEF Grounded
    <2>4. seen.done = Seen(a).done \cup {Seen(a).step}
        OBVIOUS
    <2> HIDE DEF seen
    <2> QED BY <1>1, <1>2, <2>1, <2>2, <2>3, <2>4
<1>7. ASSUME NEW status \in {"completed", "failed"}, AttemptEnds(a, status) PROVE Told'
    <2> DEFINE seen == [done |-> Seen(a).done, status |-> status]
    <2>1. /\ Goto(a, "idle", None) \/ Goto(a, "ending", seen)
          /\ journal' = journal /\ run' = run /\ At(a) = "running"
          /\ status = "completed" => Seen(a).done = Range(Steps)
        BY <1>7 DEF AttemptEnds, Ready, runVars
    <2>2. seen.done = Seen(a).done /\ seen.status = status
        OBVIOUS
    <2> HIDE DEF seen
    <2>3. run # "gone" => Seen(a).done \subseteq DOMAIN journal
        BY <1>2, <2>1 DEF Grounded
    <2>4. CASE Goto(a, "idle", None)
        BY <1>1, <1>2, <2>1, <2>4
    <2>5. CASE Goto(a, "ending", seen)
        BY <1>1, <1>2, <2>1, <2>2, <2>3, <2>5
    <2> QED BY <2>1, <2>4, <2>5
<1>8. CASE AttemptApplies(a)
    <2>1. /\ Goto(a, "idle", None) /\ journal' = journal /\ At(a) = "ending"
          /\ run' = IF run = "gone" THEN run ELSE Seen(a).status
        BY <1>8 DEF AttemptApplies, Ready
    <2>2. (run # "gone" /\ Seen(a).status = "completed") => DOMAIN journal = Range(Steps)
        BY <1>2, <2>1 DEF Grounded
    <2>3. run # "gone" => run' # "gone"
        BY <1>2, <2>1 DEF Grounded
    <2> QED BY <1>1, <1>2, <2>1, <2>2, <2>3
<1>9. CASE AttemptFails(a)
    <2>1. Goto(a, "idle", None) /\ journal' = journal /\ run' = run
        BY <1>9 DEF AttemptFails, runVars
    <2> QED BY <1>1, <1>2, <2>1
<1> QED BY <1>3, <1>4, <1>5, <1>6, <1>7, <1>8, <1>9 DEF AttemptActs

\* For every number of attempts, watchers and other clients: the last update of a
\* subscription to a run that completed carries all of its steps (app.ts subscribe reads
\* the row and the steps in two calls).
THEOREM LastUpdateComplete == Spec => []FinalUpdateComplete
<1>1. Init => Told
    <2> SUFFICES ASSUME Init PROVE Told
        OBVIOUS
    <2>1. DOMAIN pc = Clients /\ DOMAIN journal = {} /\ run = "none"
        BY DEF Init
    <2>2. ASSUME NEW c \in Clients
          PROVE  At(c) = "idle" /\ (c \in Watchers /\ c \notin Producers
                                      => Seen(c) = [row |-> "none", steps |-> {}])
        BY DEF Init, At, Seen
    <2>3. Attempts \subseteq Clients /\ Watchers \subseteq Clients
        BY DEF Clients
    <2>4. ASSUME NEW a \in Attempts PROVE Grounded(a)
        BY <2>2, <2>3 DEF Grounded
    <2>5. ASSUME NEW w \in Watchers PROVE Current(w)
        BY <2>2, <2>3, KindsApart DEF Current
    <2> QED BY <2>1, <2>4, <2>5 DEF Told
<1>2. Told /\ [Next]_vars => Told'
    <2> SUFFICES ASSUME Told, [Next]_vars PROVE Told'
        OBVIOUS
    <2>1. DOMAIN pc = Clients
        BY DEF Told
    <2> QED BY <2>1, RunCases, ToldAside, ToldWatch, ToldAttempt
<1>3. Told => FinalUpdateComplete
    BY DEF Told, Current, FinalUpdateComplete
<1> QED BY <1>1, <1>2, <1>3, PTL DEF Spec

-----------------------------------------------------------------------------
(* What the journal reads back *)

\* Only one attempt works on the run, and the blob store gives each step its own file.
OneAttempt == \A sc \in Scenarios : \A a, b \in Attempts \cap sc.clients : a = b
DistinctFiles == \A s, t \in Range(Steps) : Ref(s) = Ref(t) => s = t

\* What is stored for step s stands for the value.
Stands(s, value, stored) ==
  /\ value \in Results
  /\ stored = IF value.large THEN [blob |-> Ref(s)] ELSE value
  /\ value.large = TRUE => Ref(s) \in DOMAIN blobs /\ blobs[Ref(s)] = value

\* An attempt under way knows of every journaled step; the step it carries is new.
Carries(a) ==
  /\ At(a) \in {"idle", "running", "returned", "offloaded", "ending"}
  /\ At(a) # "idle" => a \in scenario.clients /\ DOMAIN journal \subseteq Seen(a).done
  /\ At(a) \in {"returned", "offloaded"} => Seen(a).step \in Range(Steps) /\ Seen(a).step \notin Seen(a).done
  /\ At(a) = "returned" => DOMAIN Seen(a) = {"done", "step", "result"} /\ Seen(a).result \in Results
  /\ At(a) = "offloaded" => Stands(Seen(a).step, Seen(a).result.value, Seen(a).result.stored)

\* The inductive invariant.
Faithful ==
  /\ scenario \in Scenarios
  /\ DOMAIN pc = Clients
  /\ DOMAIN recorded = DOMAIN journal /\ DOMAIN journal \subseteq Range(Steps)
  /\ \A s \in DOMAIN journal : Stands(s, recorded[s], journal[s])
  /\ \A a \in Attempts : Carries(a)

\* What stands for a value reads back as the value.
LEMMA StandsReads ==
    ASSUME NEW s, NEW value, NEW stored, Stands(s, value, stored)
    PROVE  Rehydrate(stored) = value
<1>1. CASE value.large = TRUE
    <2>1. stored = [blob |-> Ref(s)] /\ Ref(s) \in DOMAIN blobs /\ blobs[Ref(s)] = value
        BY <1>1 DEF Stands
    <2>2. "blob" \in DOMAIN stored /\ stored.blob = Ref(s)
        BY <2>1
    <2> QED BY <2>1, <2>2 DEF Rehydrate
<1>2. CASE value.large = FALSE
    <2>1. stored = value /\ "blob" \notin DOMAIN value
        BY <1>2, AppAssumption DEF Stands
    <2> QED BY <2>1 DEF Rehydrate
<1>3. value.large \in BOOLEAN
    BY AppAssumption DEF Stands
<1> QED BY <1>1, <1>2, <1>3

\* A step that leaves attempts and watchers alone.
LEMMA FaithfulAside ==
    ASSUME Faithful, scenario' = scenario, DOMAIN pc' = Clients, Leaves(Attempts),
           RunKept \/ RunStarts \/ RunCancelled \/ RunGoes
    PROVE  Faithful'
<1>1. DOMAIN <<>> = {}
    OBVIOUS
<1>2. /\ blobs' = blobs /\ DOMAIN journal' \subseteq DOMAIN journal /\ DOMAIN recorded' = DOMAIN journal'
      /\ \A s \in DOMAIN journal' : journal'[s] = journal[s] /\ recorded'[s] = recorded[s]
    BY <1>1 DEF Faithful, RunKept, RunStarts, RunCancelled, RunGoes
<1>3. ASSUME NEW s, NEW value, NEW stored, Stands(s, value, stored)
      PROVE  Stands(s, value, stored)'
    BY <1>2, <1>3 DEF Stands, Ref
<1>4. ASSUME NEW s \in DOMAIN journal' PROVE Stands(s, recorded[s], journal[s])'
    <2>1. PICK value, stored : value = recorded[s] /\ stored = journal[s]
        OBVIOUS
    <2>2. Stands(s, value, stored)'
        BY <1>2, <1>3, <2>1 DEF Faithful
    <2> QED BY <1>2, <2>1, <2>2 DEF Stands, Ref
<1>5. ASSUME NEW a \in Attempts PROVE Carries(a)'
    <2>1. pc'[a] = pc[a] /\ Carries(a)
        BY DEF Faithful, Leaves
    <2> QED BY <1>2, <2>1 DEF Carries, At, Seen, Stands, Ref
<1> QED BY <1>2, <1>4, <1>5 DEF Faithful

\* A step of the one attempt.
LEMMA FaithfulAttempt ==
    ASSUME OneAttempt, DistinctFiles, Faithful, scenario' = scenario, NEW a \in Attempts, AttemptActs(a)
    PROVE  Faithful'
<1>0. a \in Clients /\ Attempts \subseteq Clients
    BY DEF Clients
<1>1. a \in scenario.clients
    BY DEF AttemptActs, AttemptStarts, StepReturns, Offload, RecordStep, AttemptEnds,
           AttemptApplies, AttemptFails, Ready
<1>2. Carries(a)
    BY DEF Faithful
<1>3. \A b \in Attempts : b # a => At(b) = "idle"
    BY <1>1 DEF Faithful, Carries, OneAttempt
<1>4. ASSUME NEW at, NEW seen, Goto(a, at, seen), Carries(a)',
             DOMAIN recorded' = DOMAIN journal', DOMAIN journal' \subseteq Range(Steps),
             \A s \in DOMAIN journal' : Stands(s, recorded[s], journal[s])'
      PROVE  Faithful'
    <2>1. DOMAIN pc' = Clients /\ \A d \in Clients : d # a => pc'[d] = pc[d]
        BY <1>0, <1>4, GotoFact DEF Faithful
    <2>2. ASSUME NEW b \in Attempts, b # a PROVE Carries(b)'
        BY <1>0, <1>3, <2>1, <2>2 DEF Carries, At
    <2> QED BY <1>4, <2>1, <2>2 DEF Faithful
<1>5. ASSUME NEW at, NEW seen, Goto(a, at, seen), RunKept \/ (journal' = journal /\ blobs' = blobs
                                                            /\ recorded' = recorded), Carries(a)'
      PROVE  Faithful'
    <2>1. journal' = journal /\ blobs' = blobs /\ recorded' = recorded
        BY <1>5 DEF RunKept
    <2>2. \A s \in DOMAIN journal' : Stands(s, recorded[s], journal[s])'
        BY <2>1 DEF Faithful, Stands, Ref
    <2>3. DOMAIN recorded' = DOMAIN journal' /\ DOMAIN journal' \subseteq Range(Steps)
        BY <2>1 DEF Faithful
    <2> QED BY <1>4, <1>5, <2>2, <2>3
<1>6. ASSUME NEW at, NEW seen, Goto(a, at, seen) PROVE At(a)' = at /\ Seen(a)' = seen
    <2>1. pc'[a] = [at |-> at, seen |-> seen]
        BY <1>0, <1>6, GotoFact DEF Faithful
    <2> QED BY <2>1 DEF At, Seen
<1>7. CASE AttemptApplies(a) \/ AttemptFails(a)
    <2>1. Goto(a, "idle", None) /\ journal' = journal /\ blobs' = blobs /\ recorded' = recorded
        BY <1>7 DEF AttemptApplies, AttemptFails, runVars
    <2>2. Carries(a)'
        BY <1>6, <2>1 DEF Carries
    <2> QED BY <1>5, <2>1, <2>2
<1>8. CASE AttemptStarts(a)
    <2>1. /\ Goto(a, "running", [done |-> DOMAIN journal])
          /\ journal' = journal /\ blobs' = blobs /\ recorded' = recorded
        BY <1>8 DEF AttemptStarts, runVars
    <2>2. At(a)' = "running" /\ Seen(a)' = [done |-> DOMAIN journal]
        BY <1>6, <2>1
    <2>3. Carries(a)'
        BY <1>1, <2>1, <2>2 DEF Carries
    <2> QED BY <1>5, <2>1, <2>3
<1>9. CASE StepReturns(a)
    <2>1. PICK i \in 1..Len(Steps), r \in Results :
            /\ Steps[i] \notin Seen(a).done
            /\ Goto(a, "returned", [done |-> Seen(a).done, step |-> Steps[i], result |-> r])
        BY <1>9 DEF StepReturns
    <2>2. journal' = journal /\ blobs' = blobs /\ recorded' = recorded /\ At(a) = "running"
        BY <1>9 DEF StepReturns, runVars, Ready
    <2>3. /\ At(a)' = "returned"
          /\ Seen(a)' = [done |-> Seen(a).done, step |-> Steps[i], result |-> r]
        BY <1>6, <2>1
    <2>4. Steps[i] \in Range(Steps)
        BY AppAssumption DEF Range
    <2>5. Carries(a)'
        BY <1>1, <1>2, <2>1, <2>2, <2>3, <2>4 DEF Carries
    <2> QED BY <1>5, <2>1, <2>2, <2>5
<1>10. CASE Offload(a)
    <2> DEFINE step == Seen(a).step
               value == Seen(a).result
               stored == IF value.large THEN [blob |-> Ref(step)] ELSE value
               seen == [Seen(a) EXCEPT !.result = [value |-> value, stored |-> stored]]
    <2>1. /\ Goto(a, "offloaded", seen) /\ At(a) = "returned"
          /\ journal' = journal /\ recorded' = recorded
          /\ blobs' = IF value.large THEN Replacing(blobs, Ref(step), value) ELSE blobs
        BY <1>10 DEF Offload, Ready
    <2>2. /\ DOMAIN Seen(a) = {"done", "step", "result"} /\ value \in Results /\ step \in Range(Steps)
          /\ step \notin Seen(a).done /\ DOMAIN journal \subseteq Seen(a).done
        BY <1>2, <2>1 DEF Carries
    <2>3. /\ seen.done = Seen(a).done /\ seen.step = step
          /\ seen.result.value = value /\ seen.result.stored = stored
        BY <2>2
    <2>4. value.large \in BOOLEAN
        BY <2>2, AppAssumption
    <2>5. At(a)' = "offloaded" /\ Seen(a)' = seen
        BY <1>6, <2>1
    <2>6. value.large = TRUE => Ref(step) \in DOMAIN blobs' /\ blobs'[Ref(step)] = value
        BY <2>1 DEF Replacing
    <2>7. \A f : f # Ref(step) /\ f \in DOMAIN blobs => f \in DOMAIN blobs' /\ blobs'[f] = blobs[f]
        BY <2>1, <2>4 DEF Replacing
    <2>8. ASSUME NEW s \in DOMAIN journal PROVE Stands(s, recorded[s], journal[s])'
        <3>1. Stands(s, recorded[s], journal[s]) /\ s \in Range(Steps)
            BY DEF Faithful
        <3>2. Ref(s) # Ref(step)
            BY <2>2, <3>1 DEF DistinctFiles
        <3> QED BY <2>1, <2>7, <3>1, <3>2 DEF Stands, Ref
    <2>9. Carries(a)'
        <3>1. PICK st, va, so, ne : st = step /\ va = value /\ so = stored /\ ne = seen
            OBVIOUS
        <3>2. so = IF va.large THEN [blob |-> Ref(st)] ELSE va
            BY <3>1
        <3>3. /\ ne.done = Seen(a).done /\ ne.step = st /\ ne.result.value = va /\ ne.result.stored = so
              /\ At(a)' = "offloaded" /\ Seen(a)' = ne /\ va \in Results /\ st \in Range(Steps)
              /\ st \notin Seen(a).done /\ DOMAIN journal \subseteq Seen(a).done
              /\ va.large = TRUE => Ref(st) \in DOMAIN blobs' /\ blobs'[Ref(st)] = va
            BY <2>2, <2>3, <2>5, <2>6, <3>1
        <3> HIDE DEF step, value, stored, seen
        <3>4. Stands(st, va, so)'
            BY <3>2, <3>3 DEF Stands, Ref
        <3>5. Stands(Seen(a).step, Seen(a).result.value, Seen(a).result.stored)'
            BY <3>3, <3>4
        <3> QED BY <1>1, <2>1, <3>3, <3>5 DEF Carries
    <2>10. DOMAIN recorded' = DOMAIN journal' /\ DOMAIN journal' \subseteq Range(Steps)
        BY <2>1 DEF Faithful
    <2>11. \A s \in DOMAIN journal' : Stands(s, recorded[s], journal[s])'
        BY <2>1, <2>8
    <2> HIDE DEF step, value, stored, seen
    <2> QED BY <1>4, <2>1, <2>9, <2>10, <2>11
<1>11. CASE RecordStep(a)
    <2>1. /\ Goto(a, "running", [done |-> Seen(a).done \cup {Seen(a).step}]) /\ At(a) = "offloaded"
          /\ journal' = Keeping(journal, Seen(a).step, Seen(a).result.stored)
          /\ recorded' = Keeping(recorded, Seen(a).step, Seen(a).result.value)
          /\ blobs' = blobs
        BY <1>11 DEF RecordStep, Ready
    <2>2. PICK st, va, so : st = Seen(a).step /\ va = Seen(a).result.value /\ so = Seen(a).result.stored
        OBVIOUS
    <2>3. /\ Stands(st, va, so) /\ st \in Range(Steps) /\ st \notin DOMAIN journal
          /\ DOMAIN journal \subseteq Seen(a).done
        BY <1>2, <2>1, <2>2 DEF Carries
    <2>4. DOMAIN recorded = DOMAIN journal /\ DOMAIN journal \subseteq Range(Steps)
        BY DEF Faithful
    <2>5. /\ DOMAIN journal' = DOMAIN journal \cup {st} /\ DOMAIN recorded' = DOMAIN journal'
          /\ journal'[st] = so /\ recorded'[st] = va
          /\ \A s \in DOMAIN journal : journal'[s] = journal[s] /\ recorded'[s] = recorded[s]
        BY <2>1, <2>2, <2>3, <2>4 DEF Keeping
    <2>6. ASSUME NEW s \in DOMAIN journal' PROVE Stands(s, recorded[s], journal[s])'
        <3>1. CASE s = st
            BY <2>1, <2>3, <2>5, <3>1 DEF Stands, Ref
        <3>2. CASE s \in DOMAIN journal
            <4>1. Stands(s, recorded[s], journal[s])
                BY <3>2 DEF Faithful
            <4> QED BY <2>1, <2>5, <3>2, <4>1 DEF Stands, Ref
        <3> QED BY <2>5, <3>1, <3>2
    <2>7. At(a)' = "running" /\ Seen(a)' = [done |-> Seen(a).done \cup {st}]
        BY <1>6, <2>1, <2>2
    <2>8. Carries(a)'
        BY <1>1, <2>3, <2>5, <2>7 DEF Carries
    <2> QED BY <1>4, <2>1, <2>3, <2>4, <2>5, <2>6, <2>8
<1>12. ASSUME NEW status, AttemptEnds(a, status) PROVE Faithful'
    <2> DEFINE seen == [done |-> Seen(a).done, status |-> status]
    <2>1. /\ Goto(a, "idle", None) \/ Goto(a, "ending", seen)
          /\ journal' = journal /\ blobs' = blobs /\ recorded' = recorded /\ At(a) = "running"
        BY <1>12 DEF AttemptEnds, Ready, runVars
    <2>2. seen.done = Seen(a).done
        OBVIOUS
    <2> HIDE DEF seen
    <2>3. Carries(a)'
        BY <1>1, <1>2, <1>6, <2>1, <2>2 DEF Carries
    <2> QED BY <1>5, <2>1, <2>3
<1> QED BY <1>7, <1>8, <1>9, <1>10, <1>11, <1>12 DEF AttemptActs

\* A run that one attempt at a time works on, with a file of its own for every step:
\* after any number of attempts that failed anywhere between the body's return, the blob
\* store's put and recordStep, what a replay reads for a journaled step is the value the
\* step returned.
THEOREM JournalFaithful == (OneAttempt /\ DistinctFiles) => (Spec => []JournalReadsBack)
<1> SUFFICES ASSUME OneAttempt, DistinctFiles PROVE Spec => []JournalReadsBack
    OBVIOUS
<1>1. Init => Faithful
    <2> SUFFICES ASSUME Init PROVE Faithful
        OBVIOUS
    <2>1. DOMAIN pc = Clients /\ DOMAIN journal = {} /\ DOMAIN recorded = {} /\ scenario \in Scenarios
        BY DEF Init
    <2>2. ASSUME NEW a \in Attempts PROVE Carries(a)
        <3>1. At(a) = "idle"
            BY DEF Init, At, Clients
        <3> QED BY <3>1 DEF Carries
    <2> QED BY <2>1, <2>2 DEF Faithful
<1>2. Faithful /\ [Next]_vars => Faithful'
    <2> SUFFICES ASSUME Faithful, [Next]_vars PROVE Faithful'
        OBVIOUS
    <2>1. DOMAIN pc = Clients
        BY DEF Faithful
    <2>2. ASSUME NEW w \in Watchers, SubscribeReadsRow(w) \/ SubscribeReadsSteps(w)
          PROVE  DOMAIN pc' = Clients /\ Leaves(Attempts) /\ RunKept
        <3>1. PICK at, seen : Goto(w, at, seen)
            BY <2>2 DEF SubscribeReadsRow, SubscribeReadsSteps
        <3>2. w \in Clients /\ Attempts \subseteq Clients /\ w \notin Attempts
            BY KindsApart DEF Clients
        <3>3. RunKept
            BY <2>2 DEF SubscribeReadsRow, SubscribeReadsSteps, runVars, RunKept
        <3> QED BY <2>1, <3>1, <3>2, <3>3, GotoFact DEF Leaves
    <2>3. Leaves(Work) => Leaves(Attempts)
        BY DEF Leaves, Work
    <2> QED BY <2>1, <2>2, <2>3, RunCases, FaithfulAside, FaithfulAttempt
<1>3. Faithful => JournalReadsBack
    BY StandsReads DEF Faithful, JournalReadsBack
<1> QED BY <1>1, <1>2, <1>3, PTL DEF Spec

-----------------------------------------------------------------------------
(* The alert loop *)

\* A tick of the alert loop has ended before the next one begins.
OneTick == \A sc \in Scenarios : \A s, t \in Ticks \cap sc.clients : s = t

Rows == DOMAIN jobs = Jobs /\ \A j \in Jobs : "state" \in DOMAIN jobs[j]
Size == Least(DeadLimit, Cardinality(Dead))

\* What a step does to the dead letters.
DeadStay == Dead' \subseteq Dead /\ deaths' = deaths
OneDies == deaths' = deaths + 1 /\ \E j \in Jobs : Dead' \subseteq Dead \cup {j}

\* A job's row changes.
LEMMA RowChanges ==
    ASSUME Rows, NEW j \in Jobs, NEW row, "state" \in DOMAIN row, jobs' = [jobs EXCEPT ![j] = row]
    PROVE  /\ Rows'
           /\ row.state # "dead" => Dead' \subseteq Dead
           /\ Dead' \subseteq Dead \cup {j}
           /\ row.state = jobs[j].state => Dead' = Dead
<1>1. jobs'[j] = row /\ DOMAIN jobs' = Jobs /\ \A k \in Jobs : k # j => jobs'[k] = jobs[k]
    BY DEF Rows
<1>2. Rows'
    BY <1>1 DEF Rows
<1>3. Dead' = {k \in Jobs : jobs'[k].state = "dead"}
    BY DEF Dead
<1> QED BY <1>1, <1>2, <1>3 DEF Dead

\* Several rows change, and none dies.
LEMMA RowsChange ==
    ASSUME Rows, DOMAIN jobs' = Jobs,
           \A j \in Jobs : \/ jobs'[j] = jobs[j]
                           \/ "state" \in DOMAIN jobs'[j] /\ jobs'[j].state # "dead"
    PROVE  Rows' /\ Dead' \subseteq Dead
<1>1. Rows'
    BY DEF Rows
<1>2. Dead' = {k \in Jobs : jobs'[k].state = "dead"}
    BY DEF Dead
<1> QED BY <1>1, <1>2 DEF Dead

\* Only a handler that throws makes a job die.
LEMMA HandlersAndDead ==
    ASSUME Rows, Handlers
    PROVE  Rows' /\ (DeadStay \/ OneDies)
<1>1. PICK j \in Jobs : \/ HandlerCalls(j) \/ HandlerReturns(j) \/ HandlerThrows(j) \/ Sweep(j)
                        \/ \E e \in 1..Len(runtimes) : Claim(j, e)
    BY DEF Handlers
<1>2. "state" \in DOMAIN jobs[j]
    BY DEF Rows
<1>3. CASE HandlerCalls(j)
    <2>1. PICK v : jobs' = [jobs EXCEPT ![j] = [jobs[j] EXCEPT !.called = v]] /\ deaths' = deaths
        BY <1>3 DEF HandlerCalls, JobBecomes
    <2>2. PICK row : row = [jobs[j] EXCEPT !.called = v]
        OBVIOUS
    <2>3. "state" \in DOMAIN row /\ row.state = jobs[j].state /\ jobs' = [jobs EXCEPT ![j] = row]
        BY <1>2, <2>1, <2>2
    <2> QED BY <2>1, <2>3, RowChanges DEF DeadStay
<1>4. CASE HandlerReturns(j)
    <2>1. PICK row : /\ row = [jobs[j] EXCEPT !.state = "done", !.called = "no"]
                     /\ jobs' = [jobs EXCEPT ![j] = row] /\ deaths' = deaths
        BY <1>4 DEF HandlerReturns, JobBecomes
    <2>2. "state" \in DOMAIN row /\ row.state # "dead"
        BY <1>2, <2>1
    <2> QED BY <2>1, <2>2, RowChanges DEF DeadStay
<1>5. CASE HandlerThrows(j)
    <2> DEFINE dead == jobs[j].tries >= MaxAttempts
    <2>1. PICK row : /\ row = [jobs[j] EXCEPT !.state = IF dead THEN "dead" ELSE "pending", !.called = "no"]
                     /\ jobs' = [jobs EXCEPT ![j] = row]
                     /\ deaths' = IF dead THEN deaths + 1 ELSE deaths
        BY <1>5 DEF HandlerThrows, JobBecomes
    <2>2. "state" \in DOMAIN row /\ row.state = IF dead THEN "dead" ELSE "pending"
        BY <1>2, <2>1
    <2> HIDE DEF dead
    <2>3. ~dead => row.state # "dead"
        BY <2>2
    <2> QED BY <2>1, <2>2, <2>3, RowChanges DEF DeadStay, OneDies
<1>6. CASE Sweep(j)
    <2>1. PICK row : /\ row = [jobs[j] EXCEPT !.state = "pending", !.called = "no"]
                     /\ jobs' = [jobs EXCEPT ![j] = row] /\ deaths' = deaths
        BY <1>6 DEF Sweep, JobBecomes
    <2>2. "state" \in DOMAIN row /\ row.state # "dead"
        BY <1>2, <2>1
    <2> QED BY <2>1, <2>2, RowChanges DEF DeadStay
<1>7. CASE \E e \in 1..Len(runtimes) : Claim(j, e)
    <2>0. PICK e \in 1..Len(runtimes) : Claim(j, e)
        BY <1>7
    <2>1. PICK row : /\ row = [jobs[j] EXCEPT !.state = "active", !.owner = e, !.tries = @ + 1, !.fresh = FALSE]
                     /\ jobs' = [jobs EXCEPT ![j] = row] /\ deaths' = deaths
        BY <2>0 DEF Claim, JobBecomes
    <2>2. "state" \in DOMAIN row /\ row.state # "dead"
        BY <1>2, <2>1
    <2> QED BY <2>1, <2>2, RowChanges DEF DeadStay
<1> QED BY <1>1, <1>3, <1>4, <1>5, <1>6, <1>7

\* A step is a part of a tick, or leaves the alert loop alone; jobs die one at a time.
LEMMA TickCases ==
    ASSUME DOMAIN pc = Clients, Rows, [Next]_vars
    PROVE  /\ scenario' = scenario /\ Rows' /\ (DeadStay \/ OneDies)
           /\ \/ DOMAIN pc' = Clients /\ Leaves(Ticks) /\ lastDlq' = lastDlq /\ alerts' = alerts
              \/ \E t \in Ticks : DeadStay /\ (TickReads(t) \/ TickApplies(t))
<1> DEFINE Aside == /\ scenario' = scenario /\ DOMAIN pc' = Clients /\ Leaves(Ticks)
                    /\ lastDlq' = lastDlq /\ alerts' = alerts
<1>0. Ticks \subseteq Clients
    BY DEF Clients
<1>1. jobs' = jobs /\ deaths' = deaths => Rows' /\ DeadStay
    BY DEF Rows, DeadStay, Dead
<1>2. CASE \/ \E def \in scenario.program : Define(def)
           \/ \E s \in scenario.servers : Listen(s) \/ ListenEnds(s, TRUE) \/ ListenEnds(s, FALSE)
           \/ Start \/ Collect \/ UNCHANGED vars
    <2>1. /\ scenario' = scenario /\ pc' = pc /\ lastDlq' = lastDlq /\ alerts' = alerts
          /\ jobs' = jobs /\ deaths' = deaths
        BY <1>2 DEF Define, Listen, ListenEnds, Start, Collect, vars, appVars, queueVars, alertVars
    <2> QED BY <1>1, <2>1 DEF Leaves
<1>3. CASE Handlers
    <2>1. scenario' = scenario /\ pc' = pc /\ lastDlq' = lastDlq /\ alerts' = alerts
        BY <1>3 DEF Handlers, HandlerCalls, HandlerReturns, HandlerThrows, Sweep, Claim, JobBecomes,
                    appVars, alertVars
    <2> QED BY <1>3, <2>1, HandlersAndDead DEF Leaves
<1>4. ASSUME NEW c \in Clients, Begin(c) \/ Progress(c), c \notin Ticks
      PROVE  Aside /\ Rows' /\ DeadStay
    <2>1. scenario' = scenario /\ lastDlq' = lastDlq /\ alerts' = alerts
        <3>1. CASE Begin(c)
            BY <1>4, <3>1 DEF Begin, Stop, Admit, RequeueLists, purgeDead, Trigger, purgeSubject,
                         CancelLists, McpCall, AttemptStarts, StepReturns, Offload, RecordStep,
                         AttemptEnds, AttemptApplies, AttemptFails, appVars, alertVars
        <3>2. CASE Progress(c)
            BY <1>4, <3>2 DEF Progress, ServersClosed, DrainEnds, DrainTimesOut, StopResolves, Exit, Push,
                         RequeueApplies, SubscribeReadsRow, SubscribeReadsSteps, CancelEach, McpAnswer,
                         appVars, alertVars
        <3> QED BY <1>4, <3>1, <3>2
    <2>2. pc' = pc \/ \E at, seen : Goto(c, at, seen)
        <3>1. CASE Begin(c)
            BY <1>4, <3>1 DEF Begin, Stop, Admit, RequeueLists, purgeDead, Trigger, purgeSubject,
                         CancelLists, McpCall, AttemptStarts, StepReturns, Offload, RecordStep,
                         AttemptEnds, AttemptApplies, AttemptFails
        <3>2. CASE Progress(c)
            BY <1>4, <3>2 DEF Progress, ServersClosed, DrainEnds, DrainTimesOut, StopResolves, Exit, Push,
                         RequeueApplies, SubscribeReadsRow, SubscribeReadsSteps, CancelEach, McpAnswer
        <3> QED BY <1>4, <3>1, <3>2
    <2>3. DOMAIN pc' = Clients /\ Leaves(Ticks)
        BY <1>0, <1>4, <2>2, GotoFact DEF Leaves
    <2>4. \/ jobs' = jobs /\ deaths' = deaths
          \/ deaths' = deaths /\ (Push(c) \/ RequeueApplies(c) \/ purgeDead(c))
        <3>1. CASE Begin(c)
            BY <1>4, <3>1 DEF Begin, Stop, Admit, RequeueLists, purgeDead, Trigger, purgeSubject,
                         CancelLists, McpCall, AttemptStarts, StepReturns, Offload, RecordStep,
                         AttemptEnds, AttemptApplies, AttemptFails, queueVars
        <3>2. CASE Progress(c)
            BY <1>4, <3>2 DEF Progress, ServersClosed, DrainEnds, DrainTimesOut, StopResolves, Exit, Push,
                         RequeueApplies, SubscribeReadsRow, SubscribeReadsSteps, CancelEach, McpAnswer,
                         queueVars
        <3> QED BY <1>4, <3>1, <3>2
    <2>5. ASSUME deaths' = deaths, Push(c) PROVE Rows' /\ DeadStay
        <3>1. \/ jobs' = jobs
              \/ \E moved \in SUBSET Jobs :
                   jobs' = [j \in Jobs |-> IF j \in moved THEN [jobs[j] EXCEPT !.state = "pending"] ELSE jobs[j]]
            <4> DEFINE free == {j \in Jobs : jobs[j].state = "none"}
                       moved == {j \in Jobs : j \in free /\ Cardinality({k \in free : k < j}) < Batch(c)}
            <4>1. \/ jobs' = jobs
                  \/ jobs' = [j \in Jobs |-> IF j \in free /\ Cardinality({k \in free : k < j}) < Batch(c)
                                             THEN [jobs[j] EXCEPT !.state = "pending"] ELSE jobs[j]]
                BY <2>5 DEF Push
            <4>2. \A j \in Jobs : j \in free /\ Cardinality({k \in free : k < j}) < Batch(c) <=> j \in moved
                OBVIOUS
            <4>3. moved \in SUBSET Jobs
                OBVIOUS
            <4> HIDE DEF free, moved
            <4> QED BY <4>1, <4>2, <4>3
        <3>2. CASE jobs' = jobs
            BY <1>1, <2>5, <3>2
        <3>3. ASSUME NEW moved \in SUBSET Jobs,
                     jobs' = [j \in Jobs |-> IF j \in moved THEN [jobs[j] EXCEPT !.state = "pending"] ELSE jobs[j]]
              PROVE  Rows' /\ DeadStay
            BY <2>5, <3>3, RowsChange DEF Rows, DeadStay
        <3> QED BY <3>1, <3>2, <3>3
    <2>6. ASSUME deaths' = deaths, RequeueApplies(c) PROVE Rows' /\ DeadStay
        <3>1. \/ jobs' = jobs
              \/ jobs' = [j \in Jobs |-> IF j \in Seen(c) /\ jobs[j].state = "dead"
                                         THEN [jobs[j] EXCEPT !.state = "pending", !.tries = 0] ELSE jobs[j]]
            BY <2>6 DEF RequeueApplies
        <3> QED BY <1>1, <2>6, <3>1, RowsChange DEF Rows, DeadStay
    <2>7. ASSUME deaths' = deaths, purgeDead(c) PROVE Rows' /\ DeadStay
        <3>1. jobs' = [j \in Jobs |-> IF j \in Dead THEN [jobs[j] EXCEPT !.state = "done"] ELSE jobs[j]]
            BY <2>7 DEF purgeDead
        <3> QED BY <2>7, <3>1, RowsChange DEF Rows, DeadStay
    <2>8. Rows' /\ DeadStay
        BY <1>1, <2>4, <2>5, <2>6, <2>7
    <2> QED BY <2>1, <2>3, <2>8
<1>5. ASSUME NEW t \in Ticks, Begin(t) \/ Progress(t)
      PROVE  scenario' = scenario /\ Rows' /\ DeadStay /\ (TickReads(t) \/ TickApplies(t))
    <2>1. TickReads(t) \/ TickApplies(t)
        BY <1>5, KindsApart DEF Begin, Progress
    <2>2. scenario' = scenario /\ jobs' = jobs /\ deaths' = deaths
        BY <2>1 DEF TickReads, TickApplies, appVars, queueVars
    <2> QED BY <1>1, <2>1, <2>2
<1> HIDE DEF Aside
<1>6. ASSUME NEW c \in Clients, Begin(c) \/ Progress(c)
      PROVE  /\ scenario' = scenario /\ Rows' /\ DeadStay
             /\ Aside \/ \E t \in Ticks : TickReads(t) \/ TickApplies(t)
    BY <1>4, <1>5, <1>6 DEF Aside
<1> QED BY <1>2, <1>3, <1>6 DEF Next, Aside

\* The dead jobs that a tick would count grow with the deaths at most.
LEMMA SizeGrows ==
    ASSUME Rows, deaths \in Nat, DeadStay \/ OneDies
    PROVE  /\ Size \in Nat /\ Size' \in Nat /\ deaths' \in Nat /\ deaths <= deaths'
           /\ Size' + deaths <= Size + deaths'
<1>1. Dead \subseteq Jobs /\ IsFiniteSet(Jobs) /\ DeadLimit \in Nat
    BY AppAssumption DEF Dead
<1>2. IsFiniteSet(Dead) /\ Cardinality(Dead) \in Nat
    BY <1>1, FS_Subset, FS_CardinalityType
<1>3. Size = (IF DeadLimit <= Cardinality(Dead) THEN DeadLimit ELSE Cardinality(Dead))
    BY DEF Size, Least
<1>4. Size' = (IF DeadLimit <= Cardinality(Dead') THEN DeadLimit ELSE Cardinality(Dead'))
    BY DEF Size, Least
<1>5. CASE DeadStay
    <2>1. IsFiniteSet(Dead') /\ Cardinality(Dead') \in Nat /\ Cardinality(Dead') <= Cardinality(Dead)
        BY <1>2, <1>5, FS_Subset, FS_CardinalityType DEF DeadStay
    <2> QED BY <1>1, <1>2, <1>3, <1>4, <1>5, <2>1 DEF DeadStay
<1>6. CASE OneDies
    <2>1. PICK j \in Jobs : Dead' \subseteq Dead \cup {j}
        BY <1>6 DEF OneDies
    <2>2. /\ IsFiniteSet(Dead \cup {j}) /\ Cardinality(Dead \cup {j}) \in Nat
          /\ Cardinality(Dead \cup {j}) <= Cardinality(Dead) + 1
        <3>1. /\ IsFiniteSet(Dead \cup {j})
              /\ Cardinality(Dead \cup {j}) = IF j \in Dead THEN Cardinality(Dead) ELSE Cardinality(Dead) + 1
            BY <1>2, FS_AddElement
        <3> QED BY <1>2, <3>1
    <2>3. /\ IsFiniteSet(Dead') /\ Cardinality(Dead') \in Nat
          /\ Cardinality(Dead') <= Cardinality(Dead \cup {j})
        BY <2>1, <2>2, FS_Subset, FS_CardinalityType
    <2>4. deaths' = deaths + 1
        BY <1>6 DEF OneDies
    <2> QED BY <1>1, <1>2, <1>3, <1>4, <2>2, <2>3, <2>4
<1> QED BY <1>5, <1>6

\* What a tick has counted: the growth it will see is explained by deaths that the last
\* alert did not know of, and so is what has come since.
Explained(t) ==
  At(t) = "counted" =>
    /\ t \in scenario.clients
    /\ Seen(t).dead \in Nat /\ Seen(t).deaths \in Nat
    /\ alerts.deaths <= Seen(t).deaths /\ Seen(t).deaths <= deaths
    /\ Seen(t).dead + alerts.deaths <= lastDlq + Seen(t).deaths
    /\ Size + Seen(t).deaths <= Seen(t).dead + deaths

\* The inductive invariant: growth over the last size is at most the deaths since the last alert.
Tally ==
  /\ scenario \in Scenarios /\ DOMAIN pc = Clients /\ Rows
  /\ deaths \in Nat /\ lastDlq \in Nat /\ alerts.count \in Nat /\ alerts.deaths \in Nat
  /\ alerts.deaths <= deaths
  /\ Size + alerts.deaths <= lastDlq + deaths
  /\ \A t \in Ticks : Explained(t)

\* A part of a tick.
LEMMA TallyTick ==
    ASSUME OneTick, Tally, scenario' = scenario, Rows', DeadStay,
           NEW t \in Ticks, TickReads(t) \/ TickApplies(t)
    PROVE  Tally' /\ (alerts'.count > alerts.count => alerts'.deaths > alerts.deaths)
<1>0. t \in Clients /\ Ticks \subseteq Clients /\ DOMAIN pc = Clients
    BY DEF Clients, Tally
<1>1. t \in scenario.clients /\ jobs' = jobs /\ deaths' = deaths
    BY DEF TickReads, TickApplies, Ready, queueVars
<1>2. \A s \in Ticks : s # t => At(s) # "counted"
    BY <1>1 DEF Tally, Explained, OneTick
<1>3. Size' = Size /\ Size \in Nat /\ deaths \in Nat
    <2>1. Dead' = Dead
        BY <1>1 DEF Dead
    <2>2. Size' = Size
        BY <2>1 DEF Size
    <2> QED BY <2>2, SizeGrows DEF Tally
<1>4. ASSUME NEW at, NEW seen, Goto(t, at, seen)
      PROVE  /\ DOMAIN pc' = Clients /\ At(t)' = at /\ Seen(t)' = seen
             /\ \A s \in Ticks : s # t => Explained(s)'
    <2>1. /\ DOMAIN pc' = Clients /\ pc'[t] = [at |-> at, seen |-> seen]
          /\ \A d \in Clients : d # t => pc'[d] = pc[d]
        BY <1>0, <1>4, GotoFact
    <2>2. ASSUME NEW s \in Ticks, s # t PROVE Explained(s)'
        BY <1>0, <1>2, <2>1, <2>2 DEF Explained, At
    <2> QED BY <2>1, <2>2 DEF At, Seen
<1>5. CASE TickReads(t)
    <2> DEFINE seen == [dead |-> Size, deaths |-> deaths]
    <2>1. Goto(t, "counted", seen) /\ lastDlq' = lastDlq /\ alerts' = alerts
        BY <1>5 DEF TickReads, alertVars, Size
    <2>2. seen.dead = Size /\ seen.deaths = deaths
        OBVIOUS
    <2> HIDE DEF seen
    <2>3. At(t)' = "counted" /\ Seen(t)' = seen /\ DOMAIN pc' = Clients /\ \A s \in Ticks : s # t => Explained(s)'
        BY <1>4, <2>1
    <2>4. Explained(t)'
        BY <1>1, <1>3, <2>1, <2>2, <2>3 DEF Explained, Tally
    <2>5. Tally'
        BY <1>1, <1>3, <2>1, <2>3, <2>4 DEF Tally
    <2>6. ~(alerts'.count > alerts.count)
        BY <2>1 DEF Tally
    <2> QED BY <2>5, <2>6
<1>6. CASE TickApplies(t)
    <2>1. Goto(t, "idle", None) /\ lastDlq' = Seen(t).dead /\ At(t) = "counted"
        BY <1>6 DEF TickApplies, Ready
    <2>2. \/ alerts' = [count |-> alerts.count + 1, deaths |-> Seen(t).deaths] /\ Seen(t).dead > lastDlq
          \/ alerts' = alerts
        BY <1>6 DEF TickApplies, Grew
    <2>3. At(t)' = "idle" /\ DOMAIN pc' = Clients /\ \A s \in Ticks : s # t => Explained(s)'
        BY <1>4, <2>1
    <2>4. Explained(t)'
        BY <2>3 DEF Explained
    <2>5. PICK n, d, last, told, all, size :
             /\ n = Seen(t).dead /\ d = Seen(t).deaths /\ last = lastDlq /\ told = alerts.deaths
             /\ all = deaths /\ size = Size
        OBVIOUS
    <2>6. /\ n \in Nat /\ d \in Nat /\ last \in Nat /\ told \in Nat /\ all \in Nat /\ size \in Nat
          /\ alerts.count \in Nat /\ told <= d /\ d <= all /\ n + told <= last + d /\ size + d <= n + all
        BY <1>3, <2>1, <2>5 DEF Tally, Explained
    <2>7. \/ alerts'.count = alerts.count + 1 /\ alerts'.deaths = d /\ n > last
          \/ alerts'.count = alerts.count /\ alerts'.deaths = told
        BY <2>2, <2>5
    <2>8. alerts'.count > alerts.count => alerts'.deaths > told
        BY <2>6, <2>7
    <2>9. /\ alerts'.count \in Nat /\ alerts'.deaths \in Nat /\ alerts'.deaths <= all
          /\ size + alerts'.deaths <= n + all
        BY <2>6, <2>7
    <2>10. Tally'
        BY <1>1, <1>3, <2>1, <2>3, <2>4, <2>5, <2>6, <2>9 DEF Tally
    <2> QED BY <2>5, <2>8, <2>10
<1> QED BY <1>5, <1>6

\* A step of another part of the system.
LEMMA TallyAside ==
    ASSUME Tally, scenario' = scenario, Rows', DeadStay \/ OneDies,
           DOMAIN pc' = Clients, Leaves(Ticks), lastDlq' = lastDlq, alerts' = alerts
    PROVE  Tally'
<1>1. /\ Size \in Nat /\ Size' \in Nat /\ deaths' \in Nat /\ deaths <= deaths'
      /\ Size' + deaths <= Size + deaths' /\ deaths \in Nat
    BY SizeGrows DEF Tally
<1>2. ASSUME NEW t \in Ticks PROVE Explained(t)'
    <2>1. At(t)' = At(t) /\ Seen(t)' = Seen(t)
        BY DEF Leaves, At, Seen
    <2>2. PICK n, d, now, before, size, sized :
             /\ n = Seen(t).dead /\ d = Seen(t).deaths /\ now = deaths' /\ before = deaths
             /\ size = Size /\ sized = Size'
        OBVIOUS
    <2>3. ASSUME At(t) = "counted"
          PROVE  /\ n \in Nat /\ d \in Nat /\ d <= before /\ size + d <= n + before
                 /\ t \in scenario.clients /\ alerts.deaths <= d /\ n + alerts.deaths <= lastDlq + d
        BY <2>2, <2>3 DEF Tally, Explained
    <2>4. At(t) = "counted" => d <= now /\ sized + d <= n + now
        BY <1>1, <2>2, <2>3
    <2> QED BY <2>1, <2>2, <2>3, <2>4 DEF Explained
<1> QED BY <1>1, <1>2 DEF Tally

\* While no two ticks of the alert loop overlap, whatever is requeued, purged, retried or
\* pushed in between: an alert on the dead letters tells of a job that died since the last one.
THEOREM AlertsTellOfDeaths == OneTick => (Spec => AlertsFollowGrowth)
<1> SUFFICES ASSUME OneTick PROVE Spec => AlertsFollowGrowth
    OBVIOUS
<1> DEFINE Follows == alerts'.count > alerts.count => alerts'.deaths > alerts.deaths
<1>1. Init => Tally
    <2> SUFFICES ASSUME Init PROVE Tally
        OBVIOUS
    <2>1. /\ scenario \in Scenarios /\ DOMAIN pc = Clients /\ deaths = 0 /\ lastDlq = 0
          /\ alerts.count = 0 /\ alerts.deaths = 0 /\ Ticks \subseteq Clients
        BY DEF Init, Clients
    <2>2. Rows
        BY DEF Init, Rows
    <2>3. Dead = {}
        BY DEF Init, Dead
    <2>4. Cardinality(Dead) = 0
        BY <2>3, FS_EmptySet
    <2>5. Size = 0
        BY <2>4, AppAssumption DEF Size, Least
    <2>6. \A t \in Ticks : Explained(t)
        BY <2>1 DEF Init, Explained, At
    <2> QED BY <2>1, <2>2, <2>5, <2>6 DEF Tally
<1>2. Tally /\ [Next]_vars => Tally' /\ Follows
    <2> SUFFICES ASSUME Tally, [Next]_vars PROVE Tally' /\ Follows
        OBVIOUS
    <2>1. DOMAIN pc = Clients /\ Rows
        BY DEF Tally
    <2>2. scenario' = scenario /\ Rows' /\ (DeadStay \/ OneDies)
        BY <2>1, TickCases
    <2>3. CASE \E t \in Ticks : DeadStay /\ (TickReads(t) \/ TickApplies(t))
        BY <2>2, <2>3, TallyTick
    <2>4. CASE DOMAIN pc' = Clients /\ Leaves(Ticks) /\ lastDlq' = lastDlq /\ alerts' = alerts
        <3>1. Tally'
            BY <2>2, <2>4, TallyAside
        <3>2. ~(alerts'.count > alerts.count)
            BY <2>4 DEF Tally
        <3> QED BY <3>1, <3>2
    <2> QED BY <2>1, <2>3, <2>4, TickCases
<1>3. Tally /\ [Next]_vars => [Follows]_vars
    BY <1>2
<1> QED BY <1>1, <1>2, <1>3, PTL DEF Spec, AlertsFollowGrowth

-----------------------------------------------------------------------------
(* maxPending *)

\* The producers that have been let in and have not pushed yet.
Admitted == {p \in DOMAIN Batches : At(p) = "admitted"}

\* The rows as maxPending sees them: a job that has been claimed is not fresh again.
Stocked ==
  /\ DOMAIN jobs = Jobs
  /\ \A j \in Jobs : /\ {"state", "fresh"} \subseteq DOMAIN jobs[j]
                     /\ jobs[j].state \notin {"none", "pending"} => jobs[j].fresh = FALSE

\* A producer of a queue without keys holds all of its items until it has pushed them.
Whole(p) == (p \notin Keyed /\ At(p) \in {"idle", "admitted"}) => Seen(p) = Items[p]

\* The room that maxPending leaves, for the batches that are about to be pushed too.
Room ==
  DOMAIN Batches # {} =>
    \E p \in DOMAIN Batches :
      Cardinality(Pending) + Cardinality(Batched(Admitted))
        <= MaxPending + Cardinality(Batched(DOMAIN Batches \ {p}))

\* The inductive invariant.
Roomy == DOMAIN pc = Clients /\ Stocked /\ Room /\ \A p \in Producers : Whole(p)


\* How many items a set of batches has: they are finitely many, and one batch adds its size.
LEMMA BatchedFinite ==
    ASSUME NEW S \in SUBSET DOMAIN Batches
    PROVE  IsFiniteSet(Batched(S)) /\ Cardinality(Batched(S)) \in Nat
<1>1. IsFiniteSet(S)
    BY AppAssumption, FS_Subset DEF Batches
<1>2. \A p \in S : Batches[p] \in Nat
    BY AppAssumption DEF Batches
<1> DEFINE T == {{p} \X (1..Batches[p]) : p \in S}
           f == [p \in S |-> {p} \X (1..Batches[p])]
<1>3. f \in Surjection(S, T)
    <2>1. f \in [S -> T]
        OBVIOUS
    <2>2. \A t \in T : \E p \in S : f[p] = t
        OBVIOUS
    <2> QED BY <2>1, <2>2 DEF Surjection
<1>4. ASSUME NEW t \in T PROVE IsFiniteSet(t)
    <2>1. PICK p \in S : t = {p} \X (1..Batches[p])
        OBVIOUS
    <2>2. IsFiniteSet({p}) /\ IsFiniteSet(1..Batches[p])
        <3>1. Batches[p] \in Int /\ 1 \in Int
            BY <1>2
        <3> QED BY <3>1, FS_Singleton, FS_Interval
    <2> QED BY <2>1, <2>2, FS_Product
<1> HIDE DEF f
<1>5. IsFiniteSet(T)
    <2> HIDE DEF T
    <2> QED BY <1>1, <1>3, FS_Surjection
<1>6. IsFiniteSet(UNION T)
    <2> HIDE DEF T
    <2> QED BY <1>4, <1>5, FS_UNION
<1>7. IsFiniteSet(Batched(S))
    BY <1>6 DEF Batched
<1> QED BY <1>7, FS_CardinalityType

\* A batch that joins others adds its size.
LEMMA BatchedAdds ==
    ASSUME NEW S \in SUBSET DOMAIN Batches, NEW p \in DOMAIN Batches, p \notin S
    PROVE  Cardinality(Batched(S \cup {p})) = Cardinality(Batched(S)) + Batches[p]
<1> DEFINE own == {p} \X (1..Batches[p])
<1>0. Batches[p] \in Nat /\ Batches[p] > 0
    BY AppAssumption DEF Batches
<1>1. IsFiniteSet(own) /\ Cardinality(own) = Batches[p]
    <2>1. IsFiniteSet({p}) /\ Cardinality({p}) = 1
        BY FS_Singleton
    <2>2. IsFiniteSet(1..Batches[p]) /\ Cardinality(1..Batches[p]) = Batches[p]
        BY <1>0, FS_Interval
    <2>3. IsFiniteSet(own) /\ Cardinality(own) = 1 * Batches[p]
        <3>1. IsFiniteSet(own) /\ Cardinality(own) = Cardinality({p}) * Cardinality(1..Batches[p])
            BY <2>1, <2>2, FS_Product
        <3> QED BY <2>1, <2>2, <3>1
    <2> QED BY <1>0, <2>3
<1>2. Batched(S \cup {p}) = Batched(S) \cup own
    BY DEF Batched
<1>3. Batched(S) \cap own = {}
    <2>1. ASSUME NEW x \in Batched(S), x \in own PROVE FALSE
        <3>1. PICK q \in S : x \in {q} \X (1..Batches[q])
            BY <2>1 DEF Batched
        <3>2. x[1] = q /\ x[1] = p
            BY <2>1, <3>1
        <3> QED BY <3>2
    <2> HIDE DEF own
    <2> QED BY <2>1
<1>4. IsFiniteSet(Batched(S)) /\ Cardinality(Batched(S)) \in Nat
    BY BatchedFinite
<1> HIDE DEF own
<1>5. Cardinality(Batched(S) \cup own) = Cardinality(Batched(S)) + Cardinality(own) - Cardinality(Batched(S) \cap own)
    BY <1>1, <1>4, FS_Union
<1>6. Cardinality(Batched(S) \cap own) = 0
    BY <1>3, FS_EmptySet
<1>7. PICK n : n = Cardinality(Batched(S))
    OBVIOUS
<1>8. Cardinality(Batched(S) \cup own) = n + Batches[p] - 0 /\ n \in Nat
    BY <1>1, <1>4, <1>5, <1>6, <1>7
<1>9. Cardinality(Batched(S) \cup own) = n + Batches[p]
    BY <1>0, <1>8
<1> QED BY <1>2, <1>7, <1>9

\* Fewer batches have fewer items.
LEMMA BatchedMonotone ==
    ASSUME NEW S \in SUBSET DOMAIN Batches, NEW R \in SUBSET S
    PROVE  Cardinality(Batched(R)) <= Cardinality(Batched(S))
<1>1. Batched(R) \subseteq Batched(S)
    BY DEF Batched
<1> QED BY <1>1, BatchedFinite, FS_Subset

\* The b least members of a set of numbers are at most b.
LEMMA LeastFew ==
    ASSUME NEW F \in SUBSET Nat, IsFiniteSet(F), NEW b \in Nat
    PROVE  LET least == {j \in F : Cardinality({k \in F : k < j}) < b}
           IN IsFiniteSet(least) /\ Cardinality(least) <= b
<1> DEFINE below(j) == {k \in F : k < j}
           least == {j \in F : Cardinality(below(j)) < b}
           rank == [j \in least |-> Cardinality(below(j))]
<1>1. ASSUME NEW j \in F PROVE IsFiniteSet(below(j)) /\ Cardinality(below(j)) \in Nat
    <2>1. below(j) \subseteq F
        OBVIOUS
    <2> QED BY <2>1, FS_Subset, FS_CardinalityType
<1>2. ASSUME NEW i \in F, NEW j \in F, i < j PROVE Cardinality(below(i)) < Cardinality(below(j))
    <2>1. below(i) \subseteq below(j) /\ i \in below(j) /\ i \notin below(i)
        <3>1. i \in Nat /\ j \in Nat /\ \A k \in F : k \in Nat
            OBVIOUS
        <3>2. \A k \in F : k < i => k < j
            BY <1>2, <3>1
        <3>3. ~(i < i)
            BY <3>1
        <3> QED BY <1>2, <3>2, <3>3
    <2>2. below(i) # below(j)
        BY <2>1
    <2>3. Cardinality(below(i)) <= Cardinality(below(j)) /\ Cardinality(below(i)) # Cardinality(below(j))
        <3> HIDE DEF below
        <3> QED BY <1>1, <2>1, <2>2, FS_Subset
    <2> HIDE DEF below
    <2> QED BY <1>1, <2>3
<1>3. rank \in [least -> 0..(b - 1)]
    <2>1. ASSUME NEW j \in least PROVE Cardinality(below(j)) \in 0..(b - 1)
        <3>1. j \in F /\ Cardinality(below(j)) < b
            OBVIOUS
        <3>2. PICK n : n = Cardinality(below(j))
            OBVIOUS
        <3>3. n \in Nat /\ n < b
            BY <1>1, <3>1, <3>2
        <3> QED BY <3>2, <3>3
    <2> HIDE DEF least, below
    <2> QED BY <2>1
<1>4. \A i, j \in least : rank[i] = rank[j] => i = j
    <2> SUFFICES ASSUME NEW i \in least, NEW j \in least, rank[i] = rank[j], i # j PROVE FALSE
        OBVIOUS
    <2>1. i \in F /\ j \in F /\ Cardinality(below(i)) = Cardinality(below(j))
        OBVIOUS
    <2>2. i < j \/ j < i
        <3>1. i \in Nat /\ j \in Nat
            BY <2>1
        <3> QED BY <3>1
    <2> HIDE DEF below
    <2> QED BY <1>1, <1>2, <2>1, <2>2
<1> HIDE DEF rank
<1>5. rank \in Injection(least, 0..(b - 1))
    <2> HIDE DEF least
    <2> QED BY <1>3, <1>4 DEF Injection, IsInjective
<1>6. IsFiniteSet(0..(b - 1)) /\ Cardinality(0..(b - 1)) = b
    BY FS_Interval
<1>7. IsFiniteSet(least) /\ Cardinality(least) <= b
    <2> HIDE DEF least
    <2> QED BY <1>5, <1>6, FS_Injection
<1> QED BY <1>7


\* Rows that change and are not fresh add nothing to what maxPending counts.
LEMMA StockedRows ==
    ASSUME Stocked, DOMAIN jobs' = Jobs,
           \A j \in Jobs : \/ jobs'[j] = jobs[j]
                           \/ {"state", "fresh"} \subseteq DOMAIN jobs'[j] /\ jobs'[j].fresh = FALSE
    PROVE  Stocked' /\ Pending' \subseteq Pending
<1>1. Stocked'
    BY DEF Stocked
<1>2. Pending' = {j \in Jobs : jobs'[j].state = "pending" /\ jobs'[j].fresh}
    BY DEF Pending
<1> QED BY <1>1, <1>2 DEF Pending

\* One row changes.
LEMMA StockedRow ==
    ASSUME Stocked, NEW j \in Jobs, NEW row, {"state", "fresh"} \subseteq DOMAIN row, row.fresh = FALSE,
           jobs' = [jobs EXCEPT ![j] = row]
    PROVE  Stocked' /\ Pending' \subseteq Pending
<1>1. DOMAIN jobs' = Jobs /\ jobs'[j] = row /\ \A k \in Jobs : k # j => jobs'[k] = jobs[k]
    BY DEF Stocked
<1> QED BY <1>1, StockedRows

\* The workers only take from what maxPending counts: a retry is not a new job.
LEMMA HandlersAndPending ==
    ASSUME Stocked, Handlers
    PROVE  Stocked' /\ Pending' \subseteq Pending
<1>1. PICK j \in Jobs : \/ HandlerCalls(j) \/ HandlerReturns(j) \/ HandlerThrows(j) \/ Sweep(j)
                        \/ \E e \in 1..Len(runtimes) : Claim(j, e)
    BY DEF Handlers
<1>2. {"state", "fresh"} \subseteq DOMAIN jobs[j] /\ (jobs[j].state = "active" => jobs[j].fresh = FALSE)
    BY DEF Stocked
<1>3. CASE HandlerCalls(j)
    <2>1. PICK v : jobs' = [jobs EXCEPT ![j] = [jobs[j] EXCEPT !.called = v]]
        BY <1>3 DEF HandlerCalls, JobBecomes
    <2>2. PICK row : row = [jobs[j] EXCEPT !.called = v]
        OBVIOUS
    <2>3. jobs[j].state = "active"
        BY <1>3 DEF HandlerCalls, HandlerRuns
    <2>4. {"state", "fresh"} \subseteq DOMAIN row /\ row.fresh = FALSE
        BY <1>2, <2>2, <2>3
    <2> QED BY <2>1, <2>2, <2>4, StockedRow
<1>4. ASSUME NEW s, jobs[j].state = "active",
             jobs' = [jobs EXCEPT ![j] = [jobs[j] EXCEPT !.state = s, !.called = "no"]]
      PROVE  Stocked' /\ Pending' \subseteq Pending
    <2>1. PICK row : row = [jobs[j] EXCEPT !.state = s, !.called = "no"]
        OBVIOUS
    <2>2. {"state", "fresh"} \subseteq DOMAIN row /\ row.fresh = FALSE
        BY <1>2, <1>4, <2>1
    <2> QED BY <1>4, <2>1, <2>2, StockedRow
<1>5. CASE HandlerReturns(j) \/ HandlerThrows(j) \/ Sweep(j)
    <2>1. PICK s : jobs' = [jobs EXCEPT ![j] = [jobs[j] EXCEPT !.state = s, !.called = "no"]]
        BY <1>5 DEF HandlerReturns, HandlerThrows, Sweep, JobBecomes
    <2>2. jobs[j].state = "active"
        BY <1>5 DEF HandlerReturns, HandlerThrows, Sweep, HandlerRuns
    <2> QED BY <1>4, <2>1, <2>2
<1>6. CASE \E e \in 1..Len(runtimes) : Claim(j, e)
    <2>0. PICK e \in 1..Len(runtimes) : Claim(j, e)
        BY <1>6
    <2>1. PICK row : /\ row = [jobs[j] EXCEPT !.state = "active", !.owner = e, !.tries = @ + 1, !.fresh = FALSE]
                     /\ jobs' = [jobs EXCEPT ![j] = row]
        BY <2>0 DEF Claim, JobBecomes
    <2>2. {"state", "fresh"} \subseteq DOMAIN row /\ row.fresh = FALSE
        BY <1>2, <2>1
    <2> QED BY <2>1, <2>2, StockedRow
<1> QED BY <1>1, <1>3, <1>5, <1>6

\* A step is a producer's, or leaves the producers alone and adds nothing to what
\* maxPending counts.
LEMMA ProducerCases ==
    ASSUME DOMAIN pc = Clients, Stocked, [Next]_vars
    PROVE  /\ scenario' = scenario
           /\ \/ /\ DOMAIN pc' = Clients /\ Leaves(Producers)
                 /\ Stocked' /\ Pending' \subseteq Pending
              \/ \E p \in Producers : Admit(p) \/ Push(p)
<1> DEFINE Aside == /\ scenario' = scenario /\ DOMAIN pc' = Clients /\ Leaves(Producers)
                    /\ Stocked' /\ Pending' \subseteq Pending
<1>0. Producers \subseteq Clients
    BY DEF Clients
<1>1. jobs' = jobs => Stocked' /\ Pending' \subseteq Pending
    BY DEF Stocked, Pending
<1>2. CASE \/ \E def \in scenario.program : Define(def)
           \/ \E s \in scenario.servers : Listen(s) \/ ListenEnds(s, TRUE) \/ ListenEnds(s, FALSE)
           \/ Start \/ Collect \/ UNCHANGED vars
    <2>1. scenario' = scenario /\ pc' = pc /\ jobs' = jobs
        BY <1>2 DEF Define, Listen, ListenEnds, Start, Collect, vars, appVars, queueVars
    <2> QED BY <1>1, <2>1 DEF Leaves
<1>3. CASE Handlers
    <2>1. scenario' = scenario /\ pc' = pc
        BY <1>3 DEF Handlers, HandlerCalls, HandlerReturns, HandlerThrows, Sweep, Claim, JobBecomes,
                    appVars
    <2> QED BY <1>3, <2>1, HandlersAndPending DEF Leaves
<1>4. ASSUME NEW c \in Clients, Begin(c) \/ Progress(c), c \notin Producers
      PROVE  Aside
    <2>1. scenario' = scenario
        BY <1>4, RunCases
    <2>2. pc' = pc \/ \E at, seen : Goto(c, at, seen)
        <3>1. CASE Begin(c)
            BY <1>4, <3>1 DEF Begin, Stop, TickReads, RequeueLists, purgeDead, Trigger, purgeSubject,
                         CancelLists, McpCall, AttemptStarts, StepReturns, Offload, RecordStep,
                         AttemptEnds, AttemptApplies, AttemptFails
        <3>2. CASE Progress(c)
            BY <1>4, <3>2 DEF Progress, ServersClosed, DrainEnds, DrainTimesOut, StopResolves, Exit, TickApplies,
                         RequeueApplies, SubscribeReadsRow, SubscribeReadsSteps, CancelEach, McpAnswer
        <3> QED BY <1>4, <3>1, <3>2
    <2>3. DOMAIN pc' = Clients /\ Leaves(Producers)
        BY <1>0, <1>4, <2>2, GotoFact DEF Leaves
    <2>4. jobs' = jobs \/ RequeueApplies(c) \/ purgeDead(c)
        <3>1. CASE Begin(c)
            BY <1>4, <3>1 DEF Begin, Stop, TickReads, RequeueLists, Trigger, purgeSubject,
                         CancelLists, McpCall, AttemptStarts, StepReturns, Offload, RecordStep,
                         AttemptEnds, AttemptApplies, AttemptFails, queueVars
        <3>2. CASE Progress(c)
            BY <1>4, <3>2 DEF Progress, ServersClosed, DrainEnds, DrainTimesOut, StopResolves, Exit, TickApplies,
                         SubscribeReadsRow, SubscribeReadsSteps, CancelEach, McpAnswer, queueVars
        <3> QED BY <1>4, <3>1, <3>2
    <2>5. \A j \in Jobs : jobs[j].state = "dead" => jobs[j].fresh = FALSE
        BY DEF Stocked
    <2>6. CASE RequeueApplies(c)
        <3>1. \/ jobs' = jobs
              \/ jobs' = [j \in Jobs |-> IF j \in Seen(c) /\ jobs[j].state = "dead"
                                         THEN [jobs[j] EXCEPT !.state = "pending", !.tries = 0] ELSE jobs[j]]
            BY <2>6 DEF RequeueApplies
        <3> QED BY <1>1, <2>1, <2>3, <2>5, <3>1, StockedRows DEF Stocked
    <2>7. CASE purgeDead(c)
        <3>1. jobs' = [j \in Jobs |-> IF j \in Dead THEN [jobs[j] EXCEPT !.state = "done"] ELSE jobs[j]]
            BY <2>7 DEF purgeDead
        <3>2. \A j \in Dead : jobs[j].state = "dead"
            BY DEF Dead
        <3> QED BY <2>1, <2>3, <2>5, <3>1, <3>2, StockedRows DEF Stocked
    <2> QED BY <1>1, <2>1, <2>3, <2>4, <2>6, <2>7
<1>5. ASSUME NEW p \in Producers, Begin(p) \/ Progress(p)
      PROVE  scenario' = scenario /\ (Admit(p) \/ Push(p))
    <2>1. Admit(p) \/ Push(p)
        BY <1>5, KindsApart DEF Begin, Progress
    <2> QED BY <2>1 DEF Admit, Push, appVars
<1> HIDE DEF Aside
<1>6. ASSUME NEW c \in Clients, Begin(c) \/ Progress(c)
      PROVE  scenario' = scenario /\ (Aside \/ \E p \in Producers : Admit(p) \/ Push(p))
    BY <1>4, <1>5, <1>6 DEF Aside
<1> QED BY <1>2, <1>3, <1>6 DEF Next, Aside


\* What maxPending counts is finite, and no more than the pending jobs.
LEMMA PendingCounted ==
    /\ IsFiniteSet(Pending) /\ Cardinality(Pending) \in Nat
    /\ pendingCount \in Nat /\ Cardinality(Pending) <= pendingCount
<1> DEFINE all == {j \in Jobs : jobs[j].state = "pending"}
<1>1. all \subseteq Jobs /\ Pending \subseteq all
    BY DEF Pending
<1>2. pendingCount = Cardinality(all)
    BY DEF pendingCount, Count
<1> HIDE DEF all
<1>3. IsFiniteSet(all)
    BY <1>1, AppAssumption, FS_Subset
<1> QED BY <1>1, <1>2, <1>3, FS_Subset, FS_CardinalityType

\* A step that leaves the producers alone.
LEMMA RoomyAside ==
    ASSUME Roomy, scenario' = scenario, DOMAIN pc' = Clients, Leaves(Producers),
           Stocked', Pending' \subseteq Pending
    PROVE  Roomy'
<1>1. Batches' = Batches
    BY DEF Batches
<1>2. DOMAIN Batches \subseteq Producers
    BY DEF Batches
<1>3. Admitted' = Admitted
    BY <1>1, <1>2 DEF Admitted, At, Leaves
<1>4. ASSUME NEW p \in Producers PROVE Whole(p)'
    BY DEF Roomy, Whole, At, Seen, Leaves
<1>5. Room'
    <2> SUFFICES ASSUME DOMAIN Batches # {}
                 PROVE  \E p \in DOMAIN Batches :
                          Cardinality(Pending') + Cardinality(Batched(Admitted))
                            <= MaxPending + Cardinality(Batched(DOMAIN Batches \ {p}))
        BY <1>1, <1>3 DEF Room, Batched
    <2>1. PICK p \in DOMAIN Batches :
             Cardinality(Pending) + Cardinality(Batched(Admitted))
               <= MaxPending + Cardinality(Batched(DOMAIN Batches \ {p}))
        BY DEF Roomy, Room
    <2>2. PICK n, m, b, r : /\ n = Cardinality(Pending) /\ m = Cardinality(Pending')
                            /\ b = Cardinality(Batched(Admitted))
                            /\ r = Cardinality(Batched(DOMAIN Batches \ {p}))
        OBVIOUS
    <2>3. n \in Nat /\ m \in Nat /\ m <= n
        BY <2>2, PendingCounted, FS_Subset, FS_CardinalityType
    <2>4. b \in Nat /\ r \in Nat /\ MaxPending \in Nat
        BY <2>2, BatchedFinite, AppAssumption DEF Admitted
    <2>5. n + b <= MaxPending + r
        BY <2>1, <2>2
    <2>6. m + b <= MaxPending + r
        BY <2>3, <2>4, <2>5
    <2> QED BY <2>2, <2>6
<1> QED BY <1>4, <1>5 DEF Roomy

\* What a producer's batch is, while it is to be pushed.
LEMMA BatchIs ==
    ASSUME Roomy, NEW p \in Producers, p \in scenario.clients, At(p) \in {"idle", "admitted"}
    PROVE  p \in DOMAIN Batches /\ Batch(p) = Batches[p] /\ Batch(p) \in Nat
<1>1. Whole(p)
    BY DEF Roomy
<1> QED BY <1>1, AppAssumption DEF Batch, Batches, Whole

\* The room that is left after a step.
LEMMA RoomAfter ==
    ASSUME scenario' = scenario, NEW w \in DOMAIN Batches, NEW S, Admitted' = S,
           Cardinality(Pending') + Cardinality(Batched(S))
             <= MaxPending + Cardinality(Batched(DOMAIN Batches \ {w}))
    PROVE  Room'
<1>1. Batches' = Batches
    BY DEF Batches
<1>2. Batched(Admitted)' = Batched(S)
    BY <1>1 DEF Batched
<1>3. Batched(DOMAIN Batches \ {w})' = Batched(DOMAIN Batches \ {w})
    BY <1>1 DEF Batched
<1>4. /\ w \in DOMAIN Batches'
      /\ Cardinality(Pending') + Cardinality(Batched(Admitted)')
           <= MaxPending + Cardinality(Batched(DOMAIN Batches \ {w})')
    BY <1>1, <1>2, <1>3
<1> QED BY <1>4 DEF Room

\* A producer is let in, or turned away.
LEMMA RoomyAdmit ==
    ASSUME Roomy, NEW p \in Producers, Admit(p)
    PROVE  Roomy'
<1>0. p \in Clients /\ Producers \subseteq Clients /\ DOMAIN pc = Clients
    BY DEF Clients, Roomy
<1>1. p \in scenario.clients /\ At(p) = "idle" /\ scenario' = scenario /\ jobs' = jobs
    BY DEF Admit, Ready, appVars, queueVars
<1>2. p \in DOMAIN Batches /\ Batch(p) = Batches[p] /\ Batch(p) \in Nat
    BY <1>1, BatchIs
<1>3. PICK at : /\ Goto(p, at, Seen(p)) /\ at \in {"admitted", "rejected"}
                /\ at = "admitted" => pendingCount + Batch(p) <= MaxPending
    BY DEF Admit
<1>4. /\ DOMAIN pc' = Clients /\ pc'[p] = [at |-> at, seen |-> Seen(p)]
      /\ \A d \in Clients : d # p => pc'[d] = pc[d]
    BY <1>0, <1>3, GotoFact
<1>5. At(p)' = at /\ Seen(p)' = Seen(p) /\ \A d \in Producers : d # p => At(d)' = At(d) /\ Seen(d)' = Seen(d)
    BY <1>0, <1>4 DEF At, Seen
<1>6. Stocked' /\ Pending' = Pending /\ Batches' = Batches
    BY <1>1 DEF Roomy, Stocked, Pending, Batches
<1>7. ASSUME NEW d \in Producers PROVE Whole(d)'
    <2>1. Whole(d)
        BY DEF Roomy
    <2> QED BY <1>1, <1>5, <2>1 DEF Whole
<1>8. Room'
    <2>0. DOMAIN Batches \subseteq Producers /\ p \notin Admitted /\ Admitted \subseteq DOMAIN Batches
        BY <1>1 DEF Admitted, Batches
    <2>1. CASE at = "rejected"
        <3>1. Admitted' = Admitted
            BY <1>5, <1>6, <2>0, <2>1 DEF Admitted
        <3> QED BY <1>6, <3>1 DEF Roomy, Room, Batched
    <2>2. CASE at = "admitted"
        <3>1. Admitted' = Admitted \cup {p}
            BY <1>2, <1>5, <1>6, <2>0, <2>2 DEF Admitted
        <3>2. PICK n, c, a, r, b : /\ n = Cardinality(Pending) /\ c = pendingCount
                                   /\ a = Cardinality(Batched(Admitted)) /\ b = Batches[p]
                                   /\ r = Cardinality(Batched(DOMAIN Batches \ {p}))
            OBVIOUS
        <3>3. n \in Nat /\ c \in Nat /\ n <= c
            BY <3>2, PendingCounted
        <3>4. a \in Nat /\ r \in Nat /\ MaxPending \in Nat
            BY <2>0, <3>2, BatchedFinite, AppAssumption
        <3>5. Admitted \subseteq DOMAIN Batches \ {p} /\ DOMAIN Batches \ {p} \subseteq DOMAIN Batches
            BY <2>0
        <3>6. a <= r
            BY <3>2, <3>5, BatchedMonotone
        <3>7. b \in Nat /\ c + b <= MaxPending
            BY <1>2, <1>3, <2>2, <3>2
        <3>8. Cardinality(Batched(Admitted \cup {p})) = a + b
            BY <1>2, <2>0, <3>2, BatchedAdds
        <3>9. n + (a + b) <= MaxPending + r
            BY <3>3, <3>4, <3>6, <3>7
        <3>10. Cardinality(Pending) + Cardinality(Batched(Admitted \cup {p}))
                 <= MaxPending + Cardinality(Batched(DOMAIN Batches \ {p}))
            BY <3>2, <3>8, <3>9
        <3> QED BY <1>1, <1>2, <1>6, <3>1, <3>10, RoomAfter
    <2> QED BY <1>3, <2>1, <2>2
<1> QED BY <1>4, <1>6, <1>7, <1>8 DEF Roomy

\* A push adds no more than its batch to what maxPending counts.
LEMMA PushAdds ==
    ASSUME Roomy, NEW p \in Producers, Push(p)
    PROVE  /\ Stocked'
           /\ \/ Pending' = Pending
              \/ Cardinality(Pending') <= Cardinality(Pending) + Batch(p)
<1> DEFINE free == {j \in Jobs : jobs[j].state = "none"}
           least == {j \in free : Cardinality({k \in free : k < j}) < Batch(p)}
<1>0. Batch(p) \in Nat
    BY BatchIs DEF Push, Ready
<1>1. \/ jobs' = jobs
      \/ jobs' = [j \in Jobs |-> IF j \in free /\ Cardinality({k \in free : k < j}) < Batch(p)
                                 THEN [jobs[j] EXCEPT !.state = "pending"] ELSE jobs[j]]
    BY DEF Push
<1>2. \A j \in Jobs : (j \in free /\ Cardinality({k \in free : k < j}) < Batch(p)) <=> j \in least
    OBVIOUS
<1>3. IsFiniteSet(least) /\ Cardinality(least) <= Batch(p)
    <2>1. free \subseteq Jobs
        OBVIOUS
    <2>2. free \in SUBSET Nat /\ IsFiniteSet(free)
        BY <2>1, AppAssumption, FS_Subset
    <2> HIDE DEF free
    <2> QED BY <1>0, <2>2, LeastFew
<1>4. \/ jobs' = jobs
      \/ jobs' = [j \in Jobs |-> IF j \in least THEN [jobs[j] EXCEPT !.state = "pending"] ELSE jobs[j]]
    <2> HIDE DEF free, least
    <2> QED BY <1>1, <1>2
<1> HIDE DEF free, least
<1>5. CASE jobs' = jobs
    BY <1>5 DEF Roomy, Stocked, Pending
<1>6. CASE jobs' = [j \in Jobs |-> IF j \in least THEN [jobs[j] EXCEPT !.state = "pending"] ELSE jobs[j]]
    <2>1. Stocked
        BY DEF Roomy
    <2>2. Stocked'
        BY <1>6, <2>1 DEF Stocked
    <2>3. \A j \in Jobs : j \notin least => jobs'[j] = jobs[j]
        BY <1>6
    <2>4. Pending' \subseteq Pending \cup least
        BY <2>3 DEF Pending
    <2>5. IsFiniteSet(Pending) /\ Cardinality(Pending) \in Nat
        BY PendingCounted
    <2>6. /\ IsFiniteSet(Pending \cup least)
          /\ Cardinality(Pending \cup least)
               = Cardinality(Pending) + Cardinality(least) - Cardinality(Pending \cap least)
        BY <1>3, <2>5, FS_Union
    <2>7. Cardinality(Pending \cap least) \in Nat /\ Cardinality(least) \in Nat
        BY <1>3, <2>5, FS_Intersection, FS_CardinalityType
    <2>8. IsFiniteSet(Pending') /\ Cardinality(Pending') <= Cardinality(Pending \cup least)
        BY <2>4, <2>6, FS_Subset
    <2>9. Cardinality(Pending') \in Nat
        BY <2>8, FS_CardinalityType
    <2> QED BY <1>0, <1>3, <2>2, <2>5, <2>6, <2>7, <2>8, <2>9
<1> QED BY <1>4, <1>5, <1>6

\* A producer that was let in pushes, or is turned away after all.
LEMMA RoomyPush ==
    ASSUME Roomy, NEW p \in Producers, Push(p)
    PROVE  Roomy'
<1>0. p \in Clients /\ Producers \subseteq Clients /\ DOMAIN pc = Clients
    BY DEF Clients, Roomy
<1>1. p \in scenario.clients /\ At(p) = "admitted" /\ scenario' = scenario
    BY DEF Push, Ready, appVars
<1>2. p \in DOMAIN Batches /\ Batch(p) = Batches[p] /\ Batch(p) \in Nat
    BY <1>1, BatchIs
<1>3. PICK at, seen : /\ Goto(p, at, seen) /\ at \in {"rejected", "done", "idle"}
                      /\ at = "idle" => p \in Keyed
    <2>1. \/ Goto(p, "rejected", Seen(p))
          \/ Goto(p, IF Seen(p) - Batch(p) = 0 THEN "done" ELSE "idle", Seen(p) - Batch(p))
        BY DEF Push
    <2>2. p \notin Keyed => Seen(p) - Batch(p) = 0
        <3>1. p \notin Keyed => Seen(p) = Items[p] /\ Batch(p) = Items[p]
            BY <1>1 DEF Roomy, Whole, Batch
        <3>2. Items[p] \in Nat
            BY AppAssumption
        <3> QED BY <3>1, <3>2
    <2> QED BY <2>1, <2>2
<1>4. /\ DOMAIN pc' = Clients /\ pc'[p] = [at |-> at, seen |-> seen]
      /\ \A d \in Clients : d # p => pc'[d] = pc[d]
    BY <1>0, <1>3, GotoFact
<1>5. At(p)' = at /\ \A d \in Producers : d # p => At(d)' = At(d) /\ Seen(d)' = Seen(d)
    BY <1>0, <1>4 DEF At, Seen
<1>6. Batches' = Batches
    BY <1>1 DEF Batches
<1>7. ASSUME NEW d \in Producers PROVE Whole(d)'
    <2>1. Whole(d)
        BY DEF Roomy
    <2> QED BY <1>3, <1>5, <2>1 DEF Whole
<1>8. Room'
    <2>0. DOMAIN Batches \subseteq Producers /\ p \in Admitted /\ Admitted \subseteq DOMAIN Batches
        BY <1>1, <1>2 DEF Admitted, Batches
    <2>1. PICK rest : rest = Admitted \ {p}
        OBVIOUS
    <2>2. Admitted' = rest
        BY <1>3, <1>5, <1>6, <2>0, <2>1 DEF Admitted
    <2>3. PICK w \in DOMAIN Batches :
             Cardinality(Pending) + Cardinality(Batched(Admitted))
               <= MaxPending + Cardinality(Batched(DOMAIN Batches \ {w}))
        BY <1>2 DEF Roomy, Room
    <2>4. PICK n, m, a, r, b : /\ n = Cardinality(Pending) /\ m = Cardinality(Pending')
                               /\ a = Cardinality(Batched(rest)) /\ b = Batches[p]
                               /\ r = Cardinality(Batched(DOMAIN Batches \ {w}))
        OBVIOUS
    <2>5. rest \subseteq DOMAIN Batches /\ p \notin rest /\ Admitted = rest \cup {p}
        BY <2>0, <2>1
    <2>6. a \in Nat /\ r \in Nat /\ MaxPending \in Nat
        BY <2>4, <2>5, BatchedFinite, AppAssumption
    <2>7. Cardinality(Batched(Admitted)) = a + b
        BY <1>2, <2>4, <2>5, BatchedAdds
    <2>8. n \in Nat /\ b \in Nat
        BY <1>2, <2>4, PendingCounted
    <2>9. m \in Nat
        <3>1. Pending' \subseteq Jobs
            BY DEF Pending
        <3> QED BY <2>4, <3>1, AppAssumption, FS_Subset, FS_CardinalityType
    <2>10. m <= n + b
        BY <1>2, <2>4, <2>8, PushAdds
    <2>11. n + (a + b) <= MaxPending + r
        BY <2>3, <2>4, <2>7
    <2>12. m + a <= MaxPending + r
        BY <2>6, <2>8, <2>9, <2>10, <2>11
    <2>13. Cardinality(Pending') + Cardinality(Batched(rest))
             <= MaxPending + Cardinality(Batched(DOMAIN Batches \ {w}))
        BY <2>4, <2>12
    <2> QED BY <1>1, <2>2, <2>13, RoomAfter
<1>9. Stocked'
    BY PushAdds
<1> QED BY <1>4, <1>7, <1>8, <1>9 DEF Roomy

\* However many producers push at the same time, to queues with and without keys, and
\* whatever is claimed, retried, swept or requeued between the count and the insert: the
\* jobs that wait for a first attempt pass maxPending by no more than the batches of all
\* producers but one, so a lone producer never passes it.
THEOREM PendingStaysBounded == Spec => []PendingBounded
<1>1. Init => Roomy
    <2> SUFFICES ASSUME Init PROVE Roomy
        OBVIOUS
    <2>1. DOMAIN pc = Clients /\ Producers \subseteq Clients
        BY DEF Init, Clients
    <2>2. Stocked /\ Pending = {}
        BY DEF Init, Stocked, Pending
    <2>3. \A p \in Producers : At(p) = "idle" /\ Seen(p) = Items[p]
        BY <2>1 DEF Init, At, Seen
    <2>4. Admitted = {}
        BY <2>3 DEF Admitted, Batches
    <2>5. Batched({}) = {}
        BY DEF Batched
    <2>6. Room
        <3> SUFFICES ASSUME NEW p \in DOMAIN Batches
                     PROVE  Cardinality(Pending) + Cardinality(Batched(Admitted))
                              <= MaxPending + Cardinality(Batched(DOMAIN Batches \ {p}))
            BY DEF Room
        <3>1. Cardinality(Pending) = 0 /\ Cardinality(Batched(Admitted)) = 0
            BY <2>2, <2>4, <2>5, FS_EmptySet
        <3>2. Cardinality(Batched(DOMAIN Batches \ {p})) \in Nat /\ MaxPending \in Nat
            BY BatchedFinite, AppAssumption
        <3> QED BY <3>1, <3>2
    <2> QED BY <2>1, <2>2, <2>3, <2>6 DEF Roomy, Whole
<1>2. Roomy /\ [Next]_vars => Roomy'
    <2> SUFFICES ASSUME Roomy, [Next]_vars PROVE Roomy'
        OBVIOUS
    <2>1. DOMAIN pc = Clients /\ Stocked
        BY DEF Roomy
    <2> QED BY <2>1, ProducerCases, RoomyAside, RoomyAdmit, RoomyPush
<1>3. Roomy => PendingBounded
    <2> SUFFICES ASSUME Roomy, DOMAIN Batches # {} PROVE PendingBounded
        BY DEF PendingBounded
    <2>1. PICK p \in DOMAIN Batches :
             Cardinality(Pending) + Cardinality(Batched(Admitted))
               <= MaxPending + Cardinality(Batched(DOMAIN Batches \ {p}))
        BY DEF Roomy, Room
    <2>2. Cardinality(Pending) \in Nat
        BY PendingCounted
    <2>3. /\ Cardinality(Batched(Admitted)) \in Nat /\ MaxPending \in Nat
          /\ Cardinality(Batched(DOMAIN Batches \ {p})) \in Nat
        BY BatchedFinite, AppAssumption DEF Admitted
    <2>4. Cardinality(Pending) <= MaxPending + Cardinality(Batched(DOMAIN Batches \ {p}))
        BY <2>1, <2>2, <2>3
    <2> QED BY <2>4 DEF PendingBounded
<1> QED BY <1>1, <1>2, <1>3, PTL DEF Spec

=============================================================================
