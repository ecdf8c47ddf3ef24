----------------------------- MODULE MCWorkflow -----------------------------
(* Model-checking instances of Workflow: the workflows an application has. *)
EXTENDS Workflow, SequencesExt

Body == [kind |-> "run"]
Sleep == [kind |-> "sleep", time |-> 1]
Wait(match, timeout) ==
    [kind |-> "event", name |-> "paid", match |-> match, timeout |-> timeout]
Invoke(w) == [kind |-> "invoke", child |-> w]

\* Programs of a set of workflows that nothing but a trigger starts.
NoEvents(P) == [w \in DOMAIN P |-> {}]

\* charge, sleep, ship
OrderProgram == [order |-> <<Body, Sleep, Body>>]
\* a single journaled step
StepProgram == [order |-> <<Body>>]
\* a wait with a timeout, and a workflow the event triggers
EventProgram == [order |-> <<Wait("m1", 1), Body>>, audit |-> <<>>]
EventOn == [order |-> {}, audit |-> {"paid"}]
\* a parent and its child
FamilyProgram == [order |-> <<Invoke("ship")>>, ship |-> <<Body>>]
\* three generations, of which the youngest waits for an event
WaitProgram == [order |-> <<Invoke("ship")>>, ship |-> <<Invoke("label")>>,
                label |-> <<Wait("m1", 1)>>]
\* every kind of step, and a workflow that an event triggers and whose child
\* is not registered
EveryProgram == [order |-> <<Body, Invoke("ship")>>, ship |-> <<Sleep, Wait("m1", 1)>>,
                 audit |-> <<Invoke("gone")>>]
EveryOn == [order |-> {}, ship |-> {}, audit |-> {"paid"}]

OrderOn == NoEvents(OrderProgram)
StepOn == NoEvents(StepProgram)
FamilyOn == NoEvents(FamilyProgram)
WaitOn == NoEvents(WaitProgram)

\* The loop of cancel_run_tree: a run is popped from the frontier and cancelled
\* if it is live, and then its children are pushed.
RECURSIVE FrontierLoop(_, _, _, _)
FrontierLoop(parent, live, frontier, cancelled) ==
    IF frontier = <<>> THEN cancelled
    ELSE LET id == Last(frontier)
             children == SetToSeq({c \in DOMAIN parent : parent[c] = id})
         IN  IF id \in live \ cancelled
             THEN FrontierLoop(parent, live, Front(frontier) \o children,
                               cancelled \cup {id})
             ELSE FrontierLoop(parent, live, Front(frontier), cancelled)

\* Walked is what the loop computes, for every forest of four runs, every set of
\* live runs among them and every root.
ASSUME WalkIsLoop ==
    \A parent \in {f \in [1..4 -> 0..3] : \A r \in 1..4 : f[r] < r} :
        \A live \in SUBSET (1..4), root \in 1..4 :
            FrontierLoop(parent, live, <<root>>, {}) = Walked(parent, live, root)

\* Bound: the trigger calls race before the first attempt.  A call that comes or
\* inserts later finds the run of its key, and only reads it.
RaceFirst ==
    (\E p \in Procs : exec[p].pc # "idle")
        => calls.trigger = MaxTriggers /\ \A p \in Procs : asking[p] = NoAsk

ProcSymmetry == Permutations(Procs)
=============================================================================
