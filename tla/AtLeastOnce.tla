----------------------------- MODULE AtLeastOnce -----------------------------
(***************************************************************************)
(* What a ZenZip queue promises about the jobs it accepted: a job is owed  *)
(* until a handler finished it without an error and the queue acknowledged *)
(* it, until it is dead-lettered, or until a producer or an operator       *)
(* dropped it.  It may be handled any number of times, late calls by       *)
(* processes that lost their lease included; it is never acknowledged      *)
(* unhandled, and a job that is done or dropped never comes back.          *)
(***************************************************************************)
CONSTANT Jobs

VARIABLES
    outcome,  \* what became of each job: absent, owed, dead, done or dropped
    handled   \* jobs some handler call finished without an error

vars == <<outcome, handled>>

Settled == {"done", "dropped"}

\* The jobs S, all with an outcome in From, get the outcome to.
Move(S, From, to) ==
    /\ \A j \in S : outcome[j] \in From
    /\ outcome' = [j \in Jobs |-> IF j \in S THEN to ELSE outcome[j]]
    /\ UNCHANGED handled

\* A push is accepted; a debounced push drops the jobs it supersedes.
Accept(j, superseded) ==
    /\ outcome[j] = "absent"
    /\ \A k \in superseded : outcome[k] = "owed"
    /\ outcome' = [k \in Jobs |-> IF k = j THEN "owed"
                                  ELSE IF k \in superseded THEN "dropped"
                                  ELSE outcome[k]]
    /\ UNCHANGED handled

\* A handler call finishes accepted jobs, for the first time or once more.
Handle(S) ==
    /\ \A j \in S : outcome[j] # "absent"
    /\ handled' = handled \cup S
    /\ UNCHANGED outcome

Acknowledge(j) == j \in handled /\ Move({j}, {"owed", "dead"}, "done")

\* The budget of some jobs is used up.
GiveUp(S) == Move(S, {"owed"}, "dead")

\* An operator puts dead jobs back, or drops them.
Requeue(S) == Move(S, {"dead"}, "owed")
Drop(S) == Move(S, {"dead"}, "dropped")

Init ==
    /\ outcome = [j \in Jobs |-> "absent"]
    /\ handled = {}

Next ==
    \/ \E j \in Jobs, S \in SUBSET Jobs : Accept(j, S)
    \/ \E S \in SUBSET Jobs : Handle(S) \/ GiveUp(S) \/ Requeue(S) \/ Drop(S)
    \/ \E j \in Jobs : Acknowledge(j)

Spec == Init /\ [][Next]_vars
=============================================================================
