--------------------------- MODULE MCStateMachine ---------------------------
(* Model-checking instances of StateMachine. *)
EXTENDS StateMachine, TLC

\* An order that advances from open to paid to shipped and may be reopened: one
\* event that several states accept, so that a send can lose more than once.
OrderTransitions ==
    (<<"open", "advance">> :> "paid") @@ (<<"paid", "advance">> :> "shipped")
        @@ (<<"paid", "reopen">> :> "open")

\* All callers in one process, or each in its own.
OneProcess == [p \in Procs |-> "host"]
OwnProcess == [p \in Procs |-> p]

ProcSymmetry == Permutations(Procs)
=============================================================================
