---------------------------- MODULE MCScheduler ----------------------------
(* Model-checking instances of Scheduler: the schedules of an application. *)
EXTENDS Scheduler, TLC

Def(kind, interval, overlap, catchup, nodes) ==
    [kind |-> kind, interval |-> interval, overlap |-> overlap,
     catchup |-> catchup, nodes |-> nodes]

\* Two processes share a schedule, or one has it for itself.
MixedDefs ==
    {Def("every", 1, "allow", "all", Nodes), Def("cron", 2, "skip", "runOnce", Nodes)}
        \cup {Def("every", 1, overlap, "skip", {n}) : overlap \in {"skip", "queue"}, n \in Nodes}
        \cup {Def("every", 1, "skip", "all", {n}) : n \in Nodes}
\* Two processes and one policy.
SkipDefs == {Def("every", 1, "skip", "runOnce", Nodes)}
AllowDefs == {Def("every", 2, "allow", "runOnce", Nodes)}
=============================================================================
