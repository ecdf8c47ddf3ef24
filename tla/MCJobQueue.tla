----------------------------- MODULE MCJobQueue -----------------------------
(* Model-checking instances of JobQueue: the kinds of jobs producers push. *)
EXTENDS JobQueue, TLC

CONSTANTS k1, k2

Plain == [priority |-> 0, delay |-> 0, max |-> 2, ckey |-> NoKey,
          dkey |-> NoKey, tkey |-> NoKey, spacing |-> 0]
Once == [Plain EXCEPT !.max = 1]

\* A plain job with two attempts.
PlainOpts == {Plain}
\* Two tenants, one with debounced pushes, the other throttled.
ShapedOpts ==
    {[Once EXCEPT !.ckey = k1, !.dkey = k1, !.delay = 1],
     [Once EXCEPT !.ckey = k2, !.tkey = k1, !.spacing = 1]}

\* Bound: claims of one job.
ClaimsBound == \A j \in Ids : fence[j] <= 3

\* Bound: the first claim of each job, and what becomes of it.
FirstClaims == \A j \in Ids : fence[j] <= 1

\* What the next steps and the properties of a run without requeues depend on:
\* of a job that has ended, only that it has.
Ended(j) == status[j] \notin {"pending", "running"}
Seen ==
    <<nextId, [j \in Ids |-> IF Ended(j) THEN <<status[j], fence[j]>> ELSE
                 <<status[j], fence[j], opts[j], attempt[j], lease[j], avail[j],
                   {k \in unseen[j] : ~Ended(k)}>>],
      cursor, [p \in Producers |-> <<[pushing[p] EXCEPT !.beside = {}], {k \in pushing[p].beside : ~Ended(k)}>>],
      inflight, node, paused, sweeping>>

NodeSymmetry == Permutations(Nodes)
ProducerSymmetry == Permutations(Producers)
=============================================================================
