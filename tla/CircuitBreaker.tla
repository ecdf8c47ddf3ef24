--------------------------- MODULE CircuitBreaker ---------------------------
(***************************************************************************)
(* The in-memory circuit breaker and bulkhead around an external           *)
(* dependency.  JavaScript runs to completion between two awaits, so the   *)
(* code of run() up to `await fn()` is one action and the code after it    *)
(* another; calls overlap across the await.  `cool` is the time left until *)
(* an open circuit may probe.                                              *)
(***************************************************************************)
EXTENDS Integers, FiniteSets

CONSTANTS
    Calls,          \* callers, each with one call at a time
    Threshold,      \* failureThreshold
    ResetTimeout,   \* resetTimeout
    HalfOpenMax,    \* halfOpenMax
    MaxConcurrent,  \* maxConcurrent
    MaxOutages      \* bound: outages of the dependency

ASSUME OptionsAssumption ==
    /\ IsFiniteSet(Calls)
    /\ Threshold \in Nat \ {0}
    /\ ResetTimeout \in Nat \ {0}
    /\ HalfOpenMax \in Nat \ {0}
    /\ MaxConcurrent \in Nat \ {0}
    /\ MaxOutages \in Nat

VARIABLES
    state,             \* #state
    failures,          \* #failures, counted up to the threshold
    cool,              \* #openedAt + #resetMs - now, not below 0
    halfOpenInFlight,  \* #halfOpenInFlight
    inFlight,          \* #inFlight
    call,              \* the local `state` of each call, "idle" if there is none
    probes,            \* history: probes of this half-open period in flight
    healthy,           \* whether the dependency works
    outages            \* outages so far (bound)

breaker == <<state, failures, cool, halfOpenInFlight, inFlight>>
vars == <<state, failures, cool, halfOpenInFlight, inFlight, call, probes,
          healthy, outages>>

States == {"closed", "open", "half-open"}

-----------------------------------------------------------------------------
\* The getter `state`: an open circuit whose cooldown is over turns half-open.
Elapsed == state = "open" /\ cool = 0
View == IF Elapsed THEN "half-open" ELSE state

\* #halfOpenInFlight and its probes once the getter has run.
ProbeCount == IF Elapsed THEN 0 ELSE halfOpenInFlight
Probing == IF Elapsed THEN {} ELSE probes

\* The call gets past the fail-fast checks of the circuit.
Admitted ==
    \/ View = "closed"
    \/ View = "half-open" /\ ProbeCount < HalfOpenMax

\* Reading `state`, by an observer or by a call that is then refused.
Observe ==
    /\ Elapsed
    /\ state' = View
    /\ halfOpenInFlight' = ProbeCount
    /\ probes' = Probing
    /\ UNCHANGED <<failures, cool, inFlight, call, healthy, outages>>

\* run(), up to the await.
Run(c) ==
    /\ call[c] = "idle"
    /\ Admitted
    /\ inFlight < MaxConcurrent
    /\ state' = View
    /\ inFlight' = inFlight + 1
    /\ halfOpenInFlight' = IF View = "half-open" THEN ProbeCount + 1 ELSE ProbeCount
    /\ probes' = IF View = "half-open" THEN Probing \cup {c} ELSE Probing
    /\ call' = [call EXCEPT ![c] = View]
    /\ UNCHANGED <<failures, cool, healthy, outages>>

\* Mutant: the slot of a probe the bulkhead refuses is not given back.
BulkheadKeepsSlot ==
    /\ Admitted
    /\ inFlight >= MaxConcurrent
    /\ state' = View
    /\ halfOpenInFlight' = IF View = "half-open" THEN ProbeCount + 1 ELSE ProbeCount
    /\ probes' = Probing
    /\ UNCHANGED <<failures, cool, inFlight, call, healthy, outages>>

\* run() of a call the bulkhead refuses: the slot of a probe is given back.
BulkheadFull ==
    /\ Admitted
    /\ inFlight >= MaxConcurrent
    /\ state' = View
    /\ halfOpenInFlight' = ProbeCount
    /\ probes' = Probing
    /\ UNCHANGED <<failures, cool, inFlight, call, healthy, outages>>

\* The `finally` of run().
Leave(c) ==
    /\ inFlight' = inFlight - 1
    /\ halfOpenInFlight' = IF call[c] = "half-open" THEN halfOpenInFlight - 1
                                                    ELSE halfOpenInFlight
    /\ probes' = probes \ {c}
    /\ call' = [call EXCEPT ![c] = "idle"]

\* Mutant: the tally is reset but a half-open circuit is not closed.
SuccessResetsTally(c) ==
    /\ call[c] # "idle"
    /\ failures' = 0
    /\ Leave(c)
    /\ UNCHANGED <<state, cool, healthy, outages>>

\* onSuccess: also for an error that does not count as a failure.
Success(c) ==
    /\ call[c] # "idle"
    /\ state' = "closed"
    /\ failures' = 0
    /\ Leave(c)
    /\ UNCHANGED <<cool, healthy, outages>>

Trips ==
    \/ state = "half-open"
    \/ state = "closed" /\ failures + 1 >= Threshold

\* onFailure.  A count beyond the threshold makes no difference.
Failure(c) ==
    /\ ~healthy
    /\ call[c] # "idle"
    /\ failures' = IF state = "half-open" \/ failures = Threshold
                   THEN failures ELSE failures + 1
    /\ state' = IF Trips THEN "open" ELSE state
    /\ cool' = IF Trips THEN ResetTimeout ELSE cool
    /\ Leave(c)
    /\ UNCHANGED <<healthy, outages>>

-----------------------------------------------------------------------------
(* The dependency and the clock *)

Outage ==
    /\ healthy
    /\ outages < MaxOutages
    /\ healthy' = FALSE
    /\ outages' = outages + 1
    /\ UNCHANGED <<breaker, call, probes>>

Heal ==
    /\ ~healthy
    /\ healthy' = TRUE
    /\ UNCHANGED <<breaker, call, probes, outages>>

Tick ==
    /\ cool > 0
    /\ cool' = cool - 1
    /\ UNCHANGED <<state, failures, halfOpenInFlight, inFlight, call, probes,
                   healthy, outages>>

Init ==
    /\ state = "closed"
    /\ failures = 0
    /\ cool = 0
    /\ halfOpenInFlight = 0
    /\ inFlight = 0
    /\ call = [c \in Calls |-> "idle"]
    /\ probes = {}
    /\ healthy = TRUE
    /\ outages = 0

Next ==
    \/ Observe
    \/ \E c \in Calls : Run(c)
    \/ BulkheadFull
    \/ \E c \in Calls : Success(c)
    \/ \E c \in Calls : Failure(c)
    \/ Outage
    \/ Heal
    \/ Tick

Spec == Init /\ [][Next]_vars

\* The application keeps calling, calls return and time passes.
Fairness ==
    /\ WF_vars(\E c \in Calls : Run(c))
    /\ \A c \in Calls : WF_vars(Success(c) \/ Failure(c))
    /\ WF_vars(Tick)

FairSpec == Spec /\ Fairness

-----------------------------------------------------------------------------
(* Properties *)

\* Type correctness; #halfOpenInFlight may be negative outside half-open.
TypeOK ==
    /\ state \in States
    /\ failures \in 0..Threshold
    /\ cool \in 0..ResetTimeout
    /\ halfOpenInFlight \in Int
    /\ inFlight \in 0..MaxConcurrent
    /\ call \in [Calls -> {"idle", "closed", "half-open"}]
    /\ probes \subseteq Calls
    /\ healthy \in BOOLEAN
    /\ outages \in 0..MaxOutages

\* "Probe calls allowed while half-open": the counter is exactly the number of
\* probes of this half-open period that are in flight and stays within
\* halfOpenMax, whatever calls of earlier periods return late.
ProbesBounded ==
    state = "half-open" =>
        /\ halfOpenInFlight = Cardinality(probes)
        /\ Cardinality(probes) <= HalfOpenMax

\* Once the dependency stays healthy and is still called, the circuit closes
\* for good.
Recovers == <>[]healthy => <>[](state = "closed")

=============================================================================
