------------------------ MODULE CircuitBreakerProofs ------------------------
(***************************************************************************)
(* Theorems about CircuitBreaker, for every set of callers and every       *)
(* choice of its options.                                                  *)
(***************************************************************************)
EXTENDS CircuitBreaker, FiniteSetTheorems, TLAPS

\* The calls between their entry and their `finally`.
Busy == {c \in Calls : call[c] # "idle"}

\* The bulkhead's counter is the number of calls in flight; a probe of this
\* period is a call that entered half-open; while the circuit is half-open,
\* #halfOpenInFlight is the number of its probes (else it counts nothing).
\* Without the second part a caller could be counted as two probes.
Exact ==
    /\ TypeOK
    /\ inFlight = Cardinality(Busy)
    /\ probes \subseteq {c \in Calls : call[c] = "half-open"}
    /\ ProbesBounded

\* Every set of callers is finite and has a cardinality.
LEMMA CallersFinite ==
    ASSUME NEW S \in SUBSET Calls
    PROVE  IsFiniteSet(S) /\ Cardinality(S) \in Nat
BY OptionsAssumption, FS_Subset, FS_CardinalityType

\* The getter keeps the probe counter exact: a circuit that turns half-open
\* starts with no probe.
LEMMA GetterExact ==
    ASSUME Exact
    PROVE  /\ View \in States
           /\ Probing \in SUBSET Calls
           /\ Probing \subseteq probes
           /\ ProbeCount \in Int
           /\ View = "half-open" => ProbeCount = Cardinality(Probing) /\ ProbeCount <= HalfOpenMax
<1> USE DEF Exact, TypeOK, States, View, Probing, ProbeCount, Elapsed
<1>1. CASE Elapsed
    BY <1>1, OptionsAssumption, FS_EmptySet
<1>2. CASE ~Elapsed
    BY <1>2 DEF ProbesBounded
<1> QED BY <1>1, <1>2

\* run() up to the await: the caller was idle, so it is one more call in
\* flight and, half-open, one more probe.
LEMMA RunExact ==
    ASSUME Exact, NEW c \in Calls, Run(c) PROVE Exact'
<1> USE GetterExact DEF Exact, Run
<1>1. Busy' = Busy \cup {c} /\ c \notin Busy
    BY DEF Busy, TypeOK, View, States, Admitted, Elapsed
<1>2. Cardinality(Busy') = Cardinality(Busy) + 1
    BY <1>1, CallersFinite, FS_AddElement DEF Busy
<1>3. c \notin Probing
    OBVIOUS
<1>4. call' \in [Calls -> {"idle", "closed", "half-open"}]
    BY DEF TypeOK, Admitted
<1>5. TypeOK'
    BY <1>2, <1>4, OptionsAssumption DEF TypeOK
<1>6. inFlight' = Cardinality(Busy')
    BY <1>2 DEF TypeOK
<1>7. probes' \subseteq {d \in Calls : call'[d] = "half-open"}
    BY <1>3 DEF TypeOK
<1>8. ProbesBounded'
    <2>1. View = "half-open" => Cardinality(Probing \cup {c}) = Cardinality(Probing) + 1
        BY <1>3, CallersFinite, FS_AddElement
    <2>2. View = "half-open" => Cardinality(Probing) < HalfOpenMax
        BY DEF Admitted
    <2>3. Cardinality(Probing) \in Nat
        BY CallersFinite
    <2> QED BY <2>1, <2>2, <2>3, OptionsAssumption DEF ProbesBounded
<1> QED BY <1>5, <1>6, <1>7, <1>8

\* The `finally`: one call less in flight.  The state after it is not
\* half-open, so the half-open counter is next read after a reset.
LEMMA LeaveExact ==
    ASSUME Exact, NEW c \in Calls, Leave(c), call[c] # "idle",
           state' \in {"closed", "open"}, failures' \in 0..Threshold,
           cool' \in 0..ResetTimeout, UNCHANGED <<healthy, outages>>
    PROVE  Exact'
<1> USE DEF Exact, Leave
<1>1. Busy' = Busy \ {c} /\ c \in Busy
    BY DEF Busy, TypeOK
<1>2. Cardinality(Busy') = Cardinality(Busy) - 1 /\ Cardinality(Busy') \in Nat
    BY <1>1, CallersFinite, FS_RemoveElement DEF Busy
<1>3. inFlight' = Cardinality(Busy') /\ inFlight' \in 0..MaxConcurrent
    BY <1>2, OptionsAssumption DEF TypeOK
<1>4. TypeOK'
    BY <1>3 DEF TypeOK, States
<1>5. probes' \subseteq {d \in Calls : call'[d] = "half-open"}
    BY DEF TypeOK
<1> QED BY <1>3, <1>4, <1>5 DEF ProbesBounded

\* A step that changes neither the calls nor the counters of the bulkhead, and
\* leaves the circuit as the getter leaves it.
LEMMA GetterStep ==
    ASSUME Exact, state' = View, halfOpenInFlight' = ProbeCount, probes' = Probing,
           UNCHANGED <<failures, cool, inFlight, call, healthy, outages>>
    PROVE  Exact'
<1>1. Busy' = Busy
    BY DEF Busy
<1> QED BY <1>1, GetterExact DEF Exact, TypeOK, ProbesBounded

\* Every step keeps the counters exact.
LEMMA ExactStep == Exact /\ [Next]_vars => Exact'
<1> SUFFICES ASSUME Exact, [Next]_vars PROVE Exact'
    OBVIOUS
<1>1. CASE Observe
    BY <1>1, GetterStep DEF Observe
<1>2. ASSUME NEW c \in Calls, Run(c) PROVE Exact'
    BY <1>2, RunExact
<1>3. CASE BulkheadFull
    BY <1>3, GetterStep DEF BulkheadFull
<1>4. ASSUME NEW c \in Calls, Success(c) PROVE Exact'
    BY <1>4, LeaveExact, OptionsAssumption DEF Success, Exact, TypeOK
<1>5. ASSUME NEW c \in Calls, Failure(c) PROVE Exact'
    <2>1. state' \in {"closed", "open"}
        BY <1>5 DEF Failure, Trips, Exact, TypeOK, States
    <2>2. failures' \in 0..Threshold /\ cool' \in 0..ResetTimeout
        BY <1>5, OptionsAssumption DEF Failure, Exact, TypeOK
    <2> QED BY <1>5, <2>1, <2>2, LeaveExact DEF Failure
<1>6. CASE Outage
    <2>1. outages' \in 0..MaxOutages
        BY <1>6, OptionsAssumption DEF Outage, Exact, TypeOK
    <2> QED BY <1>6, <2>1 DEF Outage, breaker, Exact, TypeOK, Busy, ProbesBounded
<1>7. CASE Heal
    BY <1>7 DEF Heal, breaker, Exact, TypeOK, Busy, ProbesBounded
<1>8. CASE Tick
    BY <1>8, OptionsAssumption DEF Tick, Exact, TypeOK, Busy, ProbesBounded
<1>9. CASE UNCHANGED vars
    BY <1>9 DEF vars, Exact, TypeOK, Busy, ProbesBounded
<1> QED BY <1>1, <1>2, <1>3, <1>4, <1>5, <1>6, <1>7, <1>8, <1>9 DEF Next

\* The breaker starts closed with nothing in flight.
LEMMA ExactInit == Init => Exact
<1> SUFFICES ASSUME Init PROVE Exact
    OBVIOUS
<1>1. Busy = {}
    BY DEF Init, Busy
<1> QED BY <1>1, OptionsAssumption, FS_EmptySet DEF Init, Exact, TypeOK, States, ProbesBounded

\* CircuitBreaker.run (resilience.ts): #inFlight is the number of calls in flight
\* in every reachable state, so the bulkhead admits maxConcurrent calls and no
\* more; while half-open, #halfOpenInFlight is the number of probes in flight.
THEOREM CountersExact == Spec => []Exact
BY ExactInit, ExactStep, PTL DEF Spec

\* CircuitBreaker.run: half-open, at most halfOpenMax probes are in flight,
\* for any number of callers and late calls of earlier periods.
THEOREM ProbesStayBounded == Spec => []ProbesBounded
<1>1. Exact => ProbesBounded
    BY DEF Exact
<1> QED BY <1>1, CountersExact, PTL
=============================================================================
