-------------------------- MODULE AgentLoopProofs --------------------------
(***************************************************************************)
(* Theorems about the agent loop, for every number of runs, script, set of *)
(* tools, option and number of faults: a gated tool runs only after an     *)
(* operator approved that very call (when the provider's ids are fresh), a *)
(* replay asks the model what the first attempt asked, a run of a session  *)
(* speaks of the run before it, and each request is one that each of the   *)
(* four providers can accept.                                              *)
(*                                                                         *)
(* The first invariant, Replayable, ties the local state of an attempt to  *)
(* the journal: where it stands, which calls are left, and how its         *)
(* messages came about.  A request is tied to the one before it, which was *)
(* sent in this or an earlier attempt, so that no recursion is needed.     *)
(* The second, Telling, is about the conversations wherever they are kept: *)
(* in the journal, in the attempt, in the requests and in the store.  Each *)
(* pairs its calls with their results, takes its calls from replies that   *)
(* are journaled, and speaks of the runs it owes.  What the adapters make  *)
(* of such a conversation follows from lemmas about FlattenSeq.            *)
(***************************************************************************)
EXTENDS AgentLoop, SequenceTheorems, FiniteSetTheorems, WellFoundedInduction, TLAPS

-----------------------------------------------------------------------------
(* Types *)

Fields == {"at", "out", "messages", "tokens", "calls", "results", "json", "i"}

\* The ids that the calls of iteration i may have.
IdsOf(i) == IF FreshIds THEN (Runs \X {i}) \X Nat ELSE STRING \X Nat
Call(i) == [id : IdsOf(i), name : STRING]
Iterations == 0 .. MaxIterations - 1
ResponseOf(i) == [calls : Seq(Call(i)), json : BOOLEAN, input : Nat, output : Nat]

Llm(i) == <<"llm", i>>
CallPcs == {"approval", "tool", "handoff"}
Prelude == {"session", "memory-recall", "memory-compress"}

\* A step id of an approval gate.
Gate(k) == k[2] \in Iterations /\ k[3] \in IdsOf(k[2]) /\ k = <<"approval", k[2], k[3]>>

\* An attempt with local state l stands at a step that its calls explain.
Located(l) ==
  /\ DOMAIN l = Fields /\ l.i \in Iterations /\ l.calls \in Seq(Call(l.i))
  /\ l.at[1] \in Prelude => l.i = 0 /\ l.at = <<l.at[1]>> /\ (HasMemory \/ l.at[1] = "session")
  /\ l.at[1] = "llm" => l.at = Llm(l.i)
  /\ l.at[1] \in CallPcs => l.calls # <<>> /\ l.at = <<l.at[1], l.i, Head(l.calls).id>>
  /\ l.out # None => l.at[1] \in Throwing
  /\ l.out # None /\ l.at[1] = "llm" => l.out \in ResponseOf(l.i)

\* A gated tool that is about to run is among the grants G.
Approved(l, G) ==
  FreshIds /\ l.at[1] = "tool" /\ Tools[Head(l.calls).name].requiresApproval =>
     <<"approval", l.i, Head(l.calls).id>> \in G

\* What a journal J holds.
Journaled(J, G) ==
  \A k \in DOMAIN J :
     /\ k[1] = "llm" => \E i \in Iterations : k = Llm(i) /\ J[k] \in ResponseOf(i)
     /\ k[1] = "approval" => Gate(k) /\ (FreshIds /\ J[k] = "approved" => k \in G)

\* What a suspended run waits on.
Suspended == {"waiting", "invoked", "released"}
Waits(r) ==
  status[r] \in Suspended =>
     waiting[r][1] \in {"approval", "handoff"} /\ (waiting[r][1] = "approval" => Gate(waiting[r]))

Gated(E, G) ==
  FreshIds => \A e \in E :
     Tools[e[2]].requiresApproval => <<"approval", e[1][2], e[1][3]>> \in G

-----------------------------------------------------------------------------
(* The requests S of run r, by its journal J *)

\* The first request.
FirstKey == IF HasMemory THEN <<"memory-compress">> ELSE <<"session">>
First(r, J) == IF HasMemory THEN J[FirstKey] ELSE Prompt(r, J[FirstKey], {})

\* The model's reply of iteration i is journaled and asks for tools, or not.
Asked(J, i) == Llm(i) \in DOMAIN J /\ toolUses(J[Llm(i)]) # <<>>
Ended(J, i) == Llm(i) \in DOMAIN J /\ toolUses(J[Llm(i)]) = <<>>
Earlier(J, i) == \A j \in 0 .. i - 1 : Asked(J, j)

Use(r, calls) == [role |-> "assistant", kind |-> "toolUse", of |-> {r}, calls |-> calls]
Reply(r, calls) == [role |-> "user", kind |-> "toolResult", of |-> {r}, calls |-> calls]
Given(call) == [id |-> call.id, name |-> NoName]
Results(calls) == [j \in 1 .. Len(calls) |-> Given(calls[j])]

\* The request of iteration i + 1 is m, when that of iteration i was q.
Extended(r, J, i, m, q) ==
  LET calls == toolUses(J[Llm(i)])
  IN q[1] = Llm(i) /\ m = Append(Append(q[2], Use(r, calls)), Reply(r, Results(calls)))
ModelRequest(r, J, S, i, m) ==
  /\ FirstKey \in DOMAIN J /\ Earlier(J, i)
  /\ i = 0 => m = First(r, J)
  /\ i > 0 => \E q \in S : Extended(r, J, i - 1, m, q)

\* The request m that asks for the output again, when the last one was q.
Repaired(r, m, i, q) ==
  q[1] = Llm(i) /\ m = q[2] \o <<Text("assistant", "text", {r}), Text("user", "text", {r})>>
FixRequest(r, J, S, m) ==
  \E i \in Iterations : Earlier(J, i) /\ Ended(J, i) /\ \E q \in S : Repaired(r, m, i, q)

\* The calls of an iteration that have been answered and those that are left.
Sorted(J, l) ==
  LET all == toolUses(J[Llm(l.i)])
  IN /\ l.results \in Seq([id : IdsOf(l.i), name : {NoName}])
     /\ Len(l.results) + Len(l.calls) = Len(all)
     /\ \A j \in 1 .. Len(l.results) : l.results[j] = Given(all[j])
     /\ \A j \in 1 .. Len(l.calls) : l.calls[j] = all[Len(l.results) + j]

\* The messages of an attempt that works off its calls.
Calling(r, J, S, l) ==
  /\ FirstKey \in DOMAIN J /\ Earlier(J, l.i) /\ Asked(J, l.i) /\ Sorted(J, l)
  /\ \E q \in S : q[1] = Llm(l.i) /\ l.messages = Append(q[2], Use(r, toolUses(J[Llm(l.i)])))

\* How the messages of an attempt came about.
Derived(r, J, S, l) ==
  /\ l.at[1] = "llm" => ModelRequest(r, J, S, l.i, l.messages)
  /\ l.at[1] = "llm" /\ l.out # None => <<l.at, l.messages>> \in S
  /\ l.at[1] \in CallPcs \cup {"dispatch"} => Calling(r, J, S, l)
  /\ l.at[1] = "output" => Earlier(J, l.i) /\ Ended(J, l.i) /\ <<Llm(l.i), l.messages>> \in S
  /\ l.at[1] = "llm-output-fix" => l.at = <<"llm-output-fix">> /\ FixRequest(r, J, S, l.messages)

\* A request that was sent is one that the journal explains.
Explained(r, J, S, q) ==
  \/ \E i \in Iterations : q = <<Llm(i), q[2]>> /\ ModelRequest(r, J, S, i, q[2])
  \/ q = <<<<"llm-output-fix">>, q[2]>> /\ FixRequest(r, J, S, q[2])

\* The requests that were sent, and the replies that were recorded.
Requests(r, J, S) ==
  /\ \A q \in S : Explained(r, J, S, q)
  /\ \A i \in Iterations : Llm(i) \in DOMAIN J => \E q \in S : q[1] = Llm(i)
  /\ \A one, other \in S : one[1] = other[1] => one = other

-----------------------------------------------------------------------------
Shape ==
  /\ DOMAIN status = Runs /\ DOMAIN journal = Runs /\ DOMAIN waiting = Runs
  /\ DOMAIN local = Runs /\ DOMAIN sent = Runs /\ DOMAIN executed = Runs
  /\ DOMAIN granted = Runs

\* The invariant of one run.
Good(r, J, S, G, l) == Located(l) /\ Approved(l, G) /\ Derived(r, J, S, l)
Consistent(r) ==
  /\ Good(r, journal[r], sent[r], granted[r], local[r])
  /\ local[r].out # None => ~Recorded(r)
  /\ Journaled(journal[r], granted[r]) /\ Requests(r, journal[r], sent[r])
  /\ Gated(executed[r], granted[r]) /\ Waits(r)

Replayable == Shape /\ \A r \in Runs : Consistent(r)

-----------------------------------------------------------------------------
(* Journals grow *)

Grows(J, J2) == DOMAIN J \subseteq DOMAIN J2 /\ \A k \in DOMAIN J : J2[k] = J[k]

\* What was asked stays explained when the journal and the requests grow.
LEMMA RequestsCarry ==
    ASSUME NEW r, NEW J, NEW J2, NEW S, NEW S2, Grows(J, J2), S \subseteq S2
    PROVE  /\ \A i : Earlier(J, i) => Earlier(J2, i)
           /\ \A i : Asked(J, i) => Asked(J2, i)
           /\ \A i : Ended(J, i) => Ended(J2, i)
           /\ \A i \in Nat : \A m : ModelRequest(r, J, S, i, m) => ModelRequest(r, J2, S2, i, m)
           /\ \A m : FixRequest(r, J, S, m) => FixRequest(r, J2, S2, m)
<1>1. \A i : Asked(J, i) => Asked(J2, i)
    BY DEF Grows, Asked
<1>2. \A i : Ended(J, i) => Ended(J2, i)
    BY DEF Grows, Ended
<1>3. \A i : Earlier(J, i) => Earlier(J2, i)
    BY <1>1 DEF Earlier
<1>4. ASSUME NEW i \in Nat, NEW m, ModelRequest(r, J, S, i, m) PROVE ModelRequest(r, J2, S2, i, m)
    <2>1. FirstKey \in DOMAIN J2 /\ Earlier(J2, i) /\ (i = 0 => m = First(r, J2))
        BY <1>3, <1>4 DEF ModelRequest, First, Grows
    <2>2. ASSUME i > 0 PROVE \E q \in S2 : Extended(r, J2, i - 1, m, q)
        <3>1. PICK q \in S : Extended(r, J, i - 1, m, q)
            BY <1>4, <2>2 DEF ModelRequest
        <3>2. J2[Llm(i - 1)] = J[Llm(i - 1)]
            BY <1>4, <2>2 DEF ModelRequest, Earlier, Asked, Grows
        <3> QED BY <3>1, <3>2 DEF Extended
    <2> QED BY <2>1, <2>2 DEF ModelRequest
<1>5. ASSUME NEW m, FixRequest(r, J, S, m) PROVE FixRequest(r, J2, S2, m)
    BY <1>2, <1>3, <1>5 DEF FixRequest
<1> QED BY <1>1, <1>2, <1>3, <1>4, <1>5

\* So does an attempt.
LEMMA GoodCarries ==
    ASSUME NEW r, NEW J, NEW J2, NEW S, NEW S2, NEW G, NEW G2, NEW l,
           Grows(J, J2), S \subseteq S2, G \subseteq G2, Good(r, J, S, G, l)
    PROVE  Good(r, J2, S2, G2, l)
<1>1. Approved(l, G2)
    BY DEF Good, Approved
<1>2. l.i \in Nat
    BY OptionsAssumption DEF Good, Located, Iterations
<1>3. ASSUME Calling(r, J, S, l) PROVE Calling(r, J2, S2, l)
    <2>1. J2[Llm(l.i)] = J[Llm(l.i)] /\ FirstKey \in DOMAIN J2
        BY <1>3 DEF Calling, Asked, Grows
    <2>2. Earlier(J2, l.i) /\ Asked(J2, l.i)
        BY <1>3, RequestsCarry DEF Calling
    <2> QED BY <1>3, <2>1, <2>2 DEF Calling, Sorted
<1>4. Derived(r, J2, S2, l)
    BY <1>2, <1>3, RequestsCarry DEF Derived, Good
<1> QED BY <1>1, <1>4 DEF Good

\* Step ids of different steps differ.
LEMMA StepIds ==
    /\ \A i, j : Llm(i) = Llm(j) => i = j
    /\ \A i : Llm(i) # <<"llm-output-fix">> /\ Llm(i)[1] = "llm" /\ Llm(i)[2] = i
BY DEF Llm

\* The journal and the requests before it determine a request.
LEMMA SameRequest ==
    ASSUME NEW r, NEW J, NEW S, Requests(r, J, S), NEW i \in Iterations, NEW m, NEW m2,
           ModelRequest(r, J, S, i, m), ModelRequest(r, J, S, i, m2)
    PROVE  m = m2
<1>0. i \in Nat
    BY OptionsAssumption DEF Iterations
<1>1. CASE i = 0
    BY <1>1 DEF ModelRequest
<1>2. CASE i > 0
    <2>1. PICK q \in S : Extended(r, J, i - 1, m, q)
        BY <1>2 DEF ModelRequest
    <2>2. PICK q2 \in S : Extended(r, J, i - 1, m2, q2)
        BY <1>2 DEF ModelRequest
    <2>3. q = q2
        BY <2>1, <2>2 DEF Extended, Requests
    <2> QED BY <2>1, <2>2, <2>3 DEF Extended
<1> QED BY <1>0, <1>1, <1>2

\* So they do for the one that repairs the output: the conversation ended once.
LEMMA SameFix ==
    ASSUME NEW r, NEW J, NEW S, Requests(r, J, S), NEW m, NEW m2,
           FixRequest(r, J, S, m), FixRequest(r, J, S, m2)
    PROVE  m = m2
<1>1. PICK i \in Iterations : Earlier(J, i) /\ Ended(J, i) /\ \E q \in S : Repaired(r, m, i, q)
    BY DEF FixRequest
<1>2. PICK j \in Iterations : Earlier(J, j) /\ Ended(J, j) /\ \E q \in S : Repaired(r, m2, j, q)
    BY DEF FixRequest
<1>3. i \in Nat /\ j \in Nat
    BY OptionsAssumption DEF Iterations
<1>4. ~(i < j)
    <2> SUFFICES ASSUME i < j PROVE FALSE
        OBVIOUS
    <2>1. i \in 0 .. j - 1
        BY <1>3
    <2> QED BY <1>1, <1>2, <2>1 DEF Earlier, Asked, Ended
<1>5. ~(j < i)
    <2> SUFFICES ASSUME j < i PROVE FALSE
        OBVIOUS
    <2>1. j \in 0 .. i - 1
        BY <1>3
    <2> QED BY <1>1, <1>2, <2>1 DEF Earlier, Asked, Ended
<1>6. i = j
    BY <1>3, <1>4, <1>5
<1>7. PICK q \in S : Repaired(r, m, i, q)
    BY <1>1
<1>8. PICK q2 \in S : Repaired(r, m2, i, q2)
    BY <1>2, <1>6
<1>9. q = q2
    BY <1>7, <1>8 DEF Repaired, Requests
<1> QED BY <1>7, <1>8, <1>9 DEF Repaired

\* A reply in the journal answers the request that this attempt would send.
LEMMA AskedAlready ==
    ASSUME NEW r, NEW J, NEW S, Requests(r, J, S), NEW i \in Iterations, NEW m,
           ModelRequest(r, J, S, i, m), Llm(i) \in DOMAIN J
    PROVE  <<Llm(i), m>> \in S
<1>1. PICK q \in S : q[1] = Llm(i)
    BY DEF Requests
<1>2. Explained(r, J, S, q)
    BY DEF Requests
<1>3. q # <<<<"llm-output-fix">>, q[2]>>
    BY <1>1, StepIds
<1>4. PICK j \in Iterations : q = <<Llm(j), q[2]>> /\ ModelRequest(r, J, S, j, q[2])
    BY <1>2, <1>3 DEF Explained
<1>5. j = i
    BY <1>1, <1>4, StepIds
<1>6. q[2] = m
    BY <1>4, <1>5, SameRequest
<1> QED BY <1>4, <1>5, <1>6

\* The requests after one more, which its journal explains.
LEMMA SendRequest ==
    ASSUME NEW r, NEW J, NEW S, Requests(r, J, S), NEW k, NEW m,
           \/ \E i \in Iterations : k = Llm(i) /\ ModelRequest(r, J, S, i, m)
           \/ k = <<"llm-output-fix">> /\ FixRequest(r, J, S, m)
    PROVE  Requests(r, J, S \cup {<<k, m>>})
<1> DEFINE new == <<k, m>>
           S2 == S \cup {new}
<1>0. Grows(J, J) /\ S \subseteq S2 /\ Iterations \subseteq Nat
    BY OptionsAssumption DEF Grows, Iterations
<1>1. \A i \in Nat : \A x : ModelRequest(r, J, S, i, x) => ModelRequest(r, J, S2, i, x)
    BY <1>0, RequestsCarry
<1>2. \A x : FixRequest(r, J, S, x) => FixRequest(r, J, S2, x)
    BY <1>0, RequestsCarry
<1>3. Explained(r, J, S, new) /\ new[1] = k /\ new[2] = m
    BY DEF Explained
<1> HIDE DEF S2
<1>4. \A q : Explained(r, J, S, q) => Explained(r, J, S2, q)
    BY <1>0, <1>1, <1>2 DEF Explained
<1>5. ASSUME NEW q \in S, q[1] = k PROVE q = new
    <2>1. Explained(r, J, S, q)
        BY DEF Requests
    <2>2. CASE \E i \in Iterations : k = Llm(i) /\ ModelRequest(r, J, S, i, m)
        <3>1. PICK i \in Iterations : k = Llm(i) /\ ModelRequest(r, J, S, i, m)
            BY <2>2
        <3>2. q # <<<<"llm-output-fix">>, q[2]>>
            BY <1>5, <3>1, StepIds
        <3>3. PICK j \in Iterations : q = <<Llm(j), q[2]>> /\ ModelRequest(r, J, S, j, q[2])
            BY <2>1, <3>2 DEF Explained
        <3>4. j = i
            BY <1>5, <3>1, <3>3, StepIds
        <3>5. q[2] = m
            BY <3>1, <3>3, <3>4, SameRequest
        <3> QED BY <3>1, <3>3, <3>4, <3>5
    <2>3. CASE k = <<"llm-output-fix">> /\ FixRequest(r, J, S, m)
        <3>1. q = <<k, q[2]>> /\ FixRequest(r, J, S, q[2])
            BY <1>5, <2>1, <2>3, StepIds DEF Explained
        <3>2. q[2] = m
            BY <2>3, <3>1, SameFix
        <3> QED BY <3>1, <3>2
    <2> QED BY <2>2, <2>3
<1>6. \A q \in S2 : Explained(r, J, S2, q)
    BY <1>3, <1>4 DEF Requests, S2
<1>7. \A i \in Iterations : Llm(i) \in DOMAIN J => \E q \in S2 : q[1] = Llm(i)
    BY <1>0 DEF Requests
<1>8. \A one, other \in S2 : one[1] = other[1] => one = other
    BY <1>3, <1>5 DEF Requests, S2
<1>9. Requests(r, J, S2)
    BY <1>6, <1>7, <1>8 DEF Requests
<1> QED BY <1>9 DEF S2

\* A journal with one more step.
LEMMA Recorded1 ==
    ASSUME NEW J, NEW k, NEW v
    PROVE  /\ Grows(J, Recording(J, k, v))
           /\ DOMAIN Recording(J, k, v) = DOMAIN J \cup {k}
           /\ k \notin DOMAIN J => Recording(J, k, v)[k] = v
BY DEF Recording, Grows

\* Recording a step keeps the journal and the requests in order.
LEMMA RecordKeeps ==
    ASSUME NEW r, NEW J, NEW S, NEW G, NEW G2, NEW k, NEW v,
           Requests(r, J, S), Journaled(J, G), G \subseteq G2,
           k[1] = "llm" => /\ \E i \in Iterations : k = Llm(i) /\ v \in ResponseOf(i)
                           /\ \E q \in S : q[1] = k,
           k[1] = "approval" => Gate(k) /\ (FreshIds /\ v = "approved" => k \in G2)
    PROVE  Requests(r, Recording(J, k, v), S) /\ Journaled(Recording(J, k, v), G2)
<1> DEFINE J2 == Recording(J, k, v)
<1>1. /\ Grows(J, J2) /\ DOMAIN J2 = DOMAIN J \cup {k}
      /\ (k \notin DOMAIN J => J2[k] = v)
    BY Recorded1
<1> HIDE DEF J2
<1>2. Journaled(J2, G2)
    <2> SUFFICES ASSUME NEW x \in DOMAIN J2
                 PROVE  /\ x[1] = "llm" => \E i \in Iterations : x = Llm(i) /\ J2[x] \in ResponseOf(i)
                        /\ x[1] = "approval" => Gate(x) /\ (FreshIds /\ J2[x] = "approved" => x \in G2)
        BY DEF Journaled
    <2>1. CASE x \in DOMAIN J
        <3>1. J2[x] = J[x]
            BY <1>1, <2>1 DEF Grows
        <3> QED BY <2>1, <3>1 DEF Journaled
    <2>2. CASE x \notin DOMAIN J
        <3>1. x = k /\ J2[x] = v
            BY <1>1, <2>2
        <3> QED BY <3>1
    <2> QED BY <2>1, <2>2
<1>3. \A q : Explained(r, J, S, q) => Explained(r, J2, S, q)
    <2>1. \A i \in Nat : \A x : ModelRequest(r, J, S, i, x) => ModelRequest(r, J2, S, i, x)
        BY <1>1, RequestsCarry
    <2>2. \A x : FixRequest(r, J, S, x) => FixRequest(r, J2, S, x)
        BY <1>1, RequestsCarry
    <2>3. Iterations \subseteq Nat
        BY OptionsAssumption DEF Iterations
    <2> QED BY <2>1, <2>2, <2>3 DEF Explained
<1>4. \A i \in Iterations : Llm(i) \in DOMAIN J2 => \E q \in S : q[1] = Llm(i)
    BY <1>1, StepIds DEF Requests
<1>5. Requests(r, J2, S)
    BY <1>3, <1>4 DEF Requests
<1> QED BY <1>2, <1>5 DEF J2

-----------------------------------------------------------------------------
(* Steps *)

\* Another run is as it was.
Same(q) ==
  /\ local'[q] = local[q] /\ journal'[q] = journal[q] /\ status'[q] = status[q]
  /\ waiting'[q] = waiting[q] /\ sent'[q] = sent[q] /\ executed'[q] = executed[q]
  /\ granted'[q] = granted[q]

\* A step of one run is a matter of that run.
LEMMA OneRun ==
    ASSUME Replayable, NEW r \in Runs, Shape', Consistent(r)', \A q \in Runs \ {r} : Same(q)
    PROVE  Replayable'
<1>1. ASSUME NEW q \in Runs, q # r PROVE Consistent(q)'
    <2>1. Consistent(q) /\ Same(q)
        BY <1>1 DEF Replayable
    <2> QED BY <2>1 DEF Consistent, Same, Waits, Recorded
<1> QED BY <1>1 DEF Replayable

\* Attempts that hold nothing the requests or the gates depend on.
QuietPcs == Prelude \cup {"memory-remember", "save-session", "return"}
Quiet(l) ==
  /\ DOMAIN l = Fields /\ l.i \in Iterations /\ l.calls \in Seq(Call(l.i)) /\ l.out = None
  /\ l.at[1] \in QuietPcs
  /\ l.at[1] \in Prelude => l.i = 0 /\ l.at = <<l.at[1]>> /\ (HasMemory \/ l.at[1] = "session")

\* They are good whatever the journal holds.
LEMMA QuietGood ==
    ASSUME NEW r, NEW J, NEW S, NEW G, NEW l, Quiet(l)
    PROVE  Good(r, J, S, G, l)
BY DEF Good, Located, Approved, Derived, Quiet, QuietPcs, Prelude, CallPcs

\* An attempt starts as one of them.
LEMMA FreshQuiet == Quiet(FreshAttempt)
<1>1. 0 \in Iterations
    BY OptionsAssumption DEF Iterations
<1> QED BY <1>1 DEF FreshAttempt, Quiet, QuietPcs, Prelude, Fields

\* The code behind a step goes on.
LEMMA ContinueKeeps ==
    ASSUME Replayable, NEW r \in Runs, NEW attempt, Continue(r, attempt), attempt.out = None,
           Good(r, journal[r], sent[r], granted[r], attempt)
    PROVE  Replayable'
<1>1. Shape' /\ local'[r] = attempt /\ \A q \in Runs \ {r} : Same(q)
    BY DEF Continue, Replayable, Shape, Same, history
<1>2. UNCHANGED <<status, journal, waiting, sent, executed, granted>>
    BY DEF Continue, history
<1>3. Consistent(r)'
    BY <1>1, <1>2 DEF Replayable, Consistent, Recorded, Waits
<1> QED BY <1>1, <1>3, OneRun

\* An attempt ends, well or not, and leaves nothing behind.
LEMMA EndKeeps ==
    ASSUME Replayable, NEW r \in Runs, local' = [local EXCEPT ![r] = FreshAttempt],
           NEW s, status' = [status EXCEPT ![r] = s], s \notin Suspended \/ (s = status[r] /\ UNCHANGED waiting),
           NEW w, waiting' = [waiting EXCEPT ![r] = w] \/ UNCHANGED waiting,
           UNCHANGED <<journal, sent, executed, granted>>
    PROVE  Replayable'
<1>1. Shape' /\ local'[r] = FreshAttempt /\ status'[r] = s /\ \A q \in Runs \ {r} : Same(q)
    BY DEF Replayable, Shape, Same
<1>2. Good(r, journal[r], sent[r], granted[r], FreshAttempt) /\ FreshAttempt.out = None
    BY QuietGood, FreshQuiet DEF FreshAttempt
<1>3. Consistent(r)'
    BY <1>1, <1>2 DEF Replayable, Consistent, Recorded, Waits
<1> QED BY <1>1, <1>3, OneRun

\* The body of a step has run.
LEMMA ProduceKeeps ==
    ASSUME Replayable, NEW r \in Runs, NEW value, Produce(r, value),
           local[r].at[1] \in Throwing, Shape', UNCHANGED granted,
           local[r].at[1] = "llm" => /\ value \in ResponseOf(local[r].i)
                                     /\ <<local[r].at, local[r].messages>> \in sent'[r],
           \A q \in Runs \ {r} : sent'[q] = sent[q] /\ executed'[q] = executed[q],
           sent[r] \subseteq sent'[r], Requests(r, journal[r], sent'[r]),
           Gated(executed'[r], granted[r])
    PROVE  Replayable'
<1> DEFINE l == local[r]
           l2 == [l EXCEPT !.out = value]
<1>1. Located(l) /\ Good(r, journal[r], sent[r], granted[r], l) /\ DOMAIN l = Fields
    BY DEF Replayable, Consistent, Good, Located
<1>2. /\ l2.out = value /\ l2.at = l.at /\ l2.i = l.i /\ l2.calls = l.calls
      /\ l2.messages = l.messages /\ l2.results = l.results /\ DOMAIN l2 = Fields
    BY <1>1 DEF Fields
<1>3. local'[r] = l2 /\ UNCHANGED <<status, journal, waiting>> /\ ~Recorded(r)
      /\ \A q \in Runs \ {r} : Same(q)
    BY DEF Produce, Same, Replayable, Shape
<1> HIDE DEF l2
<1>4. Grows(journal[r], journal[r])
    BY DEF Grows
<1>5. Good(r, journal[r], sent'[r], granted[r], l)
    BY <1>1, <1>4, GoodCarries
<1>6. Located(l2)
    BY <1>1, <1>2 DEF Located
<1>7. Approved(l2, granted[r])
    BY <1>2, <1>5 DEF Good, Approved
<1>8. Derived(r, journal[r], sent'[r], l2)
    BY <1>2, <1>5 DEF Good, Derived, Calling, Sorted
<1>9. Consistent(r)'
    BY <1>2, <1>3, <1>6, <1>7, <1>8 DEF Replayable, Consistent, Good, Recorded, Waits
<1> QED BY <1>3, <1>9, OneRun

\* Bodies that only produce a result.
LEMMA PlainBodies ==
    ASSUME Replayable, NEW r \in Runs,
           ReadSession(r) \/ Recall(r) \/ CompressWorkingMemory(r) \/ StoreTurn(r) \/ SaveSession(r)
    PROVE  Replayable'
<1>1. PICK value : Produce(r, value)
    BY DEF ReadSession, Recall, CompressWorkingMemory, StoreTurn, SaveSession
<1>2. UNCHANGED <<sent, executed, granted>> /\ local[r].at[1] \in Throwing \ {"llm"}
    BY DEF ReadSession, Recall, CompressWorkingMemory, StoreTurn, SaveSession, history, At, Throwing
<1>3. Shape'
    BY <1>1, <1>2 DEF Replayable, Shape, Produce
<1>4. Requests(r, journal[r], sent[r]) /\ Gated(executed[r], granted[r])
    BY DEF Replayable, Consistent
<1> QED BY <1>1, <1>2, <1>3, <1>4, ProduceKeeps

\* A reply of a provider is a response of its iteration.
LEMMA RepliesTyped ==
    ASSUME NEW r \in Runs, NEW i \in Iterations, NEW reply \in Replies, NEW n \in 0 .. Len(reply.tools)
    PROVE  /\ FreshIds => fromAnthropicContent(Streamed(reply, n), <<r, i>>) \in ResponseOf(i)
           /\ ~FreshIds => fromGeminiParts(Streamed(reply, n), <<r, i>>) \in ResponseOf(i)
<1> DEFINE got == Streamed(reply, n)
<1>1. reply.tools \in Seq(STRING) /\ Len(reply.tools) \in Nat
    BY DEF Replies
<1>2. got \in Replies
    <2>1. CASE n = Len(reply.tools)
        BY <2>1 DEF Streamed
    <2>2. CASE n # Len(reply.tools)
        <3>1. SubSeq(reply.tools, 1, n) \in Seq(STRING)
            BY <1>1, SubSeqProperties
        <3>2. got = [reply EXCEPT !.tools = SubSeq(reply.tools, 1, n), !.json = FALSE, !.output = 0]
            BY <2>2 DEF Streamed, Replies
        <3> HIDE DEF got
        <3> QED BY <3>1, <3>2 DEF Replies
    <2> QED BY <2>1, <2>2
<1> HIDE DEF got
<1>3. got.tools \in Seq(STRING) /\ got.json \in BOOLEAN /\ got.input \in Nat /\ got.output \in Nat
    BY <1>2 DEF Replies
<1>4. DOMAIN got.tools = 1 .. Len(got.tools) /\ Len(got.tools) \in Nat
      /\ \A j \in DOMAIN got.tools : j \in Nat /\ got.tools[j] \in STRING
    BY <1>3
<1>5. ASSUME FreshIds PROVE fromAnthropicContent(got, <<r, i>>) \in ResponseOf(i)
    <2>1. ASSUME NEW j \in 1 .. Len(got.tools)
          PROVE  [id |-> <<<<r, i>>, j>>, name |-> got.tools[j]] \in Call(i)
        BY <1>4, <1>5 DEF Call, IdsOf
    <2>2. [j \in DOMAIN got.tools |-> [id |-> <<<<r, i>>, j>>, name |-> got.tools[j]]] \in Seq(Call(i))
        BY <1>4, <2>1
    <2> QED BY <1>3, <2>2 DEF fromAnthropicContent, ResponseOf
<1>6. ASSUME ~FreshIds PROVE fromGeminiParts(got, <<r, i>>) \in ResponseOf(i)
    <2>1. ASSUME NEW j \in 1 .. Len(got.tools)
          PROVE  [id |-> <<got.tools[j], j>>, name |-> got.tools[j]] \in Call(i)
        BY <1>4, <1>6 DEF Call, IdsOf
    <2>2. [j \in DOMAIN got.tools |-> [id |-> <<got.tools[j], j>>, name |-> got.tools[j]]] \in Seq(Call(i))
        BY <1>4, <2>1
    <2> QED BY <1>3, <2>2 DEF fromGeminiParts, ResponseOf
<1> QED BY <1>5, <1>6 DEF got

\* A request to the model: the same as the last attempt's, if there was one.
LEMMA CallModelKeeps == ASSUME Replayable, NEW r \in Runs, CallModel(r) PROVE Replayable'
<1> DEFINE l == local[r]
           S2 == sent[r] \cup {<<l.at, l.messages>>}
<1>1. /\ Located(l) /\ Derived(r, journal[r], sent[r], l) /\ l.at[1] = "llm"
      /\ Requests(r, journal[r], sent[r]) /\ Gated(executed[r], granted[r])
    BY DEF Replayable, Consistent, Good, CallModel, At
<1>2. l.i \in Iterations /\ l.at = Llm(l.i) /\ ModelRequest(r, journal[r], sent[r], l.i, l.messages)
    BY <1>1 DEF Located, Derived
<1>3. PICK value \in ResponseOf(l.i) : Produce(r, value)
    <2>1. PICK reply \in Script[r][l.i + 1] : \E n \in 0 .. Len(reply.tools) :
            Produce(r, IF FreshIds THEN fromAnthropicContent(Streamed(reply, n), <<r, l.i>>)
                       ELSE fromGeminiParts(Streamed(reply, n), <<r, l.i>>))
        BY DEF CallModel
    <2>2. l.i + 1 \in 1 .. MaxIterations
        BY <1>2, OptionsAssumption DEF Iterations
    <2>3. reply \in Replies
        BY <2>1, <2>2, ScriptAssumption
    <2> QED BY <1>2, <2>1, <2>3, RepliesTyped
<1>4. sent' = [sent EXCEPT ![r] = S2] /\ UNCHANGED <<executed, granted>>
    BY DEF CallModel
<1>5. Requests(r, journal[r], S2)
    BY <1>1, <1>2, SendRequest
<1> HIDE DEF S2
<1>6. Shape' /\ sent'[r] = S2 /\ \A q \in Runs \ {r} : sent'[q] = sent[q]
    BY <1>3, <1>4 DEF Replayable, Shape, Produce
<1>7. sent[r] \subseteq S2 /\ <<l.at, l.messages>> \in S2 /\ l.at[1] \in Throwing
    BY <1>1 DEF S2, Throwing
<1> QED BY <1>1, <1>3, <1>4, <1>5, <1>6, <1>7, ProduceKeeps

\* The request that repairs the output.
LEMMA CallFixKeeps == ASSUME Replayable, NEW r \in Runs, CallFix(r) PROVE Replayable'
<1> DEFINE l == local[r]
           S2 == sent[r] \cup {<<l.at, l.messages>>}
<1>1. /\ Derived(r, journal[r], sent[r], l) /\ l.at[1] = "llm-output-fix"
      /\ Requests(r, journal[r], sent[r]) /\ Gated(executed[r], granted[r])
    BY DEF Replayable, Consistent, Good, CallFix, At
<1>2. l.at = <<"llm-output-fix">> /\ FixRequest(r, journal[r], sent[r], l.messages)
    BY <1>1 DEF Derived
<1>3. PICK value \in BOOLEAN : Produce(r, value)
    BY DEF CallFix
<1>4. sent' = [sent EXCEPT ![r] = S2] /\ UNCHANGED <<executed, granted>>
    BY DEF CallFix
<1>5. Requests(r, journal[r], S2)
    BY <1>1, <1>2, SendRequest
<1> HIDE DEF S2
<1>6. Shape' /\ sent'[r] = S2 /\ \A q \in Runs \ {r} : sent'[q] = sent[q]
    BY <1>3, <1>4 DEF Replayable, Shape, Produce
<1>7. sent[r] \subseteq S2 /\ l.at[1] \in Throwing
    BY <1>1 DEF S2, Throwing
<1> QED BY <1>1, <1>3, <1>4, <1>5, <1>6, <1>7, ProduceKeeps

\* A tool runs: if it is gated, its gate was opened for this very call.
LEMMA ExecuteKeeps == ASSUME Replayable, NEW r \in Runs, ExecuteTool(r) PROVE Replayable'
<1> DEFINE l == local[r]
           e == <<l.at, Head(l.calls).name>>
<1>1. /\ Located(l) /\ Approved(l, granted[r]) /\ l.at[1] = "tool"
      /\ Requests(r, journal[r], sent[r]) /\ Gated(executed[r], granted[r])
    BY DEF Replayable, Consistent, Good, ExecuteTool, At
<1>2. l.at = <<"tool", l.i, Head(l.calls).id>>
    BY <1>1 DEF Located, CallPcs
<1>3. /\ Produce(r, "done") /\ UNCHANGED <<sent, granted>>
      /\ executed' = [executed EXCEPT ![r] = @ \cup {e}]
    BY DEF ExecuteTool
<1>4. e[1][2] = l.i /\ e[1][3] = Head(l.calls).id /\ e[2] = Head(l.calls).name
    BY <1>2
<1> HIDE DEF e
<1>5. Gated(executed[r] \cup {e}, granted[r])
    BY <1>1, <1>4 DEF Gated, Approved
<1>6. Shape' /\ executed'[r] = executed[r] \cup {e} /\ \A q \in Runs \ {r} : executed'[q] = executed[q]
    BY <1>3 DEF Replayable, Shape, Produce
<1>7. l.at[1] \in Throwing \ {"llm"}
    BY <1>1 DEF Throwing
<1> QED BY <1>1, <1>3, <1>5, <1>6, <1>7, ProduceKeeps

\* recordStep.
LEMMA RecordStepKeeps == ASSUME Replayable, NEW r \in Runs, RecordStep(r) PROVE Replayable'
<1> DEFINE l == local[r]
           l2 == [l EXCEPT !.out = None]
           J2 == Recording(journal[r], l.at, l.out)
<1>1. /\ Good(r, journal[r], sent[r], granted[r], l) /\ l.out # None
      /\ Located(l) /\ Derived(r, journal[r], sent[r], l) /\ DOMAIN l = Fields
      /\ Requests(r, journal[r], sent[r]) /\ Journaled(journal[r], granted[r])
    BY DEF Replayable, Consistent, Good, Located, RecordStep
<1>2. /\ l2.out = None /\ l2.at = l.at /\ l2.i = l.i /\ l2.calls = l.calls
      /\ l2.messages = l.messages /\ l2.results = l.results /\ DOMAIN l2 = Fields
    BY <1>1 DEF Fields
<1>3. /\ local'[r] = l2 /\ journal'[r] = J2 /\ Shape' /\ \A q \in Runs \ {r} : Same(q)
      /\ UNCHANGED <<status, waiting, sent, executed, granted>>
    BY DEF RecordStep, Same, Replayable, Shape, history
<1>4. l.at[1] # "approval"
    BY <1>1 DEF Located, Throwing
<1>5. ASSUME l.at[1] = "llm"
      PROVE  /\ \E i \in Iterations : l.at = Llm(i) /\ l.out \in ResponseOf(i)
             /\ \E q \in sent[r] : q[1] = l.at
    BY <1>1, <1>5 DEF Located, Derived
<1>6. Requests(r, J2, sent[r]) /\ Journaled(J2, granted[r])
    BY <1>1, <1>4, <1>5, RecordKeeps
<1>7. Grows(journal[r], J2)
    BY Recorded1
<1> HIDE DEF J2, l2
<1>8. Good(r, J2, sent[r], granted[r], l)
    BY <1>1, <1>7, GoodCarries
<1>9. Good(r, J2, sent[r], granted[r], l2)
    <2>1. Located(l2)
        BY <1>1, <1>2 DEF Located
    <2>2. Approved(l2, granted[r])
        BY <1>2, <1>8 DEF Good, Approved
    <2>3. Derived(r, J2, sent[r], l2)
        BY <1>2, <1>8 DEF Good, Derived, Calling, Sorted
    <2> QED BY <2>1, <2>2, <2>3 DEF Good
<1>10. Consistent(r)'
    BY <1>2, <1>3, <1>6, <1>9 DEF Replayable, Consistent, Waits, Recorded
<1> QED BY <1>3, <1>10, OneRun

\* The attempt is suspended at a gate or on a child.
LEMMA SuspendKeeps ==
    ASSUME Replayable, NEW r \in Runs, OpenGate(r) \/ InvokeChild(r)
    PROVE  Replayable'
<1> DEFINE l == local[r]
<1>1. /\ \E s \in Suspended : Suspend(r, s)
      /\ l.at[1] \in {"approval", "handoff"} /\ Located(l)
    BY DEF OpenGate, InvokeChild, At, Replayable, Consistent, Good, Suspended
<1>2. l.at = <<l.at[1], l.i, Head(l.calls).id>> /\ Head(l.calls).id \in IdsOf(l.i) /\ l.i \in Iterations
    <2>1. l.calls # <<>> /\ l.calls \in Seq(Call(l.i)) /\ l.at = <<l.at[1], l.i, Head(l.calls).id>>
          /\ l.i \in Iterations
        BY <1>1 DEF Located, CallPcs
    <2>2. Head(l.calls) \in Call(l.i)
        BY <2>1
    <2> QED BY <2>1, <2>2 DEF Call
<1>3. l.at[1] = "approval" => Gate(l.at)
    BY <1>2 DEF Gate
<1>4. /\ local'[r] = FreshAttempt /\ waiting'[r] = l.at /\ status'[r] \in Suspended /\ Shape'
      /\ \A q \in Runs \ {r} : Same(q)
      /\ UNCHANGED <<journal, sent, executed, granted>>
    BY <1>1 DEF Suspend, Same, Replayable, Shape, history
<1>5. Good(r, journal[r], sent[r], granted[r], FreshAttempt) /\ FreshAttempt.out = None
    BY QuietGood, FreshQuiet DEF FreshAttempt
<1>6. Consistent(r)'
    BY <1>1, <1>3, <1>4, <1>5 DEF Replayable, Consistent, Waits, Recorded
<1> QED BY <1>4, <1>6, OneRun

\* Ids that are fresh name one gate.
LEMMA GatesDiffer ==
    ASSUME FreshIds, NEW g, NEW h, Gate(g), Gate(h), g[3] = h[3]
    PROVE  g = h
<1>1. g[3][1][2] = g[2] /\ h[3][1][2] = h[2]
    BY DEF Gate, IdsOf
<1> QED BY <1>1 DEF Gate

\* The result of a wait is journaled: an answer, a timeout or the end of a child.
LEMMA RecordWaitKeeps ==
    ASSUME Replayable, NEW r \in Runs, status[r] \in Suspended, NEW value,
           NEW s \in {"running", "recorded"}, RecordWait(r, value, s),
           NEW G2, granted'[r] = G2, granted[r] \subseteq G2, DOMAIN granted' = Runs,
           \A q \in Runs \ {r} : granted'[q] = granted[q],
           FreshIds /\ waiting[r][1] = "approval" /\ value = "approved" => waiting[r] \in G2
    PROVE  Replayable'
<1> DEFINE l == local[r]
           w == waiting[r]
           J2 == Recording(journal[r], w, value)
<1>1. /\ Good(r, journal[r], sent[r], granted[r], l) /\ Located(l)
      /\ Requests(r, journal[r], sent[r]) /\ Journaled(journal[r], granted[r])
      /\ w[1] \in {"approval", "handoff"} /\ (w[1] = "approval" => Gate(w))
    BY DEF Replayable, Consistent, Good, Waits
<1>2. /\ journal'[r] = J2 /\ granted'[r] = G2 /\ status'[r] = s /\ Shape'
      /\ \A q \in Runs \ {r} : Same(q)
      /\ UNCHANGED <<local, sent, executed>>
    BY DEF RecordWait, Same, Replayable, Shape
<1>3. Requests(r, J2, sent[r]) /\ Journaled(J2, G2)
    BY <1>1, RecordKeeps
<1>4. Grows(journal[r], J2) /\ DOMAIN J2 = DOMAIN journal[r] \cup {w}
    BY Recorded1, ZenonT(40)
<1> HIDE DEF J2
<1>5. Good(r, J2, sent[r], G2, l)
    BY <1>1, <1>4, GoodCarries
<1>6. l.out # None => l.at \notin DOMAIN J2
    BY <1>1, <1>4 DEF Replayable, Consistent, Located, Throwing, Recorded
<1>7. Gated(executed[r], G2)
    BY DEF Replayable, Consistent, Gated
<1>8. Consistent(r)'
    BY <1>2, <1>3, <1>5, <1>6, <1>7 DEF Consistent, Waits, Recorded, Suspended
<1> QED BY <1>2, <1>8, OneRun

\* The engine moves a run on.
LEMMA PassKeeps ==
    ASSUME Replayable, NEW r \in Runs, NEW s, Pass(r, s),
           s \in Suspended => status[r] \in Suspended
    PROVE  Replayable'
<1>1. /\ status'[r] = s /\ Shape' /\ \A q \in Runs \ {r} : Same(q)
      /\ UNCHANGED <<local, journal, waiting, sent, executed, granted>>
    BY DEF Pass, history, Replayable, Shape, Same
<1>2. Consistent(r)'
    BY <1>1 DEF Replayable, Consistent, Waits, Recorded
<1> QED BY <1>1, <1>2, OneRun

\* An operator answers, or the engine makes its next store call.
LEMMA WaitsEnd ==
    ASSUME Replayable, NEW r \in Runs, Answer(r) \/ Drive(r)
    PROVE  Replayable'
<1>1. CASE Answer(r)
    <2>1. PICK gate \in DOMAIN journal[r] \cup {waiting[r]}, approved \in BOOLEAN :
            Decide(r, gate, approved)
        BY <1>1 DEF Answer
    <2> DEFINE value == IF approved THEN "approved" ELSE "denied"
               G2 == granted[r] \cup (IF approved THEN {gate} ELSE {})
    <2>2. /\ status[r] = "waiting" /\ waiting[r][1] = "approval" /\ gate[1] = "approval"
          /\ gate[3] = waiting[r][3] /\ RecordWait(r, value, "running")
          /\ granted'[r] = G2 /\ DOMAIN granted' = Runs
          /\ \A q \in Runs \ {r} : granted'[q] = granted[q]
        BY <2>1 DEF Decide, Replayable, Shape
    <2>3. Gate(gate) /\ Gate(waiting[r])
        BY <2>1, <2>2 DEF Replayable, Consistent, Journaled, Waits, Suspended
    <2>4. FreshIds => gate = waiting[r]
        BY <2>2, <2>3, GatesDiffer
    <2>5. granted[r] \subseteq G2 /\ (FreshIds /\ value = "approved" => waiting[r] \in G2)
        BY <2>4
    <2> HIDE DEF value, G2
    <2> QED BY <2>2, <2>5, RecordWaitKeeps DEF Suspended
<1>2. CASE RecordTimeout(r) \/ ChildSettles(r)
    <2>1. PICK value : /\ status[r] = "released" /\ RecordWait(r, value, "recorded")
                       /\ UNCHANGED granted
                       /\ waiting[r][1] = "approval" => value = "timedOut"
        BY <1>2 DEF RecordTimeout, ChildSettles, SettleParent
    <2> QED BY <2>1, RecordWaitKeeps DEF Replayable, Shape, Suspended
<1>3. CASE Enqueue(r) \/ ApprovalTimeout(r) \/ StartChild(r) \/ ChildEnds(r)
    BY <1>3, PassKeeps DEF Enqueue, ApprovalTimeout, StartChild, ChildEnds, Suspended
<1> QED BY <1>1, <1>2, <1>3 DEF Drive

\* A throw, a return, a failed step.
LEMMA EndingsKeep ==
    ASSUME Replayable, NEW r \in Runs, Throw(r) \/ Return(r) \/ FailStep(r)
    PROVE  Replayable'
<1>1. PICK s : /\ status' = [status EXCEPT ![r] = s] /\ s \notin Suspended
               /\ local' = [local EXCEPT ![r] = FreshAttempt]
               /\ UNCHANGED <<journal, waiting, sent, executed, granted>>
    <2>1. CASE FailStep(r)
        <3> DEFINE s == IF failures[r] >= StepRetries THEN "failed" ELSE status[r]
        <3>1. /\ status' = [status EXCEPT ![r] = s] /\ s \notin Suspended
              /\ local' = [local EXCEPT ![r] = FreshAttempt]
              /\ UNCHANGED <<journal, waiting, sent, executed, granted>>
            BY <2>1 DEF FailStep, history, Suspended
        <3> QED BY <3>1
    <2> QED BY <2>1 DEF Throw, Return, history, Suspended
<1> QED BY <1>1, EndKeeps

-----------------------------------------------------------------------------
(* The loop *)

\* The local state that goes on from a recorded step has no pending result.
LEMMA AtRest ==
    ASSUME Replayable, NEW r \in Runs, Recorded(r) \/ local[r].at[1] \notin Throwing
    PROVE  local[r].out = None /\ Located(local[r]) /\ DOMAIN local[r] = Fields
           /\ Derived(r, journal[r], sent[r], local[r])
BY DEF Replayable, Consistent, Good, Located

\* Going on to a step that no request depends on.
LEMMA QuietStep ==
    ASSUME Replayable, NEW r \in Runs, NEW attempt, Continue(r, attempt), Quiet(attempt)
    PROVE  Replayable'
<1>1. attempt.out = None /\ Good(r, journal[r], sent[r], granted[r], attempt)
    BY QuietGood DEF Quiet
<1> QED BY <1>1, ContinueKeeps

\* A call has got its result.
LEMMA AnsweredGood ==
    ASSUME NEW r, NEW J, NEW S, NEW G, NEW l, Located(l), Journaled(J, G), l.out = None,
           l.calls # <<>>, Calling(r, J, S, l)
    PROVE  Good(r, J, S, G, Answered(l)) /\ Answered(l).out = None
<1> DEFINE l2 == Answered(l)
           all == toolUses(J[Llm(l.i)])
           given == [id |-> Head(l.calls).id, name |-> NoName]
<1>1. /\ l2.at = <<"dispatch">> /\ l2.out = None /\ l2.i = l.i /\ l2.messages = l.messages
      /\ l2.calls = Tail(l.calls) /\ l2.results = Append(l.results, given) /\ DOMAIN l2 = Fields
    BY DEF Answered, Goto, Located, Fields
<1>2. /\ l.calls \in Seq(Call(l.i)) /\ l.i \in Iterations
      /\ l.results \in Seq([id : IdsOf(l.i), name : {NoName}])
      /\ Len(l.results) + Len(l.calls) = Len(all)
      /\ \A j \in 1 .. Len(l.results) : l.results[j] = Given(all[j])
      /\ \A j \in 1 .. Len(l.calls) : l.calls[j] = all[Len(l.results) + j]
    BY DEF Located, Calling, Sorted
<1> HIDE DEF l2
<1>3. /\ Head(l.calls) \in Call(l.i) /\ Tail(l.calls) \in Seq(Call(l.i))
      /\ Len(Tail(l.calls)) = Len(l.calls) - 1
      /\ \A j \in 1 .. Len(l.calls) - 1 : Tail(l.calls)[j] = l.calls[j + 1]
      /\ Head(l.calls) = l.calls[1] /\ Len(l.calls) \in Nat \ {0} /\ Len(l.results) \in Nat
    <2> DEFINE C == Call(l.i)
               s == l.calls
    <2>1. s \in Seq(C) /\ s # <<>>
        BY <1>2
    <2> HIDE DEF C, s
    <2>2. /\ Head(s) \in C /\ Tail(s) \in Seq(C) /\ Len(Tail(s)) = Len(s) - 1
          /\ \A j \in 1 .. Len(s) - 1 : Tail(s)[j] = s[j + 1]
          /\ Head(s) = s[1] /\ Len(s) \in Nat \ {0}
        BY <2>1, HeadTailProperties, LenProperties, EmptySeq
    <2>3. Len(l.results) \in Nat
        BY <1>2, LenProperties
    <2> QED BY <2>2, <2>3 DEF C, s
<1>4. given \in [id : IdsOf(l.i), name : {NoName}] /\ given = Given(all[Len(l.results) + 1])
    BY <1>2, <1>3 DEF Call, Given
<1> HIDE DEF given, all
<1>5. /\ l2.results \in Seq([id : IdsOf(l.i), name : {NoName}])
      /\ Len(l2.results) = Len(l.results) + 1 /\ l2.results[Len(l.results) + 1] = given
      /\ \A j \in 1 .. Len(l.results) : l2.results[j] = l.results[j]
    <2> DEFINE R == [id : IdsOf(l.i), name : {NoName}]
    <2>1. l.results \in Seq(R) /\ given \in R
        BY <1>2, <1>4
    <2> HIDE DEF R
    <2>2. l2.results \in Seq(R)
          /\ Len(l2.results) = Len(l.results) + 1 /\ l2.results[Len(l.results) + 1] = given
          /\ \A j \in 1 .. Len(l.results) : l2.results[j] = l.results[j]
        BY <1>1, <2>1, AppendProperties
    <2> QED BY <2>2 DEF R
<1>6. \A j \in 1 .. Len(l2.results) : l2.results[j] = Given(all[j])
    <2> TAKE j \in 1 .. Len(l2.results)
    <2>1. j \in 1 .. Len(l.results) \/ j = Len(l.results) + 1
        BY <1>3, <1>5
    <2> QED BY <1>2, <1>4, <1>5, <2>1
<1>7. PICK n, m \in Nat : /\ n = Len(l.calls) /\ m = Len(l.results) /\ n >= 1
                           /\ Len(l2.calls) = n - 1 /\ Len(l2.results) = m + 1
    BY <1>1, <1>3, <1>5
<1>8. \A j \in 1 .. Len(l2.calls) : l2.calls[j] = all[Len(l2.results) + j]
    <2> TAKE j \in 1 .. Len(l2.calls)
    <2>0. j \in 1 .. n - 1
        BY <1>7
    <2>2. j + 1 \in 1 .. n /\ m + (j + 1) = (m + 1) + j
        BY <2>0
    <2>1. j \in 1 .. Len(l.calls) - 1 /\ j + 1 \in 1 .. Len(l.calls)
          /\ Len(l.results) + (j + 1) = Len(l2.results) + j
        BY <1>7, <2>0, <2>2
    <2> QED BY <1>1, <1>2, <1>3, <2>1
<1>9. Len(l2.results) + Len(l2.calls) = Len(all)
    <2>1. (m + 1) + (n - 1) = m + n
        OBVIOUS
    <2> QED BY <1>2, <1>7, <2>1
<1>10. Sorted(J, l2)
    BY <1>1, <1>5, <1>6, <1>8, <1>9 DEF Sorted, all
<1>11. Calling(r, J, S, l2)
    BY <1>1, <1>10 DEF Calling
<1>12. Located(l2)
    BY <1>1, <1>2, <1>3 DEF Located, Prelude, CallPcs
<1>13. Approved(l2, G) /\ Derived(r, J, S, l2)
    BY <1>1, <1>11 DEF Approved, Derived, CallPcs
<1> QED BY <1>1, <1>12, <1>13 DEF Good, l2

\* On to the gate or the execution of the call at hand.
LEMMA GotoGood ==
    ASSUME NEW r, NEW J, NEW S, NEW G, NEW l, Located(l), l.out = None, l.calls # <<>>,
           Calling(r, J, S, l), NEW pc \in CallPcs,
           FreshIds /\ pc = "tool" /\ Tools[Head(l.calls).name].requiresApproval =>
              <<"approval", l.i, Head(l.calls).id>> \in G
    PROVE  LET l2 == Goto(l, <<pc, l.i, Head(l.calls).id>>)
           IN  Good(r, J, S, G, l2) /\ l2.out = None
<1> DEFINE at == <<pc, l.i, Head(l.calls).id>>
           l2 == Goto(l, at)
<1>1. /\ l2.at = at /\ l2.out = None /\ l2.i = l.i /\ l2.messages = l.messages
      /\ l2.calls = l.calls /\ l2.results = l.results /\ DOMAIN l2 = Fields
    BY DEF Goto, Located, Fields
<1>2. at[1] = pc
    OBVIOUS
<1> HIDE DEF l2
<1>3. Located(l2)
    BY <1>1, <1>2 DEF Located, CallPcs, Prelude
<1>4. Approved(l2, G)
    BY <1>1, <1>2 DEF Approved
<1>5. Derived(r, J, S, l2)
    BY <1>1, <1>2 DEF Derived, Calling, Sorted, CallPcs
<1> QED BY <1>1, <1>3, <1>4, <1>5 DEF Good, l2

\* The history, what was recalled and the summary: up to the first request.
LEMMA PreludeKeeps ==
    ASSUME Replayable, NEW r \in Runs, AfterSession(r) \/ AfterRecall(r) \/ AfterCompress(r)
    PROVE  Replayable'
<1> DEFINE l == local[r]
<1>1. /\ l.out = None /\ Located(l) /\ DOMAIN l = Fields /\ Recorded(r)
      /\ l.i = 0 /\ l.at = <<l.at[1]>> /\ l.i \in Iterations /\ l.calls \in Seq(Call(l.i))
      /\ HasMemory \/ l.at[1] = "session"
    <2>1. Recorded(r) /\ l.at[1] \in Prelude
        BY DEF AfterSession, AfterRecall, AfterCompress, Resume, At, Prelude
    <2> QED BY <2>1, AtRest DEF Located
<1>2. ASSUME NEW pc \in {"memory-recall", "memory-compress"}, NEW m, HasMemory,
             Continue(r, [Goto(l, <<pc>>) EXCEPT !.messages = m])
      PROVE  Replayable'
    <2> DEFINE l2 == [Goto(l, <<pc>>) EXCEPT !.messages = m]
    <2>1. /\ l2.at = <<pc>> /\ l2.out = None /\ l2.i = l.i /\ l2.calls = l.calls /\ DOMAIN l2 = Fields
          /\ <<pc>>[1] = pc
        BY <1>1 DEF Goto, Fields
    <2>2. Continue(r, l2)
        BY <1>2
    <2> HIDE DEF l2
    <2>3. Quiet(l2)
        BY <1>1, <1>2, <2>1 DEF Quiet, QuietPcs, Prelude
    <2> QED BY <2>2, <2>3, QuietStep
<1>3. ASSUME NEW m, m = First(r, journal[r]), FirstKey \in DOMAIN journal[r],
             Continue(r, [Goto(l, <<"llm", 0>>) EXCEPT !.messages = m])
      PROVE  Replayable'
    <2> DEFINE l2 == [Goto(l, <<"llm", 0>>) EXCEPT !.messages = m]
    <2>1. /\ l2.at = Llm(0) /\ l2.out = None /\ l2.i = 0 /\ l2.calls = l.calls /\ DOMAIN l2 = Fields
          /\ l2.messages = m /\ Llm(0)[1] = "llm"
        BY <1>1 DEF Goto, Fields, Llm
    <2>2. Continue(r, l2)
        BY <1>3
    <2> HIDE DEF l2
    <2>3. Located(l2) /\ Approved(l2, granted[r])
        BY <1>1, <2>1 DEF Located, Approved, Prelude, CallPcs
    <2>4. Earlier(journal[r], 0)
        BY DEF Earlier
    <2>5. ModelRequest(r, journal[r], sent[r], 0, m)
        BY <1>3, <2>4 DEF ModelRequest
    <2>6. Derived(r, journal[r], sent[r], l2)
        BY <2>1, <2>5 DEF Derived, CallPcs
    <2> QED BY <2>1, <2>2, <2>3, <2>6, ContinueKeeps DEF Good
<1>4. CASE AfterSession(r)
    <2>1. l.at = <<"session">>
        BY <1>1, <1>4 DEF AfterSession, At
    <2>2. CASE HasMemory
        BY <1>2, <1>4, <2>2 DEF AfterSession, Resume
    <2>3. CASE ~HasMemory
        <3>1. FirstKey \in DOMAIN journal[r] /\ Prompt(r, Result(r), {}) = First(r, journal[r])
            BY <1>1, <2>1, <2>3 DEF FirstKey, First, Recorded, Result
        <3> QED BY <1>3, <1>4, <2>3, <3>1 DEF AfterSession, Resume
    <2> QED BY <2>2, <2>3
<1>5. CASE AfterRecall(r)
    <2>1. HasMemory
        BY <1>1, <1>5 DEF AfterRecall, At
    <2>2. PICK m : Continue(r, [Goto(l, <<"memory-compress">>) EXCEPT !.messages = m])
        <3>1. Continue(r, [Goto(l, <<"memory-compress">>) EXCEPT !.messages = Prompt(r, @, Result(r))])
            BY <1>5 DEF AfterRecall, Resume
        <3> QED BY <3>1
    <2> QED BY <1>2, <2>1, <2>2
<1>6. CASE AfterCompress(r)
    <2>1. HasMemory /\ l.at = <<"memory-compress">>
        BY <1>1, <1>6 DEF AfterCompress, At
    <2>2. FirstKey \in DOMAIN journal[r] /\ Result(r) = First(r, journal[r])
        BY <1>1, <2>1 DEF FirstKey, First, Recorded, Result
    <2> QED BY <1>3, <1>6, <2>2 DEF AfterCompress, Resume
<1> QED BY <1>4, <1>5, <1>6

\* The reply is over budget, or an answer, or asks for tools.
LEMMA AfterModelKeeps == ASSUME Replayable, NEW r \in Runs, AfterModel(r) PROVE Replayable'
<1> DEFINE l == local[r]
           all == toolUses(Result(r))
<1>1. /\ l.out = None /\ Located(l) /\ DOMAIN l = Fields /\ Recorded(r) /\ l.at[1] = "llm"
      /\ Derived(r, journal[r], sent[r], l)
      /\ Requests(r, journal[r], sent[r]) /\ Journaled(journal[r], granted[r])
    BY AtRest DEF AfterModel, At, Replayable, Consistent
<1>2. l.at = Llm(l.i) /\ l.i \in Iterations /\ ModelRequest(r, journal[r], sent[r], l.i, l.messages)
    BY <1>1 DEF Located, Derived
<1>3. Llm(l.i) \in DOMAIN journal[r] /\ Result(r) = journal[r][Llm(l.i)]
    BY <1>1, <1>2 DEF Recorded, Result
<1>4. <<Llm(l.i), l.messages>> \in sent[r] /\ Earlier(journal[r], l.i) /\ FirstKey \in DOMAIN journal[r]
    BY <1>1, <1>2, <1>3, AskedAlready DEF ModelRequest
<1>5. all \in Seq(Call(l.i)) /\ Result(r) \in ResponseOf(l.i)
    <2>1. PICK i \in Iterations : Llm(l.i) = Llm(i) /\ Result(r) \in ResponseOf(i)
        BY <1>1, <1>2, <1>3 DEF Journaled
    <2>2. i = l.i
        BY <2>1, StepIds
    <2> QED BY <2>1, <2>2 DEF ResponseOf, toolUses
<1>6. CASE Throw(r)
    BY <1>6, EndingsKeep
<1>7. ASSUME NEW tokens, NEW json, all = <<>>,
             Continue(r, [Goto(l, <<"output">>) EXCEPT !.tokens = tokens, !.json = json])
      PROVE  Replayable'
    <2> DEFINE l2 == [Goto(l, <<"output">>) EXCEPT !.tokens = tokens, !.json = json]
    <2>1. /\ l2.at = <<"output">> /\ l2.out = None /\ l2.i = l.i /\ l2.calls = l.calls
          /\ DOMAIN l2 = Fields /\ l2.messages = l.messages
        BY <1>1 DEF Goto, Fields
    <2>2. Continue(r, l2)
        BY <1>7
    <2> HIDE DEF l2
    <2>3. Located(l2) /\ Approved(l2, granted[r])
        BY <1>1, <2>1 DEF Located, Approved, Prelude, CallPcs
    <2>4. Ended(journal[r], l.i)
        BY <1>3, <1>7 DEF Ended
    <2>5. Derived(r, journal[r], sent[r], l2)
        BY <1>4, <2>1, <2>4 DEF Derived, CallPcs
    <2> QED BY <2>1, <2>2, <2>3, <2>5, ContinueKeeps DEF Good
<1>8. ASSUME NEW tokens, NEW m, all # <<>>, m = Append(l.messages, Use(r, all)),
             Continue(r, [Goto(l, <<"dispatch">>) EXCEPT
                            !.tokens = tokens, !.calls = all, !.results = <<>>, !.messages = m])
      PROVE  Replayable'
    <2> DEFINE l2 == [Goto(l, <<"dispatch">>) EXCEPT
                        !.tokens = tokens, !.calls = all, !.results = <<>>, !.messages = m]
    <2>1. /\ l2.at = <<"dispatch">> /\ l2.out = None /\ l2.i = l.i /\ l2.calls = all
          /\ l2.results = <<>> /\ l2.messages = m /\ DOMAIN l2 = Fields
        BY <1>1 DEF Goto, Fields
    <2>2. Continue(r, l2)
        BY <1>8
    <2> HIDE DEF l2
    <2>3. Located(l2) /\ Approved(l2, granted[r])
        BY <1>1, <1>2, <1>5, <2>1 DEF Located, Approved, Prelude, CallPcs
    <2>4. Asked(journal[r], l.i) /\ toolUses(journal[r][Llm(l.i)]) = all
        BY <1>3, <1>8 DEF Asked
    <2>5. Sorted(journal[r], l2)
        <3>1. Len(l2.results) = 0 /\ Len(all) \in Nat /\ l2.results \in Seq([id : IdsOf(l.i), name : {NoName}])
            BY <1>5, <2>1
        <3>2. \A j \in 1 .. Len(l2.calls) : Len(l2.results) + j = j
            BY <3>1
        <3>3. Len(l2.results) + Len(l2.calls) = Len(all)
            BY <2>1, <3>1
        <3> QED BY <2>1, <2>4, <3>1, <3>2, <3>3 DEF Sorted
    <2>6. Calling(r, journal[r], sent[r], l2)
        <3> DEFINE q == <<Llm(l.i), l.messages>>
        <3>1. q \in sent[r] /\ q[1] = Llm(l2.i) /\ l2.messages = Append(q[2], Use(r, all))
            BY <1>4, <1>8, <2>1
        <3> QED BY <1>4, <2>1, <2>4, <2>5, <3>1 DEF Calling
    <2>7. Derived(r, journal[r], sent[r], l2)
        BY <2>1, <2>6 DEF Derived, CallPcs
    <2> QED BY <2>1, <2>2, <2>3, <2>7, ContinueKeeps DEF Good
<1>9. ASSUME ~Throw(r), all = <<>> PROVE Replayable'
    <2>1. Continue(r, [Goto(l, <<"output">>) EXCEPT !.tokens = Spent(r), !.json = Result(r).json])
        BY <1>9 DEF AfterModel
    <2> QED BY <1>7, <1>9, <2>1
<1>10. ASSUME ~Throw(r), all # <<>> PROVE Replayable'
    <2>1. Continue(r, [Goto(l, <<"dispatch">>) EXCEPT
                          !.tokens = Spent(r), !.calls = all, !.results = <<>>,
                          !.messages = Append(@, Use(r, all))])
        BY <1>10 DEF AfterModel, Use
    <2>2. [Goto(l, <<"dispatch">>) EXCEPT
             !.tokens = Spent(r), !.calls = all, !.results = <<>>, !.messages = Append(@, Use(r, all))]
          = [Goto(l, <<"dispatch">>) EXCEPT
             !.tokens = Spent(r), !.calls = all, !.results = <<>>,
             !.messages = Append(l.messages, Use(r, all))]
        BY <1>1 DEF Goto, Fields
    <2> QED BY <1>8, <1>10, <2>1, <2>2
<1> QED BY <1>6, <1>9, <1>10

\* An attempt that works off its calls.
LEMMA Calls ==
    ASSUME Replayable, NEW r \in Runs, local[r].at[1] \in CallPcs \cup {"dispatch"},
           Recorded(r) \/ local[r].at[1] = "dispatch"
    PROVE  /\ local[r].out = None /\ Located(local[r]) /\ DOMAIN local[r] = Fields
           /\ Calling(r, journal[r], sent[r], local[r]) /\ Journaled(journal[r], granted[r])
           /\ local[r].at[1] \in CallPcs => local[r].calls # <<>>
<1>1. Recorded(r) \/ local[r].at[1] \notin Throwing
    BY DEF Throwing
<1>2. /\ local[r].out = None /\ Located(local[r]) /\ DOMAIN local[r] = Fields
      /\ Derived(r, journal[r], sent[r], local[r])
    BY <1>1, AtRest
<1> QED BY <1>2 DEF Derived, Located, Replayable, Consistent

\* The call at hand is answered.
LEMMA AnswerStep ==
    ASSUME Replayable, NEW r \in Runs, local[r].at[1] \in CallPcs \cup {"dispatch"},
           Recorded(r) \/ local[r].at[1] = "dispatch", local[r].calls # <<>>,
           Continue(r, Answered(local[r]))
    PROVE  Replayable'
<1> DEFINE l2 == Answered(local[r])
<1>1. Good(r, journal[r], sent[r], granted[r], l2) /\ l2.out = None /\ Continue(r, l2)
    BY Calls, AnsweredGood
<1> HIDE DEF l2
<1> QED BY <1>1, ContinueKeeps

\* The call at hand is performed, if it needs no approval or has it.
LEMMA PerformStep ==
    ASSUME Replayable, NEW r \in Runs, local[r].at[1] \in CallPcs \cup {"dispatch"},
           Recorded(r) \/ local[r].at[1] = "dispatch", local[r].calls # <<>>,
           Continue(r, Perform(local[r])),
           FreshIds /\ Tools[Head(local[r].calls).name].requiresApproval =>
              <<"approval", local[r].i, Head(local[r].calls).id>> \in granted[r]
    PROVE  Replayable'
<1> DEFINE l == local[r]
           pc == IF Tools[Head(l.calls).name].handoff THEN "handoff" ELSE "tool"
           l2 == Goto(l, <<pc, l.i, Head(l.calls).id>>)
<1>1. pc \in CallPcs /\ Continue(r, l2)
    BY DEF Perform, CallPcs
<1>2. /\ l.out = None /\ Located(l) /\ Calling(r, journal[r], sent[r], l)
    BY Calls
<1> HIDE DEF pc
<1>3. Good(r, journal[r], sent[r], granted[r], l2) /\ l2.out = None
    BY <1>1, <1>2, GotoGood, ZenonT(40)
<1> HIDE DEF l2
<1> QED BY <1>1, <1>3, ContinueKeeps

\* The next call: unknown, gated, or performed at once.
LEMMA DispatchKeeps == ASSUME Replayable, NEW r \in Runs, Dispatch(r) PROVE Replayable'
<1> DEFINE l == local[r]
           l2 == Goto(l, <<"approval", l.i, Head(l.calls).id>>)
<1>1. l.at[1] = "dispatch" /\ l.calls # <<>>
    BY DEF Dispatch, At
<1>2. CASE Head(l.calls).name \notin DOMAIN Tools
    <2>1. Continue(r, Answered(l))
        BY <1>2 DEF Dispatch
    <2> QED BY <1>1, <2>1, AnswerStep
<1>3. CASE Head(l.calls).name \in DOMAIN Tools /\ Tools[Head(l.calls).name].requiresApproval
    <2>1. Continue(r, l2)
        BY <1>3 DEF Dispatch
    <2>2. /\ l.out = None /\ Located(l) /\ Calling(r, journal[r], sent[r], l)
        BY <1>1, Calls
    <2>3. Good(r, journal[r], sent[r], granted[r], l2) /\ l2.out = None
        <3>1. "approval" \in CallPcs
            BY DEF CallPcs
        <3> QED BY <1>1, <2>2, <3>1, GotoGood, ZenonT(40)
    <2> HIDE DEF l2
    <2> QED BY <2>1, <2>3, ContinueKeeps
<1>4. CASE Head(l.calls).name \in DOMAIN Tools /\ ~Tools[Head(l.calls).name].requiresApproval
    <2>1. Continue(r, Perform(l))
        BY <1>4 DEF Dispatch
    <2> QED BY <1>1, <1>4, <2>1, PerformStep
<1> QED BY <1>2, <1>3, <1>4

\* All calls are answered: the request grows by the calls and their results.
LEMMA EndIterationKeeps == ASSUME Replayable, NEW r \in Runs, EndIteration(r) PROVE Replayable'
<1> DEFINE l == local[r]
           all == toolUses(journal[r][Llm(l.i)])
           m == Append(l.messages, Reply(r, l.results))
           l2 == [Goto(l, <<"llm", l.i + 1>>) EXCEPT !.i = l.i + 1, !.results = <<>>, !.messages = m]
<1>1. l.at[1] = "dispatch" /\ l.calls = <<>>
    BY DEF EndIteration, At
<1>2. /\ l.out = None /\ Located(l) /\ DOMAIN l = Fields /\ Calling(r, journal[r], sent[r], l)
      /\ l.i \in Iterations
    BY <1>1, Calls DEF Located
<1>3. CASE Throw(r)
    BY <1>3, EndingsKeep
<1>4. CASE ~Throw(r)
    <2>1. l.i # MaxIterations - 1
        BY <1>4 DEF EndIteration
    <2>2. Continue(r, l2)
        <3>1. Continue(r, [Goto(l, <<"llm", l.i + 1>>) EXCEPT
                             !.i = @ + 1, !.results = <<>>, !.messages = Append(@, Reply(r, l.results))])
            BY <1>4 DEF EndIteration, Reply
        <3>2. l2 = [Goto(l, <<"llm", l.i + 1>>) EXCEPT
                      !.i = @ + 1, !.results = <<>>, !.messages = Append(@, Reply(r, l.results))]
            BY <1>2 DEF Goto, Fields
        <3> QED BY <3>1, <3>2
    <2>3. /\ l2.at = Llm(l.i + 1) /\ l2.out = None /\ l2.i = l.i + 1 /\ l2.calls = <<>>
          /\ l2.messages = m /\ DOMAIN l2 = Fields /\ Llm(l.i + 1)[1] = "llm"
        BY <1>1, <1>2 DEF Goto, Fields, Llm
    <2>4. l.i + 1 \in Iterations /\ l.i \in Nat /\ (l.i + 1) - 1 = l.i /\ l.i + 1 > 0
        BY <1>2, <2>1, OptionsAssumption DEF Iterations
    <2> HIDE DEF l2
    <2>5. Located(l2) /\ Approved(l2, granted[r])
        BY <2>3, <2>4 DEF Located, Approved, Prelude, CallPcs
    <2>6. Earlier(journal[r], l.i + 1)
        <3>1. \A j \in 0 .. (l.i + 1) - 1 : j \in 0 .. l.i - 1 \/ j = l.i
            BY <2>4
        <3> QED BY <1>2, <3>1 DEF Calling, Earlier
    <2>7. l.results = Results(all)
        <3>1. /\ l.results \in Seq([id : IdsOf(l.i), name : {NoName}]) /\ Len(l.results) + Len(l.calls) = Len(all)
              /\ \A j \in 1 .. Len(l.results) : l.results[j] = Given(all[j])
            BY <1>2 DEF Calling, Sorted
        <3>2. Len(l.calls) = 0 /\ Len(l.results) \in Nat
            BY <1>1, <3>1
        <3>3. Len(all) = Len(l.results)
            BY <3>1, <3>2
        <3>4. l.results = [j \in 1 .. Len(l.results) |-> l.results[j]]
            BY <3>1
        <3> QED BY <3>1, <3>3, <3>4 DEF Results
    <2>8. PICK q \in sent[r] : q[1] = Llm(l.i) /\ l.messages = Append(q[2], Use(r, all))
        BY <1>2 DEF Calling
    <2>9. Extended(r, journal[r], l.i, m, q)
        BY <2>7, <2>8 DEF Extended
    <2>10. ModelRequest(r, journal[r], sent[r], l.i + 1, m)
        BY <1>2, <2>4, <2>6, <2>9 DEF ModelRequest, Calling
    <2>11. Derived(r, journal[r], sent[r], l2)
        BY <2>3, <2>10 DEF Derived, CallPcs
    <2> QED BY <2>2, <2>3, <2>5, <2>11, ContinueKeeps DEF Good
<1> QED BY <1>3, <1>4

\* Behind the gate, the child and the tool.
LEMMA AfterCallKeeps ==
    ASSUME Replayable, NEW r \in Runs, AfterApproval(r) \/ AfterHandoff(r) \/ AfterTool(r)
    PROVE  Replayable'
<1> DEFINE l == local[r]
<1>1. l.at[1] \in CallPcs /\ Recorded(r)
    BY DEF AfterApproval, AfterHandoff, AfterTool, Resume, At, CallPcs
<1>2. Located(l) /\ l.calls # <<>> /\ Journaled(journal[r], granted[r])
    BY <1>1, Calls
<1>3. CASE Continue(r, Answered(l))
    BY <1>1, <1>2, <1>3, AnswerStep
<1>4. CASE Throw(r)
    BY <1>4, EndingsKeep
<1>5. CASE AfterApproval(r) /\ Result(r) = "approved"
    <2>1. Continue(r, Perform(l)) /\ l.at[1] = "approval"
        BY <1>5 DEF AfterApproval, Resume, At
    <2>2. l.at = <<"approval", l.i, Head(l.calls).id>>
        BY <1>2, <2>1 DEF Located, CallPcs
    <2>3. FreshIds => l.at \in granted[r]
        BY <1>1, <1>2, <1>5, <2>1 DEF Journaled, Recorded, Result
    <2> QED BY <1>1, <1>2, <2>1, <2>2, <2>3, PerformStep
<1> QED BY <1>3, <1>4, <1>5 DEF AfterApproval, AfterHandoff, AfterTool, Resume

\* The answer, its repair, the memory and the session.
LEMMA OutputKeeps ==
    ASSUME Replayable, NEW r \in Runs,
           ValidateOutput(r) \/ AfterFix(r) \/ AfterRemember(r) \/ AfterSave(r)
    PROVE  Replayable'
<1> DEFINE l == local[r]
<1>1. Recorded(r) \/ l.at[1] \notin Throwing
    BY DEF ValidateOutput, AfterFix, AfterRemember, AfterSave, Resume, At, Throwing
<1>2. l.out = None /\ Located(l) /\ DOMAIN l = Fields /\ Derived(r, journal[r], sent[r], l)
    BY <1>1, AtRest
<1>3. ASSUME NEW pc \in {"memory-remember", "save-session", "return"}, Continue(r, Goto(l, <<pc>>))
      PROVE  Replayable'
    <2> DEFINE l2 == Goto(l, <<pc>>)
    <2>1. /\ l2.at = <<pc>> /\ l2.out = None /\ l2.i = l.i /\ l2.calls = l.calls /\ DOMAIN l2 = Fields
          /\ <<pc>>[1] = pc
        BY <1>2 DEF Goto, Fields
    <2>2. Continue(r, l2)
        BY <1>3
    <2> HIDE DEF l2
    <2>3. Quiet(l2)
        BY <1>2, <1>3, <2>1 DEF Quiet, QuietPcs, Prelude, Located
    <2> QED BY <2>2, <2>3, QuietStep
<1>4. CASE Continue(r, AfterAnswer(r))
    BY <1>3, <1>4 DEF AfterAnswer
<1>5. CASE AfterRemember(r) \/ AfterSave(r)
    BY <1>3, <1>5 DEF AfterRemember, AfterSave, Resume
<1>6. CASE Throw(r)
    BY <1>6, EndingsKeep
<1>7. CASE ValidateOutput(r) /\ HasOutput /\ ~l.json
    <2> DEFINE m == l.messages \o <<Text("assistant", "text", {r}), Text("user", "text", {r})>>
               l2 == [Goto(l, <<"llm-output-fix">>) EXCEPT !.messages = m]
    <2>1. Continue(r, l2)
        <3>1. Continue(r, [Goto(l, <<"llm-output-fix">>) EXCEPT
                 !.messages = @ \o <<Text("assistant", "text", {r}), Text("user", "text", {r})>>])
            BY <1>7 DEF ValidateOutput
        <3>2. l2 = [Goto(l, <<"llm-output-fix">>) EXCEPT
                 !.messages = @ \o <<Text("assistant", "text", {r}), Text("user", "text", {r})>>]
            BY <1>2 DEF Goto, Fields
        <3> QED BY <3>1, <3>2
    <2>2. /\ l2.at = <<"llm-output-fix">> /\ l2.out = None /\ l2.i = l.i /\ l2.calls = l.calls
          /\ l2.messages = m /\ DOMAIN l2 = Fields
        BY <1>2 DEF Goto, Fields
    <2>3. /\ Earlier(journal[r], l.i) /\ Ended(journal[r], l.i) /\ <<Llm(l.i), l.messages>> \in sent[r]
          /\ l.i \in Iterations
        BY <1>2, <1>7 DEF ValidateOutput, At, Derived, Located
    <2>4. FixRequest(r, journal[r], sent[r], m)
        <3> DEFINE q == <<Llm(l.i), l.messages>>
        <3>1. q \in sent[r] /\ Repaired(r, m, l.i, q)
            BY <2>3 DEF Repaired
        <3> QED BY <2>3, <3>1 DEF FixRequest
    <2> HIDE DEF l2, m
    <2>5. Located(l2) /\ Approved(l2, granted[r])
        BY <1>2, <2>2 DEF Located, Approved, Prelude, CallPcs
    <2>6. Derived(r, journal[r], sent[r], l2)
        BY <2>2, <2>4 DEF Derived, CallPcs
    <2> QED BY <2>1, <2>2, <2>5, <2>6, ContinueKeeps DEF Good
<1> QED BY <1>4, <1>5, <1>6, <1>7 DEF ValidateOutput, AfterFix

-----------------------------------------------------------------------------
(* The theorems *)

\* A run is triggered.
LEMMA TriggerKeeps == ASSUME Replayable, NEW r \in Runs, Trigger(r) PROVE Replayable'
<1>1. /\ status'[r] = "created" /\ Shape' /\ \A q \in Runs \ {r} : Same(q)
      /\ UNCHANGED <<local, journal, waiting, sent, executed, granted>>
    BY DEF Trigger, Replayable, Shape, Same
<1>2. Consistent(r)'
    BY <1>1 DEF Replayable, Consistent, Waits, Recorded, Suspended
<1> QED BY <1>1, <1>2, OneRun

\* The process dies, and all attempts with it.
LEMMA CrashKeeps == ASSUME Replayable, Crash PROVE Replayable'
<1>1. /\ UNCHANGED <<journal, waiting, sent, executed, granted>>
      /\ local' = [r \in Runs |-> FreshAttempt] /\ DOMAIN status' = Runs
      /\ \A r \in Runs : status'[r] \in {status[r], "stranded"}
    BY DEF Crash, history
<1>2. Shape'
    BY <1>1 DEF Replayable, Shape
<1>3. ASSUME NEW r \in Runs PROVE Consistent(r)'
    <2>1. Good(r, journal[r], sent[r], granted[r], FreshAttempt) /\ FreshAttempt.out = None
        BY QuietGood, FreshQuiet DEF FreshAttempt
    <2> QED BY <1>1, <2>1 DEF Replayable, Consistent, Waits, Recorded, Suspended
<1> QED BY <1>2, <1>3 DEF Replayable

\* Nothing is journaled, asked or granted at first.
LEMMA ReplayableInit == Init => Replayable
<1> SUFFICES ASSUME Init PROVE Replayable
    OBVIOUS
<1>1. Shape
    BY DEF Init, Shape
<1>2. ASSUME NEW r \in Runs PROVE Consistent(r)
    <2>1. /\ status[r] = "new" /\ DOMAIN journal[r] = {} /\ local[r] = FreshAttempt
          /\ sent[r] = {} /\ executed[r] = {} /\ granted[r] = {}
        BY DEF Init
    <2>2. Good(r, journal[r], sent[r], granted[r], FreshAttempt) /\ FreshAttempt.out = None
        BY QuietGood, FreshQuiet DEF FreshAttempt
    <2>3. Journaled(journal[r], granted[r]) /\ Requests(r, journal[r], sent[r]) /\ Gated(executed[r], granted[r])
        BY <2>1 DEF Journaled, Requests, Gated
    <2> QED BY <2>1, <2>2, <2>3 DEF Consistent, Waits, Suspended
<1> QED BY <1>1, <1>2 DEF Replayable

\* Every step of every run keeps the invariant.
LEMMA ReplayableStep == Replayable /\ [Next]_vars => Replayable'
<1> SUFFICES ASSUME Replayable, [Next]_vars PROVE Replayable'
    OBVIOUS
<1>1. ASSUME NEW r \in Runs, Advance(r) PROVE Replayable'
    BY <1>1, PlainBodies, PreludeKeeps, CallModelKeeps, AfterModelKeeps, DispatchKeeps,
       EndIterationKeeps, SuspendKeeps, AfterCallKeeps, ExecuteKeeps, OutputKeeps, CallFixKeeps,
       EndingsKeep, RecordStepKeeps DEF Advance
<1>2. CASE UNCHANGED vars
    BY <1>2 DEF vars, Replayable, Shape, Consistent, Waits, Recorded
<1> QED BY <1>1, <1>2, TriggerKeeps, WaitsEnd, EndingsKeep, CrashKeeps DEF Next, Done

\* makeAgent (agent.ts): the invariant that ties every attempt to its journal.
THEOREM AttemptsReplay == Spec => []Replayable
BY ReplayableInit, ReplayableStep, PTL DEF Spec

\* The gate (agent.ts 351-376): with fresh ids a gated tool never runs without
\* an operator's approval of that call, however attempts, answers, timeouts,
\* crashes and the other runs interleave.
THEOREM GatesHold == FreshIds => (Spec => []GatedNeedsApproval)
<1> SUFFICES ASSUME FreshIds PROVE Spec => []GatedNeedsApproval
    OBVIOUS
<1>1. Replayable => GatedNeedsApproval
    BY DEF Replayable, Consistent, Gated, GatedNeedsApproval
<1> QED BY <1>1, AttemptsReplay, PTL

\* Replays (agent.ts 260-294): every attempt asks the model the same in each
\* iteration, whatever other runs write to the session and the memory meanwhile.
THEOREM ReplaysAgree == Spec => []ReplaysAskTheSame
<1>1. Replayable => ReplaysAskTheSame
    BY DEF Replayable, Consistent, Requests, ReplaysAskTheSame
<1> QED BY <1>1, AttemptsReplay, PTL

-----------------------------------------------------------------------------
(* Conversations *)

IsSeq(m) == m \in Seq(Range(m))

\* Every call is answered by the message behind it, and an answer whose calls are not
\* there stands where the conversation was cut.
Paired(m) ==
  \A j \in 1 .. Len(m) :
     /\ m[j].kind = "toolUse" =>
          j + 1 <= Len(m) /\ m[j + 1].kind = "toolResult" /\ m[j + 1].calls = Results(m[j].calls)
     /\ m[j].kind = "toolResult" => j = 1 \/ m[j - 1].kind \in {"toolUse", "summary"}

\* The calls are those of a reply that some run has journaled; JJ is the journals.
Turn(JJ, p, i) == Llm(i) \in DOMAIN JJ[p]
Replied(JJ, calls) ==
  \E p \in Runs : \E i \in Iterations : Turn(JJ, p, i) /\ calls = toolUses(JJ[p][Llm(i)])
Sourced(m, JJ) ==
  \A j \in 1 .. Len(m) :
     /\ m[j].kind = "toolUse" => m[j].role = "assistant" /\ Replied(JJ, m[j].calls)
     /\ m[j].role = "assistant" /\ m[j].kind # "toolUse" => m[j].calls = <<>>
     /\ m[j].kind = "toolResult" => IsSeq(m[j].calls)

Mentions(m, q) == \E j \in 1 .. Len(m) : q \in m[j].of

\* A conversation that can be sent, and speaks of the runs in Q.
Fit(m, Q, JJ) == IsSeq(m) /\ Paired(m) /\ Sourced(m, JJ) /\ \A q \in Q : Mentions(m, q)

\* The ids of the calls of a reply say which call it is.
Numbered(p, i, response) ==
  \A k \in 1 .. Len(response.calls) :
     response.calls[k].id = IF FreshIds THEN <<<<p, i>>, k>> ELSE <<response.calls[k].name, k>>

-----------------------------------------------------------------------------
(* What a run has to know of the session *)

\* The earlier runs of the session that r must know of: no third run came between.
Owed(r) ==
  {q \in before[r] :
     /\ Session[q] = Session[r] /\ Session[r] # NoSession
     /\ \A p \in Runs \ {q, r} :
          Session[p] = Session[r] => p \in before[q] \/ r \in before[p] \/ status[p] = "new"}

\* Nobody else of q's session has been at work since q was triggered.
Alone(q) == \A p \in Runs \ {q} : Session[p] = Session[q] => p \in before[q] \/ status[p] = "new"

Saved(q) == \/ <<"save-session">> \in DOMAIN journal[q]
            \/ local[q].at[1] = "save-session" /\ local[q].out # None

Latest(m, q) == Len(m) > 0 /\ q \in m[Len(m)].of

Speaking == {"memory-recall", "memory-compress", "llm", "output", "llm-output-fix",
             "memory-remember", "save-session"}

\* The conversations of run r: those it has journaled, sent, and holds.
Talk(r, J, S, l, Q, JJ) ==
  /\ \A k \in DOMAIN J \cap {<<"session">>, <<"memory-compress">>} : Fit(J[k], Q, JJ)
  /\ \A request \in S : Fit(request[2], Q, JJ)
  /\ l.at[1] \in {"session", "memory-compress"} /\ l.out # None => Fit(l.out, Q, JJ)
  /\ l.at[1] \in Speaking => Fit(l.messages, Q, JJ)
  /\ \A i \in Iterations : Llm(i) \in DOMAIN J => Numbered(r, i, J[Llm(i)])
  /\ l.at[1] = "llm" /\ l.out # None => Numbered(r, l.i, l.out)
  /\ l.at[1] # "session" => <<"session">> \in DOMAIN J
  /\ l.at[1] = "save-session" => l.at = <<"save-session">>
  /\ l.at[1] = "return" /\ Session[r] # NoSession => <<"save-session">> \in DOMAIN J

\* How far a run is, by its status.
Stage(r) ==
  /\ before[r] \subseteq {q \in Runs : status[q] = "completed"}
  /\ status[r] = "new" => /\ DOMAIN journal[r] = {} /\ sent[r] = {} /\ before[r] = {}
                          /\ local[r] = FreshAttempt
  /\ status[r] = "completed" => /\ <<"session">> \in DOMAIN journal[r]
                                /\ Session[r] # NoSession => <<"save-session">> \in DOMAIN journal[r]

\* What the store of sessions holds for run r.
Stored(r) ==
  Session[r] # NoSession =>
     /\ Saved(r) /\ Alone(r) => Latest(sessions[Session[r]], r)
     /\ <<"session">> \notin DOMAIN journal[r] => \A q \in Owed(r) : Latest(sessions[Session[r]], q)

\* The inductive invariant, beside Replayable.
Telling ==
  /\ DOMAIN sessions = SessionIds /\ DOMAIN before = Runs
  /\ \A s \in SessionIds : Fit(sessions[s], {}, journal)
  /\ \A r \in Runs : /\ Talk(r, journal[r], sent[r], local[r], Owed(r), journal)
                     /\ Stage(r) /\ Stored(r)


\* A sequence over any set is one over its own elements.
LEMMA SeqRange == ASSUME NEW S, NEW m \in Seq(S) PROVE IsSeq(m)
<1>1. Len(m) \in Nat /\ DOMAIN m = 1 .. Len(m)
    OBVIOUS
<1>2. \A j \in 1 .. Len(m) : m[j] \in Range(m)
    BY <1>1 DEF Range
<1>3. m = [j \in 1 .. Len(m) |-> m[j]]
    BY <1>1
<1> QED BY <1>1, <1>2, <1>3 DEF IsSeq

\* What a sequence is, and that any set around its elements will do.
LEMMA SeqBasics ==
    ASSUME NEW m, IsSeq(m)
    PROVE  /\ Len(m) \in Nat /\ DOMAIN m = 1 .. Len(m)
           /\ \A S : Range(m) \subseteq S => m \in Seq(S)
<1>1. m \in Seq(Range(m))
    BY DEF IsSeq
<1>2. Len(m) \in Nat /\ DOMAIN m = 1 .. Len(m) /\ m = [j \in 1 .. Len(m) |-> m[j]]
    BY <1>1
<1>3. ASSUME NEW S, Range(m) \subseteq S PROVE m \in Seq(S)
    <2>1. \A j \in 1 .. Len(m) : m[j] \in S
        BY <1>2, <1>3 DEF Range
    <2> QED BY <1>2, <2>1
<1> QED BY <1>2, <1>3

\* One more message.
LEMMA AppendSeq ==
    ASSUME NEW m, IsSeq(m), NEW x
    PROVE  LET a == Append(m, x)
           IN  /\ IsSeq(a) /\ Len(a) = Len(m) + 1 /\ a[Len(m) + 1] = x
               /\ \A j \in 1 .. Len(m) : a[j] = m[j]
<1> DEFINE a == Append(m, x)
           S == Range(m) \cup {x}
<1>1. m \in Seq(S) /\ x \in S
    BY SeqBasics
<1> HIDE DEF S
<1>2. /\ a \in Seq(S) /\ Len(a) = Len(m) + 1 /\ a[Len(m) + 1] = x
      /\ \A j \in 1 .. Len(m) : a[j] = m[j]
    BY <1>1, AppendProperties
<1> HIDE DEF a
<1>3. IsSeq(a)
    BY <1>2, SeqRange
<1> QED BY <1>2, <1>3 DEF a

\* Two conversations, one behind the other.
LEMMA ConcatSeq ==
    ASSUME NEW m, NEW n, IsSeq(m), IsSeq(n)
    PROVE  LET a == m \o n
           IN  /\ IsSeq(a) /\ Len(a) = Len(m) + Len(n)
               /\ \A j \in 1 .. Len(m) : a[j] = m[j]
               /\ \A j \in 1 .. Len(n) : a[Len(m) + j] = n[j]
<1> DEFINE a == m \o n
           S == Range(m) \cup Range(n)
<1>1. m \in Seq(S) /\ n \in Seq(S)
    BY SeqBasics
<1> HIDE DEF S
<1>2. a \in Seq(S) /\ Len(a) = Len(m) + Len(n)
    BY <1>1, ConcatProperties
<1>3. \A j \in 1 .. Len(m) + Len(n) : a[j] = IF j <= Len(m) THEN m[j] ELSE n[j - Len(m)]
    BY <1>1, ConcatProperties
<1> HIDE DEF a
<1>4. PICK x, y \in Nat : x = Len(m) /\ y = Len(n)
    BY SeqBasics
<1>5. \A j \in 1 .. x : a[j] = m[j]
    <2> TAKE j \in 1 .. x
    <2>1. j \in 1 .. x + y /\ j <= x
        BY <1>4
    <2> QED BY <1>3, <1>4, <2>1
<1>6. \A j \in 1 .. y : a[x + j] = n[j]
    <2> TAKE j \in 1 .. y
    <2>1. x + j \in 1 .. x + y /\ ~(x + j <= x) /\ (x + j) - x = j
        BY <1>4
    <2> QED BY <1>3, <1>4, <2>1
<1>7. IsSeq(a)
    BY <1>2, SeqRange
<1> QED BY <1>2, <1>4, <1>5, <1>6, <1>7 DEF a

\* The newest messages are the end of the conversation, the last one among them.
LEMMA NewestSeq ==
    ASSUME NEW m, IsSeq(m), NEW n \in Nat \ {0}, NEW a, a = Newest(m, n)
    PROVE  \E d \in 0 .. Len(m) :
             /\ IsSeq(a) /\ Len(a) = Len(m) - d /\ (Len(m) > 0 => d < Len(m))
             /\ Len(m) > n => d = Len(m) - n
             /\ \A j \in 1 .. Len(a) : a[j] = m[d + j]
<1>1. PICK k \in Nat : k = Len(m)
    BY SeqBasics
<1>2. PICK d \in 0 .. k : d = IF k > n THEN k - n ELSE 0
    BY <1>1
<1>3. a = SubSeq(m, d + 1, k)
    BY <1>1, <1>2 DEF Newest
<1>4. m \in Seq(Range(m))
    BY DEF IsSeq
<1>5. a \in Seq(Range(m)) /\ Len(a) = k - d /\ \A j \in 1 .. k - d : a[j] = m[d + j]
    <2>1. CASE d = k
        <3>1. a = <<>>
            BY <1>1, <1>3, <1>4, <2>1, SubSeqProperties
        <3> QED BY <2>1, <3>1
    <2>2. CASE d # k
        <3>1. d + 1 \in 1 .. k /\ d + 1 <= k /\ k \in 0 .. k /\ k - (d + 1) + 1 = k - d
            BY <2>2
        <3>2. a = [i \in 1 .. k - d |-> m[i + d]]
            <4>1. \A i \in 1 .. k - d : i + (d + 1) - 1 = i + d
                BY <1>2
            <4> QED BY <1>1, <1>3, <1>4, <3>1, <4>1
        <3>3. \A i \in 1 .. k - d : m[i + d] \in Range(m) /\ i + d = d + i
            <4> TAKE i \in 1 .. k - d
            <4>1. i + d \in 1 .. k /\ i + d = d + i
                BY <1>2
            <4> QED BY <1>1, <4>1, SeqBasics DEF Range
        <3> HIDE DEF Range
        <3> QED BY <3>2, <3>3
    <2> QED BY <2>1, <2>2
<1>6. IsSeq(a)
    BY <1>5, SeqRange
<1>7. (k > 0 => d < k) /\ (k > n => d = k - n)
    BY <1>2
<1> QED BY <1>1, <1>5, <1>6, <1>7
-----------------------------------------------------------------------------
(* Conversations that can be sent *)

\* a is m with n behind it.
Joined(a, m, n) ==
  /\ IsSeq(a) /\ Len(a) = Len(m) + Len(n)
  /\ \A j \in 1 .. Len(m) : a[j] = m[j]
  /\ \A j \in 1 .. Len(n) : a[Len(m) + j] = n[j]

\* Two conversations make one, if results at the start of the second stand where the
\* conversation was cut.
LEMMA JoinedFit ==
    ASSUME NEW JJ, NEW m, NEW n, NEW a, Joined(a, m, n), Fit(m, {}, JJ), Fit(n, {}, JJ),
           Len(n) > 0 /\ n[1].kind = "toolResult" => Len(m) = 0 \/ m[Len(m)].kind = "summary",
           NEW Q, \A q \in Q : Mentions(m, q) \/ Mentions(n, q)
    PROVE  Fit(a, Q, JJ)
<1>1. PICK x, y \in Nat : x = Len(m) /\ y = Len(n)
    BY SeqBasics DEF Fit
<1>2. /\ IsSeq(a) /\ Len(a) = x + y /\ \A j \in 1 .. x : a[j] = m[j]
      /\ \A j \in 1 .. y : a[x + j] = n[j]
    BY <1>1 DEF Joined
<1>3. ASSUME NEW j \in 1 .. x + y
      PROVE  j \in 1 .. x \/ \E k \in 1 .. y : j = x + k
    <2>1. j \in 1 .. x \/ (j - x \in 1 .. y /\ j = x + (j - x))
        OBVIOUS
    <2> QED BY <2>1
<1>4. Sourced(a, JJ)
    <2> SUFFICES ASSUME NEW j \in 1 .. x + y
                 PROVE  /\ a[j].kind = "toolUse" => a[j].role = "assistant" /\ Replied(JJ, a[j].calls)
                        /\ a[j].role = "assistant" /\ a[j].kind # "toolUse" => a[j].calls = <<>>
                        /\ a[j].kind = "toolResult" => IsSeq(a[j].calls)
        BY <1>2 DEF Sourced
    <2>1. (\E k \in 1 .. x : a[j] = m[k]) \/ (\E k \in 1 .. y : a[j] = n[k])
        BY <1>2, <1>3
    <2> QED BY <1>1, <2>1 DEF Fit, Sourced
<1>5. Paired(a)
    <2> SUFFICES ASSUME NEW j \in 1 .. x + y
                 PROVE  /\ a[j].kind = "toolUse" =>
                              j + 1 <= x + y /\ a[j + 1].kind = "toolResult"
                              /\ a[j + 1].calls = Results(a[j].calls)
                        /\ a[j].kind = "toolResult" => j = 1 \/ a[j - 1].kind \in {"toolUse", "summary"}
        BY <1>2 DEF Paired
    <2>1. CASE j \in 1 .. x
        <3>1. a[j] = m[j]
            BY <1>2, <2>1
        <3>2. ASSUME a[j].kind = "toolUse"
              PROVE  j + 1 <= x + y /\ a[j + 1].kind = "toolResult" /\ a[j + 1].calls = Results(a[j].calls)
            <4>1. j + 1 <= x /\ m[j + 1].kind = "toolResult" /\ m[j + 1].calls = Results(m[j].calls)
                BY <1>1, <2>1, <3>1, <3>2 DEF Fit, Paired
            <4>2. j + 1 \in 1 .. x /\ j + 1 <= x + y
                BY <2>1, <4>1
            <4> QED BY <1>2, <3>1, <4>1, <4>2
        <3>3. ASSUME a[j].kind = "toolResult", j # 1 PROVE a[j - 1].kind \in {"toolUse", "summary"}
            <4>1. m[j - 1].kind \in {"toolUse", "summary"}
                BY <1>1, <2>1, <3>1, <3>3 DEF Fit, Paired
            <4>2. j - 1 \in 1 .. x
                BY <2>1, <3>3
            <4> QED BY <1>2, <4>1, <4>2
        <3> QED BY <3>2, <3>3
    <2>2. CASE j \notin 1 .. x
        <3>1. PICK k \in 1 .. y : j = x + k
            BY <1>3, <2>2
        <3>2. a[j] = n[k]
            BY <1>2, <3>1
        <3>3. ASSUME a[j].kind = "toolUse"
              PROVE  j + 1 <= x + y /\ a[j + 1].kind = "toolResult" /\ a[j + 1].calls = Results(a[j].calls)
            <4>1. k + 1 <= y /\ n[k + 1].kind = "toolResult" /\ n[k + 1].calls = Results(n[k].calls)
                BY <1>1, <3>2, <3>3 DEF Fit, Paired
            <4>3. k + 1 <= y
                BY <4>1
            <4>2. k + 1 \in 1 .. y /\ j + 1 <= x + y /\ j + 1 = x + (k + 1)
                BY <3>1, <4>3
            <4> QED BY <1>2, <3>2, <4>1, <4>2
        <3>4. ASSUME a[j].kind = "toolResult", j # 1 PROVE a[j - 1].kind \in {"toolUse", "summary"}
            <4>1. CASE k = 1
                <5>1. j - 1 = x /\ x # 0 /\ x \in 1 .. x /\ y > 0
                    BY <3>1, <3>4, <4>1
                <5>2. m[x].kind = "summary"
                    BY <1>1, <3>2, <3>4, <4>1, <5>1
                <5> QED BY <1>2, <5>1, <5>2
            <4>2. CASE k # 1
                <5>1. n[k - 1].kind \in {"toolUse", "summary"}
                    BY <1>1, <3>2, <3>4, <4>2 DEF Fit, Paired
                <5>2. k - 1 \in 1 .. y /\ j - 1 = x + (k - 1)
                    BY <3>1, <4>2
                <5> QED BY <1>2, <5>1, <5>2
            <4> QED BY <4>1, <4>2
        <3> QED BY <3>3, <3>4
    <2> QED BY <2>1, <2>2
<1>6. \A q \in Q : Mentions(a, q)
    <2> TAKE q \in Q
    <2>1. \A j \in 1 .. x : j \in 1 .. x + y
        OBVIOUS
    <2>2. \A j \in 1 .. y : x + j \in 1 .. x + y
        OBVIOUS
    <2> QED BY <1>1, <1>2, <2>1, <2>2 DEF Mentions
<1> QED BY <1>2, <1>4, <1>5, <1>6 DEF Fit

\* So is its end, if it keeps the last message of those it has to speak of.
LEMMA EndFit ==
    ASSUME NEW JJ, NEW m, Fit(m, {}, JJ), NEW n \in Nat \ {0}
    PROVE  /\ Fit(Newest(m, n), {}, JJ)
           /\ \A q : Latest(m, q) => Latest(Newest(m, n), q)
<1> DEFINE a == Newest(m, n)
<1>0. IsSeq(m)
    BY DEF Fit
<1>1. PICK x \in Nat : x = Len(m)
    BY SeqBasics DEF Fit
<1> HIDE DEF a
<1>2. PICK d \in 0 .. x : /\ IsSeq(a) /\ Len(a) = x - d /\ (x > 0 => d < x)
                          /\ \A j \in 1 .. x - d : a[j] = m[d + j]
    <2>1. PICK d \in 0 .. Len(m) :
             /\ IsSeq(a) /\ Len(a) = Len(m) - d /\ (Len(m) > 0 => d < Len(m))
             /\ Len(m) > n => d = Len(m) - n
             /\ \A j \in 1 .. Len(a) : a[j] = m[d + j]
        <3>1. a = Newest(m, n)
            BY DEF a
        <3> QED BY <1>0, <3>1, NewestSeq
    <2>2. d \in 0 .. x /\ Len(a) = x - d /\ (x > 0 => d < x) /\ \A j \in 1 .. x - d : a[j] = m[d + j]
        BY <1>1, <2>1
    <2> QED BY <2>1, <2>2
<1>3. \A j \in 1 .. x - d : d + j \in 1 .. x /\ (j + 1 <= x - d <=> (d + j) + 1 <= x)
                            /\ d + (j + 1) = (d + j) + 1 /\ (j # 1 => d + (j - 1) = (d + j) - 1)
                            /\ (j # 1 => j - 1 \in 1 .. x - d /\ d + j # 1)
                            /\ (j + 1 <= x - d => j + 1 \in 1 .. x - d)
    OBVIOUS
<1>4. Sourced(a, JJ)
    BY <1>1, <1>2, <1>3 DEF Fit, Sourced
<1>5. Paired(a)
    <2> SUFFICES ASSUME NEW j \in 1 .. x - d
                 PROVE  /\ a[j].kind = "toolUse" =>
                              j + 1 <= x - d /\ a[j + 1].kind = "toolResult"
                              /\ a[j + 1].calls = Results(a[j].calls)
                        /\ a[j].kind = "toolResult" => j = 1 \/ a[j - 1].kind \in {"toolUse", "summary"}
        BY <1>2 DEF Paired
    <2>1. /\ m[d + j].kind = "toolUse" =>
                 (d + j) + 1 <= x /\ m[(d + j) + 1].kind = "toolResult"
                 /\ m[(d + j) + 1].calls = Results(m[d + j].calls)
          /\ m[d + j].kind = "toolResult" => d + j = 1 \/ m[(d + j) - 1].kind \in {"toolUse", "summary"}
        BY <1>1, <1>3 DEF Fit, Paired
    <2>2. a[j] = m[d + j]
        BY <1>2
    <2>3. j + 1 <= x - d => a[j + 1] = m[(d + j) + 1]
        BY <1>2, <1>3
    <2>4. j # 1 => a[j - 1] = m[(d + j) - 1]
        BY <1>2, <1>3
    <2> QED BY <1>3, <2>1, <2>2, <2>3, <2>4
<1>6. ASSUME NEW q, Latest(m, q) PROVE Latest(a, q)
    <2>1. x > 0 /\ q \in m[x].of
        BY <1>1, <1>6 DEF Latest
    <2>2. x - d \in 1 .. x - d /\ d + (x - d) = x /\ x - d > 0
        BY <1>2, <2>1
    <2>3. a[x - d] = m[x]
        BY <1>2, <2>2
    <2> QED BY <1>2, <2>1, <2>2, <2>3 DEF Latest
<1> QED BY <1>2, <1>4, <1>5, <1>6 DEF Fit, a

\* What a conversation says stays true when the journals grow.
LEMMA FitCarries ==
    ASSUME NEW JJ, NEW JJ2, \A p \in Runs : Grows(JJ[p], JJ2[p]), NEW Q, NEW Q2, Q2 \subseteq Q,
           NEW m, Fit(m, Q, JJ)
    PROVE  Fit(m, Q2, JJ2)
<1>1. \A calls : Replied(JJ, calls) => Replied(JJ2, calls)
    BY DEF Replied, Turn, Grows
<1>2. Sourced(m, JJ2)
    BY <1>1 DEF Fit, Sourced
<1> QED BY <1>2 DEF Fit

\* No message is a conversation.
LEMMA NothingFit == ASSUME NEW JJ PROVE Fit(<<>>, {}, JJ) /\ Len(<<>>) = 0
<1>1. IsSeq(<<>>) /\ Len(<<>>) = 0
    BY DEF IsSeq
<1> QED BY <1>1 DEF Fit, Paired, Sourced

\* A message that is neither a call nor a result.
Plain(x) == x.kind \notin {"toolUse", "toolResult"} /\ x.calls = <<>>

\* One message of that kind is a conversation.
LEMMA OneFit ==
    ASSUME NEW JJ, NEW x, Plain(x)
    PROVE  Fit(<<x>>, {}, JJ) /\ Len(<<x>>) = 1 /\ <<x>>[1] = x
<1>1. /\ <<x>> \in Seq({x}) /\ Len(<<x>>) = 1 /\ \A j \in 1 .. 1 : <<x>>[j] = x
    OBVIOUS
<1>2. IsSeq(<<x>>)
    BY <1>1, SeqRange
<1> QED BY <1>1, <1>2 DEF Fit, Paired, Sourced, Plain

\* One more of them.
LEMMA AppendFit ==
    ASSUME NEW JJ, NEW m, NEW Q, Fit(m, Q, JJ), NEW x, Plain(x)
    PROVE  /\ Fit(Append(m, x), Q, JJ) /\ \A q \in x.of : Latest(Append(m, x), q)
<1> DEFINE a == Append(m, x)
           n == <<x>>
<1>1. IsSeq(m) /\ Fit(m, {}, JJ) /\ \A q \in Q : Mentions(m, q)
    BY DEF Fit
<1>2. Fit(n, {}, JJ) /\ Len(n) = 1 /\ n[1] = x
    BY OneFit
<1>3. IsSeq(a) /\ Len(a) = Len(m) + 1 /\ a[Len(m) + 1] = x
      /\ \A j \in 1 .. Len(m) : a[j] = m[j]
    BY <1>1, AppendSeq
<1> HIDE DEF a, n
<1>4. Joined(a, m, n)
    BY <1>2, <1>3 DEF Joined
<1>5. ~(Len(n) > 0 /\ n[1].kind = "toolResult")
    BY <1>2 DEF Plain
<1>9. \A q \in Q : Mentions(m, q) \/ Mentions(n, q)
    BY <1>1
<1>10. Len(n) > 0 /\ n[1].kind = "toolResult" => Len(m) = 0 \/ m[Len(m)].kind = "summary"
    BY <1>5
<1>6. Fit(a, Q, JJ)
    BY <1>1, <1>2, <1>4, <1>9, <1>10, JoinedFit
<1>7. Len(m) \in Nat
    BY <1>1, SeqBasics
<1>8. \A q \in x.of : Latest(a, q)
    BY <1>3, <1>7 DEF Latest
<1> QED BY <1>6, <1>8 DEF a

\* A text is such a message.
LEMMA TextPlain ==
    ASSUME NEW role, NEW kind \in {"text", "memory", "summary"}, NEW of
    PROVE  Plain(Text(role, kind, of)) /\ Text(role, kind, of).of = of /\ Text(role, kind, of).kind = kind
BY DEF Plain, Text

\* Two conversations of which the second starts with no result.
LEMMA ConcatFit ==
    ASSUME NEW JJ, NEW m, NEW Q, Fit(m, Q, JJ), NEW n, Fit(n, {}, JJ),
           Len(n) > 0 /\ n[1].kind = "toolResult" => Len(m) = 0 \/ m[Len(m)].kind = "summary"
    PROVE  Fit(m \o n, Q, JJ)
<1> DEFINE a == m \o n
<1>1. IsSeq(m) /\ IsSeq(n) /\ Fit(m, {}, JJ) /\ \A q \in Q : Mentions(m, q)
    BY DEF Fit
<1>2. Joined(a, m, n)
    BY <1>1, ConcatSeq DEF Joined
<1> HIDE DEF a
<1>4. \A q \in Q : Mentions(m, q) \/ Mentions(n, q)
    BY <1>1
<1>3. Fit(a, Q, JJ)
    BY <1>1, <1>2, <1>4, JoinedFit
<1> QED BY <1>3 DEF a

\* The prompt knows what the history knows.
LEMMA PromptFit ==
    ASSUME NEW JJ, NEW r, NEW past, NEW Q, Fit(past, Q, JJ), NEW hits
    PROVE  Fit(Prompt(r, past, hits), Q, JJ)
<1> DEFINE recalled == IF hits = {} THEN <<>> ELSE <<Text("user", "memory", hits)>>
           asked == <<Text("user", "text", {r})>>
<1>1. Fit(recalled, {}, JJ) /\ ~(Len(recalled) > 0 /\ recalled[1].kind = "toolResult")
    <2>1. CASE hits = {}
        BY <2>1, NothingFit
    <2>2. CASE hits # {}
        <3> DEFINE x == Text("user", "memory", hits)
        <3>1. Plain(x) /\ x.kind # "toolResult"
            BY TextPlain
        <3> HIDE DEF x
        <3>2. Fit(<<x>>, {}, JJ) /\ <<x>>[1] = x
            BY <3>1, OneFit
        <3> QED BY <2>2, <3>1, <3>2 DEF x
    <2> QED BY <2>1, <2>2
<1>2. Fit(asked, {}, JJ) /\ ~(Len(asked) > 0 /\ asked[1].kind = "toolResult")
    <2> DEFINE x == Text("user", "text", {r})
    <2>1. Plain(x) /\ x.kind # "toolResult"
        BY TextPlain
    <2> HIDE DEF x
    <2>2. Fit(<<x>>, {}, JJ) /\ <<x>>[1] = x
        BY <2>1, OneFit
    <2> QED BY <2>1, <2>2 DEF x
<1> HIDE DEF recalled, asked
<1>3. Fit(past \o recalled, Q, JJ)
    BY <1>1, ConcatFit
<1>4. Fit((past \o recalled) \o asked, Q, JJ)
    BY <1>2, <1>3, ConcatFit
<1> QED BY <1>4 DEF Prompt, recalled, asked

\* So does the summary with the newest messages behind it.
LEMMA CompressFit ==
    ASSUME NEW JJ, NEW m, NEW Q, Fit(m, Q, JJ)
    PROVE  Fit(Compress(m), Q, JJ)
<1>1. CASE Len(m) <= KeepRecent
    BY <1>1 DEF Compress
<1>2. CASE ~(Len(m) <= KeepRecent)
    <2> DEFINE older == SubSeq(m, 1, Len(m) - KeepRecent)
               x == Text("user", "summary", UNION {older[j].of : j \in DOMAIN older})
               n == Newest(m, KeepRecent)
               a == <<x>> \o n
    <2>1. IsSeq(m) /\ Fit(m, {}, JJ) /\ KeepRecent \in Nat \ {0}
        BY OptionsAssumption DEF Fit
    <2>2. PICK k \in Nat : k = Len(m)
        BY <2>1, SeqBasics
    <2>3. PICK d \in Nat : d = k - KeepRecent /\ d >= 1 /\ d < k
        <3>1. k - KeepRecent \in Nat /\ k - KeepRecent >= 1 /\ k - KeepRecent < k
            BY <1>2, <2>1, <2>2
        <3> QED BY <3>1
    <2>4. \A j \in 1 .. d : j \in DOMAIN older /\ older[j] = m[j]
        <3>1. \A j \in 1 .. d : m[j] \in Range(m)
            BY <2>1, <2>2, <2>3, SeqBasics DEF Range
        <3>2. /\ SubSeq(m, 1, d) \in Seq(Range(m)) /\ Len(SubSeq(m, 1, d)) = d
              /\ \A j \in 1 .. d : SubSeq(m, 1, d)[j] = m[j]
            <4>1. 1 \in Int /\ d \in Int /\ 1 <= d /\ d - 1 + 1 = d /\ \A j \in 1 .. d : 1 + j - 1 = j
                BY <2>3
            <4> HIDE DEF Range
            <4> QED BY <3>1, <4>1, SubSeqProperties
        <3>3. DOMAIN SubSeq(m, 1, d) = 1 .. d
            BY <3>2
        <3>4. older = SubSeq(m, 1, d)
            BY <2>2, <2>3
        <3> HIDE DEF older
        <3> QED BY <3>2, <3>3, <3>4
    <2>5. \A j \in 1 .. d : m[j].of \subseteq x.of
        <3> HIDE DEF older
        <3>1. x.of = UNION {older[j].of : j \in DOMAIN older}
            BY DEF Text
        <3> HIDE DEF x
        <3> QED BY <2>4, <3>1
    <2>6. Plain(x) /\ x.kind = "summary"
        BY TextPlain
    <2> HIDE DEF x, older
    <2>7. Fit(<<x>>, {}, JJ) /\ Len(<<x>>) = 1 /\ <<x>>[1] = x
        BY <2>6, OneFit
    <2>8. Fit(n, {}, JJ)
        BY <2>1, EndFit
    <2>9. Len(n) = k - d /\ \A j \in 1 .. k - d : n[j] = m[d + j]
        <3>1. PICK e \in 0 .. Len(m) :
                /\ IsSeq(n) /\ Len(n) = Len(m) - e /\ (Len(m) > 0 => e < Len(m))
                /\ Len(m) > KeepRecent => e = Len(m) - KeepRecent
                /\ \A j \in 1 .. Len(n) : n[j] = m[e + j]
            <4> HIDE DEF n
            <4>1. n = Newest(m, KeepRecent)
                BY DEF n
            <4> QED BY <2>1, <4>1, NewestSeq
        <3>2. e = d
            BY <1>2, <2>1, <2>2, <2>3, <3>1
        <3> QED BY <2>2, <3>1, <3>2
    <2> HIDE DEF n
    <2>10. Joined(a, <<x>>, n)
        BY <2>7, <2>8, ConcatSeq DEF Joined, Fit
    <2>11. \A q \in Q : Mentions(<<x>>, q) \/ Mentions(n, q)
        <3> TAKE q \in Q
        <3>1. PICK j \in 1 .. k : q \in m[j].of
            BY <2>2 DEF Fit, Mentions
        <3>2. CASE j <= d
            <4>1. j \in 1 .. d /\ 1 \in 1 .. 1
                BY <2>3, <3>2
            <4> QED BY <2>5, <2>7, <3>1, <4>1 DEF Mentions
        <3>3. CASE ~(j <= d)
            <4>1. j - d \in 1 .. k - d /\ d + (j - d) = j
                BY <2>3, <3>3
            <4>2. n[j - d] = m[j] /\ j - d \in 1 .. Len(n)
                BY <2>9, <4>1
            <4> QED BY <3>1, <4>2 DEF Mentions
        <3> QED BY <3>2, <3>3
    <2> HIDE DEF a
    <2>14. Len(n) > 0 /\ n[1].kind = "toolResult" => Len(<<x>>) = 0 \/ <<x>>[Len(<<x>>)].kind = "summary"
        BY <2>6, <2>7
    <2>12. Fit(a, Q, JJ)
        <3> DEFINE s == <<x>>
        <3>1. Joined(a, s, n)
            BY <2>10
        <3>2. Fit(s, {}, JJ)
            BY <2>7
        <3>3. \A q \in Q : Mentions(s, q) \/ Mentions(n, q)
            BY <2>11
        <3>4. Len(n) > 0 /\ n[1].kind = "toolResult" => Len(s) = 0 \/ s[Len(s)].kind = "summary"
            BY <2>14
        <3> HIDE DEF s
        <3> QED BY <2>8, <3>1, <3>2, <3>3, <3>4, JoinedFit
    <2>13. Compress(m) = a
        BY <1>2 DEF Compress, a, x, older, n
    <2> QED BY <2>12, <2>13
<1> QED BY <1>1, <1>2

\* A conversation of two messages.
LEMMA PairSeq ==
    ASSUME NEW x, NEW y
    PROVE  /\ IsSeq(<<x, y>>) /\ Len(<<x, y>>) = 2 /\ <<x, y>>[1] = x /\ <<x, y>>[2] = y
           /\ \A j \in 1 .. 2 : j = 1 \/ j = 2
<1>1. <<x, y>> \in Seq({x, y}) /\ Len(<<x, y>>) = 2 /\ <<x, y>>[1] = x /\ <<x, y>>[2] = y
    OBVIOUS
<1>2. IsSeq(<<x, y>>)
    BY <1>1, SeqRange
<1> QED BY <1>1, <1>2

\* The calls of a reply and their results.
LEMMA ExtendedFit ==
    ASSUME NEW JJ, NEW m, NEW Q, Fit(m, Q, JJ), NEW r, NEW calls, Replied(JJ, calls), Len(calls) \in Nat
    PROVE  Fit(Append(Append(m, Use(r, calls)), Reply(r, Results(calls))), Q, JJ)
<1> DEFINE u == Use(r, calls)
           v == Reply(r, Results(calls))
           n == <<u, v>>
           b == Append(m, u)
           a == Append(b, v)
<1>1. IsSeq(m) /\ Fit(m, {}, JJ) /\ \A q \in Q : Mentions(m, q)
    BY DEF Fit
<1>2. /\ u.kind = "toolUse" /\ u.role = "assistant" /\ u.calls = calls
      /\ v.kind = "toolResult" /\ v.role = "user" /\ v.calls = Results(calls)
    BY DEF Use, Reply
<1>3. IsSeq(Results(calls))
    <2>1. Results(calls) \in Seq({Given(calls[j]) : j \in 1 .. Len(calls)})
        BY DEF Results
    <2> QED BY <2>1, SeqRange
<1> HIDE DEF u, v
<1>4. IsSeq(n) /\ Len(n) = 2 /\ n[1] = u /\ n[2] = v /\ \A j \in 1 .. 2 : j = 1 \/ j = 2
    BY PairSeq
<1>5. IsSeq(b) /\ Len(b) = Len(m) + 1 /\ b[Len(m) + 1] = u /\ \A j \in 1 .. Len(m) : b[j] = m[j]
    BY <1>1, AppendSeq
<1> HIDE DEF b
<1>6. IsSeq(a) /\ Len(a) = Len(b) + 1 /\ a[Len(b) + 1] = v /\ \A j \in 1 .. Len(b) : a[j] = b[j]
    BY <1>5, AppendSeq
<1> HIDE DEF n, a
<1>7. PICK k \in Nat : k = Len(m)
    BY <1>1, SeqBasics
<1>8. Len(a) = k + 2 /\ a[k + 1] = u /\ a[k + 2] = v /\ \A j \in 1 .. k : a[j] = m[j]
    <2>1. Len(b) = k + 1 /\ (k + 1) + 1 = k + 2 /\ \A j \in 1 .. k : j \in 1 .. k + 1
        BY <1>5, <1>7
    <2>2. k + 1 \in 1 .. k + 1
        OBVIOUS
    <2> QED BY <1>5, <1>6, <1>7, <2>1, <2>2
<1>9. Joined(a, m, n)
    BY <1>4, <1>6, <1>7, <1>8 DEF Joined
<1>10. Fit(n, {}, JJ)
    <2>1. Sourced(n, JJ)
        BY <1>2, <1>3, <1>4 DEF Sourced
    <2>2. Paired(n)
        <3> SUFFICES ASSUME NEW j \in 1 .. 2
                     PROVE  /\ n[j].kind = "toolUse" =>
                                 j + 1 <= 2 /\ n[j + 1].kind = "toolResult"
                                 /\ n[j + 1].calls = Results(n[j].calls)
                            /\ n[j].kind = "toolResult" => j = 1 \/ n[j - 1].kind \in {"toolUse", "summary"}
            BY <1>4 DEF Paired
        <3>1. CASE j = 1
            BY <1>2, <1>4, <3>1
        <3>2. CASE j = 2
            BY <1>2, <1>4, <3>2
        <3> QED BY <1>4, <3>1, <3>2
    <2> QED BY <1>4, <2>1, <2>2 DEF Fit
<1>11. \A q \in Q : Mentions(m, q) \/ Mentions(n, q)
    BY <1>1
<1>12. ~(Len(n) > 0 /\ n[1].kind = "toolResult")
    BY <1>2, <1>4
<1>13. Fit(a, Q, JJ)
    BY <1>1, <1>9, <1>10, <1>11, <1>12, JoinedFit
<1> QED BY <1>13 DEF a, b, u, v

\* An answer that is not the JSON that was asked for, and the request for it.
LEMMA RepairedFit ==
    ASSUME NEW JJ, NEW m, NEW Q, Fit(m, Q, JJ), NEW r
    PROVE  Fit(m \o <<Text("assistant", "text", {r}), Text("user", "text", {r})>>, Q, JJ)
<1> DEFINE x == Text("assistant", "text", {r})
           y == Text("user", "text", {r})
           n == <<x, y>>
<1>1. Plain(x) /\ Plain(y)
    BY TextPlain
<1> HIDE DEF x, y
<1>2. IsSeq(n) /\ Len(n) = 2 /\ n[1] = x /\ n[2] = y /\ \A j \in 1 .. 2 : j = 1 \/ j = 2
    BY PairSeq
<1> HIDE DEF n
<1>3. Fit(n, {}, JJ)
    BY <1>1, <1>2 DEF Fit, Paired, Sourced, Plain
<1>4. ~(Len(n) > 0 /\ n[1].kind = "toolResult")
    BY <1>1, <1>2 DEF Plain
<1>5. Fit(m \o n, Q, JJ)
    BY <1>3, <1>4, ConcatFit
<1> QED BY <1>5 DEF n, x, y

\* What save-session writes ends with the answer of the run.
LEMMA ConversationFit ==
    ASSUME NEW JJ, NEW r, NEW m, Fit(m, {}, JJ)
    PROVE  LET c == Newest(Append(m, Text("assistant", "text", {r})), HistoryWindow)
           IN  Fit(c, {}, JJ) /\ Latest(c, r)
<1> DEFINE x == Text("assistant", "text", {r})
           a == Append(m, x)
<1>1. Plain(x) /\ r \in x.of
    BY TextPlain
<1> HIDE DEF x
<1>2. Fit(a, {}, JJ) /\ Latest(a, r)
    BY <1>1, AppendFit
<1> HIDE DEF a
<1>3. Fit(Newest(a, HistoryWindow), {}, JJ) /\ Latest(Newest(a, HistoryWindow), r)
    BY <1>2, EndFit, OptionsAssumption
<1> QED BY <1>3 DEF a, x

\* A run that reads the session finds there what it has to know.
LEMMA HistoryFit ==
    ASSUME NEW JJ, NEW m, Fit(m, {}, JJ), NEW Q, \A q \in Q : Latest(m, q)
    PROVE  Fit(Newest(m, HistoryWindow), Q, JJ)
<1> DEFINE a == Newest(m, HistoryWindow)
<1>1. Fit(a, {}, JJ) /\ \A q \in Q : Latest(a, q)
    BY EndFit, OptionsAssumption
<1> HIDE DEF a
<1>2. IsSeq(a)
    BY <1>1 DEF Fit
<1>3. Len(a) \in Nat
    BY <1>2, SeqBasics
<1>4. Len(a) > 0 => Len(a) \in 1 .. Len(a)
    BY <1>3
<1>5. Fit(a, Q, JJ)
    BY <1>1, <1>4 DEF Fit, Latest, Mentions
<1> QED BY <1>5 DEF a

\* What one run knows stays true when less is owed and the journals grow.
LEMMA TalkCarries ==
    ASSUME NEW JJ, NEW JJ2, \A p \in Runs : Grows(JJ[p], JJ2[p]), NEW Q, NEW Q2, Q2 \subseteq Q,
           NEW r, NEW J, NEW S, NEW l, Talk(r, J, S, l, Q, JJ)
    PROVE  Talk(r, J, S, l, Q2, JJ2)
<1>1. \A m : Fit(m, Q, JJ) => Fit(m, Q2, JJ2)
    BY FitCarries
<1> QED BY <1>1 DEF Talk

\* No more is owed to a run by a step that triggers no other.
LEMMA OwedShrinks ==
    ASSUME NEW r \in Runs, before'[r] = before[r], before[r] \subseteq Runs,
           \A p \in Runs : status'[p] = "new" => status[p] = "new",
           \A p \in Runs : before'[p] = before[p] \/ (status[p] = "new" /\ p \notin before[r])
    PROVE  Owed(r)' \subseteq Owed(r)
<1> SUFFICES ASSUME NEW q \in Owed(r)' PROVE q \in Owed(r)
    OBVIOUS
<1>1. /\ q \in before[r] /\ Session[q] = Session[r] /\ Session[r] # NoSession
      /\ \A p \in Runs \ {q, r} :
            Session[p] = Session[r] => p \in before'[q] \/ r \in before'[p] \/ status'[p] = "new"
    BY DEF Owed
<1>2. before'[q] = before[q]
    BY <1>1
<1> QED BY <1>1, <1>2 DEF Owed

\* A step of run r by which no run starts, or r itself does, and the journals grow.
Onward(r) ==
  /\ \A q \in Runs \ {r} : Same(q) /\ before'[q] = before[q]
  /\ DOMAIN before' = Runs /\ DOMAIN sessions' = SessionIds
  /\ status[r] # "completed" /\ status'[r] # "new" /\ Grows(journal[r], journal'[r])
  /\ before'[r] = before[r] \/ status[r] = "new"

\* The other runs.
LEMMA OthersTell ==
    ASSUME Telling, NEW r \in Runs, Onward(r), NEW q \in Runs, q # r
    PROVE  /\ Talk(q, journal'[q], sent'[q], local'[q], Owed(q)', journal')
           /\ Stage(q)' /\ Owed(q)' \subseteq Owed(q) /\ before[q] \subseteq Runs /\ r \notin before[q]
           /\ Saved(q)' = Saved(q) /\ (Alone(q)' => Alone(q))
           /\ journal'[q] = journal[q] /\ status'[q] = status[q] /\ before'[q] = before[q]
<1>1. /\ Talk(q, journal[q], sent[q], local[q], Owed(q), journal) /\ Stage(q)
      /\ Same(q) /\ before'[q] = before[q]
    BY DEF Telling, Onward
<1>2. before[q] \subseteq Runs /\ r \notin before[q]
    BY <1>1 DEF Stage, Onward
<1>3. \A p \in Runs : status'[p] = "new" => status[p] = "new"
    BY DEF Onward, Same
<1>4. \A p \in Runs : status[p] = "completed" => status'[p] = "completed"
    BY DEF Onward, Same
<1>5. Owed(q)' \subseteq Owed(q)
    BY <1>1, <1>2, <1>3, OwedShrinks DEF Onward
<1>6. \A p \in Runs : Grows(journal[p], journal'[p])
    BY DEF Onward, Same, Grows
<1>7. Talk(q, journal[q], sent[q], local[q], Owed(q)', journal')
    BY <1>1, <1>5, <1>6, TalkCarries
<1>8. /\ journal'[q] = journal[q] /\ sent'[q] = sent[q] /\ local'[q] = local[q] /\ status'[q] = status[q]
    BY <1>1 DEF Same
<1>9. Stage(q)'
    BY <1>1, <1>4, <1>8 DEF Stage
<1>10. Saved(q)' = Saved(q)
    BY <1>8 DEF Saved
<1>11. Alone(q)' => Alone(q)
    BY <1>1, <1>3 DEF Alone
<1> QED BY <1>1, <1>2, <1>5, <1>7, <1>8, <1>9, <1>10, <1>11

\* The conversations in the store are the same.
LEMMA StoreCarries ==
    ASSUME Telling, NEW r \in Runs, Onward(r), UNCHANGED sessions
    PROVE  \A s \in SessionIds : Fit(sessions'[s], {}, journal')
<1>1. \A p \in Runs : Grows(journal[p], journal'[p])
    BY DEF Onward, Same, Grows
<1> QED BY <1>1, FitCarries DEF Telling

\* A step of an attempt that leaves the store of sessions alone.
LEMMA StepTells ==
    ASSUME Telling, NEW r \in Runs, Onward(r), UNCHANGED <<before, sessions>>, status[r] # "new",
           status'[r] = "completed" => local[r].at[1] = "return" /\ UNCHANGED journal,
           Saved(r)' => Saved(r),
           Talk(r, journal'[r], sent'[r], local'[r], Owed(r), journal)
    PROVE  Telling'
<1>1. /\ Talk(r, journal[r], sent[r], local[r], Owed(r), journal) /\ Stage(r) /\ Stored(r)
    BY DEF Telling
<1>2. /\ \A p \in Runs : Grows(journal[p], journal'[p])
      /\ \A p \in Runs : status'[p] = "new" => status[p] = "new"
      /\ \A p \in Runs : status[p] = "completed" => status'[p] = "completed"
    BY DEF Onward, Same, Grows
<1>3. Owed(r)' \subseteq Owed(r)
    BY <1>1, <1>2, OwedShrinks DEF Stage
<1>4. Talk(r, journal'[r], sent'[r], local'[r], Owed(r)', journal')
    BY <1>2, <1>3, TalkCarries
<1>5. Stage(r)'
    <2>1. ASSUME status'[r] = "completed"
          PROVE  /\ <<"session">> \in DOMAIN journal'[r]
                 /\ Session[r] # NoSession => <<"save-session">> \in DOMAIN journal'[r]
        <3>1. local[r].at[1] = "return" /\ journal'[r] = journal[r]
            BY <2>1
        <3>2. /\ local[r].at[1] # "session" => <<"session">> \in DOMAIN journal[r]
              /\ local[r].at[1] = "return" /\ Session[r] # NoSession => <<"save-session">> \in DOMAIN journal[r]
            BY <1>1 DEF Talk
        <3> QED BY <3>1, <3>2
    <2> QED BY <1>1, <1>2, <2>1 DEF Stage, Onward
<1>6. Stored(r)'
    <2>1. Alone(r)' => Alone(r)
        BY <1>2 DEF Alone
    <2>2. <<"session">> \notin DOMAIN journal'[r] => <<"session">> \notin DOMAIN journal[r]
        BY DEF Onward, Grows
    <2> QED BY <1>1, <1>3, <2>1, <2>2 DEF Stored
<1>7. ASSUME NEW q \in Runs, q # r
      PROVE  /\ Talk(q, journal'[q], sent'[q], local'[q], Owed(q)', journal')
             /\ Stage(q)' /\ Stored(q)'
    <2>1. Stored(q)
        BY DEF Telling
    <2>2. /\ Talk(q, journal'[q], sent'[q], local'[q], Owed(q)', journal') /\ Stage(q)'
          /\ Owed(q)' \subseteq Owed(q) /\ Saved(q)' = Saved(q) /\ (Alone(q)' => Alone(q))
          /\ journal'[q] = journal[q]
        BY <1>7, OthersTell
    <2>3. Stored(q)'
        BY <2>1, <2>2 DEF Stored
    <2> QED BY <2>2, <2>3
<1>8. \A s \in SessionIds : Fit(sessions'[s], {}, journal')
    BY StoreCarries
<1> QED BY <1>4, <1>5, <1>6, <1>7, <1>8 DEF Telling, Onward

\* What an attempt knows that is at rest, by its place in the code.
Knows(r, J, l, Q, JJ) ==
  /\ l.out = None
  /\ l.at[1] \in Speaking => Fit(l.messages, Q, JJ)
  /\ l.at[1] # "session" => <<"session">> \in DOMAIN J
  /\ l.at[1] = "save-session" => l.at = <<"save-session">>
  /\ l.at[1] = "return" /\ Session[r] # NoSession => <<"save-session">> \in DOMAIN J

\* So the conversations are fit when what the attempt holds changes.
LEMMA KnowsTalk ==
    ASSUME NEW r, NEW J, NEW S, NEW l, NEW Q, NEW JJ, Talk(r, J, S, l, Q, JJ),
           NEW l2, Knows(r, J, l2, Q, JJ)
    PROVE  Talk(r, J, S, l2, Q, JJ)
BY DEF Talk, Knows

\* The code behind a step goes on.
LEMMA ContinueTells ==
    ASSUME Replayable, Telling, NEW r \in Runs, status[r] = "running", NEW attempt,
           Continue(r, attempt), Knows(r, journal[r], attempt, Owed(r), journal)
    PROVE  Telling'
<1>1. /\ UNCHANGED <<journal, status, sent, sessions, before>> /\ local'[r] = attempt
      /\ \A q \in Runs \ {r} : Same(q)
    BY DEF Continue, history, Same, Replayable, Shape
<1>2. Onward(r)
    BY <1>1 DEF Onward, Telling, Grows
<1>3. Saved(r)' => Saved(r)
    BY <1>1 DEF Saved, Knows
<1>4. Talk(r, journal[r], sent[r], attempt, Owed(r), journal)
    BY KnowsTalk DEF Telling
<1> QED BY <1>1, <1>2, <1>3, <1>4, StepTells

\* An attempt ends and leaves nothing behind.
LEMMA EndTells ==
    ASSUME Replayable, Telling, NEW r \in Runs, status[r] \in {"running", "waiting"},
           local' = [local EXCEPT ![r] = FreshAttempt],
           NEW s \in {"running", "waiting", "invoked", "completed", "failed"}, status' = [status EXCEPT ![r] = s],
           s = "completed" => local[r].at[1] = "return",
           NEW w, waiting' = [waiting EXCEPT ![r] = w] \/ UNCHANGED waiting,
           UNCHANGED <<journal, sent, executed, granted, sessions, before>>
    PROVE  Telling'
<1>1. local'[r] = FreshAttempt /\ status'[r] = s /\ \A q \in Runs \ {r} : Same(q)
    BY DEF Same, Replayable, Shape
<1>2. Onward(r)
    BY <1>1 DEF Onward, Telling, Grows
<1>3. FreshAttempt.out = None /\ FreshAttempt.at = <<"session">>
    BY DEF FreshAttempt
<1>4. Saved(r)' => Saved(r)
    BY <1>1, <1>3 DEF Saved
<1>5. Knows(r, journal[r], FreshAttempt, Owed(r), journal)
    BY <1>3 DEF Knows, Speaking
<1>6. Talk(r, journal[r], sent[r], FreshAttempt, Owed(r), journal)
    BY <1>5, KnowsTalk DEF Telling
<1> QED BY <1>1, <1>2, <1>4, <1>6, StepTells

\* A throw, a return, a failed step, a suspension.
LEMMA EndingsTell ==
    ASSUME Replayable, Telling, NEW r \in Runs,
           \/ Throw(r) /\ status[r] = "running"
           \/ At(r, "return") /\ Return(r)
           \/ FailStep(r) \/ OpenGate(r) \/ InvokeChild(r)
    PROVE  Telling'
<1>1. CASE Throw(r) /\ status[r] = "running"
    BY <1>1, EndTells DEF Throw, history
<1>2. CASE At(r, "return") /\ Return(r)
    BY <1>2, EndTells DEF Return, At, history
<1>3. CASE FailStep(r)
    <2> DEFINE s == IF failures[r] >= StepRetries THEN "failed" ELSE status[r]
    <2>1. /\ status[r] = "running" /\ s \in {"running", "failed"}
          /\ status' = [status EXCEPT ![r] = s]
          /\ local' = [local EXCEPT ![r] = FreshAttempt]
          /\ UNCHANGED <<journal, waiting, sent, executed, granted, sessions, before>>
        BY <1>3 DEF FailStep, history
    <2> HIDE DEF s
    <2> QED BY <2>1, EndTells
<1>4. CASE OpenGate(r) \/ InvokeChild(r)
    <2>1. status[r] = "running" /\ \E s \in {"waiting", "invoked"} : Suspend(r, s)
        BY <1>4 DEF OpenGate, InvokeChild, At
    <2> QED BY <2>1, EndTells DEF Suspend, history
<1> QED BY <1>1, <1>2, <1>3, <1>4

\* The body of a step has run, other than the one that writes the session.
LEMMA ProduceTells ==
    ASSUME Replayable, Telling, NEW r \in Runs, status[r] = "running", NEW value, Produce(r, value),
           local[r].at[1] # "save-session", UNCHANGED <<sessions, before>>,
           \A q \in Runs \ {r} : /\ sent'[q] = sent[q] /\ executed'[q] = executed[q]
                                 /\ granted'[q] = granted[q],
           \/ sent'[r] = sent[r]
           \/ local[r].at[1] \in Speaking /\ sent'[r] = sent[r] \cup {<<local[r].at, local[r].messages>>},
           local[r].at[1] \in {"session", "memory-compress"} => Fit(value, Owed(r), journal),
           local[r].at[1] = "llm" => Numbered(r, local[r].i, value)
    PROVE  Telling'
<1> DEFINE l == local[r]
           l2 == [l EXCEPT !.out = value]
<1>1. DOMAIN l = Fields /\ Talk(r, journal[r], sent[r], l, Owed(r), journal)
    BY DEF Replayable, Consistent, Good, Located, Telling
<1>2. l2.out = value /\ l2.at = l.at /\ l2.i = l.i /\ l2.messages = l.messages
    BY <1>1 DEF Fields
<1>3. /\ local'[r] = l2 /\ UNCHANGED <<status, journal, waiting>> /\ \A q \in Runs \ {r} : Same(q)
    BY DEF Produce, Same, Replayable, Shape
<1> HIDE DEF l2
<1>4. Onward(r)
    BY <1>3 DEF Onward, Telling, Grows
<1>5. Saved(r)' => Saved(r)
    BY <1>2, <1>3 DEF Saved
<1>6. \A request \in sent'[r] : Fit(request[2], Owed(r), journal)
    <2>1. l.at[1] \in Speaking => Fit(<<l.at, l.messages>>[2], Owed(r), journal)
        BY <1>1 DEF Talk
    <2> QED BY <1>1, <2>1 DEF Talk
<1>7. Talk(r, journal[r], sent'[r], l2, Owed(r), journal)
    BY <1>1, <1>2, <1>6 DEF Talk
<1> QED BY <1>3, <1>4, <1>5, <1>7, StepTells

\* recordStep.
LEMMA RecordTells ==
    ASSUME Replayable, Telling, NEW r \in Runs, RecordStep(r)
    PROVE  Telling'
<1> DEFINE l == local[r]
           l2 == [l EXCEPT !.out = None]
           J2 == Recording(journal[r], l.at, l.out)
<1>1. /\ DOMAIN l = Fields /\ Located(l) /\ Talk(r, journal[r], sent[r], l, Owed(r), journal)
      /\ l.out # None /\ status[r] = "running"
    BY DEF Replayable, Consistent, Good, Located, Telling, RecordStep
<1>2. l2.out = None /\ l2.at = l.at /\ l2.i = l.i /\ l2.messages = l.messages
    BY <1>1 DEF Fields
<1>3. /\ local'[r] = l2 /\ journal'[r] = J2 /\ \A q \in Runs \ {r} : Same(q)
      /\ UNCHANGED <<status, waiting, sent, executed, granted, sessions, before>>
    BY DEF RecordStep, Same, Replayable, Shape, history
<1>4. /\ Grows(journal[r], J2) /\ DOMAIN J2 = DOMAIN journal[r] \cup {l.at}
      /\ (l.at \notin DOMAIN journal[r] => J2[l.at] = l.out)
    BY Recorded1
<1> HIDE DEF l2, J2
<1>5. Onward(r)
    BY <1>1, <1>3, <1>4 DEF Onward, Telling
<1>6. Saved(r)' => Saved(r)
    <2>1. l.at = <<"save-session">> => l.at[1] = "save-session"
        OBVIOUS
    <2> QED BY <1>1, <1>2, <1>3, <1>4, <2>1 DEF Saved
<1>7. Talk(r, J2, sent[r], l2, Owed(r), journal)
    <2>1. \A k \in DOMAIN J2 \cap {<<"session">>, <<"memory-compress">>} : Fit(J2[k], Owed(r), journal)
        <3> TAKE k \in DOMAIN J2 \cap {<<"session">>, <<"memory-compress">>}
        <3>1. CASE k \in DOMAIN journal[r]
            BY <1>1, <1>4, <3>1 DEF Talk, Grows
        <3>2. CASE k \notin DOMAIN journal[r]
            <4>1. k = l.at /\ J2[k] = l.out /\ l.at[1] \in {"session", "memory-compress"}
                BY <1>4, <3>2
            <4> QED BY <1>1, <4>1 DEF Talk
        <3> QED BY <3>1, <3>2
    <2>2. \A i \in Iterations : Llm(i) \in DOMAIN J2 => Numbered(r, i, J2[Llm(i)])
        <3> SUFFICES ASSUME NEW i \in Iterations, Llm(i) \in DOMAIN J2 PROVE Numbered(r, i, J2[Llm(i)])
            OBVIOUS
        <3>1. CASE Llm(i) \in DOMAIN journal[r]
            BY <1>1, <1>4, <3>1 DEF Talk, Grows
        <3>2. CASE Llm(i) \notin DOMAIN journal[r]
            <4>1. Llm(i) = l.at /\ J2[Llm(i)] = l.out /\ l.at[1] = "llm"
                BY <1>4, <3>2, StepIds
            <4>2. l.at = Llm(l.i)
                BY <1>1, <4>1 DEF Located
            <4>3. i = l.i
                BY <4>1, <4>2, StepIds
            <4> QED BY <1>1, <4>1, <4>3 DEF Talk
        <3> QED BY <3>1, <3>2
    <2>3. DOMAIN journal[r] \subseteq DOMAIN J2
        BY <1>4
    <2> QED BY <1>1, <1>2, <2>1, <2>2, <2>3 DEF Talk
<1> QED BY <1>1, <1>3, <1>5, <1>6, <1>7, StepTells

\* A wait is over.
LEMMA RecordWaitTells ==
    ASSUME Replayable, Telling, NEW r \in Runs, status[r] \in Suspended, NEW value,
           NEW s \in {"running", "recorded"}, RecordWait(r, value, s),
           \A q \in Runs \ {r} : granted'[q] = granted[q]
    PROVE  Telling'
<1> DEFINE l == local[r]
           w == waiting[r]
           J2 == Recording(journal[r], w, value)
<1>1. w[1] \in {"approval", "handoff"} /\ Talk(r, journal[r], sent[r], l, Owed(r), journal)
    BY DEF Replayable, Consistent, Waits, Telling
<1>2. /\ journal'[r] = J2 /\ status'[r] = s /\ \A q \in Runs \ {r} : Same(q)
      /\ status[r] \notin {"new", "completed"}
      /\ UNCHANGED <<local, sent, executed, sessions, before>>
    BY DEF RecordWait, Same, Replayable, Shape, Suspended
<1>3. Grows(journal[r], J2) /\ DOMAIN J2 = DOMAIN journal[r] \cup {w}
    BY Recorded1, ZenonT(40)
<1> HIDE DEF J2
<1>4. Onward(r)
    BY <1>2, <1>3 DEF Onward, Telling
<1>5. \A k \in DOMAIN J2 : k[1] \notin {"approval", "handoff"} => k \in DOMAIN journal[r] /\ J2[k] = journal[r][k]
    BY <1>1, <1>3 DEF Grows
<1>6. /\ <<"session">>[1] = "session" /\ <<"memory-compress">>[1] = "memory-compress"
      /\ <<"save-session">>[1] = "save-session" /\ \A i : Llm(i)[1] = "llm"
    BY StepIds
<1>7. Saved(r)' => Saved(r)
    BY <1>2, <1>5, <1>6 DEF Saved
<1>8. Talk(r, J2, sent[r], l, Owed(r), journal)
    <2>1. \A k \in DOMAIN J2 \cap {<<"session">>, <<"memory-compress">>} : Fit(J2[k], Owed(r), journal)
        BY <1>1, <1>5, <1>6 DEF Talk
    <2>2. \A i \in Iterations : Llm(i) \in DOMAIN J2 => Numbered(r, i, J2[Llm(i)])
        BY <1>1, <1>5, <1>6 DEF Talk
    <2>3. DOMAIN journal[r] \subseteq DOMAIN J2
        BY <1>3
    <2> QED BY <1>1, <2>1, <2>2, <2>3 DEF Talk
<1> QED BY <1>2, <1>4, <1>7, <1>8, StepTells

\* The engine moves a run on.
LEMMA PassTells ==
    ASSUME Replayable, Telling, NEW r \in Runs, NEW s, Pass(r, s),
           status[r] \notin {"new", "completed"}, s \notin {"new", "completed"}
    PROVE  Telling'
<1>1. /\ status'[r] = s /\ \A q \in Runs \ {r} : Same(q)
      /\ UNCHANGED <<local, journal, sent, executed, sessions, before>>
    BY DEF Pass, history, Same, Replayable, Shape
<1>2. Onward(r)
    BY <1>1 DEF Onward, Telling, Grows
<1>3. Saved(r)' => Saved(r)
    BY <1>1 DEF Saved
<1>4. Talk(r, journal'[r], sent'[r], local'[r], Owed(r), journal)
    BY <1>1 DEF Telling
<1> QED BY <1>1, <1>2, <1>3, <1>4, StepTells

\* An answer or a store call of the engine only ends a wait.
LEMMA WaitsTell ==
    ASSUME Replayable, Telling, NEW r \in Runs, Answer(r) \/ Drive(r)
    PROVE  Telling'
<1>1. CASE Answer(r)
    <2>1. PICK gate \in DOMAIN journal[r] \cup {waiting[r]}, approved \in BOOLEAN :
            Decide(r, gate, approved)
        BY <1>1 DEF Answer
    <2> DEFINE value == IF approved THEN "approved" ELSE "denied"
    <2>2. /\ status[r] = "waiting" /\ RecordWait(r, value, "running")
          /\ \A q \in Runs \ {r} : granted'[q] = granted[q]
        BY <2>1 DEF Decide, Replayable, Shape
    <2> HIDE DEF value
    <2> QED BY <2>2, RecordWaitTells DEF Suspended
<1>2. CASE RecordTimeout(r) \/ ChildSettles(r)
    <2>1. PICK value : status[r] = "released" /\ RecordWait(r, value, "recorded") /\ UNCHANGED granted
        BY <1>2 DEF RecordTimeout, ChildSettles, SettleParent
    <2> QED BY <2>1, RecordWaitTells DEF Suspended
<1>3. CASE Enqueue(r) \/ ApprovalTimeout(r) \/ StartChild(r) \/ ChildEnds(r)
    BY <1>3, PassTells DEF Enqueue, ApprovalTimeout, StartChild, ChildEnds
<1> QED BY <1>1, <1>2, <1>3 DEF Drive

\* A run that starts is owed the turns of completed runs that nobody has overwritten.
LEMMA TriggerTells == ASSUME Replayable, Telling, NEW r \in Runs, Trigger(r) PROVE Telling'
<1>1. /\ status[r] = "new" /\ status'[r] = "created" /\ \A q \in Runs \ {r} : Same(q)
      /\ before'[r] = {q \in Runs : status[q] = "completed"}
      /\ \A q \in Runs \ {r} : before'[q] = before[q]
      /\ DOMAIN before' = Runs /\ UNCHANGED <<journal, local, sent, sessions>>
    BY DEF Trigger, Same, Replayable, Shape, Telling
<1>2. /\ DOMAIN journal[r] = {} /\ sent[r] = {} /\ local[r] = FreshAttempt /\ before[r] = {}
      /\ \A q \in Runs : Stage(q) /\ Stored(q)
    BY <1>1 DEF Telling, Stage
<1>3. Onward(r)
    BY <1>1, <1>2 DEF Onward, Telling, Grows
<1>4. FreshAttempt.out = None /\ FreshAttempt.at = <<"session">>
    BY DEF FreshAttempt
<1>5. Talk(r, journal'[r], sent'[r], local'[r], Owed(r)', journal')
    <2>1. \A Q, JJ : Talk(r, journal[r], {}, FreshAttempt, Q, JJ)
        BY <1>2, <1>4 DEF Talk, Speaking
    <2>2. journal'[r] = journal[r] /\ sent'[r] = {} /\ local'[r] = FreshAttempt
        BY <1>1, <1>2
    <2>3. Talk(r, journal[r], {}, FreshAttempt, Owed(r)', journal')
        BY <2>1
    <2> QED BY <2>2, <2>3
<1>6. Stage(r)'
    <2>1. \A q \in Runs : status[q] = "completed" => status'[q] = "completed"
        BY <1>1 DEF Same
    <2> QED BY <1>1, <2>1 DEF Stage
<1>7. ASSUME NEW q \in Owed(r)' PROVE Latest(sessions'[Session[r]], q)
    <2>1. /\ q \in Runs /\ status[q] = "completed" /\ Session[q] = Session[r] /\ Session[r] # NoSession
          /\ \A p \in Runs \ {q, r} :
                Session[p] = Session[r] => p \in before'[q] \/ r \in before'[p] \/ status'[p] = "new"
        BY <1>1 DEF Owed
    <2>2. q # r /\ before'[q] = before[q] /\ Saved(q)
        BY <1>1, <1>2, <2>1 DEF Stage, Saved
    <2>3. Alone(q)
        <3> SUFFICES ASSUME NEW p \in Runs \ {q}, Session[p] = Session[q]
                     PROVE  p \in before[q] \/ status[p] = "new"
            BY DEF Alone
        <3>1. CASE p = r
            BY <1>1, <3>1
        <3>2. CASE p # r
            <4>1. r \notin before'[p]
                BY <1>1, <1>2, <3>2 DEF Stage
            <4>2. status'[p] = status[p]
                BY <1>1, <3>2 DEF Same
            <4> QED BY <2>1, <2>2, <3>2, <4>1, <4>2
        <3> QED BY <3>1, <3>2
    <2> QED BY <1>1, <1>2, <2>1, <2>2, <2>3 DEF Stored
<1>8. Stored(r)'
    <2>1. ~Saved(r)'
        BY <1>1, <1>2, <1>4 DEF Saved
    <2> QED BY <1>7, <2>1 DEF Stored
<1>9. ASSUME NEW q \in Runs, q # r
      PROVE  /\ Talk(q, journal'[q], sent'[q], local'[q], Owed(q)', journal')
             /\ Stage(q)' /\ Stored(q)'
    <2>1. Stored(q)
        BY <1>2
    <2>2. /\ Talk(q, journal'[q], sent'[q], local'[q], Owed(q)', journal') /\ Stage(q)'
          /\ Owed(q)' \subseteq Owed(q) /\ Saved(q)' = Saved(q) /\ (Alone(q)' => Alone(q))
          /\ journal'[q] = journal[q]
        BY <1>3, <1>9, OthersTell
    <2>3. Stored(q)'
        BY <1>1, <2>1, <2>2 DEF Stored
    <2> QED BY <2>2, <2>3
<1>10. \A s \in SessionIds : Fit(sessions'[s], {}, journal')
    BY <1>1, <1>3, StoreCarries
<1> QED BY <1>3, <1>5, <1>6, <1>8, <1>9, <1>10 DEF Telling, Onward

\* The session is written: by r, which nobody owes anything to but the runs before it.
LEMMA SaveTells == ASSUME Replayable, Telling, NEW r \in Runs, SaveSession(r) PROVE Telling'
<1> DEFINE l == local[r]
           l2 == [l EXCEPT !.out = "done"]
           s == Session[r]
<1>1. /\ DOMAIN l = Fields /\ Talk(r, journal[r], sent[r], l, Owed(r), journal)
      /\ l.at[1] = "save-session" /\ l.at = <<"save-session">> /\ status[r] = "running"
      /\ <<"session">> \in DOMAIN journal[r] /\ Fit(l.messages, Owed(r), journal)
    BY DEF Replayable, Consistent, Good, Located, Telling, SaveSession, At, Talk, Speaking
<1>2. l2.out = "done" /\ l2.at = l.at /\ l2.i = l.i /\ l2.messages = l.messages
    BY <1>1 DEF Fields
<1>3. /\ local'[r] = l2 /\ UNCHANGED <<status, journal, waiting, sent, executed, granted, before>>
      /\ \A q \in Runs \ {r} : Same(q)
      /\ sessions' = [sessions EXCEPT ![s] = Conversation(r)]
    BY DEF SaveSession, Produce, Same, Replayable, Shape, history
<1> HIDE DEF l2
<1>4. Onward(r)
    BY <1>1, <1>3 DEF Onward, Telling, Grows
<1>5. Fit(Conversation(r), {}, journal) /\ Latest(Conversation(r), r)
    <2>1. \A p \in Runs : Grows(journal[p], journal[p])
        BY DEF Grows
    <2>2. Fit(l.messages, {}, journal)
        BY <1>1, <2>1, FitCarries
    <2> QED BY <2>2, ConversationFit DEF Conversation
<1>6. /\ s \in SessionIds => sessions'[s] = Conversation(r)
      /\ \A t \in SessionIds \ {s} : sessions'[t] = sessions[t]
    BY <1>3 DEF Telling
<1>7. \A t \in SessionIds : Fit(sessions'[t], {}, journal')
    BY <1>3, <1>5, <1>6 DEF Telling
<1>8. Owed(r)' = Owed(r)
    BY <1>3 DEF Owed
<1>9. Talk(r, journal'[r], sent'[r], local'[r], Owed(r)', journal')
    <2>1. Talk(r, journal[r], sent[r], l2, Owed(r), journal)
        BY <1>1, <1>2 DEF Talk
    <2> QED BY <1>3, <1>8, <2>1
<1>10. Stage(r)'
    BY <1>1, <1>3 DEF Telling, Stage
<1>11. \A q \in Runs : Session[q] # NoSession => Session[q] \in SessionIds
    BY OptionsAssumption DEF SessionIds, Range
<1>12. Stored(r)'
    BY <1>1, <1>3, <1>5, <1>6, <1>11 DEF Stored
<1>13. ASSUME NEW q \in Runs, q # r
       PROVE  /\ Talk(q, journal'[q], sent'[q], local'[q], Owed(q)', journal')
              /\ Stage(q)' /\ Stored(q)'
    <2>1. Stored(q) /\ Stage(q) /\ Stage(r) /\ \A p \in Runs : Stage(p)
        BY DEF Telling
    <2>2. /\ Talk(q, journal'[q], sent'[q], local'[q], Owed(q)', journal') /\ Stage(q)'
          /\ Owed(q)' \subseteq Owed(q) /\ Saved(q)' = Saved(q) /\ (Alone(q)' => Alone(q))
          /\ journal'[q] = journal[q] /\ r \notin before[q]
        BY <1>4, <1>13, OthersTell
    <2>3. CASE Session[q] # s
        <3>1. Session[q] # NoSession => sessions'[Session[q]] = sessions[Session[q]]
            BY <1>6, <1>11, <2>3
        <3> QED BY <2>1, <2>2, <3>1 DEF Stored
    <2>4. CASE Session[q] = s
        <3>1. ~Alone(q)
            BY <1>1, <1>13, <2>2, <2>4 DEF Alone
        <3>2. ASSUME <<"session">> \notin DOMAIN journal[q], NEW x \in Owed(q) PROVE FALSE
            <4>1. /\ x \in before[q] /\ Session[x] = Session[q]
                  /\ \A p \in Runs \ {x, q} :
                        Session[p] = Session[q] => p \in before[x] \/ q \in before[p] \/ status[p] = "new"
                BY <3>2 DEF Owed
            <4>2. x \in Runs /\ x # r /\ r \notin before[x]
                BY <1>1, <2>1, <2>2, <4>1 DEF Stage
            <4>3. q \in before[r]
                BY <1>1, <1>13, <2>4, <4>1, <4>2
            <4>4. status[q] = "completed"
                BY <2>1, <4>3 DEF Stage
            <4> QED BY <2>1, <3>2, <4>4 DEF Stage
        <3>3. Stored(q)'
            BY <2>2, <3>1, <3>2 DEF Stored
        <3> QED BY <2>2, <3>3
    <2> QED BY <2>3, <2>4
<1> QED BY <1>4, <1>7, <1>9, <1>10, <1>12, <1>13 DEF Telling, Onward

\* The process dies, and all attempts with it.
LEMMA CrashTells == ASSUME Replayable, Telling, Crash PROVE Telling'
<1>1. /\ local' = [r \in Runs |-> FreshAttempt]
      /\ \A r \in Runs : \/ status'[r] = status[r]
                         \/ status[r] \in Undriven /\ status'[r] = "stranded"
      /\ UNCHANGED <<journal, sent, sessions, before>>
    BY DEF Crash, history
<1>4. \A p \in Runs : /\ status'[p] = "new" <=> status[p] = "new"
                      /\ status'[p] = "completed" <=> status[p] = "completed"
    BY <1>1 DEF Undriven
<1>2. FreshAttempt.out = None /\ FreshAttempt.at = <<"session">>
    BY DEF FreshAttempt
<1>3. ASSUME NEW r \in Runs
      PROVE  /\ Talk(r, journal'[r], sent'[r], local'[r], Owed(r)', journal')
             /\ Stage(r)' /\ Stored(r)'
    <2>1. Talk(r, journal[r], sent[r], local[r], Owed(r), journal) /\ Stage(r) /\ Stored(r)
        BY DEF Telling
    <2>2. Owed(r)' = Owed(r)
        BY <1>1, <1>4 DEF Owed
    <2>3. local'[r] = FreshAttempt
        BY <1>1
    <2>4. Knows(r, journal[r], FreshAttempt, Owed(r), journal)
        BY <1>2 DEF Knows, Speaking
    <2>5. Talk(r, journal[r], sent[r], FreshAttempt, Owed(r), journal)
        BY <2>1, <2>4, KnowsTalk
    <2>6. Saved(r)' => Saved(r)
        BY <1>1, <1>2, <2>3 DEF Saved
    <2>7. Alone(r)' = Alone(r)
        BY <1>1, <1>4 DEF Alone
    <2>8. Stage(r)'
        BY <1>1, <1>4, <2>1, <2>3 DEF Stage
    <2>9. Stored(r)'
        BY <1>1, <2>1, <2>2, <2>6, <2>7 DEF Stored
    <2> QED BY <1>1, <2>2, <2>3, <2>5, <2>8, <2>9
<1> QED BY <1>1, <1>3 DEF Telling

\* Nobody has said anything at first.
LEMMA TellingInit == Init => Telling
<1> SUFFICES ASSUME Init PROVE Telling
    OBVIOUS
<1>1. DOMAIN sessions = SessionIds /\ DOMAIN before = Runs
      /\ \A s \in SessionIds : Fit(sessions[s], {}, journal)
    BY NothingFit DEF Init
<1>2. ASSUME NEW r \in Runs
      PROVE  Talk(r, journal[r], sent[r], local[r], Owed(r), journal) /\ Stage(r) /\ Stored(r)
    <2>1. /\ status[r] = "new" /\ DOMAIN journal[r] = {} /\ local[r] = FreshAttempt
          /\ sent[r] = {} /\ before[r] = {}
        BY <1>2 DEF Init
    <2>2. FreshAttempt.out = None /\ FreshAttempt.at = <<"session">>
        BY DEF FreshAttempt
    <2>3. Talk(r, journal[r], sent[r], local[r], Owed(r), journal)
        BY <2>1, <2>2 DEF Talk, Speaking
    <2>4. Stage(r)
        BY <2>1 DEF Stage
    <2>5. Owed(r) = {} /\ ~Saved(r)
        BY <2>1, <2>2 DEF Owed, Saved
    <2>6. Stored(r)
        BY <2>5 DEF Stored
    <2> QED BY <2>3, <2>4, <2>6
<1> QED BY <1>1, <1>2 DEF Telling

\* A call's id tells the turn and the place, or the name and the place.
LEMMA RepliesNumbered ==
    ASSUME NEW r \in Runs, NEW i \in Iterations, NEW reply \in Replies, NEW n \in 0 .. Len(reply.tools)
    PROVE  /\ FreshIds => Numbered(r, i, fromAnthropicContent(Streamed(reply, n), <<r, i>>))
           /\ ~FreshIds => Numbered(r, i, fromGeminiParts(Streamed(reply, n), <<r, i>>))
<1> DEFINE got == Streamed(reply, n)
           fresh == fromAnthropicContent(got, <<r, i>>)
           named == fromGeminiParts(got, <<r, i>>)
<1>1. /\ FreshIds => fresh \in ResponseOf(i)
      /\ ~FreshIds => named \in ResponseOf(i)
    BY RepliesTyped
<1> HIDE DEF got
<1>2. /\ DOMAIN fresh.calls = DOMAIN got.tools
      /\ \A k \in DOMAIN got.tools : fresh.calls[k].id = <<<<r, i>>, k>>
    BY DEF fromAnthropicContent
<1>3. /\ DOMAIN named.calls = DOMAIN got.tools
      /\ \A k \in DOMAIN got.tools : named.calls[k].id = <<named.calls[k].name, k>>
    BY DEF fromGeminiParts
<1> HIDE DEF fresh, named
<1>4. ASSUME FreshIds PROVE Numbered(r, i, fresh)
    <2>1. fresh.calls \in Seq(Call(i))
        BY <1>1, <1>4 DEF ResponseOf
    <2>2. DOMAIN fresh.calls = 1 .. Len(fresh.calls)
        BY <2>1
    <2> QED BY <1>2, <1>4, <2>2 DEF Numbered
<1>5. ASSUME ~FreshIds PROVE Numbered(r, i, named)
    <2>1. named.calls \in Seq(Call(i))
        BY <1>1, <1>5 DEF ResponseOf
    <2>2. DOMAIN named.calls = 1 .. Len(named.calls)
        BY <2>1
    <2> QED BY <1>3, <1>5, <2>2 DEF Numbered
<1> QED BY <1>4, <1>5 DEF fresh, named, got

\* The bodies of the steps.
LEMMA BodiesTell ==
    ASSUME Replayable, Telling, NEW r \in Runs,
           \/ ReadSession(r) \/ Recall(r) \/ CompressWorkingMemory(r) \/ CallModel(r)
           \/ ExecuteTool(r) \/ CallFix(r) \/ StoreTurn(r)
    PROVE  Telling'
<1> DEFINE l == local[r]
<1>1. /\ status[r] = "running" /\ Located(l) /\ Talk(r, journal[r], sent[r], l, Owed(r), journal)
      /\ Stored(r) /\ \A s \in SessionIds : Fit(sessions[s], {}, journal)
    BY DEF ReadSession, Recall, CompressWorkingMemory, CallModel, ExecuteTool, CallFix, StoreTurn, At,
           Replayable, Consistent, Good, Telling
<1>2. CASE ReadSession(r)
    <2> DEFINE value == IF Session[r] = NoSession THEN <<>> ELSE Newest(sessions[Session[r]], HistoryWindow)
    <2>1. /\ Produce(r, value) /\ l.at[1] = "session" /\ ~Recorded(r)
          /\ UNCHANGED <<sessions, before, sent, executed, granted>>
        BY <1>2 DEF ReadSession, At, Produce, history
    <2>2. l.at = <<"session">> /\ <<"session">> \notin DOMAIN journal[r]
        BY <1>1, <2>1 DEF Located, Prelude, Recorded
    <2>3. Fit(value, Owed(r), journal)
        <3>1. CASE Session[r] = NoSession
            <4>1. Owed(r) = {}
                BY <3>1 DEF Owed
            <4> QED BY <3>1, <4>1, NothingFit
        <3>2. CASE Session[r] # NoSession
            <4>1. Session[r] \in SessionIds
                BY <3>2, OptionsAssumption DEF SessionIds, Range
            <4>2. \A q \in Owed(r) : Latest(sessions[Session[r]], q)
                BY <1>1, <2>2, <3>2 DEF Stored
            <4>3. Fit(Newest(sessions[Session[r]], HistoryWindow), Owed(r), journal)
                BY <1>1, <4>1, <4>2, HistoryFit
            <4> QED BY <3>2, <4>3
        <3> QED BY <3>1, <3>2
    <2> HIDE DEF value
    <2>4. /\ UNCHANGED <<sessions, before>> /\ sent'[r] = sent[r] /\ l.at[1] \notin {"save-session", "llm"}
          /\ \A q \in Runs \ {r} : /\ sent'[q] = sent[q] /\ executed'[q] = executed[q]
                                   /\ granted'[q] = granted[q]
        BY <2>1
    <2> QED BY <1>1, <2>1, <2>3, <2>4, ProduceTells
<1>3. CASE CompressWorkingMemory(r)
    <2> DEFINE value == Compress(l.messages)
    <2>1. /\ Produce(r, value) /\ l.at[1] = "memory-compress"
          /\ UNCHANGED <<sessions, before, sent, executed, granted>>
        BY <1>3 DEF CompressWorkingMemory, At, history
    <2>2. Fit(value, Owed(r), journal)
        BY <1>1, <2>1, CompressFit DEF Talk, Speaking
    <2> HIDE DEF value
    <2>4. /\ UNCHANGED <<sessions, before>> /\ sent'[r] = sent[r] /\ l.at[1] \notin {"save-session", "llm"}
          /\ \A q \in Runs \ {r} : /\ sent'[q] = sent[q] /\ executed'[q] = executed[q]
                                   /\ granted'[q] = granted[q]
        BY <2>1
    <2> QED BY <1>1, <2>1, <2>2, <2>4, ProduceTells
<1>4. CASE CallModel(r)
    <2>1. l.at[1] = "llm" /\ l.i \in Iterations
        BY <1>1, <1>4 DEF CallModel, At, Located
    <2>2. PICK value : Produce(r, value) /\ Numbered(r, l.i, value)
        <3>1. PICK reply \in Script[r][l.i + 1] : \E n \in 0 .. Len(reply.tools) :
                Produce(r, IF FreshIds THEN fromAnthropicContent(Streamed(reply, n), <<r, l.i>>)
                           ELSE fromGeminiParts(Streamed(reply, n), <<r, l.i>>))
            BY <1>4 DEF CallModel
        <3>2. l.i + 1 \in 1 .. MaxIterations
            BY <2>1, OptionsAssumption DEF Iterations
        <3>3. reply \in Replies
            BY <3>1, <3>2, ScriptAssumption
        <3> QED BY <2>1, <3>1, <3>3, RepliesNumbered
    <2>3. /\ sent' = [sent EXCEPT ![r] = @ \cup {<<l.at, l.messages>>}]
          /\ UNCHANGED <<sessions, before, executed, granted>>
        BY <1>4 DEF CallModel
    <2>4. /\ sent'[r] = sent[r] \cup {<<l.at, l.messages>>} /\ l.at[1] \in Speaking
          /\ l.at[1] \notin {"save-session", "session", "memory-compress"}
          /\ \A q \in Runs \ {r} : /\ sent'[q] = sent[q] /\ executed'[q] = executed[q]
                                   /\ granted'[q] = granted[q]
        BY <2>1, <2>3 DEF Speaking, Replayable, Shape
    <2> QED BY <1>1, <2>2, <2>3, <2>4, ProduceTells
<1>5. CASE CallFix(r)
    <2>1. PICK value : Produce(r, value)
        BY <1>5 DEF CallFix
    <2>3. /\ sent' = [sent EXCEPT ![r] = @ \cup {<<l.at, l.messages>>}] /\ l.at[1] = "llm-output-fix"
          /\ UNCHANGED <<sessions, before, executed, granted>>
        BY <1>5 DEF CallFix, At
    <2>4. /\ sent'[r] = sent[r] \cup {<<l.at, l.messages>>} /\ l.at[1] \in Speaking
          /\ l.at[1] \notin {"save-session", "session", "memory-compress", "llm"}
          /\ \A q \in Runs \ {r} : /\ sent'[q] = sent[q] /\ executed'[q] = executed[q]
                                   /\ granted'[q] = granted[q]
        BY <2>3 DEF Speaking, Replayable, Shape
    <2> QED BY <1>1, <2>1, <2>3, <2>4, ProduceTells
<1>6. CASE Recall(r) \/ ExecuteTool(r) \/ StoreTurn(r)
    <2>1. PICK value : Produce(r, value)
        BY <1>6 DEF Recall, ExecuteTool, StoreTurn
    <2>2. l.at[1] \notin {"save-session", "session", "memory-compress", "llm"}
        BY <1>6 DEF Recall, ExecuteTool, StoreTurn, At
    <2>3. UNCHANGED <<sessions, before>> /\ sent'[r] = sent[r]
        BY <1>6 DEF Recall, ExecuteTool, StoreTurn, history
    <2>4. \A q \in Runs \ {r} : sent'[q] = sent[q] /\ executed'[q] = executed[q] /\ granted'[q] = granted[q]
        BY <1>6 DEF Recall, ExecuteTool, StoreTurn, history, Replayable, Shape
    <2> QED BY <1>1, <2>1, <2>2, <2>3, <2>4, ProduceTells
<1> QED BY <1>2, <1>3, <1>4, <1>5, <1>6

\* What is known where the code goes on.
LEMMA GoesOn ==
    ASSUME Replayable, Telling, NEW r \in Runs, Recorded(r) \/ local[r].at[1] \notin Throwing
    PROVE  /\ local[r].out = None /\ Located(local[r]) /\ DOMAIN local[r] = Fields
           /\ Talk(r, journal[r], sent[r], local[r], Owed(r), journal)
           /\ <<"session">> \in DOMAIN journal[r]
           /\ local[r].at[1] \in Speaking => Fit(local[r].messages, Owed(r), journal)
<1>1. local[r].out = None /\ Located(local[r]) /\ DOMAIN local[r] = Fields
    BY AtRest
<1>2. Talk(r, journal[r], sent[r], local[r], Owed(r), journal)
    BY DEF Telling
<1>3. <<"session">> \in DOMAIN journal[r]
    <2>1. CASE local[r].at[1] = "session"
        <3>1. local[r].at = <<"session">> /\ Recorded(r)
            BY <1>1, <2>1 DEF Located, Prelude, Throwing
        <3> QED BY <3>1 DEF Recorded
    <2>2. CASE local[r].at[1] # "session"
        BY <1>2, <2>2 DEF Talk
    <2> QED BY <2>1, <2>2
<1>4. local[r].at[1] \in Speaking => Fit(local[r].messages, Owed(r), journal)
    BY <1>2 DEF Talk
<1> QED BY <1>1, <1>2, <1>3, <1>4

\* On with other messages.
LEMMA SpeakingTells ==
    ASSUME Replayable, Telling, NEW r \in Runs, status[r] = "running",
           Recorded(r) \/ local[r].at[1] \notin Throwing,
           NEW attempt, Continue(r, attempt), attempt.out = None,
           attempt.at[1] \in Speaking \ {"save-session"},
           Fit(attempt.messages, Owed(r), journal)
    PROVE  Telling'
<1>1. Knows(r, journal[r], attempt, Owed(r), journal)
    BY GoesOn DEF Knows, Speaking
<1> QED BY <1>1, ContinueTells

\* On where nothing is said.
LEMMA WorkingTells ==
    ASSUME Replayable, Telling, NEW r \in Runs, status[r] = "running",
           Recorded(r) \/ local[r].at[1] \notin Throwing,
           NEW attempt, Continue(r, attempt), attempt.out = None,
           attempt.at[1] \in CallPcs \cup {"dispatch"}
    PROVE  Telling'
<1>1. Knows(r, journal[r], attempt, Owed(r), journal)
    BY GoesOn DEF Knows, Speaking, CallPcs
<1> QED BY <1>1, ContinueTells

\* Up to the first request.
LEMMA PreludeTells ==
    ASSUME Replayable, Telling, NEW r \in Runs, AfterSession(r) \/ AfterRecall(r) \/ AfterCompress(r)
    PROVE  Telling'
<1> DEFINE l == local[r]
<1>1. /\ l.out = None /\ Located(l) /\ DOMAIN l = Fields /\ Recorded(r) /\ status[r] = "running"
      /\ l.at[1] \in Prelude /\ l.at = <<l.at[1]>>
      /\ Talk(r, journal[r], sent[r], l, Owed(r), journal) /\ <<"session">> \in DOMAIN journal[r]
      /\ l.at[1] \in Speaking => Fit(l.messages, Owed(r), journal)
    <2>1. Recorded(r) /\ l.at[1] \in Prelude /\ status[r] = "running"
        BY DEF AfterSession, AfterRecall, AfterCompress, Resume, At, Prelude
    <2> QED BY <2>1, GoesOn DEF Located
<1>2. ASSUME NEW at, at[1] \in {"memory-recall", "memory-compress", "llm"}, NEW m, Fit(m, Owed(r), journal),
             Continue(r, [Goto(l, at) EXCEPT !.messages = m])
      PROVE  Telling'
    <2> DEFINE l2 == [Goto(l, at) EXCEPT !.messages = m]
    <2>1. l2.at = at /\ l2.out = None /\ l2.messages = m
        BY <1>1 DEF Goto, Fields
    <2>2. Continue(r, l2)
        BY <1>2
    <2> HIDE DEF l2
    <2>3. l2.at[1] \in Speaking \ {"save-session"} /\ Fit(l2.messages, Owed(r), journal)
        BY <1>2, <2>1 DEF Speaking
    <2> QED BY <1>1, <2>1, <2>2, <2>3, SpeakingTells
<1>3. \A k \in DOMAIN journal[r] \cap {<<"session">>, <<"memory-compress">>} : Fit(journal[r][k], Owed(r), journal)
    BY <1>1 DEF Talk
<1>4. /\ <<"memory-recall">>[1] = "memory-recall" /\ <<"memory-compress">>[1] = "memory-compress"
      /\ <<"llm", 0>>[1] = "llm"
    OBVIOUS
<1>5. CASE AfterSession(r)
    <2>1. Fit(Result(r), Owed(r), journal)
        BY <1>1, <1>3, <1>5 DEF AfterSession, At, Result
    <2>2. CASE HasMemory
        BY <1>2, <1>4, <1>5, <2>1, <2>2 DEF AfterSession, Resume
    <2>3. CASE ~HasMemory
        <3>1. Fit(Prompt(r, Result(r), {}), Owed(r), journal)
            BY <2>1, PromptFit
        <3> QED BY <1>2, <1>4, <1>5, <2>3, <3>1 DEF AfterSession, Resume
    <2> QED BY <2>2, <2>3
<1>6. CASE AfterRecall(r)
    <2> DEFINE m == Prompt(r, l.messages, Result(r))
    <2>1. Fit(m, Owed(r), journal)
        BY <1>1, <1>6, PromptFit DEF AfterRecall, At, Speaking
    <2>2. Continue(r, [Goto(l, <<"memory-compress">>) EXCEPT !.messages = m])
        <3>1. Continue(r, [Goto(l, <<"memory-compress">>) EXCEPT !.messages = Prompt(r, @, Result(r))])
            BY <1>6 DEF AfterRecall, Resume
        <3>2. [Goto(l, <<"memory-compress">>) EXCEPT !.messages = Prompt(r, @, Result(r))]
              = [Goto(l, <<"memory-compress">>) EXCEPT !.messages = m]
            BY <1>1 DEF Goto, Fields
        <3> QED BY <3>1, <3>2
    <2> HIDE DEF m
    <2> QED BY <1>2, <1>4, <2>1, <2>2
<1>7. CASE AfterCompress(r)
    <2>1. l.at = <<"memory-compress">> /\ Continue(r, [Goto(l, <<"llm", 0>>) EXCEPT !.messages = Result(r)])
        BY <1>1, <1>7 DEF AfterCompress, At, Resume
    <2>2. Fit(Result(r), Owed(r), journal)
        BY <1>1, <1>3, <2>1 DEF Recorded, Result
    <2> QED BY <1>2, <1>4, <2>1, <2>2
<1> QED BY <1>5, <1>6, <1>7

\* The reply is over budget, or an answer, or asks for tools.
LEMMA AfterModelTells == ASSUME Replayable, Telling, NEW r \in Runs, AfterModel(r) PROVE Telling'
<1> DEFINE l == local[r]
           all == toolUses(Result(r))
<1>1. /\ l.out = None /\ DOMAIN l = Fields /\ Recorded(r) /\ status[r] = "running" /\ l.at[1] = "llm"
      /\ Fit(l.messages, Owed(r), journal)
    <2>1. Recorded(r) /\ l.at[1] = "llm" /\ status[r] = "running"
        BY DEF AfterModel, At
    <2> QED BY <2>1, GoesOn DEF Speaking
<1>2. CASE Throw(r)
    BY <1>1, <1>2, EndingsTell
<1>3. ASSUME ~Throw(r), all = <<>> PROVE Telling'
    <2> DEFINE l2 == [Goto(l, <<"output">>) EXCEPT !.tokens = Spent(r), !.json = Result(r).json]
    <2>1. Continue(r, l2)
        BY <1>3 DEF AfterModel
    <2>2. l2.at = <<"output">> /\ l2.out = None /\ l2.messages = l.messages
        BY <1>1 DEF Goto, Fields
    <2> HIDE DEF l2
    <2>3. l2.at[1] \in Speaking \ {"save-session"} /\ Fit(l2.messages, Owed(r), journal)
        BY <1>1, <2>2 DEF Speaking
    <2> QED BY <1>1, <2>1, <2>2, <2>3, SpeakingTells
<1>4. ASSUME ~Throw(r), all # <<>> PROVE Telling'
    <2> DEFINE l2 == [Goto(l, <<"dispatch">>) EXCEPT
                        !.tokens = Spent(r), !.calls = all, !.results = <<>>,
                        !.messages = Append(@, Use(r, all))]
    <2>1. Continue(r, l2)
        BY <1>4 DEF AfterModel, Use
    <2>2. l2.at = <<"dispatch">> /\ l2.out = None
        BY <1>1 DEF Goto, Fields
    <2> HIDE DEF l2
    <2>3. l2.at[1] \in CallPcs \cup {"dispatch"}
        BY <2>2
    <2> QED BY <1>1, <2>1, <2>2, <2>3, WorkingTells
<1> QED BY <1>2, <1>3, <1>4

\* The calls are worked off.
LEMMA CallsTell ==
    ASSUME Replayable, Telling, NEW r \in Runs,
           Dispatch(r) \/ AfterApproval(r) \/ AfterHandoff(r) \/ AfterTool(r)
    PROVE  Telling'
<1> DEFINE l == local[r]
<1>1. /\ l.out = None /\ DOMAIN l = Fields /\ status[r] = "running"
      /\ Recorded(r) \/ l.at[1] \notin Throwing
    <2>1. status[r] = "running" /\ (Recorded(r) \/ l.at[1] \notin Throwing)
        BY DEF Dispatch, AfterApproval, AfterHandoff, AfterTool, Resume, At, Throwing
    <2> QED BY <2>1, GoesOn
<1>2. ASSUME NEW l2, Continue(r, l2), l2.out = None, l2.at[1] \in CallPcs \cup {"dispatch"} PROVE Telling'
    BY <1>1, <1>2, WorkingTells
<1>3. ASSUME Continue(r, Answered(l)) PROVE Telling'
    <2>1. Answered(l).out = None /\ Answered(l).at = <<"dispatch">>
        BY <1>1 DEF Answered, Goto, Fields
    <2>2. Answered(l).at[1] \in CallPcs \cup {"dispatch"}
        BY <2>1
    <2> QED BY <1>2, <1>3, <2>1, <2>2
<1>4. ASSUME NEW pc \in CallPcs, Continue(r, Goto(l, <<pc, l.i, Head(l.calls).id>>)) PROVE Telling'
    <2> DEFINE l2 == Goto(l, <<pc, l.i, Head(l.calls).id>>)
    <2>1. l2.out = None /\ l2.at[1] = pc /\ Continue(r, l2)
        BY <1>1, <1>4 DEF Goto, Fields
    <2> HIDE DEF l2
    <2> QED BY <1>2, <2>1
<1>5. ASSUME Continue(r, Perform(l)) PROVE Telling'
    <2> DEFINE pc == IF Tools[Head(l.calls).name].handoff THEN "handoff" ELSE "tool"
    <2>1. pc \in CallPcs /\ Continue(r, Goto(l, <<pc, l.i, Head(l.calls).id>>))
        BY <1>5 DEF Perform, CallPcs
    <2> HIDE DEF pc
    <2> QED BY <1>4, <2>1
<1>6. CASE Throw(r)
    BY <1>1, <1>6, EndingsTell
<1>7. CASE Dispatch(r)
    <2>1. \/ Continue(r, Answered(l)) \/ Continue(r, Perform(l))
          \/ Continue(r, Goto(l, <<"approval", l.i, Head(l.calls).id>>))
        BY <1>7 DEF Dispatch
    <2>2. "approval" \in CallPcs
        BY DEF CallPcs
    <2> QED BY <1>3, <1>4, <1>5, <2>1, <2>2
<1>8. CASE AfterApproval(r) \/ AfterHandoff(r) \/ AfterTool(r)
    <2>1. Continue(r, Answered(l)) \/ Continue(r, Perform(l)) \/ Throw(r)
        BY <1>8 DEF AfterApproval, AfterHandoff, AfterTool, Resume
    <2> QED BY <1>3, <1>5, <1>6, <2>1
<1> QED BY <1>7, <1>8

\* The calls and their results go into the next request.
LEMMA EndIterationTells == ASSUME Replayable, Telling, NEW r \in Runs, EndIteration(r) PROVE Telling'
<1> DEFINE l == local[r]
           l2 == [Goto(l, <<"llm", l.i + 1>>) EXCEPT
                    !.i = @ + 1, !.results = <<>>, !.messages = Append(@, Reply(r, l.results))]
<1>1. /\ l.out = None /\ DOMAIN l = Fields /\ status[r] = "running" /\ l.at[1] = "dispatch"
      /\ l.i \in Iterations /\ l.at[1] \notin Throwing
      /\ Talk(r, journal[r], sent[r], l, Owed(r), journal)
    <2>1. status[r] = "running" /\ l.at[1] = "dispatch" /\ l.at[1] \notin Throwing
        BY DEF EndIteration, At, Throwing
    <2> QED BY <2>1, GoesOn DEF Located
<1>2. CASE Throw(r)
    BY <1>1, <1>2, EndingsTell
<1>3. CASE ~Throw(r)
    <2>1. Continue(r, l2)
        BY <1>3 DEF EndIteration, Reply
    <2>2. l2.at = Llm(l.i + 1) /\ l2.out = None /\ l2.i = l.i + 1
        BY <1>1 DEF Goto, Fields, Llm
    <2> HIDE DEF l2
    <2>3. local'[r] = l2 /\ journal' = journal /\ sent' = sent
        BY <2>1 DEF Continue, history, Replayable, Shape
    <2>4. Replayable'
        BY EndIterationKeeps
    <2>5. l2.at[1] = "llm" /\ l.i \in Nat /\ l.i + 1 > 0 /\ (l.i + 1) - 1 = l.i
        BY <1>1, <2>2, StepIds, OptionsAssumption DEF Iterations
    <2>6. ModelRequest(r, journal[r], sent[r], l.i + 1, l2.messages)
        <3>1. Derived(r, journal'[r], sent'[r], local'[r])
            BY <2>4 DEF Replayable, Consistent, Good
        <3>2. Derived(r, journal[r], sent[r], l2)
            BY <2>3, <3>1
        <3> QED BY <2>2, <2>5, <3>2 DEF Derived
    <2> DEFINE calls == toolUses(journal[r][Llm(l.i)])
    <2>7. PICK q \in sent[r] : l2.messages = Append(Append(q[2], Use(r, calls)), Reply(r, Results(calls)))
        BY <2>5, <2>6 DEF ModelRequest, Extended
    <2>8. Llm(l.i) \in DOMAIN journal[r]
        <3>1. l.i \in 0 .. (l.i + 1) - 1
            BY <2>5
        <3> QED BY <2>6, <3>1 DEF ModelRequest, Earlier, Asked
    <2>9. Len(calls) \in Nat
        <3>1. PICK i \in Iterations : journal[r][Llm(l.i)] \in ResponseOf(i)
            BY <2>8, StepIds DEF Replayable, Consistent, Journaled
        <3>2. calls \in Seq(Call(i))
            BY <3>1 DEF ResponseOf, toolUses
        <3> QED BY <3>2
    <2>10. Replied(journal, calls)
        BY <1>1, <2>8 DEF Replied, Turn
    <2>11. Fit(q[2], Owed(r), journal)
        BY <1>1 DEF Talk
    <2> HIDE DEF calls
    <2>12. Fit(l2.messages, Owed(r), journal)
        BY <2>7, <2>9, <2>10, <2>11, ExtendedFit
    <2>13. l2.at[1] \in Speaking \ {"save-session"}
        BY <2>5 DEF Speaking
    <2> QED BY <1>1, <2>1, <2>2, <2>12, <2>13, SpeakingTells
<1> QED BY <1>2, <1>3

\* The answer, its repair, the memory and the session.
LEMMA OutputTells ==
    ASSUME Replayable, Telling, NEW r \in Runs,
           ValidateOutput(r) \/ AfterFix(r) \/ AfterRemember(r) \/ AfterSave(r)
    PROVE  Telling'
<1> DEFINE l == local[r]
<1>1. /\ l.out = None /\ DOMAIN l = Fields /\ status[r] = "running"
      /\ Recorded(r) \/ l.at[1] \notin Throwing
      /\ Fit(l.messages, Owed(r), journal) /\ <<"session">> \in DOMAIN journal[r]
    <2>1. /\ status[r] = "running" /\ l.at[1] \in Speaking
          /\ Recorded(r) \/ l.at[1] \notin Throwing
        BY DEF ValidateOutput, AfterFix, AfterRemember, AfterSave, Resume, At, Throwing, Speaking
    <2> QED BY <2>1, GoesOn
<1>2. ASSUME NEW pc \in {"memory-remember", "save-session", "return"}, Continue(r, Goto(l, <<pc>>)),
             pc = "return" /\ Session[r] # NoSession => <<"save-session">> \in DOMAIN journal[r]
      PROVE  Telling'
    <2> DEFINE l2 == Goto(l, <<pc>>)
    <2>1. l2.at = <<pc>> /\ l2.out = None /\ l2.messages = l.messages /\ <<pc>>[1] = pc
        BY <1>1 DEF Goto, Fields
    <2>2. Continue(r, l2)
        BY <1>2
    <2> HIDE DEF l2
    <2>3. Knows(r, journal[r], l2, Owed(r), journal)
        BY <1>1, <1>2, <2>1 DEF Knows
    <2> QED BY <1>1, <2>2, <2>3, ContinueTells
<1>3. CASE Continue(r, AfterAnswer(r))
    <2>1. PICK pc \in {"memory-remember", "save-session", "return"} :
            AfterAnswer(r) = Goto(l, <<pc>>) /\ (pc = "return" => Session[r] = NoSession)
        BY DEF AfterAnswer
    <2> QED BY <1>2, <1>3, <2>1
<1>4. CASE AfterRemember(r)
    <2>1. PICK pc \in {"memory-remember", "save-session", "return"} :
            Continue(r, Goto(l, <<pc>>)) /\ (pc = "return" => Session[r] = NoSession)
        BY <1>4 DEF AfterRemember, Resume
    <2> QED BY <1>2, <2>1
<1>5. CASE AfterSave(r)
    <2>1. l.at[1] = "save-session" /\ Recorded(r) /\ Continue(r, Goto(l, <<"return">>))
        BY <1>5 DEF AfterSave, At, Resume
    <2>2. l.at = <<"save-session">>
        BY <2>1 DEF Telling, Talk
    <2>3. <<"save-session">> \in DOMAIN journal[r]
        BY <2>1, <2>2 DEF Recorded
    <2> QED BY <1>2, <2>1, <2>3
<1>6. CASE Throw(r)
    BY <1>1, <1>6, EndingsTell
<1>7. CASE ValidateOutput(r) /\ HasOutput /\ ~l.json
    <2> DEFINE m == l.messages \o <<Text("assistant", "text", {r}), Text("user", "text", {r})>>
               l2 == [Goto(l, <<"llm-output-fix">>) EXCEPT !.messages = m]
    <2>1. Continue(r, l2)
        <3>1. Continue(r, [Goto(l, <<"llm-output-fix">>) EXCEPT
                 !.messages = @ \o <<Text("assistant", "text", {r}), Text("user", "text", {r})>>])
            BY <1>7 DEF ValidateOutput
        <3>2. l2 = [Goto(l, <<"llm-output-fix">>) EXCEPT
                 !.messages = @ \o <<Text("assistant", "text", {r}), Text("user", "text", {r})>>]
            BY <1>1 DEF Goto, Fields
        <3> QED BY <3>1, <3>2
    <2>2. l2.at = <<"llm-output-fix">> /\ l2.out = None /\ l2.messages = m
        BY <1>1 DEF Goto, Fields
    <2>3. Fit(m, Owed(r), journal)
        BY <1>1, RepairedFit
    <2> HIDE DEF l2, m
    <2>4. l2.at[1] \in Speaking \ {"save-session"}
        BY <2>2 DEF Speaking
    <2> QED BY <1>1, <2>1, <2>2, <2>3, <2>4, SpeakingTells
<1> QED BY <1>3, <1>4, <1>5, <1>6, <1>7 DEF ValidateOutput, AfterFix

\* Every step keeps what the runs know of each other.
LEMMA TellingStep == Replayable /\ Telling /\ [Next]_vars => Telling'
<1> SUFFICES ASSUME Replayable, Telling, [Next]_vars PROVE Telling'
    OBVIOUS
<1>1. ASSUME NEW r \in Runs, Advance(r) PROVE Telling'
    <2>1. Return(r) => At(r, "return")
        BY DEF Return
    <2> QED BY <1>1, <2>1, BodiesTell, PreludeTells, AfterModelTells, CallsTell, EndIterationTells,
               EndingsTell, OutputTells, SaveTells, RecordTells DEF Advance
<1>2. CASE UNCHANGED vars
    <2>1. UNCHANGED <<status, journal, local, sent, sessions, before>>
        BY <1>2 DEF vars
    <2>2. \A r \in Runs : Owed(r)' = Owed(r) /\ Saved(r)' = Saved(r) /\ Alone(r)' = Alone(r)
        BY <2>1 DEF Owed, Saved, Alone
    <2>3. \A r \in Runs : Stored(r)' /\ Stage(r)'
        BY <2>1, <2>2 DEF Telling, Stored, Stage
    <2>4. \A r \in Runs : Talk(r, journal'[r], sent'[r], local'[r], Owed(r)', journal')
        BY <2>1, <2>2 DEF Telling
    <2> QED BY <2>1, <2>3, <2>4 DEF Telling
<1>3. ASSUME NEW r \in Runs, FailStep(r) PROVE Telling'
    BY <1>3, EndingsTell
<1> QED BY <1>1, <1>2, <1>3, TriggerTells, WaitsTell, CrashTells DEF Next, Done

\* makeAgent (agent.ts) and the session store: the invariant that ties every
\* conversation to the runs it speaks of and the replies it holds.
THEOREM ConversationsFit == Spec => []Telling
<1>1. Replayable /\ Telling /\ [Next]_vars => Replayable' /\ Telling'
    BY ReplayableStep, TellingStep
<1>2. Init => Replayable /\ Telling
    BY ReplayableInit, TellingInit
<1> QED BY <1>1, <1>2, PTL DEF Spec

\* Sessions (agent.ts 262-268, 491-505): a run triggered after another of its
\* session completed, with no third run overlapping, speaks of that run in each of
\* its requests, through the window, the summary, crashes and replays.
THEOREM HistoryIsKnown == Spec => []HistoryCarriesOver
<1>1. Telling => HistoryCarriesOver
    <2> SUFFICES ASSUME Telling, NEW r \in Runs, NEW q \in Runs,
                        q \in before[r], Session[q] = Session[r], Session[r] # NoSession,
                        \A p \in Runs \ {q, r} : Session[p] = Session[r] => p \in before[q] \/ r \in before[p],
                        NEW request \in sent[r]
                 PROVE  \E j \in DOMAIN request[2] : q \in request[2][j].of
        BY DEF HistoryCarriesOver
    <2>1. q \in Owed(r)
        BY DEF Owed
    <2>2. Fit(request[2], Owed(r), journal)
        BY DEF Telling, Talk
    <2>3. IsSeq(request[2]) /\ Mentions(request[2], q)
        BY <2>1, <2>2 DEF Fit
    <2>4. DOMAIN request[2] = 1 .. Len(request[2])
        BY <2>3, SeqBasics
    <2> QED BY <2>3, <2>4 DEF Mentions
<1> QED BY <1>1, ConversationsFit, PTL

-----------------------------------------------------------------------------
(* Sequences of sequences, laid end to end *)

\* A set of numbers has a least element: induction without a predicate as parameter.
LEMMA LeastOf ==
    ASSUME NEW T \in SUBSET Nat, T # {}
    PROVE  \E x \in T : \A y \in T : x <= y
<1>1. \E x \in T : \A y \in T : ~ (<<y, x>> \in OpToRel(<, Nat))
    BY NatLessThanWellFounded, WFMin
<1>2. PICK x \in T : \A y \in T : ~ (<<y, x>> \in OpToRel(<, Nat))
    BY <1>1
<1>3. ASSUME NEW y \in T PROVE x <= y
    <2>1. ~(y < x)
        BY <1>2 DEF OpToRel
    <2> QED BY <2>1
<1> QED BY <1>3

\* So a set with 0 and the successor of each of its elements holds every number.
LEMMA AllNumbers ==
    ASSUME NEW T \in SUBSET Nat, 0 \in T, \A n \in T : n + 1 \in T
    PROVE  T = Nat
<1> SUFFICES ASSUME Nat \ T # {} PROVE FALSE
    OBVIOUS
<1>1. PICK x \in Nat \ T : \A y \in Nat \ T : x <= y
    BY LeastOf
<1>2. x # 0 /\ x - 1 \in Nat
    BY <1>1
<1>3. x - 1 \in T
    BY <1>1, <1>2
<1> QED BY <1>1, <1>2, <1>3

\* And a set of numbers with a bound has a greatest element.
LEMMA GreatestOf ==
    ASSUME NEW n \in Nat, NEW T \in SUBSET (0 .. n), T # {}
    PROVE  \E x \in T : \A y \in T : y <= x
<1> DEFINE U == {y \in 0 .. n : n - y \in T}
<1>1. U # {} /\ U \in SUBSET Nat
    <2>1. PICK x \in T : TRUE
        OBVIOUS
    <2>2. x \in 0 .. n
        OBVIOUS
    <2>3. n - x \in 0 .. n /\ n - (n - x) = x
        BY <2>2
    <2>4. n - x \in U
        <3>1. n - (n - x) \in T
            BY <2>1, <2>3
        <3> QED BY <2>3, <3>1
    <2>5. U \in SUBSET Nat
        OBVIOUS
    <2> HIDE DEF U
    <2> QED BY <2>4, <2>5
<1>2. PICK z \in U : \A y \in U : z <= y
    BY <1>1, LeastOf
<1>3. n - z \in T /\ \A y \in T : y <= n - z
    <2> SUFFICES ASSUME NEW y \in T PROVE y <= n - z
        BY <1>2
    <2>4. y \in 0 .. n
        OBVIOUS
    <2>1. n - y \in 0 .. n /\ n - (n - y) = y
        BY <2>4
    <2>2. n - y \in U
        BY <2>1
    <2>3. z <= n - y
        BY <1>2, <2>2
    <2> QED BY <1>2, <2>3
<1> QED BY <1>3

\* F is the first n sequences of s, the i-th from behind place off[i - 1].
Laid(s, off, F, n) ==
  /\ IsSeq(F) /\ off[0] = 0 /\ Len(F) = off[n]
  /\ \A i \in 0 .. n : off[i] \in Nat
  /\ \A i \in 1 .. n : off[i] = off[i - 1] + Len(s[i])
  /\ \A i \in 1 .. n : \A k \in 1 .. Len(s[i]) : F[off[i - 1] + k] = s[i][k] /\ off[i - 1] + k \in 1 .. Len(F)
  /\ \A p \in 1 .. Len(F) : \E i \in 1 .. n : \E k \in 1 .. Len(s[i]) : p = off[i - 1] + k

\* One more of them.
LEMMA LaidStep ==
    ASSUME NEW s, NEW off, NEW F, NEW n \in Nat, Laid(s, off, F, n), IsSeq(s[n + 1])
    PROVE  \E off2 : Laid(s, off2, F \o s[n + 1], n + 1)
<1> DEFINE x == s[n + 1]
           G == F \o x
           off2 == [i \in 0 .. n + 1 |-> IF i = n + 1 THEN Len(F) + Len(x) ELSE off[i]]
<1>1. PICK a, b \in Nat : a = Len(F) /\ b = Len(x)
    BY SeqBasics DEF Laid
<1>0. IsSeq(F) /\ IsSeq(x)
    BY DEF Laid
<1>2. /\ IsSeq(G) /\ Len(G) = a + b /\ \A j \in 1 .. a : G[j] = F[j]
      /\ \A j \in 1 .. b : G[a + j] = x[j]
    <2> HIDE DEF x
    <2>1. /\ IsSeq(G) /\ Len(G) = Len(F) + Len(x) /\ \A j \in 1 .. Len(F) : G[j] = F[j]
          /\ \A j \in 1 .. Len(x) : G[Len(F) + j] = x[j]
        BY <1>0, ConcatSeq
    <2> QED BY <1>1, <2>1
<1>3. off2[n + 1] = a + b /\ \A i \in 0 .. n : off2[i] = off[i]
    BY <1>1
<1>4. \A i \in 1 .. n : i \in 0 .. n /\ i - 1 \in 0 .. n /\ i # n + 1
    OBVIOUS
<1>5. off[n] = a /\ off2[n] = a /\ (n + 1) - 1 = n
    BY <1>1, <1>3 DEF Laid
<1>6. \A i \in 1 .. n + 1 : i \in 1 .. n \/ i = n + 1
    OBVIOUS
<1> HIDE DEF G, off2
<1>7. off2[0] = 0 /\ \A i \in 0 .. n + 1 : off2[i] \in Nat
    <2>1. \A i \in 0 .. n + 1 : i \in 0 .. n \/ i = n + 1
        OBVIOUS
    <2>2. 0 \in 0 .. n /\ a + b \in Nat
        OBVIOUS
    <2> QED BY <1>3, <2>1, <2>2 DEF Laid
<1>8. \A i \in 1 .. n + 1 : off2[i] = off2[i - 1] + Len(s[i])
    <2> TAKE i \in 1 .. n + 1
    <2>1. CASE i \in 1 .. n
        BY <1>3, <1>4, <2>1 DEF Laid
    <2>2. CASE i = n + 1
        BY <1>1, <1>3, <1>5, <2>2
    <2> QED BY <1>6, <2>1, <2>2
<1>9. ASSUME NEW i \in 1 .. n + 1, NEW k \in 1 .. Len(s[i])
      PROVE  G[off2[i - 1] + k] = s[i][k] /\ off2[i - 1] + k \in 1 .. Len(G)
    <2>1. CASE i \in 1 .. n
        <3>1. off2[i - 1] = off[i - 1] /\ F[off[i - 1] + k] = s[i][k] /\ off[i - 1] + k \in 1 .. a
            BY <1>1, <1>3, <1>4, <2>1 DEF Laid
        <3>2. off[i - 1] + k \in 1 .. a + b
            BY <3>1
        <3> QED BY <1>2, <3>1, <3>2
    <2>2. CASE i = n + 1
        <3>1. k \in 1 .. b
            BY <1>1, <2>2
        <3>2. a + k \in 1 .. a + b
            BY <3>1
        <3> QED BY <1>2, <1>5, <2>2, <3>1, <3>2
    <2> QED BY <1>6, <2>1, <2>2
<1>10. ASSUME NEW p \in 1 .. a + b
       PROVE  \E i \in 1 .. n + 1 : \E k \in 1 .. Len(s[i]) : p = off2[i - 1] + k
    <2>1. CASE p <= a
        <3>1. p \in 1 .. a
            BY <2>1
        <3>2. PICK i \in 1 .. n : \E k \in 1 .. Len(s[i]) : p = off[i - 1] + k
            BY <1>1, <3>1 DEF Laid
        <3>3. i \in 1 .. n + 1 /\ off2[i - 1] = off[i - 1]
            BY <1>3, <1>4
        <3> QED BY <3>2, <3>3
    <2>2. CASE ~(p <= a)
        <3>1. p - a \in 1 .. b /\ p = a + (p - a) /\ n + 1 \in 1 .. n + 1
            BY <2>2
        <3>2. p - a \in 1 .. Len(s[n + 1]) /\ p = off2[(n + 1) - 1] + (p - a)
            BY <1>1, <1>5, <3>1
        <3> QED BY <3>1, <3>2
    <2> QED BY <2>1, <2>2
<1>11. Laid(s, off2, G, n + 1)
    BY <1>2, <1>3, <1>7, <1>8, <1>9, <1>10 DEF Laid
<1>12. \E o : Laid(s, o, G, n + 1)
    BY <1>11
<1> QED BY <1>12 DEF G

\* None of them.
LEMMA LaidNone == ASSUME NEW s PROVE Laid(s, [i \in 0 .. 0 |-> 0], <<>>, 0)
<1>1. IsSeq(<<>>) /\ Len(<<>>) = 0
    BY DEF IsSeq
<1> QED BY <1>1 DEF Laid

\* The function inside FlattenSeq exists.
LEMMA FlattenIs ==
    ASSUME NEW s, Len(s) \in Nat \ {0}
    PROVE  \E f : /\ f = [i \in 1 .. Len(s) |-> IF i = 1 THEN s[i] ELSE f[i - 1] \o s[i]]
                  /\ FlattenSeq(s) = f[Len(s)]
<1> DEFINE P(f, n) == f = [i \in 1 .. n |-> IF i = 1 THEN s[i] ELSE f[i - 1] \o s[i]]
           T == {n \in Nat : \E f : P(f, n)}
<1>1. 0 \in T
    <2>1. P(<<>>, 0)
        OBVIOUS
    <2> QED BY <2>1
<1>2. ASSUME NEW n \in T PROVE n + 1 \in T
    <2>1. PICK f : P(f, n)
        OBVIOUS
    <2> DEFINE g == [i \in 1 .. n + 1 |->
                       IF i = n + 1 THEN (IF i = 1 THEN s[i] ELSE f[i - 1] \o s[i]) ELSE f[i]]
    <2>2. n \in Nat
        OBVIOUS
    <2>3. ASSUME NEW i \in 1 .. n + 1 PROVE g[i] = IF i = 1 THEN s[i] ELSE g[i - 1] \o s[i]
        <3>1. CASE i = n + 1
            BY <2>2, <3>1
        <3>2. CASE i # n + 1
            <4>1. i \in 1 .. n /\ (i # 1 => i - 1 \in 1 .. n)
                BY <2>2, <3>2
            <4>2. f[i] = IF i = 1 THEN s[i] ELSE f[i - 1] \o s[i]
                BY <2>1, <4>1
            <4>3. g[i] = f[i] /\ (i # 1 => g[i - 1] = f[i - 1])
                BY <2>2, <4>1, <3>2
            <4> HIDE DEF g
            <4> QED BY <4>2, <4>3
        <3> QED BY <3>1, <3>2
    <2>4. P(g, n + 1)
        BY <2>3
    <2> HIDE DEF g, P
    <2>5. \E h : P(h, n + 1)
        BY <2>4
    <2> QED BY <2>5, <2>2
<1>3. T = Nat
    <2> HIDE DEF T
    <2>1. T \in SUBSET Nat
        BY DEF T
    <2> QED BY <1>1, <1>2, <2>1, AllNumbers
<1>4. \E f : P(f, Len(s))
    BY <1>3
<1> QED BY <1>4 DEF FlattenSeq

\* FlattenSeq lays all of them.
LEMMA FlattenLays ==
    ASSUME NEW s, IsSeq(s), \A i \in 1 .. Len(s) : IsSeq(s[i])
    PROVE  \E off : Laid(s, off, FlattenSeq(s), Len(s))
<1>1. PICK n \in Nat : n = Len(s)
    BY SeqBasics
<1>2. CASE n = 0
    <2>1. s = <<>>
        <3>1. s \in Seq(Range(s)) /\ Len(s) = 0
            BY <1>1, <1>2 DEF IsSeq
        <3> QED BY <3>1, EmptySeq
    <2>2. FlattenSeq(s) = s
        BY <1>1, <1>2 DEF FlattenSeq
    <2>3. \E off : Laid(s, off, <<>>, 0)
        BY LaidNone
    <2> QED BY <1>1, <1>2, <2>1, <2>2, <2>3
<1>3. CASE n # 0
    <2>1. PICK f : /\ f = [i \in 1 .. n |-> IF i = 1 THEN s[i] ELSE f[i - 1] \o s[i]]
                   /\ FlattenSeq(s) = f[n]
        BY <1>1, <1>3, FlattenIs
    <2>2. \A i \in 1 .. n : f[i] = IF i = 1 THEN s[i] ELSE f[i - 1] \o s[i]
        BY <2>1
    <2> DEFINE T == {i \in Nat : i + 1 \in 1 .. n => \E off : Laid(s, off, f[i + 1], i + 1)}
    <2>3. 0 \in T
        <3>1. 0 + 1 = 1 /\ 1 \in 1 .. n /\ 0 \in Nat
            BY <1>3
        <3>2. f[1] = <<>> \o s[1]
            <4>1. f[1] = s[1]
                BY <2>2, <3>1
            <4>2. s[1] \in Seq(Range(s[1]))
                BY <1>1, <3>1 DEF IsSeq
            <4> QED BY <4>1, <4>2, ConcatEmptySeq
        <3>3. IsSeq(s[0 + 1])
            BY <1>1, <3>1
        <3>4. \E off : Laid(s, off, <<>> \o s[0 + 1], 0 + 1)
            BY <3>1, <3>3, LaidNone, LaidStep
        <3> QED BY <3>1, <3>2, <3>4
    <2>4. ASSUME NEW i \in T PROVE i + 1 \in T
        <3>1. i \in Nat /\ i + 1 \in Nat
            OBVIOUS
        <3>2. ASSUME (i + 1) + 1 \in 1 .. n PROVE \E off : Laid(s, off, f[(i + 1) + 1], (i + 1) + 1)
            <4>1. i + 1 \in 1 .. n /\ (i + 1) + 1 # 1 /\ ((i + 1) + 1) - 1 = i + 1
                BY <3>1, <3>2
            <4>2. PICK off : Laid(s, off, f[i + 1], i + 1)
                BY <4>1
            <4>3. f[(i + 1) + 1] = f[i + 1] \o s[(i + 1) + 1]
                BY <2>2, <3>2, <4>1
            <4>4. IsSeq(s[(i + 1) + 1])
                BY <1>1, <3>2
            <4> HIDE DEF T
            <4> QED BY <3>1, <4>2, <4>3, <4>4, LaidStep
        <3> QED BY <3>1, <3>2
    <2>5. T = Nat
        <3> HIDE DEF T
        <3>1. T \in SUBSET Nat
            BY DEF T
        <3> QED BY <2>3, <2>4, <3>1, AllNumbers
    <2>6. n - 1 \in Nat /\ (n - 1) + 1 = n /\ n \in 1 .. n
        BY <1>3
    <2>8. n - 1 \in T
        BY <2>5, <2>6
    <2>9. (n - 1) + 1 \in 1 .. n => \E off : Laid(s, off, f[(n - 1) + 1], (n - 1) + 1)
        BY <2>8
    <2>7. \E off : Laid(s, off, f[n], n)
        BY <2>6, <2>9
    <2> QED BY <1>1, <2>1, <2>7
<1> QED BY <1>2, <1>3

-----------------------------------------------------------------------------
(* Requests on the wire *)

\* The results behind a place, when the c messages behind it are results and the next is not.
LEMMA SpanIs ==
    ASSUME NEW wire, NEW p \in Nat, NEW c \in Nat, NEW n \in Nat, n = Len(wire), p + c <= n,
           \A k \in 1 .. c : wire[p + k].kind = "toolResult",
           p + c < n => wire[p + c + 1].kind # "toolResult"
    PROVE  ResultsAfter(wire, p) = FlattenSeq([k \in 1 .. c |-> wire[p + k].keys])
<1> DEFINE span == {k \in p + 1 .. Len(wire) : \A j \in p + 1 .. k : wire[j].kind = "toolResult"}
<1>1. ASSUME NEW k \in p + 1 .. n, k <= p + c PROVE k \in span
    <2>1. \A j \in p + 1 .. k : j - p \in 1 .. c /\ p + (j - p) = j
        BY <1>1
    <2> QED BY <2>1
<1>2. ASSUME NEW k \in span PROVE k \in p + 1 .. n /\ k <= p + c
    <2>1. k \in p + 1 .. n /\ \A j \in p + 1 .. k : wire[j].kind = "toolResult"
        OBVIOUS
    <2>2. ASSUME ~(k <= p + c) PROVE FALSE
        <3>1. p + c + 1 \in p + 1 .. k /\ p + c < n
            BY <2>1, <2>2
        <3> QED BY <2>1, <3>1
    <2> QED BY <2>1, <2>2
<1>3. span = p + 1 .. p + c
    <2>1. \A k \in p + 1 .. p + c : k \in p + 1 .. n /\ k <= p + c
        OBVIOUS
    <2>2. \A k \in p + 1 .. n : k <= p + c => k \in p + 1 .. p + c
        OBVIOUS
    <2> HIDE DEF span
    <2> QED BY <1>1, <1>2, <2>1, <2>2
<1>4. Cardinality(span) = c
    <2>1. p + 1 \in Int /\ p + c \in Int /\ (p + 1 > p + c => c = 0) /\ (p + c) - (p + 1) + 1 = c
        OBVIOUS
    <2> HIDE DEF span
    <2> QED BY <1>3, <2>1, FS_Interval
<1>5. ResultsAfter(wire, p) = FlattenSeq([k \in 1 .. Cardinality(span) |-> wire[p + k].keys])
    BY DEF ResultsAfter
<1> HIDE DEF span
<1> QED BY <1>4, <1>5

\* One sequence is laid as it is.
LEMMA FlattenOne == ASSUME NEW x PROVE FlattenSeq([k \in 1 .. 1 |-> x]) = x
<1> DEFINE s == [k \in 1 .. 1 |-> x]
<1>1. Len(s) = 1 /\ s[1] = x
    OBVIOUS
<1> HIDE DEF s
<1>4. Len(s) \in Nat \ {0}
    BY <1>1
<1>2. PICK f : /\ f = [i \in 1 .. Len(s) |-> IF i = 1 THEN s[i] ELSE f[i - 1] \o s[i]]
               /\ FlattenSeq(s) = f[Len(s)]
    BY <1>4, FlattenIs, Zenon
<1>3. f[1] = s[1]
    BY <1>1, <1>2
<1> QED BY <1>1, <1>2, <1>3 DEF s

\* Sequences of one element each are laid to the sequence of the elements.
LEMMA FlattenSingles ==
    ASSUME NEW c \in Nat, NEW x
    PROVE  FlattenSeq([k \in 1 .. c |-> <<x[k]>>]) = [k \in 1 .. c |-> x[k]]
<1> DEFINE s == [k \in 1 .. c |-> <<x[k]>>]
           F == FlattenSeq(s)
<1>1. Len(s) = c /\ \A i \in 1 .. c : s[i] = <<x[i]>> /\ Len(s[i]) = 1 /\ s[i][1] = x[i] /\ IsSeq(s[i])
    <2>1. Len(s) = c /\ \A i \in 1 .. c : s[i] = <<x[i]>> /\ Len(s[i]) = 1 /\ s[i][1] = x[i]
        OBVIOUS
    <2>2. ASSUME NEW i \in 1 .. c PROVE IsSeq(s[i])
        <3>1. s[i] \in Seq({x[i]})
            OBVIOUS
        <3> HIDE DEF s
        <3> QED BY <3>1, SeqRange
    <2> HIDE DEF s
    <2> QED BY <2>1, <2>2
<1>2. IsSeq(s)
    <2>1. s \in Seq({<<x[k]>> : k \in 1 .. c})
        OBVIOUS
    <2> HIDE DEF s
    <2> QED BY <2>1, SeqRange
<1> HIDE DEF s
<1>9. \A i \in 1 .. Len(s) : IsSeq(s[i])
    BY <1>1
<1>10. \E off : Laid(s, off, FlattenSeq(s), Len(s))
    BY <1>2, <1>9, FlattenLays
<1>3. PICK off : Laid(s, off, F, c)
    BY <1>1, <1>10, Zenon
<1> HIDE DEF F
<1>4. \A i \in 1 .. c : off[i] = off[i - 1] + 1 /\ F[off[i - 1] + 1] = x[i]
    <2> TAKE i \in 1 .. c
    <2>1. off[i] = off[i - 1] + Len(s[i])
        BY <1>3 DEF Laid
    <2>2. \A k \in 1 .. Len(s[i]) : F[off[i - 1] + k] = s[i][k]
        BY <1>3 DEF Laid
    <2>3. 1 \in 1 .. Len(s[i]) /\ Len(s[i]) = 1 /\ s[i][1] = x[i]
        BY <1>1
    <2> QED BY <2>1, <2>2, <2>3
<1>5. \A i \in 0 .. c : off[i] = i
    <2> DEFINE T == {i \in Nat : i <= c => off[i] = i}
    <2>1. 0 \in T
        BY <1>3 DEF Laid
    <2>2. ASSUME NEW i \in T PROVE i + 1 \in T
        <3>1. i \in Nat /\ (i <= c => off[i] = i)
            OBVIOUS
        <3>2. ASSUME i + 1 <= c PROVE off[i + 1] = i + 1
            <4>1. i + 1 \in 1 .. c /\ (i + 1) - 1 = i /\ i <= c
                BY <3>1, <3>2
            <4> QED BY <1>4, <3>1, <4>1
        <3> QED BY <3>1, <3>2
    <2>3. T = Nat
        <3> HIDE DEF T
        <3>1. T \in SUBSET Nat
            BY DEF T
        <3> QED BY <2>1, <2>2, <3>1, AllNumbers
    <2>4. \A i \in 0 .. c : i \in Nat /\ i <= c
        OBVIOUS
    <2> QED BY <2>3, <2>4
<1>6. Len(F) = c /\ IsSeq(F)
    <2>1. c \in 0 .. c
        OBVIOUS
    <2> QED BY <1>3, <1>5, <2>1 DEF Laid
<1>7. \A k \in 1 .. c : F[k] = x[k]
    <2> TAKE k \in 1 .. c
    <2>1. k - 1 \in 0 .. c /\ (k - 1) + 1 = k
        OBVIOUS
    <2>2. off[k - 1] = k - 1
        BY <1>5, <2>1
    <2> QED BY <1>4, <2>1, <2>2
<1>8. F = [k \in 1 .. c |-> x[k]]
    <2>1. F \in Seq(Range(F))
        BY <1>6 DEF IsSeq
    <2>2. F = [k \in 1 .. Len(F) |-> F[k]]
        BY <2>1
    <2> QED BY <1>6, <1>7, <2>2
<1> QED BY <1>8 DEF F, s

\* A wire with one message per message of the conversation m.
Mirrors(wire, m) ==
  /\ Len(wire) = Len(m) /\ DOMAIN wire = 1 .. Len(m)
  /\ \A j \in 1 .. Len(m) : wire[j].kind = m[j].kind

\* Such a wire is well-formed when the keys of a result message are those of its calls.
LEMMA MirrorWellFormed ==
    ASSUME NEW m, IsSeq(m), Paired(m), ~Cut(m), NEW wire, Mirrors(wire, m),
           \A j \in 1 .. Len(m) : m[j].kind = "toolUse" => wire[j + 1].keys = wire[j].keys
    PROVE  WellFormed(wire)
<1>1. PICK n \in Nat : n = Len(m)
    BY SeqBasics
<1>2. /\ Len(wire) = n /\ DOMAIN wire = 1 .. n /\ \A j \in 1 .. n : wire[j].kind = m[j].kind
    BY <1>1 DEF Mirrors
<1> SUFFICES ASSUME NEW j \in 1 .. n
             PROVE  /\ wire[j].kind = "toolUse" => ResultsAfter(wire, j) = wire[j].keys
                    /\ wire[j].kind = "toolResult" =>
                          j # 1 /\ wire[j - 1].kind \in {"toolUse", "toolResult"}
    BY <1>2 DEF WellFormed
<1>3. ASSUME wire[j].kind = "toolUse" PROVE ResultsAfter(wire, j) = wire[j].keys
    <2>1. m[j].kind = "toolUse" /\ j + 1 <= n /\ m[j + 1].kind = "toolResult"
        BY <1>1, <1>2, <1>3 DEF Paired
    <2>2. j + 1 \in 1 .. n /\ j \in Nat /\ 1 \in Nat
        BY <2>1
    <2>3. ASSUME j + 1 < n PROVE wire[j + 1 + 1].kind # "toolResult"
        <3>1. j + 1 + 1 \in 1 .. n /\ j + 1 + 1 # 1 /\ (j + 1 + 1) - 1 = j + 1
            BY <2>3
        <3>2. m[j + 1 + 1].kind # "toolResult"
            BY <1>1, <2>1, <3>1 DEF Paired
        <3> QED BY <1>2, <3>1, <3>2
    <2>4. \A k \in 1 .. 1 : wire[j + k].kind = "toolResult"
        <3>1. \A k \in 1 .. 1 : k = 1
            OBVIOUS
        <3> QED BY <1>2, <2>1, <2>2, <3>1
    <2>5. ResultsAfter(wire, j) = FlattenSeq([k \in 1 .. 1 |-> wire[j + k].keys])
        BY <1>2, <2>1, <2>2, <2>3, <2>4, SpanIs
    <2>6. [k \in 1 .. 1 |-> wire[j + k].keys] = [k \in 1 .. 1 |-> wire[j + 1].keys]
        OBVIOUS
    <2>7. FlattenSeq([k \in 1 .. 1 |-> wire[j + 1].keys]) = wire[j + 1].keys
        BY FlattenOne
    <2>8. wire[j + 1].keys = wire[j].keys
        BY <1>1, <2>1
    <2> QED BY <2>5, <2>6, <2>7, <2>8
<1>4. ASSUME wire[j].kind = "toolResult"
      PROVE  j # 1 /\ wire[j - 1].kind \in {"toolUse", "toolResult"}
    <2>1. m[j].kind = "toolResult" /\ DOMAIN m = 1 .. n
        BY <1>1, <1>2, <1>4, SeqBasics
    <2>2. j # 1 /\ m[j - 1].kind = "toolUse"
        BY <1>1, <2>1 DEF Paired, Cut
    <2>3. j - 1 \in 1 .. n
        BY <2>2
    <2> QED BY <1>2, <2>2, <2>3
<1> QED BY <1>3, <1>4

\* The replies in the journals JJ are responses, numbered.
Sound(JJ) ==
  \A p \in Runs : \A i \in Iterations :
     Turn(JJ, p, i) => JJ[p][Llm(i)].calls \in Seq(Call(i)) /\ Numbered(p, i, JJ[p][Llm(i)])

\* c is a call of one of them.
CalledIn(JJ, c) ==
  \E p \in Runs : \E i \in Iterations :
     Turn(JJ, p, i) /\ \E k \in 1 .. Len(JJ[p][Llm(i)].calls) : c = JJ[p][Llm(i)].calls[k]

\* What the invariants say of the journals.
LEMMA JournalsSound == ASSUME Replayable, Telling PROVE Sound(journal)
<1> SUFFICES ASSUME NEW p \in Runs, NEW i \in Iterations, Turn(journal, p, i)
             PROVE  /\ journal[p][Llm(i)].calls \in Seq(Call(i))
                    /\ Numbered(p, i, journal[p][Llm(i)])
    BY DEF Sound
<1>1. Llm(i) \in DOMAIN journal[p] /\ Llm(i)[1] = "llm"
    BY DEF Turn, Llm
<1>2. Journaled(journal[p], granted[p])
    BY DEF Replayable, Consistent
<1>3. PICK n \in Iterations : Llm(i) = Llm(n) /\ journal[p][Llm(i)] \in ResponseOf(n)
    BY <1>1, <1>2 DEF Journaled
<1>4. n = i
    BY <1>3 DEF Llm
<1>5. journal[p][Llm(i)].calls \in Seq(Call(i))
    BY <1>3, <1>4 DEF ResponseOf
<1>6. Numbered(p, i, journal[p][Llm(i)])
    BY <1>1 DEF Telling, Talk
<1> QED BY <1>5, <1>6

\* The calls of a reply.
LEMMA CallsAsked ==
    ASSUME NEW JJ, Sound(JJ), NEW calls, Replied(JJ, calls)
    PROVE  /\ IsSeq(calls) /\ DOMAIN calls = 1 .. Len(calls) /\ Len(calls) \in Nat
           /\ \A k \in 1 .. Len(calls) : CalledIn(JJ, calls[k])
<1>1. PICK p \in Runs, i \in Iterations : Turn(JJ, p, i) /\ calls = JJ[p][Llm(i)].calls
    BY DEF Replied, toolUses
<1>2. calls \in Seq(Call(i))
    BY <1>1 DEF Sound
<1>3. IsSeq(calls)
    BY <1>2, SeqRange
<1>4. \A k \in 1 .. Len(calls) : CalledIn(JJ, calls[k])
    BY <1>1 DEF CalledIn
<1> QED BY <1>3, <1>4, SeqBasics

\* Calls with the same id have the same name, whoever asked.
LEMMA SameName ==
    ASSUME NEW JJ, Sound(JJ), NEW c, NEW d, CalledIn(JJ, c), CalledIn(JJ, d), c.id = d.id
    PROVE  c.name = d.name
<1>7. PICK p \in Runs, i \in Iterations :
           Turn(JJ, p, i) /\ \E k \in 1 .. Len(JJ[p][Llm(i)].calls) : c = JJ[p][Llm(i)].calls[k]
    BY DEF CalledIn
<1>8. PICK q \in Runs, n \in Iterations :
           Turn(JJ, q, n) /\ \E k \in 1 .. Len(JJ[q][Llm(n)].calls) : d = JJ[q][Llm(n)].calls[k]
    BY DEF CalledIn
<1>1. PICK k \in 1 .. Len(JJ[p][Llm(i)].calls) : Turn(JJ, p, i) /\ c = JJ[p][Llm(i)].calls[k]
    BY <1>7
<1>2. PICK h \in 1 .. Len(JJ[q][Llm(n)].calls) : Turn(JJ, q, n) /\ d = JJ[q][Llm(n)].calls[h]
    BY <1>8
<1>3. c.id = (IF FreshIds THEN <<<<p, i>>, k>> ELSE <<c.name, k>>)
    BY <1>1 DEF Sound, Numbered
<1>4. d.id = (IF FreshIds THEN <<<<q, n>>, h>> ELSE <<d.name, h>>)
    BY <1>2 DEF Sound, Numbered
<1>5. CASE FreshIds
    <2>1. <<<<p, i>>, k>> = <<<<q, n>>, h>>
        BY <1>3, <1>4, <1>5
    <2>2. p = q /\ i = n /\ k = h
        BY <2>1
    <2> QED BY <1>1, <1>2, <2>2
<1>6. CASE ~FreshIds
    <2>1. <<c.name, k>> = <<d.name, h>>
        BY <1>3, <1>4, <1>6
    <2> QED BY <2>1
<1> QED BY <1>5, <1>6

\* The results of a call message are those of its calls.
LEMMA ResultsOf ==
    ASSUME NEW JJ, Sound(JJ), NEW m, Paired(m), Sourced(m, JJ),
           NEW j \in 1 .. Len(m), m[j].kind = "toolUse"
    PROVE  /\ j + 1 <= Len(m) /\ Replied(JJ, m[j].calls)
           /\ DOMAIN m[j + 1].calls = DOMAIN m[j].calls
           /\ \A k \in DOMAIN m[j].calls :
                m[j + 1].calls[k].id = m[j].calls[k].id /\ m[j + 1].calls[k].name = NoName
<1>1. /\ j + 1 <= Len(m) /\ m[j + 1].calls = Results(m[j].calls) /\ Replied(JJ, m[j].calls)
    BY DEF Paired, Sourced
<1>2. DOMAIN m[j].calls = 1 .. Len(m[j].calls)
    BY <1>1, CallsAsked
<1> QED BY <1>1, <1>2 DEF Results, Given

\* Anthropic and Bedrock.
LEMMA AnthropicWellFormed ==
    ASSUME NEW JJ, Sound(JJ), NEW m, Fit(m, {}, JJ), ~Cut(m)
    PROVE  WellFormed(toAnthropicMessages(m))
<1> DEFINE wire == toAnthropicMessages(m)
<1>1. /\ IsSeq(m) /\ Paired(m) /\ Sourced(m, JJ) /\ DOMAIN m = 1 .. Len(m) /\ Len(m) \in Nat
    BY SeqBasics DEF Fit
<1>2. /\ DOMAIN wire = 1 .. Len(m) /\ Len(wire) = Len(m)
      /\ \A j \in 1 .. Len(m) :
           /\ wire[j].kind = m[j].kind
           /\ wire[j].keys = [k \in DOMAIN m[j].calls |-> m[j].calls[k].id]
    BY <1>1 DEF toAnthropicMessages
<1> HIDE DEF wire
<1>3. Mirrors(wire, m)
    BY <1>2 DEF Mirrors
<1>4. ASSUME NEW j \in 1 .. Len(m), m[j].kind = "toolUse"
      PROVE  wire[j + 1].keys = wire[j].keys
    <2>1. /\ j + 1 <= Len(m) /\ DOMAIN m[j + 1].calls = DOMAIN m[j].calls
          /\ \A k \in DOMAIN m[j].calls : m[j + 1].calls[k].id = m[j].calls[k].id
        BY <1>1, <1>4, ResultsOf
    <2>2. j + 1 \in 1 .. Len(m)
        BY <1>1, <2>1
    <2>3. [k \in DOMAIN m[j + 1].calls |-> m[j + 1].calls[k].id]
            = [k \in DOMAIN m[j].calls |-> m[j].calls[k].id]
        BY <2>1
    <2>4. wire[j].keys = [k \in DOMAIN m[j].calls |-> m[j].calls[k].id]
        BY <1>2
    <2>5. wire[j + 1].keys = [k \in DOMAIN m[j + 1].calls |-> m[j + 1].calls[k].id]
        BY <1>2, <2>2
    <2> QED BY <2>3, <2>4, <2>5
<1>5. WellFormed(wire)
    BY <1>1, <1>3, <1>4, MirrorWellFormed
<1> QED BY <1>5 DEF wire

\* Gemini: the name that stands for an id is the name of each call that has it.
LEMMA GeminiWellFormed ==
    ASSUME NEW JJ, Sound(JJ), NEW m, Fit(m, {}, JJ), ~Cut(m)
    PROVE  WellFormed(toGeminiContents(m))
<1> DEFINE wire == toGeminiContents(m)
           parts == [j \in DOMAIN m |-> IF m[j].role = "assistant" THEN m[j].calls ELSE <<>>]
           uses == FlattenSeq(parts)
           Found(id) == {j \in DOMAIN uses : uses[j].id = id}
           NameOf(id) == IF Found(id) = {} THEN id
                         ELSE uses[CHOOSE j \in Found(id) : \A k \in Found(id) : k <= j].name
           Key(c) == IF c.name # NoName THEN c.name ELSE NameOf(c.id)
<1>1. /\ IsSeq(m) /\ Paired(m) /\ Sourced(m, JJ) /\ DOMAIN m = 1 .. Len(m) /\ Len(m) \in Nat
    BY SeqBasics DEF Fit
<1>2. wire = [j \in DOMAIN m |->
        [role |-> IF m[j].role = "assistant" THEN "model" ELSE "user",
         kind |-> m[j].kind,
         keys |-> [k \in DOMAIN m[j].calls |-> Key(m[j].calls[k])]]]
    BY DEF toGeminiContents
<1>3. /\ DOMAIN parts = 1 .. Len(m) /\ Len(parts) = Len(m)
      /\ \A j \in 1 .. Len(m) :
           parts[j] = IF m[j].role = "assistant" THEN m[j].calls ELSE <<>>
    BY <1>1
<1>4. IsSeq(parts)
    <2>1. parts \in Seq({IF m[j].role = "assistant" THEN m[j].calls ELSE <<>> : j \in 1 .. Len(m)})
        BY <1>1
    <2> HIDE DEF parts
    <2> QED BY <2>1, SeqRange
<1> HIDE DEF wire, parts
<1>5. \A j \in 1 .. Len(m) : IsSeq(parts[j]) /\ \A k \in 1 .. Len(parts[j]) : CalledIn(JJ, parts[j][k])
    <2> TAKE j \in 1 .. Len(m)
    <2>1. CASE m[j].role = "assistant" /\ m[j].kind = "toolUse"
        <3>1. Replied(JJ, m[j].calls) /\ parts[j] = m[j].calls
            BY <1>1, <1>3, <2>1 DEF Sourced
        <3> QED BY <3>1, CallsAsked
    <2>2. CASE ~(m[j].role = "assistant" /\ m[j].kind = "toolUse")
        <3>1. parts[j] = <<>>
            BY <1>1, <1>3, <2>2 DEF Sourced
        <3>2. IsSeq(<<>>) /\ Len(<<>>) = 0
            BY NothingFit DEF Fit
        <3> QED BY <3>1, <3>2
    <2> QED BY <2>1, <2>2
<1>6. PICK off : Laid(parts, off, uses, Len(m))
    <2>1. \A j \in 1 .. Len(parts) : IsSeq(parts[j])
        BY <1>3, <1>5
    <2>2. \E off : Laid(parts, off, FlattenSeq(parts), Len(parts))
        BY <1>4, <2>1, FlattenLays
    <2> QED BY <1>3, <2>2
<1> HIDE DEF uses
<1>7. DOMAIN uses = 1 .. Len(uses) /\ Len(uses) \in Nat
    BY <1>6, SeqBasics DEF Laid
<1>8. \A p \in 1 .. Len(uses) : CalledIn(JJ, uses[p])
    <2> TAKE p \in 1 .. Len(uses)
    <2>1. PICK i \in 1 .. Len(m) : \E k \in 1 .. Len(parts[i]) : p = off[i - 1] + k
        BY <1>6 DEF Laid
    <2>2. PICK k \in 1 .. Len(parts[i]) : p = off[i - 1] + k
        BY <2>1
    <2>3. uses[p] = parts[i][k]
        BY <1>6, <2>2 DEF Laid
    <2> QED BY <1>5, <2>3
<1>9. ASSUME NEW c, CalledIn(JJ, c), \E p \in 1 .. Len(uses) : uses[p] = c
      PROVE  NameOf(c.id) = c.name
    <2>1. Found(c.id) \in SUBSET (0 .. Len(uses)) /\ Found(c.id) # {}
        <3>1. \A p \in 1 .. Len(uses) : p \in 0 .. Len(uses)
            BY <1>7
        <3> QED BY <1>7, <1>9, <3>1
    <2>2. \E x \in Found(c.id) : \A y \in Found(c.id) : y <= x
        <3> HIDE DEF Found
        <3> QED BY <1>7, <2>1, GreatestOf
    <2>3. PICK x \in Found(c.id) : x = CHOOSE j \in Found(c.id) : \A k \in Found(c.id) : k <= j
        <3> HIDE DEF Found
        <3> QED BY <2>2
    <2>4. uses[x].id = c.id /\ CalledIn(JJ, uses[x])
        BY <1>7, <1>8
    <2>5. uses[x].name = c.name
        BY <1>9, <2>4, SameName
    <2>6. NameOf(c.id) = uses[x].name
        <3> HIDE DEF Found
        <3> QED BY <2>1, <2>3
    <2> QED BY <2>5, <2>6
<1>10. /\ DOMAIN wire = 1 .. Len(m) /\ Len(wire) = Len(m)
       /\ \A j \in 1 .. Len(m) :
            /\ wire[j].kind = m[j].kind
            /\ wire[j].keys = [k \in DOMAIN m[j].calls |-> Key(m[j].calls[k])]
    <2> HIDE DEF Key
    <2> QED BY <1>1, <1>2
<1>11. Mirrors(wire, m)
    BY <1>10 DEF Mirrors
<1>12. ASSUME NEW j \in 1 .. Len(m), m[j].kind = "toolUse"
       PROVE  wire[j + 1].keys = wire[j].keys
    <2>1. /\ j + 1 <= Len(m) /\ Replied(JJ, m[j].calls) /\ DOMAIN m[j + 1].calls = DOMAIN m[j].calls
          /\ \A k \in DOMAIN m[j].calls :
               m[j + 1].calls[k].id = m[j].calls[k].id /\ m[j + 1].calls[k].name = NoName
        BY <1>1, <1>12, ResultsOf
    <2>2. j + 1 \in 1 .. Len(m)
        BY <1>1, <2>1
    <2>3. parts[j] = m[j].calls
        BY <1>1, <1>3, <1>12 DEF Sourced
    <2>4. ASSUME NEW k \in DOMAIN m[j].calls PROVE Key(m[j + 1].calls[k]) = Key(m[j].calls[k])
        <3>1. k \in 1 .. Len(m[j].calls) /\ CalledIn(JJ, m[j].calls[k])
            BY <2>1, CallsAsked
        <3>2. \E p \in 1 .. Len(uses) : uses[p] = m[j].calls[k]
            <4>1. uses[off[j - 1] + k] = m[j].calls[k] /\ off[j - 1] + k \in 1 .. Len(uses)
                BY <1>6, <2>3, <3>1 DEF Laid
            <4> QED BY <4>1
        <3>3. NameOf(m[j].calls[k].id) = m[j].calls[k].name
            BY <1>9, <3>1, <3>2
        <3> HIDE DEF NameOf
        <3>4. Key(m[j + 1].calls[k]) = NameOf(m[j].calls[k].id)
            BY <2>1
        <3>5. Key(m[j].calls[k]) = m[j].calls[k].name
            BY <3>3
        <3> QED BY <3>3, <3>4, <3>5
    <2> HIDE DEF Key
    <2>5. [k \in DOMAIN m[j + 1].calls |-> Key(m[j + 1].calls[k])]
            = [k \in DOMAIN m[j].calls |-> Key(m[j].calls[k])]
        BY <2>1, <2>4
    <2> QED BY <1>10, <2>2, <2>5
<1>13. WellFormed(wire)
    BY <1>1, <1>11, <1>12, MirrorWellFormed
<1> QED BY <1>13 DEF wire

\* A function on 1 .. c is a sequence.
LEMMA ListSeq == ASSUME NEW c \in Nat, NEW f, f = [k \in 1 .. c |-> f[k]] PROVE IsSeq(f)
<1>1. \A k \in 1 .. c : f[k] \in Range(f)
    BY DEF Range
<1> QED BY <1>1 DEF IsSeq

\* OpenAI: the results of a turn are messages of their own behind it.
LEMMA OpenAiWellFormed ==
    ASSUME NEW JJ, Sound(JJ), NEW m, Fit(m, {}, JJ), ~Cut(m)
    PROVE  WellFormed(toOpenAiMessages(m))
<1> DEFINE whole == toAnthropicMessages(m)
           Split(x) == IF x.kind # "toolResult" THEN <<x>>
                       ELSE [k \in DOMAIN x.keys |->
                               [role |-> "tool", kind |-> x.kind, keys |-> <<x.keys[k]>>]]
           parts == [j \in DOMAIN whole |-> Split(whole[j])]
           wire == FlattenSeq(parts)
<1>1. /\ IsSeq(m) /\ Paired(m) /\ Sourced(m, JJ) /\ DOMAIN m = 1 .. Len(m)
    BY SeqBasics DEF Fit
<1>2. PICK n \in Nat : n = Len(m)
    BY <1>1, SeqBasics
<1>3. toOpenAiMessages(m) = wire
    BY DEF toOpenAiMessages
<1>4. /\ DOMAIN whole = 1 .. n
      /\ \A j \in 1 .. n :
           /\ whole[j].kind = m[j].kind
           /\ whole[j].keys = [k \in DOMAIN m[j].calls |-> m[j].calls[k].id]
    BY <1>1, <1>2 DEF toAnthropicMessages
<1> HIDE DEF whole
<1>5. DOMAIN parts = 1 .. n /\ Len(parts) = n /\ IsSeq(parts)
    <2>1. parts = [j \in 1 .. n |-> Split(whole[j])]
        BY <1>4
    <2> HIDE DEF Split
    <2>2. parts \in Seq({Split(whole[j]) : j \in 1 .. n}) /\ DOMAIN parts = 1 .. n /\ Len(parts) = n
        BY <2>1
    <2> HIDE DEF parts
    <2> QED BY <2>2, SeqRange
<1>6. ASSUME NEW j \in 1 .. n, m[j].kind # "toolResult"
      PROVE  Len(parts[j]) = 1 /\ parts[j][1] = whole[j] /\ parts[j] = <<whole[j]>>
    BY <1>4, <1>6
<1>7. ASSUME NEW j \in 1 .. n, m[j].kind = "toolResult"
      PROVE  /\ Len(m[j].calls) \in Nat /\ Len(parts[j]) = Len(m[j].calls) /\ IsSeq(parts[j])
             /\ \A k \in 1 .. Len(m[j].calls) :
                  parts[j][k].kind = "toolResult" /\ parts[j][k].keys = <<m[j].calls[k].id>>
    <2>1. DOMAIN m[j].calls = 1 .. Len(m[j].calls) /\ Len(m[j].calls) \in Nat
        BY <1>1, <1>2, <1>7, SeqBasics DEF Sourced
    <2>2. parts[j] = [k \in DOMAIN whole[j].keys |->
                        [role |-> "tool", kind |-> whole[j].kind, keys |-> <<whole[j].keys[k]>>]]
        BY <1>4, <1>7
    <2>3. DOMAIN whole[j].keys = 1 .. Len(m[j].calls)
          /\ \A k \in 1 .. Len(m[j].calls) : whole[j].keys[k] = m[j].calls[k].id
        BY <1>4, <2>1
    <2> HIDE DEF parts
    <2>4. parts[j] = [k \in 1 .. Len(m[j].calls) |->
                        [role |-> "tool", kind |-> "toolResult", keys |-> <<m[j].calls[k].id>>]]
        BY <1>4, <1>7, <2>2, <2>3
    <2>5. Len(parts[j]) = Len(m[j].calls)
        BY <2>1, <2>4
    <2>6. parts[j] = [k \in 1 .. Len(m[j].calls) |-> parts[j][k]]
        BY <2>4
    <2>7. \A k \in 1 .. Len(m[j].calls) :
            parts[j][k].kind = "toolResult" /\ parts[j][k].keys = <<m[j].calls[k].id>>
        BY <2>4
    <2>8. IsSeq(parts[j])
        BY <2>1, <2>6, ListSeq
    <2> QED BY <2>1, <2>5, <2>7, <2>8
<1> HIDE DEF parts
<1>8. \A j \in 1 .. n :
        IsSeq(parts[j]) /\ Len(parts[j]) \in Nat /\ \A k \in 1 .. Len(parts[j]) : parts[j][k].kind = m[j].kind
    <2> TAKE j \in 1 .. n
    <2>1. CASE m[j].kind # "toolResult"
        <3>1. parts[j] \in Seq({whole[j]}) /\ Len(parts[j]) = 1 /\ parts[j][1] = whole[j]
            BY <1>6, <2>1
        <3>2. \A k \in 1 .. Len(parts[j]) : k = 1
            BY <3>1
        <3>3. IsSeq(parts[j])
            BY <3>1, SeqRange
        <3>4. parts[j][1].kind = m[j].kind
            BY <1>4, <3>1
        <3> QED BY <3>1, <3>2, <3>3, <3>4
    <2>2. CASE m[j].kind = "toolResult"
        BY <1>7, <2>2
    <2> QED BY <2>1, <2>2
<1>9. PICK off : Laid(parts, off, wire, n)
    <2>1. \E off : Laid(parts, off, FlattenSeq(parts), Len(parts))
        BY <1>5, <1>8, FlattenLays
    <2> QED BY <1>5, <2>1
<1> HIDE DEF wire
<1>10. PICK w \in Nat : w = Len(wire) /\ DOMAIN wire = 1 .. w /\ w = off[n]
    BY <1>9, SeqBasics DEF Laid
<1>11. ASSUME NEW i \in 1 .. n, NEW k \in 1 .. Len(parts[i])
       PROVE  /\ wire[off[i - 1] + k] = parts[i][k] /\ wire[off[i - 1] + k].kind = m[i].kind
              /\ off[i - 1] + k \in 1 .. w
    <2>1. wire[off[i - 1] + k] = parts[i][k] /\ off[i - 1] + k \in 1 .. Len(wire)
        BY <1>9 DEF Laid
    <2>2. parts[i][k].kind = m[i].kind
        BY <1>8
    <2> QED BY <1>10, <2>1, <2>2
<1>12. ASSUME NEW i \in 1 .. n PROVE off[i - 1] \in Nat /\ off[i] \in Nat /\ off[i] = off[i - 1] + Len(parts[i])
    <2>1. i - 1 \in 0 .. n /\ i \in 0 .. n
        BY <1>2
    <2> QED BY <1>9, <2>1 DEF Laid
<1>13. ASSUME NEW i \in 1 .. n, m[i].kind # "toolResult"
       PROVE  /\ off[i] = off[i - 1] + 1 /\ off[i] \in 1 .. w
              /\ wire[off[i]] = whole[i] /\ wire[off[i]].kind = m[i].kind
    <2>1. Len(parts[i]) = 1 /\ parts[i][1] = whole[i] /\ 1 \in 1 .. Len(parts[i])
        BY <1>6, <1>13
    <2>2. off[i] = off[i - 1] + 1
        BY <1>12, <2>1
    <2> QED BY <1>11, <2>1, <2>2
<1> SUFFICES ASSUME NEW p \in 1 .. w
             PROVE  /\ wire[p].kind = "toolUse" => ResultsAfter(wire, p) = wire[p].keys
                    /\ wire[p].kind = "toolResult" =>
                          p # 1 /\ wire[p - 1].kind \in {"toolUse", "toolResult"}
    BY <1>3, <1>10 DEF WellFormed
<1>14. PICK i \in 1 .. n : \E k \in 1 .. Len(parts[i]) : p = off[i - 1] + k
    BY <1>9, <1>10 DEF Laid
<1>15. PICK k \in 1 .. Len(parts[i]) : p = off[i - 1] + k
    BY <1>14
<1>16. wire[p].kind = m[i].kind /\ k \in Nat /\ k >= 1
    BY <1>8, <1>11, <1>15
<1>17. ASSUME wire[p].kind = "toolUse" PROVE ResultsAfter(wire, p) = wire[p].keys
    <2>1. m[i].kind = "toolUse"
        BY <1>16, <1>17
    <2>2. p = off[i] /\ wire[p] = whole[i]
        <3>1. Len(parts[i]) = 1
            BY <1>6, <2>1
        <3>2. k = 1
            BY <1>16, <3>1
        <3>3. off[i] = off[i - 1] + 1 /\ wire[off[i]] = whole[i]
            BY <1>13, <2>1
        <3> QED BY <1>15, <3>2, <3>3
    <2>3. /\ i + 1 <= n /\ m[i + 1].kind = "toolResult" /\ DOMAIN m[i + 1].calls = DOMAIN m[i].calls
          /\ \A h \in DOMAIN m[i].calls : m[i + 1].calls[h].id = m[i].calls[h].id
        <3>1. i \in 1 .. Len(m)
            BY <1>2
        <3>2. m[i + 1].kind = "toolResult"
            BY <1>1, <2>1, <3>1 DEF Paired
        <3> QED BY <1>1, <1>2, <2>1, <3>1, <3>2, ResultsOf
    <2>4. i + 1 \in 1 .. n /\ (i + 1) - 1 = i
        BY <2>3
    <2>5. PICK c \in Nat : c = Len(m[i + 1].calls) /\ Len(parts[i + 1]) = c
        BY <1>7, <2>3, <2>4
    <2>6. DOMAIN m[i].calls = 1 .. c
        BY <1>1, <1>2, <2>3, <2>4, <2>5, SeqBasics DEF Sourced
    <2>7. off[i + 1] = p + c
        BY <1>12, <2>2, <2>4, <2>5
    <2>8. ASSUME NEW h \in 1 .. c
          PROVE  /\ wire[p + h].kind = "toolResult" /\ p + h \in 1 .. w
                 /\ wire[p + h].keys = <<whole[i].keys[h]>>
        <3>1. wire[p + h] = parts[i + 1][h] /\ wire[p + h].kind = m[i + 1].kind /\ p + h \in 1 .. w
            <4>1. h \in 1 .. Len(parts[i + 1]) /\ off[(i + 1) - 1] = p
                BY <2>2, <2>4, <2>5
            <4> QED BY <1>11, <2>4, <4>1
        <3>2. parts[i + 1][h].keys = <<m[i + 1].calls[h].id>>
            BY <1>7, <2>3, <2>4, <2>5
        <3>3. whole[i].keys[h] = m[i].calls[h].id
            BY <1>4, <2>6
        <3> QED BY <2>3, <2>6, <3>1, <3>2, <3>3
    <2>9. p + c <= w
        <3>1. CASE c = 0
            BY <3>1
        <3>2. CASE c # 0
            <4>1. c \in 1 .. c
                BY <3>2
            <4> QED BY <2>8, <4>1
        <3> QED BY <3>1, <3>2
    <2>10. ASSUME p + c < w PROVE wire[p + c + 1].kind # "toolResult"
        <3>1. i + 1 # n
            BY <1>10, <2>7, <2>10
        <3>2. i + 2 \in 1 .. n /\ i + 2 # 1 /\ (i + 2) - 1 = i + 1
            BY <2>3, <3>1
        <3>3. m[i + 2].kind # "toolResult"
            BY <1>1, <1>2, <2>3, <3>2 DEF Paired
        <3>4. off[i + 2] = off[i + 1] + 1 /\ wire[off[i + 2]].kind = m[i + 2].kind
            BY <1>13, <3>2, <3>3
        <3> QED BY <2>7, <3>3, <3>4
    <2>11. ResultsAfter(wire, p) = FlattenSeq([h \in 1 .. c |-> wire[p + h].keys])
        <3>1. \A h \in 1 .. c : wire[p + h].kind = "toolResult"
            BY <2>8, Zenon
        <3>3. p \in Nat
            OBVIOUS
        <3>2. p + c < w => wire[p + c + 1].kind # "toolResult"
            BY <2>10
        <3> QED BY <1>10, <2>9, <3>1, <3>2, <3>3, SpanIs
    <2>12. [h \in 1 .. c |-> wire[p + h].keys] = [h \in 1 .. c |-> <<whole[i].keys[h]>>]
        <3>1. \A h \in 1 .. c : wire[p + h].keys = <<whole[i].keys[h]>>
            BY <2>8, Zenon
        <3> QED BY <3>1
    <2>13. FlattenSeq([h \in 1 .. c |-> <<whole[i].keys[h]>>]) = [h \in 1 .. c |-> whole[i].keys[h]]
        BY FlattenSingles
    <2>14. wire[p].keys = [h \in 1 .. c |-> whole[i].keys[h]]
        BY <1>4, <2>2, <2>6
    <2> QED BY <2>11, <2>12, <2>13, <2>14
<1>18. ASSUME wire[p].kind = "toolResult"
       PROVE  p # 1 /\ wire[p - 1].kind \in {"toolUse", "toolResult"}
    <2>1. m[i].kind = "toolResult"
        BY <1>16, <1>18
    <2>2. CASE k # 1
        <3>1. k - 1 \in 1 .. Len(parts[i])
            BY <1>8, <1>16, <2>2
        <3>2. wire[off[i - 1] + (k - 1)].kind = m[i].kind
            BY <1>11, <3>1
        <3>3. off[i - 1] + (k - 1) = p - 1
            BY <1>12, <1>15, <1>16
        <3>4. p # 1
            BY <1>12, <1>15, <1>16, <2>2
        <3> QED BY <2>1, <3>2, <3>3, <3>4
    <2>3. CASE k = 1
        <3>1. i # 1 /\ m[i - 1].kind = "toolUse"
            BY <1>1, <1>2, <2>1 DEF Paired, Cut
        <3>2. i - 1 \in 1 .. n
            BY <3>1
        <3>3. wire[off[i - 1]].kind = m[i - 1].kind /\ off[i - 1] \in 1 .. w
            BY <1>13, <3>1, <3>2
        <3>4. off[i - 1] = p - 1
            BY <1>12, <1>15, <2>3
        <3> QED BY <3>1, <3>3, <3>4
    <2> QED BY <2>2, <2>3
<1> QED BY <1>17, <1>18

\* The adapters (llm/*.ts) behind the agent loop (agent.ts 338-417): unless the window
\* or compress cut the history inside a tool exchange, each call of a request is
\* answered once and in order behind it and no result is without its call, in each
\* provider's format.
THEOREM RequestsAreWellFormed == Spec => []RequestsWellFormed
<1>1. Replayable /\ Telling => RequestsWellFormed
    <2> SUFFICES ASSUME Replayable, Telling, NEW r \in Runs, NEW request \in sent[r],
                        ~Cut(request[2]), NEW wire \in Wires(request[2])
                 PROVE  WellFormed(wire)
        BY DEF RequestsWellFormed
    <2>1. Sound(journal)
        BY JournalsSound
    <2>2. Fit(request[2], {}, journal)
        BY DEF Telling, Talk, Fit
    <2>3. /\ WellFormed(toAnthropicMessages(request[2])) /\ WellFormed(toOpenAiMessages(request[2]))
          /\ WellFormed(toGeminiContents(request[2]))
        BY <2>1, <2>2, AnthropicWellFormed, OpenAiWellFormed, GeminiWellFormed
    <2>4. WellFormed(toBedrockMessages(request[2]))
        BY <2>3 DEF toBedrockMessages
    <2> QED BY <2>3, <2>4 DEF Wires
<1> QED BY <1>1, AttemptsReplay, ConversationsFit, PTL

=============================================================================
