-------------------------- MODULE HttpServerProofs --------------------------
(***************************************************************************)
(* Theorems about the middleware chain and the router, for every chain of  *)
(* layers, route table and number of requests: a handler starts behind the *)
(* guards of its path, it runs once, the first response stands, a client   *)
(* is refused for its rate only when the window is full, and the trie      *)
(* answers what the linear scan would.                                     *)
(*                                                                         *)
(* None of those about the chain is inductive.  A handler is behind its    *)
(* guards because of where the cursor has been: Kept says what every layer *)
(* the cursor has passed has decided, and that a request some guard has    *)
(* not let through has nothing running that could move it on.  That in     *)
(* turn needs Sole: before the first layer of the user a request is in one *)
(* place at a time, since only a user's layer can call next and go on.     *)
(*                                                                         *)
(* The walk down the trie is a fold, so it is unfolded once: FoldedExists  *)
(* shows that the function inside it exists, WalkSteps what it computes.   *)
(***************************************************************************)
EXTENDS HttpServer, FiniteSetTheorems, SequenceTheorems, WellFoundedInduction, TLAPS

Fields == {"state", "in", "i", "ei", "dispatched", "erroring", "running", "sent", "status",
           "principal", "handler", "ran", "left", "stream", "rejected"}

Layers == 1 .. Len(Chain)

\* A layer of the ordinary pass that no layer of the user precedes.
Early(k) == /\ k \in Layers /\ ~Chain[k].isError
            /\ \A j \in 1 .. k : Chain[j].kind # "user"

\* What the guard at k has decided for r; adm: the limiter has let r through.
Clears(r, k, adm) ==
  /\ Chain[k].kind = "auth" => r.principal = TRUE
  /\ Chain[k].kind = "csrf" => Csrf(r.in) = Pass
  /\ Chain[k].kind = "validate" => r.in.valid
  /\ Chain[k].kind = "rateLimit" => adm

\* Guards the cursor has passed that did not let r through.
Unmet(r, k, adm) == /\ Early(k) /\ k < r.i /\ pathMatches(Chain[k].mount, r.in.path)
                    /\ ~Clears(r, k, adm)

\* A layer that is running is behind the cursor; error layers run only once an
\* error is propagating; only a user's layer is called a second time.
RunOK(r, run) ==
  /\ run = <<run[1], run[2]>> /\ run[1] \in 0 .. Len(Chain) /\ run[2] \in {0, 1}
  /\ run[1] > 0 => IF Chain[run[1]].isError THEN r.erroring ELSE run[1] < r.i
  /\ run[2] = 1 => run[1] > 0 /\ Chain[run[1]].kind = "user"

Well(r) ==
  /\ DOMAIN r = Fields
  /\ r.i \in Nat \ {0} /\ r.i <= Len(Chain) + 2 /\ r.ei \in Nat \ {0} /\ r.ran \in {0, 1}
  /\ r.dispatched \in BOOLEAN /\ r.erroring \in BOOLEAN /\ r.sent \in BOOLEAN
  /\ \A run \in r.running : RunOK(r, run)
  /\ r.ran > 0 => r.dispatched /\ r.i > Len(Chain)
  /\ ~r.sent => r.status = 0

\* Nothing has happened to the request but the layer it is in.
Untouched(r) == r.ran = 0 /\ ~r.sent /\ ~r.dispatched

\* Before the first layer of the user a request is in one layer at a time.
Sole(r) == \A run \in r.running : Early(run[1]) => r.running = {run} /\ Untouched(r)

\* A request that a guard has not let through is in that guard or in an error layer.
Held(r, adm) ==
  \A k \in Layers : Unmet(r, k, adm) =>
    /\ r.ran = 0
    /\ \A run \in r.running : run[1] = k \/ (run[1] > 0 /\ Chain[run[1]].isError)

Kept(r, adm) == Well(r) /\ Sole(r) /\ Held(r, adm)

Admitted(q) == \E a \in admitted[req[q].in.key] : a[1] = q

Known(q) == IF req[q].state = "none" THEN req[q] = Idle ELSE req[q].in \in Input[q]

\* The inductive invariant of the chain.
InOrder ==
  /\ DOMAIN req = Requests /\ DOMAIN admitted = Keys
  /\ \A q \in Requests : Known(q) /\ Kept(req[q], Admitted(q))


-----------------------------------------------------------------------------
(* The operators on a request *)

\* A non-empty set of numbers has a least element, and Min is it.
LEMMA MinFact ==
    ASSUME NEW S, S \subseteq Nat, S # {}
    PROVE  Min(S) \in S /\ \A x \in S : Min(S) <= x
<1> DEFINE R == OpToRel(<, Nat)
<1>1. \A a, b \in Nat : a < b => <<a, b>> \in R
    BY DEF OpToRel
<1>2. IsWellFoundedOn(R, Nat)
    BY NatLessThanWellFounded
<1> HIDE DEF R
<1>3. PICK m \in S : \A x \in S : ~(<<x, m>> \in R)
    BY <1>2, WFMin
<1>4. ASSUME NEW x \in S PROVE m <= x
    <2>1. x \in Nat /\ m \in Nat /\ ~(x < m)
        BY <1>1, <1>3
    <2> QED BY <2>1
<1> QED BY <1>4 DEF Min

\* Following is the first layer at or behind the cursor that does something, or
\* the place behind the chain.
LEMMA FollowingFact ==
    ASSUME NEW r, NEW from \in Nat \ {0}, NEW e
    PROVE  LET k == Following(r, from, e) IN
           /\ k \in Nat
           /\ k <= Len(Chain) => k >= from /\ k \in Layers /\ Stops(r, k, e)
           /\ \A j \in Layers : from <= j /\ j < k => ~Stops(r, j, e)
           /\ k > Len(Chain) => k = Len(Chain) + 1
<1> DEFINE ahead == {k \in from .. Len(Chain) : Stops(r, k, e)}
           k == Following(r, from, e)
<1>0. Len(Chain) \in Nat
    BY ServerAssumption
<1>1. CASE ahead = {}
    <2>1. k = Len(Chain) + 1
        BY <1>1 DEF Following
    <2>2. \A j \in from .. Len(Chain) : ~Stops(r, j, e)
        BY <1>1
    <2> QED BY <1>0, <2>1, <2>2 DEF Layers
<1>2. CASE ahead # {}
    <2>1. k = Min(ahead)
        BY <1>2 DEF Following
    <2>2. ahead \subseteq Nat
        BY <1>0
    <2> HIDE DEF ahead
    <2>3. k \in ahead /\ \A x \in ahead : k <= x
        BY <1>2, <2>1, <2>2, MinFact
    <2> USE DEF ahead
    <2>4. k \in Nat /\ k >= from /\ k <= Len(Chain) /\ Stops(r, k, e)
        BY <1>0, <2>3
    <2>5. \A j \in Layers : from <= j /\ j < k => ~Stops(r, j, e)
        <3> SUFFICES ASSUME NEW j \in Layers, from <= j, j < k, Stops(r, j, e) PROVE FALSE
            OBVIOUS
        <3>1. j \in ahead
            BY <1>0 DEF Layers
        <3> HIDE DEF ahead, k
        <3> QED BY <1>0, <2>3, <2>4, <3>1 DEF Layers
    <2> QED BY <1>0, <2>4, <2>5 DEF Layers
<1> QED BY <1>1, <1>2

\* What a response changes: nothing but sent and status, and those once.
Answered(r, s) ==
  /\ DOMAIN s = Fields
  /\ s.in = r.in /\ s.i = r.i /\ s.ei = r.ei /\ s.dispatched = r.dispatched
  /\ s.erroring = r.erroring /\ s.running = r.running /\ s.principal = r.principal
  /\ s.ran = r.ran /\ s.state = r.state

SameAnswer(r, s) == s.sent = r.sent /\ s.status = r.status

\* respond answers only where nothing was sent.
LEMMA RespondFact ==
    ASSUME NEW r, Well(r), NEW code
    PROVE  LET s == Respond(r, code) IN
           /\ Answered(r, s)
           /\ SameAnswer(r, s) \/ (~r.sent /\ s.sent = TRUE /\ s.status = code)
BY DEF Well, Respond, Answered, SameAnswer, Fields

\* A layer that does not look at headersSent may answer again.
LEMMA RawRespondFact ==
    ASSUME NEW r, Well(r), NEW code
    PROVE  LET s == RawRespond(r, code) IN
           /\ Answered(r, s)
           /\ \/ s.sent = r.sent /\ s.status = r.status
              \/ s.sent = TRUE /\ s.status = code
BY DEF Well, RawRespond, Answered, Fields

\* Where a step left the cursors and flags of a request as they were.
SameButRun(r, s) ==
  /\ DOMAIN s = Fields
  /\ s.in = r.in /\ s.ei = r.ei /\ s.erroring = r.erroring /\ s.principal = r.principal
  /\ s.state = r.state

\* dispatchRoute: a handler is started, or a 404 is answered, or the lookup throws.
LEMMA DispatchFact ==
    ASSUME NEW r, Well(r)
    PROVE  LET s == Dispatch(r) IN
           /\ SameButRun(r, s) /\ s.i = r.i /\ s.dispatched = r.dispatched
           /\ \/ s.running = r.running \cup {<<0, 0>>} /\ s.ran = r.ran + 1 /\ SameAnswer(r, s)
              \/ /\ s.running = r.running /\ s.ran = r.ran
                 /\ SameAnswer(r, s) \/ (~r.sent /\ s.sent = TRUE /\ s.status = 404)
<1> DEFINE matched == match(routes, r.in.method, r.in.path)
           throws == MatchThrows(routes, r.in.method, r.in.path)
           s == Dispatch(r)
<1>0. s = IF throws THEN [r EXCEPT !.rejected = TRUE]
          ELSE IF matched = NoHandler THEN Respond(r, 404) ELSE Start(r, matched)
    BY DEF Dispatch
<1> HIDE DEF matched, throws, s
<1>1. CASE s = [r EXCEPT !.rejected = TRUE]
    BY <1>1 DEF SameButRun, SameAnswer, Fields, Well, s
<1>2. CASE s = Respond(r, 404)
    <2>1. PICK code : code = 404
        OBVIOUS
    <2>2. s = Respond(r, code)
        BY <1>2, <2>1
    <2>3. Answered(r, s) /\ (SameAnswer(r, s) \/ (~r.sent /\ s.sent = TRUE /\ s.status = code))
        BY <2>2, RespondFact
    <2> QED BY <2>1, <2>3 DEF SameButRun, SameAnswer, Answered, Well, s
<1>3. CASE s = Start(r, matched)
    BY <1>3 DEF Start, Enter, SameButRun, SameAnswer, Fields, Well, s
<1> QED BY <1>0, <1>1, <1>2, <1>3

\* Verdicts are never the limiter's.
LEMMA VerdictFact == \A kind, in : Verdict(kind, in) # 429
BY DEF Verdict, Cors, Csrf, Validate, Static, Pass

\* next: it goes to the first layer ahead that does something; behind the last
\* one the route is dispatched, once.
LEMMA NextFact ==
    ASSUME NEW r, Well(r), ~r.erroring
    PROVE  LET s == next(r)
               k == Following(r, r.i, FALSE)
           IN
           /\ SameButRun(r, s) /\ s.i = k + 1
           /\ \/ /\ k > Len(Chain) /\ s.dispatched = TRUE /\ s.running = r.running /\ s.ran = r.ran
                 /\ SameAnswer(r, s) \/ (~r.sent /\ s.sent = TRUE /\ s.status = 404)
              \/ /\ k > Len(Chain) /\ ~r.dispatched /\ s.dispatched = TRUE
                 /\ s.running = r.running \cup {<<0, 0>>} /\ s.ran = r.ran + 1 /\ SameAnswer(r, s)
              \/ /\ k <= Len(Chain) /\ Waits(Chain[k].kind) /\ s.dispatched = r.dispatched
                 /\ s.running = r.running \cup {<<k, 0>>} /\ s.ran = r.ran /\ SameAnswer(r, s)
              \/ /\ k <= Len(Chain) /\ ~Waits(Chain[k].kind) /\ s.dispatched = r.dispatched
                 /\ s.running = r.running /\ s.ran = r.ran
                 /\ SameAnswer(r, s) \/ (s.sent = TRUE /\ s.status = Verdict(Chain[k].kind, r.in))
<1> DEFINE k == Following(r, r.i, FALSE)
           at == [r EXCEPT !.i = k + 1]
           s == next(r)
<1>a. r.i \in Nat \ {0} /\ Len(Chain) \in Nat
    BY ServerAssumption DEF Well
<1>b. /\ k \in Nat
      /\ k <= Len(Chain) => k >= r.i
      /\ k > Len(Chain) => k = Len(Chain) + 1
    BY <1>a, FollowingFact, ZenonT(40)
<1> HIDE DEF k
<1>0. k \in Nat /\ Len(Chain) \in Nat /\ k + 1 \in Nat \ {0} /\ (k > Len(Chain) => k = Len(Chain) + 1)
    BY <1>a, <1>b
<1>1. s = IF k > Len(Chain)
          THEN IF r.dispatched THEN at ELSE Dispatch([at EXCEPT !.dispatched = TRUE])
          ELSE IF Waits(Chain[k].kind) THEN Enter(at, k)
          ELSE RawRespond(at, Verdict(Chain[k].kind, r.in))
    BY DEF next, k
<1>2. r.i <= k + 1 \/ k > Len(Chain)
    BY <1>a, <1>b
<1> HIDE DEF s
<1>3. /\ SameButRun(r, at) /\ at.i = k + 1 /\ SameAnswer(r, at) /\ at.running = r.running
      /\ at.ran = r.ran /\ at.dispatched = r.dispatched
    BY DEF Well, Fields, SameButRun, SameAnswer
<1>4. Well(at)
    <2>1. \A run \in r.running : run[1] > 0 /\ ~Chain[run[1]].isError => run[1] < k + 1
        <3> SUFFICES ASSUME NEW run \in r.running, run[1] > 0, ~Chain[run[1]].isError
                     PROVE  run[1] < k + 1
            OBVIOUS
        <3>1. run[1] \in Nat /\ run[1] <= Len(Chain) /\ run[1] < r.i /\ r.i \in Nat
            BY <1>0 DEF Well, RunOK
        <3> QED BY <3>1, <1>0, <1>2
    <2>2. ASSUME NEW run \in r.running PROVE RunOK(at, run)
        BY <2>1, <1>3 DEF Well, RunOK, SameButRun
    <2>3. r.ran > 0 => k + 1 > Len(Chain)
        <3>1. r.ran > 0 => r.i > Len(Chain) /\ r.i \in Nat
            BY DEF Well
        <3> QED BY <3>1, <1>0, <1>2
    <2>4. k + 1 <= Len(Chain) + 2
        BY <1>0
    <2> QED BY <1>0, <1>3, <2>2, <2>3, <2>4 DEF Well, SameButRun, SameAnswer
<1> HIDE DEF at
<1>5. CASE k > Len(Chain) /\ r.dispatched
    <2>1. s = at /\ r.dispatched = TRUE
        BY <1>1, <1>5 DEF Well
    <2> QED BY <1>3, <1>5, <2>1 DEF k, s
<1>6. CASE k > Len(Chain) /\ ~r.dispatched
    <2> DEFINE on == [at EXCEPT !.dispatched = TRUE]
    <2>1. s = Dispatch(on)
        BY <1>1, <1>6
    <2>2. /\ SameButRun(r, on) /\ on.i = k + 1 /\ SameAnswer(r, on) /\ on.running = r.running
          /\ on.ran = r.ran /\ on.dispatched = TRUE
        BY <1>3 DEF SameButRun, SameAnswer, Fields
    <2>3. Well(on)
        BY <1>3, <1>4, <2>2 DEF Well, RunOK, SameButRun, SameAnswer
    <2> HIDE DEF on
    <2> DEFINE t == Dispatch(on)
    <2>a. /\ SameButRun(on, t) /\ t.i = on.i /\ t.dispatched = on.dispatched
          /\ \/ t.running = on.running \cup {<<0, 0>>} /\ t.ran = on.ran + 1 /\ SameAnswer(on, t)
             \/ /\ t.running = on.running /\ t.ran = on.ran
                /\ SameAnswer(on, t) \/ (~on.sent /\ t.sent = TRUE /\ t.status = 404)
        BY <2>3, DispatchFact, ZenonT(40)
    <2>b. t = s
        BY <2>1
    <2> HIDE DEF t
    <2>4. /\ SameButRun(on, s) /\ s.i = on.i /\ s.dispatched = on.dispatched
          /\ \/ s.running = on.running \cup {<<0, 0>>} /\ s.ran = on.ran + 1 /\ SameAnswer(on, s)
             \/ /\ s.running = on.running /\ s.ran = on.ran
                /\ SameAnswer(on, s) \/ (~on.sent /\ s.sent = TRUE /\ s.status = 404)
        BY <2>a, <2>b, ZenonT(40)
    <2>5. SameButRun(r, s) /\ s.i = k + 1 /\ s.dispatched = TRUE
        BY <2>2, <2>4 DEF SameButRun
    <2>6. \/ s.running = r.running \cup {<<0, 0>>} /\ s.ran = r.ran + 1 /\ SameAnswer(r, s)
          \/ /\ s.running = r.running /\ s.ran = r.ran
             /\ SameAnswer(r, s) \/ (~r.sent /\ s.sent = TRUE /\ s.status = 404)
        BY <2>2, <2>4 DEF SameAnswer
    <2> QED BY <1>6, <2>5, <2>6 DEF k, s
<1>7. CASE ~(k > Len(Chain)) /\ Waits(Chain[k].kind)
    <2>1. s = Enter(at, k) /\ k <= Len(Chain)
        BY <1>0, <1>1, <1>7
    <2>2. /\ SameButRun(at, s) /\ s.i = at.i /\ SameAnswer(at, s)
          /\ s.running = at.running \cup {<<k, 0>>}
          /\ s.ran = at.ran /\ s.dispatched = at.dispatched
        BY <1>3, <2>1 DEF Enter, SameButRun, SameAnswer, Fields
    <2> QED BY <1>3, <1>7, <2>1, <2>2 DEF SameButRun, SameAnswer, k, s
<1>8. CASE ~(k > Len(Chain)) /\ ~Waits(Chain[k].kind)
    <2> DEFINE code == Verdict(Chain[k].kind, r.in)
    <2>1. s = RawRespond(at, code) /\ k <= Len(Chain)
        BY <1>0, <1>1, <1>8
    <2> HIDE DEF code
    <2>2. /\ Answered(at, s)
          /\ \/ s.sent = at.sent /\ s.status = at.status
             \/ s.sent = TRUE /\ s.status = code
        BY <1>4, <2>1, RawRespondFact
    <2>3. SameButRun(r, s) /\ s.i = k + 1 /\ s.dispatched = r.dispatched /\ s.running = r.running
          /\ s.ran = r.ran
        BY <1>3, <2>2 DEF Answered, SameButRun
    <2>4. SameAnswer(r, s) \/ (s.sent = TRUE /\ s.status = code)
        BY <1>3, <2>2 DEF SameAnswer
    <2> QED BY <1>8, <2>1, <2>3, <2>4 DEF k, s, code
<1> QED BY <1>5, <1>6, <1>7, <1>8


\* The layers next goes past, and the one it goes to.
LEMMA SkipFact ==
    ASSUME NEW r, Well(r)
    PROVE  LET k == Following(r, r.i, FALSE) IN
           /\ k \in Nat
           /\ k <= Len(Chain) => /\ k >= r.i /\ k \in Layers /\ ~Chain[k].isError
                                 /\ Waits(Chain[k].kind) \/ Verdict(Chain[k].kind, r.in) # Pass
           /\ k > Len(Chain) => k = Len(Chain) + 1
           /\ \A j \in Layers : /\ r.i <= j /\ j < k /\ ~Chain[j].isError
                                /\ pathMatches(Chain[j].mount, r.in.path)
                                => ~Waits(Chain[j].kind) /\ Verdict(Chain[j].kind, r.in) = Pass
<1> DEFINE k == Following(r, r.i, FALSE)
<1>1. r.i \in Nat \ {0}
    BY DEF Well
<1>2. /\ k \in Nat
      /\ k <= Len(Chain) => k >= r.i /\ k \in Layers /\ Stops(r, k, FALSE)
      /\ \A j \in Layers : r.i <= j /\ j < k => ~Stops(r, j, FALSE)
      /\ k > Len(Chain) => k = Len(Chain) + 1
    BY <1>1, FollowingFact, ZenonT(40)
<1> HIDE DEF k
<1>3. \A j \in Layers : Chain[j].isError \in BOOLEAN
    BY ServerAssumption DEF Layers
<1>4. \A j : Stops(r, j, FALSE) => ~Chain[j].isError /\ (Waits(Chain[j].kind) \/ Verdict(Chain[j].kind, r.in) # Pass)
    BY DEF Stops
<1>5. \A j \in Layers : ~Stops(r, j, FALSE) /\ ~Chain[j].isError /\ pathMatches(Chain[j].mount, r.in.path)
                          => ~Waits(Chain[j].kind) /\ Verdict(Chain[j].kind, r.in) = Pass
    BY <1>3 DEF Stops
<1>6. k <= Len(Chain) => k >= r.i /\ k \in Layers /\ ~Chain[k].isError
                         /\ (Waits(Chain[k].kind) \/ Verdict(Chain[k].kind, r.in) # Pass)
    BY <1>2, <1>4, ZenonT(40)
<1>7. \A j \in Layers : /\ r.i <= j /\ j < k /\ ~Chain[j].isError
                        /\ pathMatches(Chain[j].mount, r.in.path)
                        => ~Waits(Chain[j].kind) /\ Verdict(Chain[j].kind, r.in) = Pass
    BY <1>2, <1>5, ZenonT(40)
<1> QED BY <1>2, <1>6, <1>7, ZenonT(40) DEF k

\* A guard that lets a request by without a step of its own has cleared it.
LEMMA SkipClears ==
    ASSUME NEW r, NEW k \in Layers, NEW adm,
           ~Waits(Chain[k].kind), Verdict(Chain[k].kind, r.in) = Pass
    PROVE  Clears(r, k, adm)
<1>1. Chain[k].kind # "auth" /\ Chain[k].kind # "rateLimit"
    BY DEF Waits
<1>2. Chain[k].kind = "csrf" => Csrf(r.in) = Pass
    BY DEF Verdict
<1>3. Chain[k].kind = "validate" => Validate(r.in) = Pass
    BY DEF Verdict
<1>4. Validate(r.in) = Pass => r.in.valid
    BY DEF Validate, Pass
<1> QED BY <1>1, <1>2, <1>3, <1>4 DEF Clears

\* When next may be called: no guard behind the cursor is unmet, and either nothing
\* has happened yet or the cursor is behind a layer of the user.
Rest(r, adm) ==
  /\ \A k \in Layers : ~Unmet(r, k, adm)
  /\ \A run \in r.running : ~Early(run[1])
  /\ \/ r.running = {} /\ Untouched(r)
     \/ \E u \in Layers : u < r.i /\ Chain[u].kind = "user"

\* Where next may be called it keeps the invariant: the layers it goes past have
\* cleared the request, and the one it enters is the only one or behind the user's.
LEMMA NextKeeps ==
    ASSUME NEW r, NEW adm, Kept(r, adm), ~r.erroring => Rest(r, adm)
    PROVE  Kept(next(r), adm)
<1>1. CASE r.erroring
    <2>1. next(r) = r
        BY <1>1 DEF next
    <2> QED BY <2>1
<1>2. CASE ~r.erroring
    <2> DEFINE s == next(r)
               k == Following(r, r.i, FALSE)
    <2>1. Well(r)
        BY DEF Kept
    <2>2. /\ SameButRun(r, s) /\ s.i = k + 1
          /\ \/ /\ k > Len(Chain) /\ s.dispatched = TRUE /\ s.running = r.running /\ s.ran = r.ran
                /\ SameAnswer(r, s) \/ (~r.sent /\ s.sent = TRUE /\ s.status = 404)
             \/ /\ k > Len(Chain) /\ ~r.dispatched /\ s.dispatched = TRUE
                /\ s.running = r.running \cup {<<0, 0>>} /\ s.ran = r.ran + 1 /\ SameAnswer(r, s)
             \/ /\ k <= Len(Chain) /\ Waits(Chain[k].kind) /\ s.dispatched = r.dispatched
                /\ s.running = r.running \cup {<<k, 0>>} /\ s.ran = r.ran /\ SameAnswer(r, s)
             \/ /\ k <= Len(Chain) /\ ~Waits(Chain[k].kind) /\ s.dispatched = r.dispatched
                /\ s.running = r.running /\ s.ran = r.ran
                /\ SameAnswer(r, s) \/ (s.sent = TRUE /\ s.status = Verdict(Chain[k].kind, r.in))
        BY <1>2, <2>1, NextFact, ZenonT(40)
    <2>3. /\ k \in Nat
          /\ k <= Len(Chain) => /\ k >= r.i /\ k \in Layers /\ ~Chain[k].isError
                                /\ Waits(Chain[k].kind) \/ Verdict(Chain[k].kind, r.in) # Pass
          /\ k > Len(Chain) => k = Len(Chain) + 1
          /\ \A j \in Layers : /\ r.i <= j /\ j < k /\ ~Chain[j].isError
                               /\ pathMatches(Chain[j].mount, r.in.path)
                               => ~Waits(Chain[j].kind) /\ Verdict(Chain[j].kind, r.in) = Pass
        BY <2>1, SkipFact, ZenonT(40)
    <2> HIDE DEF s, k
    <2>4. /\ r.i \in Nat /\ Len(Chain) \in Nat /\ r.ran \in {0, 1} /\ Rest(r, adm)
          /\ r.sent \in BOOLEAN /\ r.dispatched \in BOOLEAN
        BY <1>2, ServerAssumption DEF Kept, Well
    <2>5. k <= Len(Chain) /\ Early(k) => r.running = {} /\ Untouched(r)
        <3> SUFFICES ASSUME k <= Len(Chain), Early(k), NEW u \in Layers, u < r.i, Chain[u].kind = "user"
                     PROVE  FALSE
            BY <2>4 DEF Rest
        <3>1. u \in 1 .. k
            BY <2>3, <2>4 DEF Layers
        <3> QED BY <3>1 DEF Early
    <2>6. Well(s)
        <3>1. ASSUME NEW run \in r.running PROVE RunOK(s, run)
            <4>1. RunOK(r, run)
                BY <2>1 DEF Well
            <4>2. run[1] \in 0 .. Len(Chain) /\ (run[1] > 0 /\ ~Chain[run[1]].isError => run[1] < k + 1)
                BY <2>3, <2>4, <4>1 DEF RunOK
            <4> QED BY <2>2, <4>1, <4>2 DEF RunOK, SameButRun
        <3>2. k <= Len(Chain) => RunOK(s, <<k, 0>>)
            BY <2>2, <2>3, <2>4 DEF RunOK, Layers
        <3>3. RunOK(s, <<0, 0>>)
            BY <2>4 DEF RunOK
        <3>4. \A run \in s.running : RunOK(s, run)
            BY <2>2, <3>1, <3>2, <3>3
        <3>5. r.ran > 0 => r.dispatched = TRUE /\ k > Len(Chain)
            BY <2>1, <2>3, <2>4 DEF Well
        <3>6. s.ran \in {0, 1} /\ (s.ran > 0 => s.dispatched = TRUE /\ s.i > Len(Chain))
            BY <2>2, <2>3, <2>4, <3>5
        <3>7. s.sent \in BOOLEAN /\ s.dispatched \in BOOLEAN /\ (~s.sent => s.status = 0)
            BY <2>1, <2>2, <2>4 DEF SameAnswer, Well
        <3>8. DOMAIN s = Fields /\ s.ei \in Nat \ {0} /\ s.erroring \in BOOLEAN /\ s.i \in Nat \ {0}
            BY <2>1, <2>2, <2>3 DEF SameButRun, Well
        <3>9. s.i <= Len(Chain) + 2
            BY <2>2, <2>3, <2>4
        <3> QED BY <3>4, <3>6, <3>7, <3>8, <3>9 DEF Well
    <2>7. Sole(s)
        <3> SUFFICES ASSUME NEW run \in s.running, Early(run[1])
                     PROVE  s.running = {run} /\ Untouched(s)
            BY DEF Sole
        <3>1. run \notin r.running
            BY <2>4 DEF Rest
        <3>2. run # <<0, 0>>
            BY DEF Early, Layers
        <3>3. /\ run = <<k, 0>> /\ k <= Len(Chain) /\ s.running = r.running \cup {<<k, 0>>}
              /\ s.dispatched = r.dispatched /\ s.ran = r.ran /\ SameAnswer(r, s)
            BY <2>2, <3>1, <3>2
        <3>4. r.running = {} /\ Untouched(r)
            BY <2>5, <3>3
        <3> QED BY <3>3, <3>4 DEF Untouched, SameAnswer
    <2>8. Held(s, adm)
        <3> SUFFICES ASSUME NEW j \in Layers, Unmet(s, j, adm)
                     PROVE  /\ s.ran = 0
                            /\ \A run \in s.running :
                                 run[1] = j \/ (run[1] > 0 /\ Chain[run[1]].isError)
            BY DEF Held
        <3>1. /\ Early(j) /\ j < k + 1 /\ pathMatches(Chain[j].mount, r.in.path)
              /\ ~Clears(r, j, adm) /\ ~Chain[j].isError /\ j \in Nat
            BY <2>2, <2>4 DEF Unmet, SameButRun, Clears, Early, Layers
        <3>2. ~(j < r.i)
            BY <2>4, <3>1 DEF Rest, Unmet
        <3>3. ~(j < k)
            <4> SUFFICES ASSUME j < k PROVE FALSE
                OBVIOUS
            <4>1. ~Waits(Chain[j].kind) /\ Verdict(Chain[j].kind, r.in) = Pass
                BY <2>3, <2>4, <3>1, <3>2
            <4> QED BY <3>1, <4>1, SkipClears
        <3>4. j = k /\ k <= Len(Chain)
            BY <2>3, <2>4, <3>1, <3>3 DEF Layers
        <3>5. r.running = {} /\ Untouched(r)
            BY <2>5, <3>1, <3>4
        <3> QED BY <2>2, <2>3, <2>4, <3>4, <3>5 DEF Untouched
    <2> QED BY <2>6, <2>7, <2>8 DEF Kept, s
<1> QED BY <1>1, <1>2


\* A response keeps the invariant, where the request is in no guard.
LEMMA AnswerKeeps ==
    ASSUME NEW r, NEW s, NEW adm, Kept(r, adm), \A run \in r.running : ~Early(run[1]),
           Answered(r, s), s.sent \in BOOLEAN, ~s.sent => s.status = 0
    PROVE  Kept(s, adm)
<1>1. Well(s)
    BY DEF Kept, Well, Answered, RunOK
<1>2. Sole(s)
    BY DEF Answered, Sole
<1>3. \A k \in Layers : Unmet(s, k, adm) => Unmet(r, k, adm)
    BY DEF Unmet, Clears, Answered
<1>4. Held(s, adm)
    BY <1>3 DEF Kept, Held, Answered
<1> QED BY <1>1, <1>2, <1>4 DEF Kept

\* Both ways to respond.
LEMMA RespondKeeps ==
    ASSUME NEW r, NEW adm, NEW code, Kept(r, adm), \A run \in r.running : ~Early(run[1])
    PROVE  Kept(Respond(r, code), adm) /\ Kept(RawRespond(r, code), adm)
<1>1. Well(r) /\ r.sent \in BOOLEAN /\ (~r.sent => r.status = 0)
    BY DEF Kept, Well
<1>2. Kept(Respond(r, code), adm)
    <2> DEFINE s == Respond(r, code)
    <2>1. Answered(r, s) /\ (SameAnswer(r, s) \/ (~r.sent /\ s.sent = TRUE /\ s.status = code))
        BY <1>1, RespondFact
    <2> HIDE DEF s
    <2>2. s.sent \in BOOLEAN /\ (~s.sent => s.status = 0)
        BY <1>1, <2>1 DEF SameAnswer
    <2> QED BY <2>1, <2>2, AnswerKeeps DEF s
<1>3. Kept(RawRespond(r, code), adm)
    <2> DEFINE s == RawRespond(r, code)
    <2>1. Answered(r, s) /\ (\/ s.sent = r.sent /\ s.status = r.status
                             \/ s.sent = TRUE /\ s.status = code)
        BY <1>1, RawRespondFact
    <2> HIDE DEF s
    <2>2. s.sent \in BOOLEAN /\ (~s.sent => s.status = 0)
        BY <1>1, <2>1
    <2> QED BY <2>1, <2>2, AnswerKeeps DEF s
<1> QED BY <1>2, <1>3

\* handleError: the next error layer is entered, or the error is answered.
LEMMA ErrorFact ==
    ASSUME NEW r, Well(r), NEW err
    PROVE  LET s == handleError(r, err) IN
           /\ DOMAIN s = Fields /\ s.erroring = TRUE /\ s.ei \in Nat \ {0}
           /\ s.in = r.in /\ s.i = r.i /\ s.dispatched = r.dispatched /\ s.principal = r.principal
           /\ s.ran = r.ran /\ s.state = r.state
           /\ \/ /\ SameAnswer(r, s)
                 /\ \E k \in Layers : Chain[k].isError /\ s.running = r.running \cup {<<k, 0>>}
              \/ /\ s.running = r.running
                 /\ SameAnswer(r, s) \/ (~r.sent /\ s.sent = TRUE /\ s.status = StatusOf(err))
<1> DEFINE k == Following(r, r.ei, TRUE)
           at == [r EXCEPT !.erroring = TRUE, !.ei = k + 1]
           s == handleError(r, err)
<1>1. r.ei \in Nat \ {0} /\ Len(Chain) \in Nat
    BY ServerAssumption DEF Well
<1>2. k \in Nat /\ (k <= Len(Chain) => k \in Layers /\ Stops(r, k, TRUE))
    BY <1>1, FollowingFact, ZenonT(40)
<1>3. s = IF k <= Len(Chain) THEN Enter(at, k) ELSE Respond(at, StatusOf(err))
    BY DEF handleError, finalError
<1>4. Stops(r, k, TRUE) => Chain[k].isError
    BY DEF Stops
<1>5. k \in Nat /\ (k <= Len(Chain) => k \in Layers /\ Chain[k].isError)
    BY <1>2, <1>4, ZenonT(40)
<1> HIDE DEF k, s
<1>6. /\ DOMAIN at = Fields /\ at.erroring = TRUE /\ at.ei = k + 1
      /\ at.in = r.in /\ at.i = r.i /\ at.dispatched = r.dispatched /\ at.principal = r.principal
      /\ at.ran = r.ran /\ at.state = r.state /\ SameAnswer(r, at) /\ at.running = r.running
    BY DEF Well, Fields, SameAnswer
<1>7. Well(at)
    <2>1. \A run \in r.running : RunOK(at, run)
        BY <1>6 DEF Well, RunOK
    <2>2. at.ei \in Nat \ {0}
        BY <1>5, <1>6
    <2> QED BY <1>6, <2>1, <2>2 DEF Well, SameAnswer
<1> HIDE DEF at
<1>8. CASE k <= Len(Chain)
    <2>1. s = Enter(at, k)
        BY <1>3, <1>8
    <2>2. /\ DOMAIN s = Fields /\ s.erroring = at.erroring /\ s.ei = at.ei
          /\ s.in = at.in /\ s.i = at.i /\ s.dispatched = at.dispatched /\ s.principal = at.principal
          /\ s.ran = at.ran /\ s.state = at.state /\ SameAnswer(at, s)
          /\ s.running = at.running \cup {<<k, 0>>}
        BY <1>6, <2>1 DEF Enter, Fields, SameAnswer
    <2>3. s.ei \in Nat \ {0} /\ SameAnswer(r, s)
        BY <1>5, <1>6, <2>2 DEF SameAnswer
    <2> QED BY <1>5, <1>6, <1>8, <2>2, <2>3 DEF s
<1>9. CASE ~(k <= Len(Chain))
    <2> DEFINE code == StatusOf(err)
    <2>1. s = Respond(at, code)
        BY <1>3, <1>9
    <2> HIDE DEF code
    <2>2. Answered(at, s) /\ (SameAnswer(at, s) \/ (~at.sent /\ s.sent = TRUE /\ s.status = code))
        BY <1>7, <2>1, RespondFact
    <2>3. s.ei \in Nat \ {0}
        BY <1>5, <1>6, <2>2 DEF Answered
    <2>4. SameAnswer(r, s) \/ (~r.sent /\ s.sent = TRUE /\ s.status = code)
        BY <1>6, <2>2 DEF SameAnswer
    <2> QED BY <1>6, <2>2, <2>3, <2>4 DEF Answered, s, code
<1> QED BY <1>8, <1>9

\* An error keeps the invariant, where the request is in no guard.
LEMMA ErrorKeeps ==
    ASSUME NEW r, NEW adm, NEW err, Kept(r, adm), \A run \in r.running : ~Early(run[1])
    PROVE  Kept(handleError(r, err), adm)
<1> DEFINE s == handleError(r, err)
<1>1. Well(r) /\ Held(r, adm)
    BY DEF Kept
<1>2. /\ DOMAIN s = Fields /\ s.erroring = TRUE /\ s.ei \in Nat \ {0}
      /\ s.in = r.in /\ s.i = r.i /\ s.dispatched = r.dispatched /\ s.principal = r.principal
      /\ s.ran = r.ran /\ s.state = r.state
      /\ \/ /\ SameAnswer(r, s)
            /\ \E k \in Layers : Chain[k].isError /\ s.running = r.running \cup {<<k, 0>>}
         \/ /\ s.running = r.running
            /\ SameAnswer(r, s) \/ (~r.sent /\ s.sent = TRUE /\ s.status = StatusOf(err))
    BY <1>1, ErrorFact, ZenonT(40)
<1> HIDE DEF s
<1>3. \A run \in s.running : \/ run \in r.running
                             \/ \E k \in Layers : Chain[k].isError /\ run = <<k, 0>>
    BY <1>2, ZenonT(40)
<1>4. ASSUME NEW run \in s.running PROVE RunOK(s, run)
    <2>1. CASE run \in r.running
        BY <1>1, <1>2, <2>1 DEF Well, RunOK
    <2>2. ASSUME NEW k \in Layers, Chain[k].isError, run = <<k, 0>> PROVE RunOK(s, run)
        BY <1>2, <2>2, ServerAssumption DEF RunOK, Layers
    <2> QED BY <1>3, <1>4, <2>1, <2>2
<1>5. s.sent \in BOOLEAN /\ (~s.sent => s.status = 0)
    BY <1>1, <1>2 DEF SameAnswer, Well
<1>6. Well(s)
    BY <1>1, <1>2, <1>4, <1>5 DEF Well
<1>7. Sole(s)
    BY <1>3 DEF Sole, Early
<1>8. \A k \in Layers : Unmet(s, k, adm) => Unmet(r, k, adm)
    BY <1>2 DEF Unmet, Clears
<1>9. Held(s, adm)
    <2> SUFFICES ASSUME NEW k \in Layers, Unmet(r, k, adm), NEW run \in s.running
                 PROVE  s.ran = 0 /\ (run[1] = k \/ (run[1] > 0 /\ Chain[run[1]].isError))
        BY <1>1, <1>2, <1>8 DEF Held
    <2>1. CASE run \in r.running
        BY <1>1, <1>2, <2>1 DEF Held
    <2>2. ASSUME NEW j \in Layers, Chain[j].isError, run = <<j, 0>>
          PROVE  run[1] > 0 /\ Chain[run[1]].isError
        BY <2>2, ServerAssumption DEF Layers
    <2> QED BY <1>1, <1>2, <1>3, <2>1, <2>2 DEF Held
<1> QED BY <1>6, <1>7, <1>9 DEF Kept, s

\* What a layer that returns leaves behind.
LEMMA LeaveFact ==
    ASSUME NEW r, NEW adm, NEW run, Kept(r, adm), run \in r.running
    PROVE  LET s == Leave(r, run) IN
           /\ SameButRun(r, s) /\ SameAnswer(r, s) /\ s.i = r.i /\ s.ran = r.ran
           /\ s.dispatched = r.dispatched /\ s.running = r.running \ {run} /\ Kept(s, adm)
           /\ \A other \in s.running : ~Early(other[1])
<1> DEFINE s == Leave(r, run)
<1>1. /\ SameButRun(r, s) /\ SameAnswer(r, s) /\ s.i = r.i /\ s.ran = r.ran
      /\ s.dispatched = r.dispatched /\ s.running = r.running \ {run}
    BY DEF Leave, SameButRun, SameAnswer, Kept, Well, Fields
<1> HIDE DEF s
<1>2. \A other \in s.running : ~Early(other[1])
    BY <1>1 DEF Kept, Sole
<1>3. Well(s)
    BY <1>1 DEF Kept, Well, RunOK, SameButRun, SameAnswer
<1>4. \A k \in Layers : Unmet(s, k, adm) => Unmet(r, k, adm)
    BY <1>1 DEF Unmet, Clears, SameButRun
<1>5. Held(s, adm)
    BY <1>1, <1>4 DEF Kept, Held
<1>6. Kept(s, adm)
    BY <1>2, <1>3, <1>5 DEF Kept, Sole
<1> QED BY <1>1, <1>2, <1>6 DEF s


-----------------------------------------------------------------------------
(* A step of a request *)

\* Every built-in layer that answers by itself stands before the user's layers.
GuardsFirst ==
  \A k \in Layers : Chain[k].kind \in {"cors", "csrf", "validate", "static", "auth", "rateLimit"}
                      => \A j \in 1 .. k : Chain[j].kind # "user"

\* The cursor moves forward, and what is entered is ahead of it; the handler
\* does not start once an error is propagating.
Moves(r, s) ==
  /\ s.i >= r.i
  /\ \A run \in s.running : \/ run \in r.running \/ run[1] = 0 \/ run[1] >= r.i
                            \/ Chain[run[1]].kind \in {"user", "onError"}
  /\ r.erroring => s.ran = r.ran

Stands(r, s) == r.sent => s.sent = TRUE /\ s.status = r.status

\* A step that keeps the invariant and does not refuse the request for its rate.
Fine(r, s, adm) ==
  /\ Kept(s, adm) /\ s.in = r.in /\ s.state = r.state
  /\ Moves(r, s)
  /\ GuardsFirst => Stands(r, s)
  /\ s.status = 429 => r.status = 429

\* A step composed of a change that leaves the answer alone and another step.
LEMMA FineAfter ==
    ASSUME NEW r, NEW r0, NEW s, NEW adm, Fine(r, s, adm),
           r.in = r0.in, r.state = r0.state, r.i = r0.i, r.erroring = r0.erroring, r.ran = r0.ran,
           SameAnswer(r0, r),
           \A run \in r.running : run \in r0.running \/ Chain[run[1]].kind = "user"
    PROVE  Fine(r0, s, adm)
BY DEF Fine, Moves, Stands, SameAnswer

\* next, where it may be called.
LEMMA NextFine ==
    ASSUME NEW r, NEW adm, Kept(r, adm), ~r.erroring => Rest(r, adm)
    PROVE  Fine(r, next(r), adm)
<1> DEFINE s == next(r)
           k == Following(r, r.i, FALSE)
<1>1. Kept(s, adm)
    BY NextKeeps
<1>2. Well(r) /\ r.i \in Nat /\ r.sent \in BOOLEAN /\ Len(Chain) \in Nat
    BY ServerAssumption DEF Kept, Well
<1>3. CASE r.erroring
    <2>1. s = r
        BY <1>3 DEF next
    <2> QED BY <1>1, <1>2, <2>1 DEF Fine, Moves, Stands
<1>4. CASE ~r.erroring
    <2>1. /\ SameButRun(r, s) /\ s.i = k + 1
          /\ \/ /\ k > Len(Chain) /\ s.dispatched = TRUE /\ s.running = r.running /\ s.ran = r.ran
                /\ SameAnswer(r, s) \/ (~r.sent /\ s.sent = TRUE /\ s.status = 404)
             \/ /\ k > Len(Chain) /\ ~r.dispatched /\ s.dispatched = TRUE
                /\ s.running = r.running \cup {<<0, 0>>} /\ s.ran = r.ran + 1 /\ SameAnswer(r, s)
             \/ /\ k <= Len(Chain) /\ Waits(Chain[k].kind) /\ s.dispatched = r.dispatched
                /\ s.running = r.running \cup {<<k, 0>>} /\ s.ran = r.ran /\ SameAnswer(r, s)
             \/ /\ k <= Len(Chain) /\ ~Waits(Chain[k].kind) /\ s.dispatched = r.dispatched
                /\ s.running = r.running /\ s.ran = r.ran
                /\ SameAnswer(r, s) \/ (s.sent = TRUE /\ s.status = Verdict(Chain[k].kind, r.in))
        BY <1>2, <1>4, NextFact, ZenonT(40)
    <2>2. /\ k \in Nat
          /\ k <= Len(Chain) => /\ k >= r.i /\ k \in Layers /\ ~Chain[k].isError
                                /\ Waits(Chain[k].kind) \/ Verdict(Chain[k].kind, r.in) # Pass
          /\ k > Len(Chain) => k = Len(Chain) + 1
        BY <1>2, SkipFact, ZenonT(40)
    <2> HIDE DEF s, k
    <2>3. s.i >= r.i /\ (k <= Len(Chain) => k >= r.i)
        BY <1>2, <2>1, <2>2 DEF Well
    <2>4. Moves(r, s)
        <3>1. \A run \in s.running : run \in r.running \/ run[1] = 0 \/ (run[1] = k /\ k <= Len(Chain))
            BY <2>1
        <3> QED BY <1>4, <2>3, <3>1 DEF Moves
    <2>5. GuardsFirst => Stands(r, s)
        <3> SUFFICES ASSUME GuardsFirst, r.sent, ~SameAnswer(r, s) PROVE FALSE
            BY <1>2 DEF Stands, SameAnswer
        <3>1. k <= Len(Chain) /\ ~Waits(Chain[k].kind)
            BY <2>1
        <3>2. k \in Layers /\ k >= r.i /\ Verdict(Chain[k].kind, r.in) # Pass
            BY <2>2, <3>1
        <3>3. Chain[k].kind \in {"cors", "csrf", "validate", "static"}
            BY <3>2 DEF Verdict
        <3>4. PICK u \in Layers : u < r.i /\ Chain[u].kind = "user"
            BY <1>4 DEF Rest, Untouched
        <3>5. u \in 1 .. k
            BY <1>2, <2>2, <3>2, <3>4 DEF Layers
        <3> QED BY <3>2, <3>3, <3>4, <3>5 DEF GuardsFirst
    <2>6. s.status = 429 => r.status = 429
        BY <2>1, VerdictFact DEF SameAnswer
    <2> QED BY <1>1, <2>1, <2>4, <2>5, <2>6 DEF Fine, SameButRun, s
<1> QED BY <1>3, <1>4 DEF s


\* An answer through respond.
LEMMA RespondFine ==
    ASSUME NEW r, NEW adm, NEW code, code # 429, Kept(r, adm), \A run \in r.running : ~Early(run[1])
    PROVE  Fine(r, Respond(r, code), adm)
<1> DEFINE s == Respond(r, code)
<1>1. Well(r) /\ r.sent \in BOOLEAN /\ r.i \in Nat
    BY DEF Kept, Well
<1>2. Kept(s, adm)
    BY RespondKeeps
<1>3. Answered(r, s) /\ (SameAnswer(r, s) \/ (~r.sent /\ s.sent = TRUE /\ s.status = code))
    BY <1>1, RespondFact, ZenonT(40)
<1> HIDE DEF s
<1>4. Moves(r, s)
    BY <1>1, <1>3 DEF Moves, Answered
<1>5. Stands(r, s) /\ (s.status = 429 => r.status = 429)
    BY <1>1, <1>3 DEF Stands, SameAnswer
<1> QED BY <1>2, <1>3, <1>4, <1>5 DEF Fine, Answered, s

\* An error that propagates.
LEMMA ErrorFine ==
    ASSUME NEW r, NEW adm, NEW err, Kept(r, adm), \A run \in r.running : ~Early(run[1])
    PROVE  Fine(r, handleError(r, err), adm)
<1> DEFINE s == handleError(r, err)
           code == StatusOf(err)
<1>1. Well(r) /\ r.sent \in BOOLEAN /\ r.i \in Nat
    BY DEF Kept, Well
<1>2. Kept(s, adm)
    BY ErrorKeeps
<1>3. /\ s.in = r.in /\ s.i = r.i /\ s.ran = r.ran /\ s.state = r.state
      /\ \/ /\ SameAnswer(r, s)
            /\ \E k \in Layers : Chain[k].isError /\ s.running = r.running \cup {<<k, 0>>}
         \/ /\ s.running = r.running
            /\ SameAnswer(r, s) \/ (~r.sent /\ s.sent = TRUE /\ s.status = code)
    BY <1>1, ErrorFact, ZenonT(40)
<1>4. code # 429
    BY DEF StatusOf
<1> HIDE DEF s, code
<1>5. \A run \in s.running : run \in r.running \/ Chain[run[1]].kind = "onError"
    <2>1. \A k \in Layers : Chain[k].isError => Chain[k].kind = "onError"
        BY ServerAssumption DEF Layers
    <2> QED BY <1>3, <2>1
<1>6. Moves(r, s)
    BY <1>1, <1>3, <1>5 DEF Moves
<1>7. Stands(r, s) /\ (s.status = 429 => r.status = 429)
    BY <1>1, <1>3, <1>4 DEF Stands, SameAnswer
<1> QED BY <1>2, <1>3, <1>6, <1>7 DEF Fine, s

\* A guard that refuses: nothing has been sent before.
LEMMA RefuseFine ==
    ASSUME NEW r, NEW adm, NEW code, NEW run, Kept(r, adm), run \in r.running, run[1] > 0,
           Chain[run[1]].kind \in {"auth", "rateLimit"}
    PROVE  LET s == RawRespond(Leave(r, run), code) IN
           /\ Kept(s, adm) /\ s.in = r.in /\ s.state = r.state /\ Moves(r, s)
           /\ GuardsFirst => Stands(r, s)
           /\ s.status = code \/ s.status = r.status
<1> DEFINE m == Leave(r, run)
           s == RawRespond(m, code)
<1>1. Well(r) /\ r.sent \in BOOLEAN /\ r.i \in Nat /\ RunOK(r, run)
    BY DEF Kept, Well
<1>2. /\ SameButRun(r, m) /\ SameAnswer(r, m) /\ m.i = r.i /\ m.ran = r.ran
      /\ m.dispatched = r.dispatched /\ m.running = r.running \ {run} /\ Kept(m, adm)
      /\ \A other \in m.running : ~Early(other[1])
    BY LeaveFact, ZenonT(40)
<1> HIDE DEF m
<1>3. Well(m)
    BY <1>2 DEF Kept
<1>4. Kept(s, adm)
    BY <1>2, RespondKeeps
<1>5. Answered(m, s) /\ (\/ s.sent = m.sent /\ s.status = m.status
                         \/ s.sent = TRUE /\ s.status = code)
    BY <1>3, RawRespondFact
<1> HIDE DEF s
<1>6. Moves(r, s)
    BY <1>1, <1>2, <1>5 DEF Moves, Answered, SameButRun
<1>7. GuardsFirst => ~r.sent
    <2> SUFFICES ASSUME GuardsFirst PROVE ~r.sent
        OBVIOUS
    <2>1. run[1] \in Layers
        BY <1>1, ServerAssumption DEF RunOK, Layers
    <2>2. ~Chain[run[1]].isError
        BY <2>1, ServerAssumption DEF Layers
    <2>3. Early(run[1])
        BY <2>1, <2>2 DEF Early, GuardsFirst
    <2> QED BY <2>3 DEF Kept, Sole, Untouched
<1>8. s.in = r.in /\ s.state = r.state /\ (s.status = code \/ s.status = r.status)
    BY <1>2, <1>5 DEF Answered, SameButRun, SameAnswer
<1> QED BY <1>4, <1>6, <1>7, <1>8 DEF Stands, s, m

\* What a guard that lets the request through makes of it.
Through(r, s, run, adm, adm2) ==
  /\ run \in r.running /\ run[1] > 0 /\ Chain[run[1]].kind \in {"auth", "rateLimit"}
  /\ DOMAIN s = Fields /\ s.in = r.in /\ s.ei = r.ei /\ s.erroring = r.erroring /\ s.i = r.i
  /\ s.ran = r.ran /\ s.dispatched = r.dispatched /\ s.running = r.running \ {run}
  /\ SameAnswer(r, s) /\ (r.principal = TRUE => s.principal = TRUE) /\ (adm => adm2)
  /\ Clears(s, run[1], adm2)

\* A guard that lets the request through: next may be called.
LEMMA GuardResumes ==
    ASSUME NEW r, NEW adm, NEW adm2, NEW run, NEW s, Kept(r, adm), Through(r, s, run, adm, adm2)
    PROVE  Kept(s, adm2) /\ Rest(s, adm2)
<1> USE DEF Through
<1> DEFINE k == run[1]
<1>1. Well(r) /\ Held(r, adm) /\ Sole(r) /\ RunOK(r, run)
    BY DEF Kept, Well
<1>2. k \in Layers /\ ~Chain[k].isError /\ k < r.i
    <2>1. k \in Layers
        BY <1>1, ServerAssumption DEF RunOK, Layers
    <2> QED BY <1>1, <2>1, ServerAssumption DEF RunOK, Layers
<1>3. \A other \in s.running : ~Early(other[1])
    BY <1>1 DEF Sole
<1>4. \A j \in Layers : ~Unmet(s, j, adm2)
    <2> SUFFICES ASSUME NEW j \in Layers, Unmet(s, j, adm2) PROVE FALSE
        OBVIOUS
    <2>1. Unmet(r, j, adm)
        BY DEF Unmet, Clears
    <2>2. j = k
        BY <1>1, <1>2, <2>1 DEF Held
    <2> QED BY <2>2 DEF Unmet
<1>5. Well(s)
    BY <1>1 DEF Well, RunOK, SameAnswer
<1>6. Kept(s, adm2)
    BY <1>3, <1>4, <1>5 DEF Kept, Sole, Held
<1>7. CASE Early(k)
    <2>1. s.running = {} /\ Untouched(s)
        BY <1>1, <1>7 DEF Sole, Untouched, SameAnswer
    <2> QED BY <1>3, <1>4, <1>6, <2>1 DEF Rest
<1>8. CASE ~Early(k)
    <2>1. PICK u \in 1 .. k : Chain[u].kind = "user"
        BY <1>2, <1>8 DEF Early
    <2>2. u \in Layers /\ u < r.i
        BY <1>1, <1>2, <2>1, ServerAssumption DEF Layers, Well
    <2> QED BY <1>3, <1>4, <1>6, <2>1, <2>2 DEF Rest
<1> QED BY <1>7, <1>8


\* A mark on the request that no property looks at.
LEMMA MarkFine ==
    ASSUME NEW r, NEW s, NEW t, NEW adm, Fine(r, s, adm), SameButRun(s, t), SameAnswer(s, t),
           t.i = s.i, t.running = s.running, t.ran = s.ran, t.dispatched = s.dispatched
    PROVE  Fine(r, t, adm)
<1>1. Well(s) /\ Sole(s) /\ Held(s, adm)
    BY DEF Fine, Kept
<1>2. Well(t)
    BY <1>1 DEF Well, RunOK, SameButRun, SameAnswer
<1>3. Sole(t)
    BY <1>1 DEF Sole, Untouched, SameAnswer
<1>4. \A k \in Layers : Unmet(t, k, adm) => Unmet(s, k, adm)
    BY DEF Unmet, Clears, SameButRun
<1>5. Held(t, adm)
    BY <1>1, <1>4 DEF Held
<1> QED BY <1>2, <1>3, <1>5 DEF Fine, Kept, Moves, Stands, SameButRun, SameAnswer

\* What every step of the server is to each request.
Steps(q) ==
  /\ Moves(req[q], req'[q])
  /\ GuardsFirst => Stands(req[q], req'[q])
  /\ req'[q].status = 429 => req[q].status = 429 \/ RateLimit(q)
Stepped == \A q \in Requests : Steps(q)

\* A request that a step does not touch.
LEMMA StillFine ==
    ASSUME NEW r, NEW adm, Kept(r, adm)
    PROVE  Moves(r, r) /\ Stands(r, r)
BY DEF Kept, Well, Moves, Stands

\* Becomes, with a request that is in order.
LEMMA BecomesFine ==
    ASSUME InOrder, NEW q \in Requests, NEW r, Becomes(q, r), r.in \in Input[q], r.state # "none",
           r.in = req[q].in, Kept(r, Admitted(q)),
           Moves(req[q], r), GuardsFirst => Stands(req[q], r), r.status = 429 => req[q].status = 429
    PROVE  InOrder' /\ Stepped
<1>1. /\ req' = [req EXCEPT ![q] = r] /\ admitted' = admitted /\ DOMAIN req = Requests
      /\ DOMAIN admitted = Keys
    BY DEF Becomes, InOrder
<1>2. req'[q] = r /\ DOMAIN req' = Requests /\ \A p \in Requests : p # q => req'[p] = req[p]
    BY <1>1
<1>3. \A p \in Requests : Admitted(p)' <=> Admitted(p)
    BY <1>1, <1>2 DEF Admitted
<1>4. ASSUME NEW p \in Requests PROVE (Known(p) /\ Kept(req[p], Admitted(p)))' /\ Steps(p)
    <2>1. CASE p = q
        <3>1. Kept(r, Admitted(q)')
            BY <1>3 DEF Kept, Held, Unmet, Clears
        <3> QED BY <1>2, <2>1, <3>1 DEF Known, Steps
    <2>2. CASE p # q
        <3>1. Known(p) /\ Kept(req[p], Admitted(p))
            BY DEF InOrder
        <3>2. Kept(req[p], Admitted(p)')
            BY <1>3, <3>1 DEF Kept, Held, Unmet, Clears
        <3>3. Known(p)' /\ Kept(req[p], Admitted(p))'
            BY <1>2, <2>2, <3>1, <3>2 DEF Known
        <3>4. Moves(req[p], req[p]) /\ Stands(req[p], req[p])
            BY <3>1, StillFine
        <3> QED BY <1>2, <2>2, <3>3, <3>4 DEF Steps
    <2> QED BY <2>1, <2>2
<1> QED BY <1>1, <1>2, <1>4 DEF InOrder, Stepped

\* What is known of a request with something running, or that is open.
LEMMA RequestFact ==
    ASSUME InOrder, NEW q \in Requests, req[q].running # {} \/ req[q].state = "open"
    PROVE  /\ req[q].state # "none" /\ req[q].in \in Input[q] /\ Kept(req[q], Admitted(q))
BY DEF InOrder, Known, Idle

\* The same through Fine.
LEMMA FineStep ==
    ASSUME InOrder, NEW q \in Requests, req[q].running # {} \/ req[q].state = "open",
           NEW r, Becomes(q, r), Fine(req[q], r, Admitted(q))
    PROVE  InOrder' /\ Stepped
<1>1. req[q].state # "none" /\ req[q].in \in Input[q]
    BY RequestFact
<1> QED BY <1>1, BecomesFine DEF Fine

\* A layer returns and something else follows.
LEMMA FineReturn ==
    ASSUME InOrder, NEW q \in Requests, NEW run \in req[q].running, NEW s,
           Fine(Leave(req[q], run), s, Admitted(q)), Becomes(q, s)
    PROVE  InOrder' /\ Stepped
<1> DEFINE r == Leave(req[q], run)
           adm == Admitted(q)
<1>1. Kept(req[q], adm)
    BY RequestFact
<1>2. /\ SameButRun(req[q], r) /\ SameAnswer(req[q], r) /\ r.i = req[q].i /\ r.ran = req[q].ran
      /\ r.dispatched = req[q].dispatched /\ r.running = req[q].running \ {run} /\ Kept(r, adm)
      /\ \A other \in r.running : ~Early(other[1])
    BY <1>1, LeaveFact, ZenonT(40)
<1> HIDE DEF r, adm
<1>3. Fine(r, s, adm)
    BY DEF r, adm
<1>4. Fine(req[q], s, adm)
    BY <1>2, <1>3, FineAfter DEF SameButRun
<1> QED BY <1>4, FineStep DEF adm


\* A request behind a layer that has returned.
LEMMA BackFact ==
    ASSUME InOrder, NEW q \in Requests, NEW run \in req[q].running
    PROVE  /\ Kept(Leave(req[q], run), Admitted(q))
           /\ \A other \in Leave(req[q], run).running : ~Early(other[1])
<1>1. Kept(req[q], Admitted(q))
    BY RequestFact
<1> QED BY <1>1, LeaveFact, ZenonT(40)

-----------------------------------------------------------------------------
(* The actions *)

\* The handlers: an answer, an error, or a stream.
LEMMA HandlerStep ==
    ASSUME InOrder, NEW q \in Requests, CtxHandler(q) \/ ExpressHandler(q) \/ StreamHandler(q)
    PROVE  InOrder' /\ Stepped
<1>1. PICK run \in req[q].running :
        \/ \E code \in {200, 204, 404} : Becomes(q, Respond(Leave(req[q], run), code))
        \/ \E err : Becomes(q, handleError(Leave(req[q], run), err))
        \/ Becomes(q, [Respond(Leave(req[q], run), 200) EXCEPT !.stream = TRUE])
    BY DEF CtxHandler, ExpressHandler, StreamHandler, Returned
<1> DEFINE r == Leave(req[q], run)
           adm == Admitted(q)
<1>2. Kept(r, adm) /\ \A other \in r.running : ~Early(other[1])
    BY BackFact
<1> HIDE DEF r, adm
<1>3. ASSUME NEW code \in {200, 204, 404}, Becomes(q, Respond(r, code)) PROVE InOrder' /\ Stepped
    <2>1. code # 429
        OBVIOUS
    <2>2. Fine(r, Respond(r, code), adm)
        BY <1>2, <2>1, RespondFine
    <2> QED BY <1>3, <2>2, FineReturn DEF r, adm
<1>4. ASSUME NEW err, Becomes(q, handleError(r, err)) PROVE InOrder' /\ Stepped
    <2>1. Fine(r, handleError(r, err), adm)
        BY <1>2, ErrorFine
    <2> QED BY <1>4, <2>1, FineReturn DEF r, adm
<1>5. ASSUME Becomes(q, [Respond(r, 200) EXCEPT !.stream = TRUE]) PROVE InOrder' /\ Stepped
    <2>1. PICK code : code = 200
        OBVIOUS
    <2> DEFINE s == Respond(r, code)
               t == [s EXCEPT !.stream = TRUE]
    <2>2. Becomes(q, t) /\ code # 429
        BY <1>5, <2>1
    <2>3. Fine(r, s, adm)
        BY <1>2, <2>2, RespondFine
    <2> HIDE DEF s
    <2>4. DOMAIN s = Fields
        BY <2>3 DEF Fine, Kept, Well
    <2>5. /\ SameButRun(s, t) /\ SameAnswer(s, t)
          /\ t.i = s.i /\ t.running = s.running /\ t.ran = s.ran /\ t.dispatched = s.dispatched
        BY <2>4 DEF SameButRun, SameAnswer, Fields
    <2> HIDE DEF t
    <2>6. Fine(r, t, adm)
        BY <2>3, <2>5, MarkFine
    <2> QED BY <2>2, <2>6, FineReturn DEF r, adm
<1> QED BY <1>1, <1>3, <1>4, <1>5 DEF r

\* Error layers: the request is erroring, so next changes nothing.
LEMMA ErrorLayerStep ==
    ASSUME InOrder, NEW q \in Requests, ErrorLayer(q)
    PROVE  InOrder' /\ Stepped
<1>1. PICK run \in Running(q, "onError") :
        LET r == Leave(req[q], run)
        IN \/ Becomes(q, Respond(r, 500))
           \/ Becomes(q, handleError(r, "Error"))
           \/ Becomes(q, [next(r) EXCEPT !.left = TRUE])
    BY DEF ErrorLayer
<1>2. run \in req[q].running /\ run[1] > 0 /\ Chain[run[1]].kind = "onError"
    BY DEF Running
<1> DEFINE r == Leave(req[q], run)
           adm == Admitted(q)
<1>3. Kept(r, adm) /\ \A other \in r.running : ~Early(other[1])
    BY <1>2, BackFact
<1>4. r.erroring
    <2>1. Well(req[q]) /\ RunOK(req[q], run)
        BY <1>2, RequestFact DEF Kept, Well
    <2>a. run[1] \in DOMAIN Chain
        BY <1>2, <2>1, ServerAssumption DEF RunOK
    <2>2. Chain[run[1]].isError
        BY <1>2, <2>a, ServerAssumption
    <2> QED BY <1>2, <2>1, <2>2 DEF RunOK, Leave, Well, Fields
<1> HIDE DEF r, adm
<1>5. CASE Becomes(q, Respond(r, 500))
    <2>1. PICK code : code = 500
        OBVIOUS
    <2>2. Becomes(q, Respond(r, code)) /\ code # 429
        BY <1>5, <2>1
    <2>3. Fine(r, Respond(r, code), adm)
        BY <1>3, <2>2, RespondFine
    <2> QED BY <1>2, <2>2, <2>3, FineReturn DEF r, adm
<1>6. CASE Becomes(q, handleError(r, "Error"))
    <2>1. Fine(r, handleError(r, "Error"), adm)
        BY <1>3, ErrorFine
    <2> QED BY <1>2, <1>6, <2>1, FineReturn DEF r, adm
<1>7. CASE Becomes(q, [next(r) EXCEPT !.left = TRUE])
    <2> DEFINE s == next(r)
               t == [s EXCEPT !.left = TRUE]
    <2>1. Fine(r, s, adm)
        BY <1>3, <1>4, NextFine
    <2> HIDE DEF s
    <2>2. DOMAIN s = Fields
        BY <2>1 DEF Fine, Kept, Well
    <2>3. /\ SameButRun(s, t) /\ SameAnswer(s, t)
          /\ t.i = s.i /\ t.running = s.running /\ t.ran = s.ran /\ t.dispatched = s.dispatched
        BY <2>2 DEF SameButRun, SameAnswer, Fields
    <2>4. Becomes(q, t)
        BY <1>7 DEF s
    <2> HIDE DEF t
    <2>5. Fine(r, t, adm)
        BY <2>1, <2>3, MarkFine
    <2> QED BY <1>2, <2>4, <2>5, FineReturn DEF r, adm
<1> QED BY <1>1, <1>5, <1>6, <1>7 DEF r


\* A layer of the user: it may go on running while next or an error goes on.
LEMMA UserLayerStep ==
    ASSUME InOrder, NEW q \in Requests, UserLayer(q)
    PROVE  InOrder' /\ Stepped
<1>1. PICK run \in Running(q, "user") :
        LET r == Leave(req[q], run)
            again == [r EXCEPT !.running = @ \cup {<<run[1], 1>>}]
        IN \/ Becomes(q, next(r))
           \/ Becomes(q, handleError(r, "Error"))
           \/ Becomes(q, Respond(r, 200))
           \/ Becomes(q, next(again))
           \/ Becomes(q, handleError(again, "Error"))
           \/ Becomes(q, r)
    BY DEF UserLayer
<1>2. run \in req[q].running /\ run[1] > 0 /\ Chain[run[1]].kind = "user"
    BY DEF Running
<1> DEFINE k == run[1]
           r == Leave(req[q], run)
           again == [r EXCEPT !.running = @ \cup {<<k, 1>>}]
           adm == Admitted(q)
<1>3. Kept(req[q], adm) /\ Well(req[q]) /\ RunOK(req[q], run) /\ Held(req[q], adm)
    BY <1>2, RequestFact DEF Kept, Well
<1>4. k \in Layers /\ ~Chain[k].isError /\ k < req[q].i /\ ~Early(k)
    <2>1. k \in DOMAIN Chain /\ k \in Layers /\ k \in 1 .. k
        BY <1>2, <1>3, ServerAssumption DEF RunOK, Layers
    <2>2. ~Chain[k].isError
        BY <1>2, <2>1, ServerAssumption
    <2> QED BY <1>2, <1>3, <2>1, <2>2 DEF RunOK, Early
<1>5. /\ SameButRun(req[q], r) /\ SameAnswer(req[q], r) /\ r.i = req[q].i /\ r.ran = req[q].ran
      /\ r.dispatched = req[q].dispatched /\ r.running = req[q].running \ {run} /\ Kept(r, adm)
      /\ \A other \in r.running : ~Early(other[1])
    BY <1>2, <1>3, LeaveFact, ZenonT(40)
<1> HIDE DEF r, adm
<1>6. \A j \in Layers : ~Unmet(req[q], j, adm)
    BY <1>2, <1>3, <1>4 DEF Held, Unmet
<1>7. \A j \in Layers : ~Unmet(r, j, adm)
    BY <1>5, <1>6 DEF Unmet, Clears, SameButRun
<1>8. Rest(r, adm)
    BY <1>2, <1>4, <1>5, <1>7 DEF Rest
<1>9. /\ SameButRun(r, again) /\ SameAnswer(r, again) /\ again.i = r.i /\ again.ran = r.ran
      /\ again.dispatched = r.dispatched /\ again.running = r.running \cup {<<k, 1>>}
    BY <1>5 DEF SameButRun, SameAnswer, Fields
<1> HIDE DEF again
<1>10. \A other \in again.running : ~Early(other[1])
    BY <1>4, <1>5, <1>9
<1>11. \A j \in Layers : ~Unmet(again, j, adm)
    BY <1>7, <1>9 DEF Unmet, Clears, SameButRun
<1>12. Kept(again, adm) /\ Rest(again, adm)
    <2>1. Well(r)
        BY <1>5 DEF Kept
    <2>2. \A other \in r.running : RunOK(again, other)
        BY <1>9, <2>1 DEF Well, RunOK, SameButRun
    <2>3. RunOK(again, <<k, 1>>)
        BY <1>2, <1>4, <1>5, <1>9, ServerAssumption DEF RunOK, Layers
    <2>4. Well(again)
        BY <1>9, <2>1, <2>2, <2>3 DEF Well, SameButRun, SameAnswer
    <2> QED BY <1>2, <1>4, <1>5, <1>9, <1>10, <1>11, <2>4 DEF Kept, Rest, Sole, Held
<1>13. ASSUME NEW s, Fine(again, s, adm), Becomes(q, s) PROVE InOrder' /\ Stepped
    <2>1. \A other \in again.running : other \in req[q].running \/ Chain[other[1]].kind = "user"
        BY <1>2, <1>5, <1>9
    <2>2. Fine(req[q], s, adm)
        BY <1>5, <1>9, <1>13, <2>1, FineAfter DEF SameButRun, SameAnswer
    <2> QED BY <1>2, <1>13, <2>2, FineStep DEF adm
<1>14. CASE Becomes(q, next(r))
    <2>1. Fine(r, next(r), adm)
        BY <1>5, <1>8, NextFine
    <2> QED BY <1>2, <1>14, <2>1, FineReturn DEF r, adm
<1>15. CASE Becomes(q, handleError(r, "Error"))
    <2>1. Fine(r, handleError(r, "Error"), adm)
        BY <1>5, ErrorFine
    <2> QED BY <1>2, <1>15, <2>1, FineReturn DEF r, adm
<1>16. CASE Becomes(q, Respond(r, 200))
    <2>1. PICK code : code = 200
        OBVIOUS
    <2>2. Becomes(q, Respond(r, code)) /\ code # 429
        BY <1>16, <2>1
    <2>3. Fine(r, Respond(r, code), adm)
        BY <1>5, <2>2, RespondFine
    <2> QED BY <1>2, <2>2, <2>3, FineReturn DEF r, adm
<1>17. CASE Becomes(q, next(again))
    <2>1. Fine(again, next(again), adm)
        BY <1>12, NextFine
    <2> QED BY <1>13, <1>17, <2>1
<1>18. CASE Becomes(q, handleError(again, "Error"))
    <2>1. Fine(again, handleError(again, "Error"), adm)
        BY <1>10, <1>12, ErrorFine
    <2> QED BY <1>13, <1>18, <2>1
<1>19. CASE Becomes(q, r)
    <2>1. Moves(r, r) /\ Stands(r, r)
        BY <1>5, StillFine
    <2>2. Fine(r, r, adm)
        BY <1>5, <2>1 DEF Fine
    <2> QED BY <1>2, <1>19, <2>2, FineReturn DEF r, adm
<1> QED BY <1>1, <1>14, <1>15, <1>16, <1>17, <1>18, <1>19 DEF r, again

\* auth: accepted, refused, or the verifier throws.
LEMMA AuthStep ==
    ASSUME InOrder, NEW q \in Requests, Auth(q)
    PROVE  InOrder' /\ Stepped
<1>1. PICK run \in Running(q, "auth") :
        LET r == Leave(req[q], run)
        IN \/ Becomes(q, next([r EXCEPT !.principal = TRUE]))
           \/ Becomes(q, RawRespond(r, 401))
           \/ Becomes(q, handleError(r, "Error"))
    BY DEF Auth
<1>2. run \in req[q].running /\ run[1] > 0 /\ Chain[run[1]].kind = "auth"
    BY DEF Running
<1> DEFINE r == Leave(req[q], run)
           on == [r EXCEPT !.principal = TRUE]
           adm == Admitted(q)
<1>3. Kept(req[q], adm) /\ req[q].state # "none" /\ req[q].in \in Input[q]
    BY <1>2, RequestFact
<1>4. /\ SameButRun(req[q], r) /\ SameAnswer(req[q], r) /\ r.i = req[q].i /\ r.ran = req[q].ran
      /\ r.dispatched = req[q].dispatched /\ r.running = req[q].running \ {run} /\ Kept(r, adm)
      /\ \A other \in r.running : ~Early(other[1])
    BY <1>2, <1>3, LeaveFact, ZenonT(40)
<1> HIDE DEF adm
<1>5. CASE Becomes(q, next(on))
    <2> HIDE DEF r
    <2>1. /\ DOMAIN on = Fields /\ on.principal = TRUE
          /\ on.in = r.in /\ on.ei = r.ei /\ on.erroring = r.erroring /\ on.state = r.state
          /\ SameAnswer(r, on) /\ on.i = r.i /\ on.ran = r.ran /\ on.dispatched = r.dispatched
          /\ on.running = r.running
        BY <1>4 DEF SameButRun, SameAnswer, Fields
    <2> HIDE DEF on
    <2>2. Clears(on, run[1], adm)
        BY <1>2, <2>1 DEF Clears
    <2>a. /\ on.in = req[q].in /\ on.ei = req[q].ei /\ on.erroring = req[q].erroring
          /\ on.i = req[q].i /\ on.ran = req[q].ran /\ on.dispatched = req[q].dispatched
          /\ on.running = req[q].running \ {run} /\ SameAnswer(req[q], on)
        BY <1>4, <2>1 DEF SameButRun, SameAnswer
    <2>b. Through(req[q], on, run, adm, adm)
        BY <1>2, <2>1, <2>2, <2>a DEF Through
    <2>3. Kept(on, adm) /\ Rest(on, adm)
        BY <1>3, <2>b, GuardResumes, ZenonT(40)
    <2>4. Fine(on, next(on), adm)
        BY <2>3, NextFine
    <2>5. Fine(req[q], next(on), adm)
        BY <1>4, <2>1, <2>4, FineAfter DEF SameButRun, SameAnswer
    <2> QED BY <1>2, <1>5, <2>5, FineStep DEF adm
<1>6. CASE Becomes(q, RawRespond(r, 401))
    <2>1. PICK code : code = 401
        OBVIOUS
    <2> DEFINE s == RawRespond(r, code)
    <2>2. Becomes(q, s) /\ code # 429
        BY <1>6, <2>1
    <2>3. /\ Kept(s, adm) /\ s.in = req[q].in /\ s.state = req[q].state /\ Moves(req[q], s)
          /\ GuardsFirst => Stands(req[q], s)
          /\ s.status = code \/ s.status = req[q].status
        BY <1>2, <1>3, RefuseFine
    <2> HIDE DEF s
    <2>4. Fine(req[q], s, adm)
        BY <2>2, <2>3 DEF Fine
    <2> QED BY <1>2, <2>2, <2>4, FineStep DEF adm
<1>7. CASE Becomes(q, handleError(r, "Error"))
    <2> HIDE DEF r
    <2>1. Fine(r, handleError(r, "Error"), adm)
        BY <1>4, ErrorFine
    <2> QED BY <1>2, <1>7, <2>1, FineReturn DEF r, adm
<1> QED BY <1>1, <1>5, <1>6, <1>7


\* The end of a request changes its state only.
LEMMA EndFact ==
    ASSUME NEW r, NEW adm, NEW v, Kept(r, adm)
    PROVE  LET s == [r EXCEPT !.state = v] IN
           /\ Kept(s, adm) /\ Moves(r, s) /\ Stands(r, s)
           /\ s.in = r.in /\ s.status = r.status /\ s.state = v
<1> DEFINE s == [r EXCEPT !.state = v]
<1>1. Well(r) /\ Sole(r) /\ Held(r, adm)
    BY DEF Kept
<1>2. /\ DOMAIN s = Fields /\ s.in = r.in /\ s.i = r.i /\ s.ei = r.ei /\ s.state = v
      /\ s.dispatched = r.dispatched /\ s.erroring = r.erroring /\ s.running = r.running
      /\ s.principal = r.principal /\ s.ran = r.ran /\ s.sent = r.sent /\ s.status = r.status
    BY <1>1 DEF Well, Fields
<1> HIDE DEF s
<1>3. Well(s)
    BY <1>1, <1>2 DEF Well, RunOK
<1>4. Sole(s)
    BY <1>1, <1>2 DEF Sole, Untouched
<1>5. \A k \in Layers : Unmet(s, k, adm) => Unmet(r, k, adm)
    BY <1>2 DEF Unmet, Clears
<1>6. Held(s, adm)
    BY <1>1, <1>2, <1>5 DEF Held
<1>7. Moves(r, s) /\ Stands(r, s)
    BY <1>1, <1>2 DEF Moves, Stands, Well
<1> QED BY <1>2, <1>3, <1>4, <1>6, <1>7 DEF Kept, s

\* The invariant of a request does not depend on how it was let through.
LEMMA AdmittedMore ==
    ASSUME NEW r, NEW adm, NEW adm2, Kept(r, adm), adm => adm2
    PROVE  Kept(r, adm2)
<1>1. \A k \in Layers : Unmet(r, k, adm2) => Unmet(r, k, adm)
    BY DEF Unmet, Clears
<1> QED BY <1>1 DEF Kept, Held

\* A request that has just come is in order, whatever it asks for.
LEMMA FreshFact ==
    ASSUME NEW adm, NEW in, NEW v
    PROVE  LET r == [Idle EXCEPT !.state = v, !.in = in] IN Kept(r, adm) /\ Rest(r, adm)
<1> DEFINE r == [Idle EXCEPT !.state = v, !.in = in]
<1>0. Len(Chain) \in Nat /\ 1 <= Len(Chain) + 2 /\ 1 \in Nat \ {0}
    BY ServerAssumption
<1>1. /\ DOMAIN r = Fields /\ r.i = 1 /\ r.ei = 1 /\ r.ran = 0 /\ r.status = 0 /\ r.running = {}
      /\ r.dispatched = FALSE /\ r.erroring = FALSE /\ r.sent = FALSE
    BY DEF Idle, Fields
<1> HIDE DEF r
<1>2. Well(r)
    <2>1. r.i \in Nat \ {0} /\ r.i <= Len(Chain) + 2 /\ r.ei \in Nat \ {0}
        BY <1>0, <1>1
    <2>2. r.ran \in {0, 1} /\ ~(r.ran > 0)
        BY <1>1
    <2>3. r.dispatched \in BOOLEAN /\ r.erroring \in BOOLEAN /\ r.sent \in BOOLEAN
        BY <1>1
    <2> QED BY <1>1, <2>1, <2>2, <2>3, ZenonT(40) DEF Well
<1>3. \A k \in Layers : ~Unmet(r, k, adm)
    BY <1>0, <1>1 DEF Unmet, Layers
<1> QED BY <1>1, <1>2, <1>3 DEF Kept, Sole, Held, Rest, Untouched, r

\* The same of a request that has not come.
LEMMA IdleFact ==
    ASSUME NEW adm
    PROVE  Kept(Idle, adm)
<1>0. Len(Chain) \in Nat /\ 1 <= Len(Chain) + 2 /\ 1 \in Nat \ {0}
    BY ServerAssumption
<1>1. /\ DOMAIN Idle = Fields /\ Idle.i = 1 /\ Idle.ei = 1 /\ Idle.ran = 0 /\ Idle.status = 0
      /\ Idle.running = {} /\ Idle.dispatched = FALSE /\ Idle.erroring = FALSE /\ Idle.sent = FALSE
    BY DEF Idle, Fields
<1>2. Well(Idle)
    <2>1. Idle.i \in Nat \ {0} /\ Idle.i <= Len(Chain) + 2 /\ Idle.ei \in Nat \ {0}
        BY <1>0, <1>1
    <2>2. Idle.ran \in {0, 1} /\ ~(Idle.ran > 0)
        BY <1>1
    <2>3. Idle.dispatched \in BOOLEAN /\ Idle.erroring \in BOOLEAN /\ Idle.sent \in BOOLEAN
        BY <1>1
    <2> QED BY <1>1, <2>1, <2>2, <2>3, ZenonT(40) DEF Well
<1>3. \A k \in Layers : ~Unmet(Idle, k, adm)
    BY <1>0, <1>1 DEF Unmet, Layers
<1> QED BY <1>1, <1>2, <1>3 DEF Kept, Sole, Held

\* A step of one request while the limiter's history grows.
LEMMA TouchStep ==
    ASSUME InOrder, NEW q \in Requests, NEW s, req' = [req EXCEPT ![q] = s],
           DOMAIN admitted' = Keys, \A k \in Keys : admitted[k] \subseteq admitted'[k],
           s.in \in Input[q], s.state # "none", Kept(s, Admitted(q)'), Steps(q)
    PROVE  InOrder' /\ Stepped
<1>1. DOMAIN req = Requests
    BY DEF InOrder
<1>2. req'[q] = s /\ DOMAIN req' = Requests /\ \A p \in Requests : p # q => req'[p] = req[p]
    BY <1>1
<1>3. ASSUME NEW p \in Requests PROVE (Known(p) /\ Kept(req[p], Admitted(p)))' /\ Steps(p)
    <2>1. CASE p = q
        BY <1>2, <2>1 DEF Known
    <2>2. CASE p # q
        <3>1. Known(p) /\ Kept(req[p], Admitted(p)) /\ req'[p] = req[p]
            BY <1>2, <2>2 DEF InOrder
        <3>2. Kept(req[p], Admitted(p)')
            <4>1. CASE req[p].state = "none"
                BY <3>1, <4>1, IdleFact DEF Known
            <4>2. CASE req[p].state # "none"
                <5>1. req[p].in.key \in Keys
                    BY <3>1, <4>2 DEF Known, Keys
                <5>2. Admitted(p) => Admitted(p)'
                    BY <3>1, <5>1 DEF Admitted
                <5> QED BY <3>1, <5>2, AdmittedMore
            <4> QED BY <4>1, <4>2
        <3>3. Moves(req[p], req[p]) /\ Stands(req[p], req[p])
            BY <3>1, StillFine
        <3> QED BY <3>1, <3>2, <3>3 DEF Known, Steps
    <2> QED BY <2>1, <2>2
<1> QED BY <1>2, <1>3 DEF InOrder, Stepped

\* A request the limiter lets through goes on from where it was.
LEMMA AdmitFine ==
    ASSUME InOrder, NEW q \in Requests, NEW run \in Running(q, "rateLimit")
    PROVE  Fine(Leave(req[q], run), next(Leave(req[q], run)), TRUE)
<1> DEFINE r == Leave(req[q], run)
           adm == Admitted(q)
<1>1. run \in req[q].running /\ run[1] > 0 /\ Chain[run[1]].kind = "rateLimit"
    BY DEF Running
<1>2. Kept(req[q], adm)
    BY <1>1, RequestFact
<1>3. /\ SameButRun(req[q], r) /\ SameAnswer(req[q], r) /\ r.i = req[q].i /\ r.ran = req[q].ran
      /\ r.dispatched = req[q].dispatched /\ r.running = req[q].running \ {run} /\ Kept(r, adm)
      /\ \A other \in r.running : ~Early(other[1])
    BY <1>1, <1>2, LeaveFact, ZenonT(40)
<1> HIDE DEF r, adm
<1>4. Clears(r, run[1], TRUE)
    BY <1>1 DEF Clears
<1>5. Through(req[q], r, run, adm, TRUE)
    BY <1>1, <1>3, <1>4 DEF Through, SameButRun
<1>6. Kept(r, TRUE) /\ Rest(r, TRUE)
    BY <1>2, <1>5, GuardResumes, ZenonT(40)
<1> QED BY <1>6, NextFine DEF r

\* rateLimit: counted, then refused or let through.
LEMMA RateLimitStep ==
    ASSUME InOrder, NEW q \in Requests, RateLimit(q)
    PROVE  InOrder' /\ Stepped
<1>1. PICK run \in Running(q, "rateLimit") :
        LET key == req[q].in.key
            b == Bucket(key)
            r == Leave(req[q], run)
        IN IF b.count > MaxPerWindow
           THEN req' = [req EXCEPT ![q] = RawRespond(r, 429)] /\ UNCHANGED admitted
           ELSE /\ req' = [req EXCEPT ![q] = next(r)]
                /\ admitted' = [admitted EXCEPT ![key] = @ \cup {<<q, clock>>}]
    BY DEF RateLimit
<1>2. run \in req[q].running /\ run[1] > 0 /\ Chain[run[1]].kind = "rateLimit"
    BY DEF Running
<1> DEFINE r == Leave(req[q], run)
           adm == Admitted(q)
           key == req[q].in.key
<1>3. Kept(req[q], adm) /\ req[q].state # "none" /\ req[q].in \in Input[q]
    BY <1>2, RequestFact
<1>4. DOMAIN req = Requests /\ DOMAIN admitted = Keys /\ key \in Keys
    BY <1>3 DEF InOrder, Keys
<1>5. /\ SameButRun(req[q], r) /\ SameAnswer(req[q], r) /\ r.i = req[q].i /\ r.ran = req[q].ran
      /\ r.dispatched = req[q].dispatched /\ r.running = req[q].running \ {run} /\ Kept(r, adm)
      /\ \A other \in r.running : ~Early(other[1])
    BY <1>2, <1>3, LeaveFact, ZenonT(40)
<1>6. CASE req' = [req EXCEPT ![q] = RawRespond(r, 429)] /\ admitted' = admitted
    <2>1. PICK code : code = 429
        OBVIOUS
    <2> DEFINE s == RawRespond(r, code)
    <2>2. req' = [req EXCEPT ![q] = s]
        BY <1>6, <2>1
    <2>3. /\ Kept(s, adm) /\ s.in = req[q].in /\ s.state = req[q].state /\ Moves(req[q], s)
          /\ GuardsFirst => Stands(req[q], s)
        BY <1>2, <1>3, RefuseFine
    <2> HIDE DEF s, r
    <2>4. req'[q] = s
        BY <1>4, <2>2
    <2>5. adm => Admitted(q)'
        BY <1>6, <2>3, <2>4 DEF Admitted
    <2> HIDE DEF adm
    <2>6. Kept(s, Admitted(q)')
        BY <2>3, <2>5, AdmittedMore
    <2>7. Steps(q)
        BY <2>3, <2>4 DEF Steps
    <2> QED BY <1>3, <1>4, <1>6, <2>2, <2>3, <2>6, <2>7, TouchStep
<1>7. CASE /\ req' = [req EXCEPT ![q] = next(r)]
           /\ admitted' = [admitted EXCEPT ![key] = @ \cup {<<q, clock>>}]
    <2> DEFINE s == next(r)
    <2> HIDE DEF r, adm
    <2>4. Fine(r, s, TRUE)
        BY AdmitFine DEF r
    <2> HIDE DEF s
    <2>5. Fine(req[q], s, TRUE)
        BY <1>5, <2>4, FineAfter DEF SameButRun
    <2>6. req'[q] = s /\ s.in = req[q].in /\ s.state = req[q].state
        BY <1>4, <1>7, <2>5 DEF Fine, s
    <2>7. <<q, clock>> \in admitted'[s.in.key]
        BY <1>4, <1>7, <2>6
    <2>8. Admitted(q)'
        <3>1. <<q, clock>> \in admitted'[req'[q].in.key] /\ <<q, clock>>[1] = q
            BY <2>6, <2>7
        <3> QED BY <3>1 DEF Admitted
    <2>9. Kept(s, Admitted(q)')
        BY <2>5, <2>8, AdmittedMore DEF Fine
    <2>10. Steps(q)
        BY <2>5, <2>6 DEF Steps, Fine
    <2>11. DOMAIN admitted' = Keys /\ \A k \in Keys : admitted[k] \subseteq admitted'[k]
        BY <1>4, <1>7
    <2>12. req' = [req EXCEPT ![q] = s]
        BY <1>7 DEF s
    <2> QED BY <1>3, <2>6, <2>9, <2>10, <2>11, <2>12, TouchStep
<1> QED BY <1>1, <1>6, <1>7


\* A request is accepted: the chain starts.
LEMMA AcceptStep ==
    ASSUME InOrder, NEW q \in Requests, Accept(q)
    PROVE  InOrder' /\ Stepped
<1>1. PICK in \in Input[q] :
        req' = [req EXCEPT ![q] = next([Idle EXCEPT !.state = "open", !.in = in])]
    BY DEF Accept
<1>2. req[q] = Idle /\ DOMAIN req = Requests /\ DOMAIN admitted = Keys /\ admitted' = admitted
    BY DEF Accept, InOrder, Known
<1> DEFINE x == [Idle EXCEPT !.state = "open", !.in = in]
           s == next(x)
           adm == Admitted(q)'
<1>3. Kept(x, adm) /\ Rest(x, adm)
    BY FreshFact, ZenonT(40)
<1>4. x.in = in /\ x.state = "open" /\ x.i = Idle.i /\ x.running = {} /\ x.status = 0
    BY DEF Idle
<1>5. Idle.erroring = FALSE /\ Idle.sent = FALSE
    BY DEF Idle
<1>6. req' = [req EXCEPT ![q] = s]
    BY <1>1
<1> HIDE DEF x, adm
<1>7. Fine(x, s, adm)
    BY <1>3, NextFine
<1> HIDE DEF s
<1>8. req'[q] = s
    BY <1>2, <1>6
<1>9. Moves(Idle, s)
    BY <1>4, <1>5, <1>7 DEF Fine, Moves
<1>10. s.status # 429
    BY <1>4, <1>7 DEF Fine
<1>11. Steps(q)
    BY <1>2, <1>5, <1>8, <1>9, <1>10 DEF Steps, Stands
<1>12. s.in \in Input[q] /\ s.state # "none" /\ Kept(s, Admitted(q)')
    BY <1>4, <1>7 DEF Fine, adm
<1> QED BY <1>2, <1>6, <1>11, <1>12, TouchStep

\* A response is flushed, or the client goes away.
LEMMA EndStep ==
    ASSUME InOrder, NEW q \in Requests, Finish(q) \/ Disconnect(q)
    PROVE  InOrder' /\ Stepped
<1>1. PICK v \in {"ended", "cut"} : Becomes(q, [req[q] EXCEPT !.state = v])
    BY DEF Finish, Disconnect
<1>2. req[q].state = "open"
    BY DEF Finish, Disconnect
<1>3. Kept(req[q], Admitted(q)) /\ req[q].in \in Input[q]
    BY <1>2, RequestFact
<1> DEFINE s == [req[q] EXCEPT !.state = v]
<1>4. /\ Kept(s, Admitted(q)) /\ Moves(req[q], s) /\ Stands(req[q], s)
      /\ s.in = req[q].in /\ s.status = req[q].status /\ s.state = v
    BY <1>3, EndFact
<1>5. s.state # "none"
    BY <1>4
<1>6. Becomes(q, s)
    BY <1>1
<1> HIDE DEF s
<1> QED BY <1>3, <1>4, <1>5, <1>6, BecomesFine

\* The server cuts what is open.
LEMMA CutStep ==
    ASSUME InOrder, CutAll
    PROVE  InOrder' /\ Stepped
<1>1. /\ req' = [p \in Requests |->
                   IF req[p].state = "open" THEN [req[p] EXCEPT !.state = "cut"] ELSE req[p]]
      /\ admitted' = admitted /\ DOMAIN admitted = Keys
    BY DEF CutAll, InOrder
<1>2. ASSUME NEW q \in Requests PROVE (Known(q) /\ Kept(req[q], Admitted(q)))' /\ Steps(q)
    <2>1. Known(q) /\ Kept(req[q], Admitted(q))
        BY DEF InOrder
    <2>2. CASE req[q].state = "open"
        <3> DEFINE s == [req[q] EXCEPT !.state = "cut"]
        <3>1. req'[q] = s
            BY <1>1, <2>2
        <3>2. /\ Kept(s, Admitted(q)) /\ Moves(req[q], s) /\ Stands(req[q], s)
              /\ s.in = req[q].in /\ s.status = req[q].status /\ s.state = "cut"
            BY <2>1, EndFact
        <3> HIDE DEF s
        <3>3. Admitted(q) => Admitted(q)'
            BY <1>1, <3>1, <3>2 DEF Admitted
        <3>4. Kept(s, Admitted(q)')
            BY <3>2, <3>3, AdmittedMore
        <3>5. s.in \in Input[q] /\ s.state # "none"
            BY <2>1, <2>2, <3>2 DEF Known
        <3> QED BY <3>1, <3>2, <3>4, <3>5 DEF Known, Steps
    <2>3. CASE req[q].state # "open"
        <3>1. req'[q] = req[q]
            BY <1>1, <2>3
        <3>2. Admitted(q) => Admitted(q)'
            BY <1>1, <3>1 DEF Admitted
        <3>3. Kept(req[q], Admitted(q)')
            BY <2>1, <3>2, AdmittedMore
        <3>4. Moves(req[q], req[q]) /\ Stands(req[q], req[q])
            BY <2>1, StillFine
        <3> QED BY <2>1, <3>1, <3>3, <3>4 DEF Known, Steps
    <2> QED BY <2>2, <2>3
<1>3. DOMAIN req' = Requests /\ DOMAIN admitted' = Keys
    BY <1>1
<1> QED BY <1>2, <1>3 DEF InOrder, Stepped

\* Steps that touch no request.
LEMMA QuietStep ==
    ASSUME InOrder, req' = req, admitted' = admitted
    PROVE  InOrder' /\ Stepped
<1>1. ASSUME NEW q \in Requests PROVE (Known(q) /\ Kept(req[q], Admitted(q)))' /\ Steps(q)
    <2>1. Known(q) /\ Kept(req[q], Admitted(q))
        BY DEF InOrder
    <2>2. Admitted(q) => Admitted(q)'
        BY DEF Admitted
    <2>3. Kept(req[q], Admitted(q)')
        BY <2>1, <2>2, AdmittedMore
    <2>4. Moves(req[q], req[q]) /\ Stands(req[q], req[q])
        BY <2>1, StillFine
    <2> QED BY <2>1, <2>3, <2>4 DEF Known, Steps
<1> QED BY <1>1 DEF InOrder, Stepped

\* Every step of the server.
LEMMA NextStep ==
    ASSUME InOrder, [Next]_vars
    PROVE  InOrder' /\ Stepped
<1>1. ASSUME NEW q \in Requests, Progress(q) PROVE InOrder' /\ Stepped
    <2>1. CASE RateLimit(q)
        BY <2>1, RateLimitStep
    <2>2. CASE Auth(q)
        BY <2>2, AuthStep
    <2>3. CASE UserLayer(q)
        BY <2>3, UserLayerStep
    <2>4. CASE ErrorLayer(q)
        BY <2>4, ErrorLayerStep
    <2>5. CASE CtxHandler(q) \/ ExpressHandler(q) \/ StreamHandler(q)
        BY <2>5, HandlerStep
    <2>6. CASE Finish(q)
        BY <2>6, EndStep
    <2> QED BY <1>1, <2>1, <2>2, <2>3, <2>4, <2>5, <2>6 DEF Progress
<1>2. ASSUME NEW q \in Requests, Accept(q) PROVE InOrder' /\ Stepped
    BY <1>2, AcceptStep
<1>3. ASSUME NEW q \in Requests, Disconnect(q) PROVE InOrder' /\ Stepped
    BY <1>3, EndStep
<1>4. CASE ForceClose \/ UnhandledRejection
    BY <1>4, CutStep DEF ForceClose, UnhandledRejection
<1>5. CASE \/ \E route \in Patterns : AddRoute(route)
           \/ \E router \in Routers : Mount(router)
           \/ Listen \/ Tick \/ Close \/ Drained \/ Stopped \/ UNCHANGED vars
    <2>1. req' = req /\ admitted' = admitted
        BY <1>5 DEF AddRoute, Mount, Listen, Tick, Close, Drained, Stopped, vars
    <2> QED BY <2>1, QuietStep
<1> QED BY <1>1, <1>2, <1>3, <1>4, <1>5 DEF Next

\* No request has come yet.
LEMMA InitInOrder ==
    ASSUME Init
    PROVE  InOrder
<1>1. ASSUME NEW q \in Requests PROVE Known(q) /\ Kept(req[q], Admitted(q))
    <2>1. req[q] = Idle /\ Idle.state = "none"
        BY DEF Init, Idle
    <2> QED BY <2>1, IdleFact DEF Known
<1>2. DOMAIN req = Requests /\ DOMAIN admitted = Keys
    BY DEF Init
<1> QED BY <1>1, <1>2 DEF InOrder

-----------------------------------------------------------------------------
(* The theorems *)

\* The invariant behind the others: before the first layer of the user a request is
\* in one layer at a time, and a request that a guard has not let through has
\* nothing running that could move it on (express.ts runMiddleware).
THEOREM ChainInOrder == Spec => []InOrder
<1>1. Init => InOrder
    BY InitInOrder
<1>2. InOrder /\ [Next]_vars => InOrder'
    BY NextStep
<1> QED BY <1>1, <1>2, PTL DEF Spec

\* A handler starts behind every guard of its path that precedes the user's layers,
\* for every chain, whatever the user's layers do with next.
THEOREM GuardsAlwaysHold == Spec => []GuardsHold
<1>1. InOrder => GuardsHold
    <2> SUFFICES ASSUME InOrder, NEW q \in Requests, req[q].ran > 0
                 PROVE  /\ Guards("auth", req[q].in.path) # {} => req[q].principal
                        /\ Guards("csrf", req[q].in.path) # {} => Csrf(req[q].in) = Pass
                        /\ Guards("validate", req[q].in.path) # {} => req[q].in.valid
                        /\ Guards("rateLimit", req[q].in.path) # {}
                             => \E a \in admitted[req[q].in.key] : a[1] = q
        BY DEF GuardsHold
    <2> DEFINE r == req[q]
               adm == Admitted(q)
    <2>1. Well(r) /\ Held(r, adm) /\ r.ran # 0 /\ r.i > Len(Chain) /\ r.i \in Nat
        BY DEF InOrder, Kept, Well
    <2>2. \A k \in Layers : ~Unmet(r, k, adm)
        BY <2>1 DEF Held
    <2>3. ASSUME NEW kind, kind # "onError", NEW k \in Guards(kind, r.in.path)
          PROVE  Chain[k].kind = kind /\ Clears(r, k, adm)
        <3>1. /\ k \in DOMAIN Chain /\ k \in Layers /\ Chain[k].kind = kind
              /\ pathMatches(Chain[k].mount, r.in.path)
              /\ \A j \in 1 .. k : Chain[j].kind # "user"
            BY ServerAssumption DEF Guards, pathMatches, Layers
        <3>2. ~Chain[k].isError
            BY <2>3, <3>1, ServerAssumption
        <3>3. k < r.i
            BY <2>1, <3>1, ServerAssumption DEF Layers
        <3> QED BY <2>2, <3>1, <3>2, <3>3 DEF Unmet, Early
    <2>4. Guards("auth", r.in.path) # {} => r.principal
        BY <2>3 DEF Clears
    <2>5. Guards("csrf", r.in.path) # {} => Csrf(r.in) = Pass
        BY <2>3 DEF Clears
    <2>6. Guards("validate", r.in.path) # {} => r.in.valid
        BY <2>3 DEF Clears
    <2>7. Guards("rateLimit", r.in.path) # {} => adm
        BY <2>3 DEF Clears
    <2> QED BY <2>4, <2>5, <2>6, <2>7 DEF Admitted
<1> QED BY <1>1, ChainInOrder, PTL

\* A handler runs once at most and never starts while an error propagates.
THEOREM HandlersRunOnce == Spec => HandlerRunsOnce
<1>1. Init => InOrder
    BY InitInOrder
<1>2. InOrder /\ [Next]_vars => InOrder'
    BY NextStep
<1>3. InOrder /\ [Next]_vars =>
        [\A q \in Requests : req[q].erroring => req'[q].ran = req[q].ran]_vars
    BY NextStep DEF Stepped, Steps, Moves
<1>4. InOrder => \A q \in Requests : req[q].ran <= 1
    BY DEF InOrder, Kept, Well
<1> QED BY <1>1, <1>2, <1>3, <1>4, PTL DEF Spec, HandlerRunsOnce

\* Where the built-in layers stand before the user's, the first response of a
\* request is its response.
THEOREM ResponsesStand == GuardsFirst => (Spec => FirstResponseStands)
<1> SUFFICES ASSUME GuardsFirst PROVE Spec => FirstResponseStands
    OBVIOUS
<1>1. Init => InOrder
    BY InitInOrder
<1>2. InOrder /\ [Next]_vars => InOrder'
    BY NextStep
<1>3. InOrder /\ [Next]_vars =>
        [\A q \in Requests : req[q].sent => req'[q].sent /\ req'[q].status = req[q].status]_vars
    BY NextStep DEF Stepped, Steps, Stands
<1> QED BY <1>1, <1>2, <1>3, PTL DEF Spec, FirstResponseStands


-----------------------------------------------------------------------------
(* The rate limiter *)

\* The chain has one limiter.
OneLimiter == \A j, k \in Layers : Chain[j].kind = "rateLimit" /\ Chain[k].kind = "rateLimit" => j = k

\* The requests of the key's current window that were let through.
Recent(key) == {a \in admitted[key] : a[2] >= buckets[key].resetAt - Window}

BucketOK(key) ==
  /\ DOMAIN buckets[key] = {"count", "resetAt"}
  /\ buckets[key].count \in Nat /\ buckets[key].resetAt \in Nat
  /\ buckets[key].resetAt <= clock + Window

AdmittedOK(key) == IsFiniteSet(admitted[key]) /\ admitted[key] \subseteq Requests \X Nat

\* The bucket counts no more than were let through, until the maximum is reached.
Counted(key) ==
  clock < buckets[key].resetAt =>
    Cardinality(Recent(key)) >= buckets[key].count \/ Cardinality(Recent(key)) >= MaxPerWindow

\* A request that was let through has left the limiter behind.
Past(r) == \A k \in Layers : Chain[k].kind = "rateLimit" =>
             k < r.i /\ \A run \in r.running : run[1] # k

\* The inductive invariant of the limiter.
Books ==
  /\ clock \in Nat /\ DOMAIN buckets = Keys /\ DOMAIN admitted = Keys
  /\ \A key \in Keys : BucketOK(key) /\ AdmittedOK(key) /\ Counted(key)
  /\ \A key \in Keys : \A a \in admitted[key] : Past(req[a[1]])

\* What has left the limiter behind does not come back to it.
LEMMA PastStays ==
    ASSUME NEW r, NEW s, r.i \in Nat, s.i \in Nat, Moves(r, s), Past(r)
    PROVE  Past(s)
<1> SUFFICES ASSUME NEW k \in Layers, Chain[k].kind = "rateLimit"
             PROVE  k < s.i /\ \A run \in s.running : run[1] # k
    BY DEF Past
<1>1. k \in Nat /\ k > 0 /\ k < r.i /\ \A run \in r.running : run[1] # k
    BY ServerAssumption DEF Past, Layers
<1>2. k < s.i
    BY <1>1 DEF Moves
<1>3. ASSUME NEW run \in s.running, run[1] = k PROVE FALSE
    BY <1>1, <1>3 DEF Moves
<1> QED BY <1>2, <1>3

\* The clock runs on: a window may end, nothing is counted.
LEMMA BooksAside ==
    ASSUME InOrder, InOrder', Stepped, Books, buckets' = buckets, admitted' = admitted,
           clock' \in {clock, clock + 1}
    PROVE  Books'
<1>1. clock \in Nat /\ clock' \in Nat /\ clock <= clock'
    BY DEF Books
<1>2. ASSUME NEW key \in Keys PROVE (BucketOK(key) /\ AdmittedOK(key) /\ Counted(key))'
    <2>1. BucketOK(key) /\ AdmittedOK(key) /\ Counted(key)
        BY DEF Books
    <2>2. BucketOK(key)'
        BY <1>1, <2>1, ServerAssumption DEF BucketOK
    <2>3. Recent(key)' = Recent(key)
        BY DEF Recent
    <2>4. clock' < buckets[key].resetAt => clock < buckets[key].resetAt
        BY <1>1, <2>1 DEF BucketOK
    <2>5. Counted(key)'
        BY <2>1, <2>3, <2>4 DEF Counted
    <2> QED BY <2>1, <2>2, <2>5 DEF AdmittedOK
<1>3. ASSUME NEW key \in Keys, NEW a \in admitted[key] PROVE Past(req'[a[1]])
    <2>1. a[1] \in Requests /\ Past(req[a[1]])
        BY DEF Books, AdmittedOK
    <2>2. Moves(req[a[1]], req'[a[1]])
        BY <2>1 DEF Stepped, Steps
    <2>3. req[a[1]].i \in Nat /\ req'[a[1]].i \in Nat
        BY <2>1 DEF InOrder, Kept, Well
    <2> QED BY <2>1, <2>2, <2>3, PastStays
<1> QED BY <1>1, <1>2, <1>3 DEF Books

\* The runs of the one limiter in one request are one.
LEMMA LimiterRun ==
    ASSUME OneLimiter, InOrder, NEW q \in Requests, NEW run \in Running(q, "rateLimit"),
           NEW other \in Running(q, "rateLimit")
    PROVE  run = other
<1>1. RunOK(req[q], run) /\ RunOK(req[q], other)
    BY DEF InOrder, Kept, Well, Running
<1>2. /\ run[1] > 0 /\ Chain[run[1]].kind = "rateLimit"
      /\ other[1] > 0 /\ Chain[other[1]].kind = "rateLimit"
    BY DEF Running
<1>3. run[1] \in Layers /\ other[1] \in Layers
    BY <1>1, <1>2, ServerAssumption DEF RunOK, Layers
<1>4. run[1] = other[1]
    BY <1>2, <1>3 DEF OneLimiter
<1>5. run[2] = 0 /\ other[2] = 0
    BY <1>1, <1>2 DEF RunOK
<1> QED BY <1>1, <1>4, <1>5 DEF RunOK

\* What the limiter does to the books.
LEMMA BooksLimit ==
    ASSUME OneLimiter, InOrder, InOrder', Stepped, Books, NEW q \in Requests, RateLimit(q)
    PROVE  Books'
<1>0. PICK key : key = req[q].in.key
    OBVIOUS
<1>a. PICK b : b = Bucket(key)
    OBVIOUS
<1>1. PICK run \in Running(q, "rateLimit") :
        /\ buckets' = [buckets EXCEPT ![key] = b]
        /\ IF b.count > MaxPerWindow
           THEN UNCHANGED admitted
           ELSE /\ req' = [req EXCEPT ![q] = next(Leave(req[q], run))]
                /\ admitted' = [admitted EXCEPT ![key] = @ \cup {<<q, clock>>}]
        /\ clock' = clock
    BY <1>0, <1>a DEF RateLimit
<1>2. run \in req[q].running /\ run[1] > 0 /\ Chain[run[1]].kind = "rateLimit"
    BY DEF Running
<1>3. Kept(req[q], Admitted(q)) /\ Well(req[q]) /\ req[q].in \in Input[q] /\ key \in Keys
    <2>1. Kept(req[q], Admitted(q)) /\ req[q].in \in Input[q]
        BY <1>2, RequestFact
    <2> QED BY <1>0, <2>1 DEF Kept, Keys
<1>4. run[1] \in Layers /\ run[1] < req[q].i
    <2>1. RunOK(req[q], run)
        BY <1>2, <1>3 DEF Well
    <2>2. run[1] \in Layers
        BY <1>2, <2>1, ServerAssumption DEF RunOK, Layers
    <2>3. ~Chain[run[1]].isError
        BY <1>2, <2>2, ServerAssumption DEF Layers
    <2> QED BY <1>2, <2>1, <2>2, <2>3 DEF RunOK
<1>5. ~Past(req[q])
    BY <1>2, <1>4 DEF Past
<1>6. \A k \in Keys : <<q, clock>> \notin admitted[k]
    BY <1>5 DEF Books
<1>7. BucketOK(key) /\ AdmittedOK(key) /\ Counted(key)
    BY <1>3 DEF Books
<1>8. clock \in Nat /\ DOMAIN buckets = Keys /\ DOMAIN admitted = Keys
    BY DEF Books
<1>b. PICK old : old = buckets[key]
    OBVIOUS
<1>9. \/ clock >= old.resetAt /\ b = [count |-> 1, resetAt |-> clock + Window]
      \/ clock < old.resetAt /\ b = [old EXCEPT !.count = @ + 1]
    BY <1>7, <1>8, <1>a, <1>b DEF Bucket, BucketOK
<1>10. /\ DOMAIN b = {"count", "resetAt"}
       /\ \/ clock >= old.resetAt /\ b.count = 1 /\ b.resetAt = clock + Window
          \/ clock < old.resetAt /\ b.count = old.count + 1 /\ b.resetAt = old.resetAt
    <2>1. DOMAIN old = {"count", "resetAt"}
        BY <1>7, <1>b, <1>b DEF BucketOK
    <2> QED BY <1>9, <2>1
<1>11. buckets'[key] = b /\ \A k \in Keys : k # key => buckets'[k] = buckets[k]
    BY <1>1, <1>3, <1>8
<1>12. BucketOK(key)'
    BY <1>1, <1>7, <1>b, <1>8, <1>10, <1>11, ServerAssumption DEF BucketOK
<1>13. ASSUME NEW k \in Keys, k # key, admitted'[k] = admitted[k]
       PROVE  (BucketOK(k) /\ AdmittedOK(k) /\ Counted(k))'
    <2>1. BucketOK(k) /\ AdmittedOK(k) /\ Counted(k) /\ buckets'[k] = buckets[k] /\ clock' = clock
        BY <1>1, <1>11, <1>13 DEF Books
    <2>2. Recent(k)' = Recent(k)
        BY <1>13, <2>1 DEF Recent
    <2> QED BY <1>13, <2>1, <2>2 DEF BucketOK, AdmittedOK, Counted
<1>14. ASSUME NEW p \in Requests, Past(req[p]) PROVE Past(req'[p])
    <2>1. Moves(req[p], req'[p])
        BY DEF Stepped, Steps
    <2>2. req[p].i \in Nat /\ req'[p].i \in Nat
        BY DEF InOrder, Kept, Well
    <2> QED BY <1>14, <2>1, <2>2, PastStays
<1>15. IsFiniteSet(Recent(key)) /\ Cardinality(Recent(key)) \in Nat
    <2>1. Recent(key) \in SUBSET admitted[key] /\ IsFiniteSet(admitted[key])
        BY <1>7 DEF Recent, AdmittedOK
    <2> QED BY <2>1, FS_Subset, FS_CardinalityType
<1>16. CASE b.count > MaxPerWindow
    <2>1. admitted' = admitted
        BY <1>1, <1>16
    <2>2. Counted(key)'
        <3>1. CASE clock >= old.resetAt
            <4>1. MaxPerWindow = 0
                BY <1>8, <1>10, <1>16, <3>1, <1>7, <1>b, ServerAssumption DEF BucketOK
            <4>2. Recent(key)' \in SUBSET admitted[key] /\ IsFiniteSet(admitted[key])
                BY <1>7, <1>b, <2>1 DEF Recent, AdmittedOK
            <4>3. Cardinality(Recent(key)') \in Nat
                BY <4>2, FS_Subset, FS_CardinalityType
            <4> QED BY <4>1, <4>3 DEF Counted
        <3>2. CASE clock < old.resetAt
            <4>1. Recent(key)' = Recent(key)
                BY <1>10, <1>11, <2>1, <3>2, <1>7, <1>b, <1>8 DEF Recent, BucketOK
            <4>2. old.count >= MaxPerWindow
                BY <1>7, <1>b, <1>8, <1>10, <1>16, <3>2, ServerAssumption DEF BucketOK
            <4>3. Cardinality(Recent(key)) >= MaxPerWindow
                BY <1>7, <1>b, <1>15, <3>2, <4>2, ServerAssumption DEF Counted, BucketOK
            <4> QED BY <4>1, <4>3 DEF Counted
        <3> QED BY <1>7, <1>b, <1>8, <3>1, <3>2 DEF BucketOK
    <2>3. AdmittedOK(key)'
        BY <1>7, <1>b, <2>1 DEF AdmittedOK
    <2>4. \A k \in Keys : (BucketOK(k) /\ AdmittedOK(k) /\ Counted(k))'
        BY <1>12, <1>13, <2>1, <2>2, <2>3
    <2>5. ASSUME NEW k \in Keys, NEW a \in admitted'[k] PROVE Past(req'[a[1]])
        <3>1. a[1] \in Requests /\ Past(req[a[1]])
            BY <2>1, <2>5 DEF Books, AdmittedOK
        <3> QED BY <3>1, <1>14
    <2> QED BY <1>1, <1>8, <2>1, <2>4, <2>5 DEF Books
<1>17. CASE ~(b.count > MaxPerWindow)
    <2> DEFINE new == <<q, clock>>
    <2>1. /\ req' = [req EXCEPT ![q] = next(Leave(req[q], run))]
          /\ admitted' = [admitted EXCEPT ![key] = @ \cup {new}]
        BY <1>1, <1>17
    <2>2. admitted'[key] = admitted[key] \cup {new} /\ \A k \in Keys : k # key => admitted'[k] = admitted[k]
        BY <1>3, <1>8, <2>1
    <2>3. AdmittedOK(key)'
        <3>1. IsFiniteSet(admitted[key] \cup {new})
            BY <1>7, <1>b, FS_AddElement DEF AdmittedOK
        <3> QED BY <1>7, <1>b, <1>8, <2>2, <3>1 DEF AdmittedOK
    <2>4. Counted(key)'
        <3> DEFINE S == Recent(key)'
        <3>0. S = {a \in admitted[key] \cup {new} : a[2] >= b.resetAt - Window}
            BY <1>11, <2>2 DEF Recent
        <3>1. CASE clock >= old.resetAt
            <4>1. new \in S
                BY <1>7, <1>b, <1>8, <1>10, <3>0, <3>1, ServerAssumption DEF BucketOK
            <4>2. IsFiniteSet(S)
                <5>1. S \in SUBSET (admitted[key] \cup {new}) /\ IsFiniteSet(admitted[key] \cup {new})
                    BY <1>7, <1>b, <3>0, FS_AddElement DEF AdmittedOK
                <5> QED BY <5>1, FS_Subset
            <4> HIDE DEF S, new
            <4>3. Cardinality({new}) = 1 /\ {new} \in SUBSET S
                BY <4>1, FS_Singleton
            <4>4. Cardinality(S) \in Nat /\ Cardinality({new}) <= Cardinality(S)
                BY <4>2, <4>3, FS_Subset, FS_CardinalityType
            <4>5. b.count = 1
                BY <1>7, <1>b, <1>8, <1>10, <3>1 DEF BucketOK
            <4>6. Cardinality(S) >= b.count
                BY <4>3, <4>4, <4>5
            <4> QED BY <1>11, <4>6 DEF Counted, S
        <3>2. CASE clock < old.resetAt
            <4>1. b.count = old.count + 1 /\ b.resetAt = old.resetAt
                BY <1>7, <1>b, <1>8, <1>10, <3>2 DEF BucketOK
            <4>2. clock >= old.resetAt - Window
                BY <1>7, <1>b, <1>8, ServerAssumption DEF BucketOK
            <4>3. S = Recent(key) \cup {new}
                BY <1>b, <3>0, <4>1, <4>2 DEF Recent
            <4>4. new \notin Recent(key)
                BY <1>3, <1>6 DEF Recent
            <4> HIDE DEF S, new
            <4>5. Cardinality(S) = Cardinality(Recent(key)) + 1
                BY <1>15, <4>3, <4>4, FS_AddElement
            <4>6. Cardinality(S) >= b.count \/ Cardinality(S) >= MaxPerWindow
                BY <1>7, <1>b, <1>15, <3>2, <4>1, <4>5, ServerAssumption DEF Counted, BucketOK
            <4> QED BY <1>11, <4>6 DEF Counted, S
        <3> QED BY <1>7, <1>b, <1>8, <3>1, <3>2 DEF BucketOK
    <2>5. \A k \in Keys : (BucketOK(k) /\ AdmittedOK(k) /\ Counted(k))'
        BY <1>12, <1>13, <2>2, <2>3, <2>4
    <2>6. Past(req'[q])
        <3> DEFINE r == Leave(req[q], run)
                   s == next(r)
        <3>1. Moves(r, s) /\ req'[q] = s /\ r.i = req[q].i /\ r.running = req[q].running \ {run}
            <4>1. Moves(r, s)
                BY AdmitFine DEF Fine
            <4>2. req'[q] = s
                BY <2>1 DEF InOrder
            <4>3. r.i = req[q].i /\ r.running = req[q].running \ {run}
                BY <1>3 DEF Leave, Well, Fields
            <4> QED BY <4>1, <4>2, <4>3
        <3>2. Past(r)
            <4> SUFFICES ASSUME NEW k \in Layers, Chain[k].kind = "rateLimit"
                         PROVE  k < r.i /\ \A other \in r.running : other[1] # k
                BY DEF Past
            <4>1. k = run[1]
                BY <1>2, <1>4 DEF OneLimiter
            <4>2. ASSUME NEW other \in r.running, other[1] = k PROVE FALSE
                <5>1. other \in Running(q, "rateLimit") /\ other # run
                    BY <1>2, <3>1, <4>1, <4>2 DEF Running
                <5> QED BY <5>1, LimiterRun
            <4> QED BY <1>4, <3>1, <4>1, <4>2
        <3>3. r.i \in Nat /\ s.i \in Nat
            BY <1>3, <3>1 DEF InOrder, Kept, Well
        <3> HIDE DEF r, s
        <3> QED BY <3>1, <3>2, <3>3, PastStays
    <2>7. ASSUME NEW k \in Keys, NEW a \in admitted'[k] PROVE Past(req'[a[1]])
        <3>1. CASE a \in admitted[k]
            <4>1. a[1] \in Requests /\ Past(req[a[1]])
                BY <3>1 DEF Books, AdmittedOK
            <4> QED BY <4>1, <1>14
        <3>2. CASE a = new
            BY <2>6, <3>2
        <3> QED BY <2>2, <2>7, <3>1, <3>2
    <2>8. DOMAIN admitted' = Keys /\ DOMAIN buckets' = Keys
        BY <1>1, <1>8, <2>1
    <2> QED BY <1>1, <1>8, <2>5, <2>7, <2>8 DEF Books
<1> QED BY <1>16, <1>17


\* Every step keeps the books.
LEMMA BooksStep ==
    ASSUME OneLimiter, InOrder, Books, [Next]_vars
    PROVE  Books'
<1>1. InOrder' /\ Stepped
    BY NextStep
<1>2. CASE \E q \in Requests : RateLimit(q)
    BY <1>1, <1>2, BooksLimit
<1>3. CASE buckets' = buckets /\ admitted' = admitted /\ clock' \in {clock, clock + 1}
    BY <1>1, <1>3, BooksAside
<1>4. ASSUME NEW q \in Requests, Progress(q)
      PROVE  RateLimit(q) \/ (buckets' = buckets /\ admitted' = admitted /\ clock' = clock)
    <2>1. ASSUME NEW r, Becomes(q, r) PROVE buckets' = buckets /\ admitted' = admitted /\ clock' = clock
        BY <2>1 DEF Becomes
    <2>2. Auth(q) => \E r : Becomes(q, r)
        BY DEF Auth
    <2>3. UserLayer(q) => \E r : Becomes(q, r)
        BY DEF UserLayer
    <2>4. ErrorLayer(q) => \E r : Becomes(q, r)
        BY DEF ErrorLayer
    <2>5. CtxHandler(q) \/ ExpressHandler(q) \/ StreamHandler(q) => \E r : Becomes(q, r)
        BY DEF CtxHandler, ExpressHandler, StreamHandler
    <2>6. Finish(q) => \E r : Becomes(q, r)
        BY DEF Finish
    <2> QED BY <1>4, <2>1, <2>2, <2>3, <2>4, <2>5, <2>6 DEF Progress
<1>5. ASSUME NEW q \in Requests, Accept(q) \/ Disconnect(q)
      PROVE  buckets' = buckets /\ admitted' = admitted /\ clock' = clock
    BY <1>5 DEF Accept, Disconnect, Becomes
<1>6. CASE \/ \E route \in Patterns : AddRoute(route)
           \/ \E router \in Routers : Mount(router)
           \/ Listen \/ Tick \/ Close \/ Drained \/ ForceClose \/ UnhandledRejection \/ Stopped
           \/ UNCHANGED vars
    <2>1. buckets' = buckets /\ admitted' = admitted /\ clock' \in {clock, clock + 1}
        BY <1>6 DEF AddRoute, Mount, Listen, Tick, Close, Drained, ForceClose, UnhandledRejection,
                    CutAll, Stopped, vars
    <2> QED BY <2>1, <1>3
<1> QED BY <1>2, <1>3, <1>4, <1>5, <1>6 DEF Next

\* Nothing is counted at the start.
LEMMA InitBooks ==
    ASSUME Init
    PROVE  Books
<1>1. clock = 0 /\ DOMAIN buckets = Keys /\ DOMAIN admitted = Keys
    BY DEF Init
<1>2. ASSUME NEW key \in Keys PROVE BucketOK(key) /\ AdmittedOK(key) /\ Counted(key)
    <2>1. buckets[key] = [count |-> 0, resetAt |-> 0] /\ admitted[key] = {}
        BY DEF Init
    <2>2. BucketOK(key)
        BY <1>1, <2>1, ServerAssumption DEF BucketOK
    <2>3. AdmittedOK(key)
        BY <2>1, FS_EmptySet DEF AdmittedOK
    <2>4. Counted(key)
        BY <1>1, <2>1 DEF Counted
    <2> QED BY <2>2, <2>3, <2>4
<1>3. \A key \in Keys : admitted[key] = {}
    BY DEF Init
<1> QED BY <1>1, <1>2, <1>3 DEF Books

\* A request refused for its rate: the window is full.
LEMMA RefusedFull ==
    ASSUME InOrder, Books, Stepped, NEW q \in Requests, ~req[q].sent, req'[q].status = 429
    PROVE  Cardinality({a \in admitted[req[q].in.key] : a[2] > clock - Window}) >= MaxPerWindow
<1>1. Well(req[q]) /\ req[q].status = 0 /\ DOMAIN req = Requests
    BY DEF InOrder, Kept, Well
<1>2. RateLimit(q)
    BY <1>1 DEF Stepped, Steps
<1>0. PICK key : key = req[q].in.key
    OBVIOUS
<1>3. PICK run \in Running(q, "rateLimit") :
        \/ Bucket(key).count > MaxPerWindow
        \/ req' = [req EXCEPT ![q] = next(Leave(req[q], run))]
    BY <1>0, <1>2 DEF RateLimit
<1>4. run \in req[q].running
    BY DEF Running
<1>5. key \in Keys
    BY <1>0, <1>4, RequestFact DEF Keys
<1>6. Bucket(key).count > MaxPerWindow
    <2> SUFFICES ASSUME req' = [req EXCEPT ![q] = next(Leave(req[q], run))] PROVE FALSE
        BY <1>3
    <2> DEFINE r == Leave(req[q], run)
               s == next(r)
    <2>1. r.status = 0
        BY <1>1 DEF Leave, Well, Fields
    <2>2. s.status = 429
        BY <1>1
    <2>3. Fine(r, s, TRUE)
        BY AdmitFine
    <2> HIDE DEF r, s
    <2> QED BY <2>1, <2>2, <2>3 DEF Fine
<1>7. BucketOK(key) /\ AdmittedOK(key) /\ Counted(key) /\ clock \in Nat
    BY <1>5 DEF Books
<1> DEFINE full == {a \in admitted[key] : a[2] > clock - Window}
<1>8. full \in SUBSET admitted[key] /\ IsFiniteSet(admitted[key])
    BY <1>7 DEF AdmittedOK
<1>9. IsFiniteSet(full) /\ Cardinality(full) \in Nat
    <2> HIDE DEF full
    <2> QED BY <1>8, FS_Subset, FS_CardinalityType
<1>10. CASE clock >= buckets[key].resetAt
    <2>1. Bucket(key).count = 1
        BY <1>10 DEF Bucket
    <2>2. MaxPerWindow = 0
        BY <1>6, <2>1, ServerAssumption
    <2> HIDE DEF full
    <2>3. Cardinality(full) >= MaxPerWindow
        BY <1>9, <2>2
    <2> QED BY <1>0, <2>3 DEF full
<1>11. CASE clock < buckets[key].resetAt
    <2>1. Bucket(key).count = buckets[key].count + 1
        BY <1>7, <1>11 DEF Bucket, BucketOK
    <2>2. buckets[key].count >= MaxPerWindow
        BY <1>6, <1>7, <2>1, ServerAssumption DEF BucketOK
    <2>3. Recent(key) \in SUBSET full
        BY <1>7, <1>11, ServerAssumption DEF Recent, BucketOK, AdmittedOK
    <2> HIDE DEF full
    <2>4. IsFiniteSet(Recent(key)) /\ Cardinality(Recent(key)) <= Cardinality(full)
          /\ Cardinality(Recent(key)) \in Nat
        BY <1>9, <2>3, FS_Subset, FS_CardinalityType
    <2>5. Cardinality(Recent(key)) >= MaxPerWindow
        BY <1>7, <1>11, <2>2, <2>4, ServerAssumption DEF Counted, BucketOK
    <2>6. Cardinality(full) >= MaxPerWindow
        BY <1>9, <2>4, <2>5, ServerAssumption
    <2> QED BY <1>0, <2>6 DEF full
<1> QED BY <1>7, <1>10, <1>11 DEF BucketOK

\* With one limiter in the chain, a client is refused for its rate only when the
\* maximum was let through within the last window (middleware.ts rateLimit).
THEOREM RefusalsAreJustified == OneLimiter => (Spec => RefusalsJustified)
<1> SUFFICES ASSUME OneLimiter PROVE Spec => RefusalsJustified
    OBVIOUS
<1>1. Init => InOrder /\ Books
    BY InitInOrder, InitBooks
<1>2. InOrder /\ Books /\ [Next]_vars => (InOrder /\ Books)'
    BY NextStep, BooksStep
<1>3. InOrder /\ Books /\ [Next]_vars =>
        [\A q \in Requests :
           ~req[q].sent /\ req'[q].status = 429 =>
             Cardinality({a \in admitted[req[q].in.key] : a[2] > clock - Window}) >= MaxPerWindow]_vars
    BY NextStep, RefusedFull
<1> QED BY <1>1, <1>2, <1>3, PTL DEF Spec, RefusalsJustified

-----------------------------------------------------------------------------
(* The router *)

\* A set of numbers with 0 and the successor of each of its elements holds every number.
LEMMA AllNumbers ==
    ASSUME NEW T \in SUBSET Nat, 0 \in T, \A n \in T : n + 1 \in T
    PROVE  T = Nat
<1> SUFFICES ASSUME Nat \ T # {} PROVE FALSE
    OBVIOUS
<1>1. PICK x \in Nat \ T : \A y \in Nat \ T : x <= y
    BY MinFact
<1>2. x # 0 /\ x - 1 \in Nat
    BY <1>1
<1>3. x - 1 \in T
    BY <1>1, <1>2
<1> QED BY <1>1, <1>2, <1>3

\* The greatest number of an interval, and of a set with a number above the others.
LEMMA MaxIs ==
    ASSUME NEW n \in Nat, NEW s \in SUBSET (1 .. n + 1), n + 1 \in s
    PROVE  Max(s) = n + 1
<1>1. \A y \in s : n + 1 >= y
    OBVIOUS
<1>2. \A x \in s : (\A y \in s : x >= y) => x = n + 1
    OBVIOUS
<1>3. Max(s) \in s /\ \A y \in s : Max(s) >= y
    BY <1>1 DEF Max
<1> QED BY <1>2, <1>3

\* g is the walk through each prefix of the path, as the fold has it: for sets of places.
Folded(nodes, path, g, n) ==
  g = [s \in SUBSET (1 .. n) |->
         IF s = {} THEN {<<>>} ELSE Descend(nodes, g[s \ {Max(s)}], path[Max(s)])]

\* The function inside the fold exists.
LEMMA FoldedExists ==
    ASSUME NEW nodes, NEW path, NEW n \in Nat
    PROVE  \E g : Folded(nodes, path, g, n)
<1> DEFINE T == {k \in Nat : \E g : Folded(nodes, path, g, k)}
<1>1. 0 \in T
    <2> DEFINE g == [s \in SUBSET (1 .. 0) |-> {<<>>}]
    <2>1. \A s \in SUBSET (1 .. 0) : s = {}
        OBVIOUS
    <2>2. g = [s \in SUBSET (1 .. 0) |->
                IF s = {} THEN {<<>>} ELSE Descend(nodes, g[s \ {Max(s)}], path[Max(s)])]
        BY <2>1
    <2> HIDE DEF g
    <2>3. Folded(nodes, path, g, 0)
        BY <2>2 DEF Folded
    <2> QED BY <2>3
<1>2. ASSUME NEW k \in T PROVE k + 1 \in T
    <2>0. k \in Nat
        OBVIOUS
    <2>1. PICK f : Folded(nodes, path, f, k)
        OBVIOUS
    <2> DEFINE Val(h, s) == IF s = {} THEN {<<>>} ELSE Descend(nodes, h[s \ {Max(s)}], path[Max(s)])
               g == [s \in SUBSET (1 .. k + 1) |-> IF s \subseteq 1 .. k THEN f[s] ELSE Val(f, s)]
    <2> HIDE DEF Val
    <2>2. \A s \in SUBSET (1 .. k) : f[s] = Val(f, s)
        <3>1. f = [s \in SUBSET (1 .. k) |-> Val(f, s)]
            BY <2>1 DEF Folded, Val
        <3> QED BY <3>1
    <2>3. \A s \in SUBSET (1 .. k) : s \in SUBSET (1 .. k + 1) /\ g[s] = f[s]
        <3>1. 1 .. k \subseteq 1 .. k + 1
            BY <2>0
        <3> QED BY <3>1
    <2>4. \A s \in SUBSET (1 .. k + 1) : ~(s \subseteq 1 .. k) => g[s] = Val(f, s)
        OBVIOUS
    <2>5. ASSUME NEW s \in SUBSET (1 .. k + 1) PROVE g[s] = Val(g, s)
        <3> HIDE DEF g
        <3>1. CASE s = {}
            <4>1. s \in SUBSET (1 .. k)
                BY <3>1
            <4> QED BY <2>2, <2>3, <3>1, <4>1 DEF Val
        <3>2. CASE s # {}
            <4>1. s \ {Max(s)} \in SUBSET (1 .. k)
                <5>1. CASE s \subseteq 1 .. k
                    BY <5>1
                <5>2. CASE ~(s \subseteq 1 .. k)
                    <6>1. \A x \in 1 .. k + 1 : x # k + 1 => x \in 1 .. k
                        BY <2>0
                    <6>2. k + 1 \in s
                        BY <5>2, <6>1
                    <6>3. Max(s) = k + 1
                        BY <2>0, <6>2, MaxIs
                    <6> QED BY <6>1, <6>3
                <5> QED BY <5>1, <5>2
            <4>2. g[s \ {Max(s)}] = f[s \ {Max(s)}]
                BY <2>3, <4>1
            <4>3. Val(g, s) = Val(f, s)
                BY <3>2, <4>2 DEF Val
            <4>4. g[s] = Val(f, s)
                BY <2>2, <2>3, <2>4
            <4> QED BY <4>3, <4>4
        <3> QED BY <3>1, <3>2
    <2>6. g = [s \in SUBSET (1 .. k + 1) |-> Val(g, s)]
        <3>1. g = [s \in SUBSET (1 .. k + 1) |-> g[s]]
            OBVIOUS
        <3> HIDE DEF g
        <3> QED BY <2>5, <3>1
    <2>7. Folded(nodes, path, g, k + 1)
        <3> HIDE DEF g
        <3> QED BY <2>6 DEF Folded, Val
    <2>8. \E h : Folded(nodes, path, h, k + 1)
        <3> HIDE DEF g
        <3> QED BY <2>7
    <2> QED BY <2>0, <2>8
<1>3. T = Nat
    <2> HIDE DEF T
    <2>1. T \in SUBSET Nat
        BY DEF T
    <2> QED BY <1>1, <1>2, <2>1, AllNumbers
<1> QED BY <1>3

\* at holds what is reached after each segment.
WalksBy(at, nodes, path, n) ==
  at[0] = {<<>>} /\ \A k \in 1 .. n : at[k] = Descend(nodes, at[k - 1], path[k])

\* The walk goes down one segment after the other.
LEMMA WalkSteps ==
    ASSUME NEW nodes, NEW path, NEW n \in Nat, DOMAIN path = 1 .. n
    PROVE  \E at : WalksBy(at, nodes, path, n) /\ Walk(nodes, path) = at[n]
<1>1. PICK g : Folded(nodes, path, g, n) /\ Walk(nodes, path) = g[1 .. n]
    <2>1. \E g : Folded(nodes, path, g, n)
        BY FoldedExists
    <2>2. Walk(nodes, path) = (CHOOSE g : Folded(nodes, path, g, n))[1 .. n]
        BY DEF Walk, FoldLeft, MapThenFoldSet, Folded
    <2> QED BY <2>1, <2>2
<1> DEFINE at == [k \in 0 .. n |-> g[1 .. k]]
<1>2. \A k \in 0 .. n : 1 .. k \in SUBSET (1 .. n)
    OBVIOUS
<1>3. \A s \in SUBSET (1 .. n) :
        g[s] = IF s = {} THEN {<<>>} ELSE Descend(nodes, g[s \ {Max(s)}], path[Max(s)])
    BY <1>1 DEF Folded
<1>4. at[0] = {<<>>}
    <2>1. 1 .. 0 = {} /\ 0 \in 0 .. n
        OBVIOUS
    <2> QED BY <1>2, <1>3, <2>1
<1>5. ASSUME NEW k \in 1 .. n PROVE at[k] = Descend(nodes, at[k - 1], path[k])
    <2>1. k \in 0 .. n /\ k - 1 \in 0 .. n /\ k - 1 \in Nat /\ (k - 1) + 1 = k
        OBVIOUS
    <2>5. (1 .. k) \ {k} = 1 .. k - 1
        <3>1. \A i \in 1 .. k : i # k => i \in 1 .. k - 1
            OBVIOUS
        <3>2. \A i \in 1 .. k - 1 : i \in 1 .. k /\ i # k
            OBVIOUS
        <3> QED BY <3>1, <3>2
    <2>6. k \in 1 .. k
        OBVIOUS
    <2>2. k \in 1 .. k /\ (1 .. k) \ {k} = 1 .. k - 1 /\ 1 .. k # {}
        BY <2>5, <2>6
    <2>3. Max(1 .. k) = k
        <3>1. 1 .. k \in SUBSET (1 .. (k - 1) + 1) /\ (k - 1) + 1 \in 1 .. k
            BY <2>1, <2>2
        <3> QED BY <2>1, <3>1, MaxIs
    <2>4. g[1 .. k] = Descend(nodes, g[1 .. k - 1], path[k])
        BY <1>2, <1>3, <2>1, <2>2, <2>3
    <2> QED BY <2>1, <2>4
<1>6. Walk(nodes, path) = at[n]
    <2>1. n \in 0 .. n
        OBVIOUS
    <2> QED BY <1>1, <2>1
<1> HIDE DEF at
<1>7. WalksBy(at, nodes, path, n)
    BY <1>4, <1>5 DEF WalksBy
<1> QED BY <1>6, <1>7

\* A sequence with one element more, and its parts.
LEMMA OneMore ==
    ASSUME NEW S, NEW x \in Seq(S), NEW e \in S
    PROVE  LET y == Append(x, e)
           IN  /\ y \in Seq(S) /\ Len(y) = Len(x) + 1 /\ y[Len(x) + 1] = e
               /\ \A i \in 1 .. Len(x) : y[i] = x[i]
               /\ Last(y) = e /\ Front(y) = x /\ y # <<>>
<1> DEFINE y == Append(x, e)
<1>1. PICK n \in Nat : n = Len(x)
    BY LenProperties
<1>2. /\ y \in Seq(S) /\ Len(y) = n + 1 /\ y[n + 1] = e /\ \A i \in 1 .. n : y[i] = x[i]
    BY <1>1, AppendProperties
<1> HIDE DEF y
<1>3. Last(y) = e /\ y # <<>>
    <2>1. y # <<>>
        BY <1>2, EmptySeq
    <2> QED BY <1>2, <2>1 DEF Last
<1>4. Front(y) = x
    <2>1. \A i \in 1 .. n : y[i] \in S /\ (1 + i) - 1 = i
        BY <1>2
    <2>2. (n + 1) - 1 = n /\ (1 <= n => (n - 1) + 1 = n) /\ (~(1 <= n) => n = 0)
        OBVIOUS
    <2>3. Front(y) = SubSeq(y, 1, n)
        BY <1>2, <2>2 DEF Front
    <2>4. /\ SubSeq(y, 1, n) \in Seq(S) /\ Len(SubSeq(y, 1, n)) = n
          /\ \A i \in 1 .. n : SubSeq(y, 1, n)[i] = y[i]
        <3>1. 1 \in Int /\ n \in Int /\ (n - 1) + 1 = n
            OBVIOUS
        <3>2. /\ SubSeq(y, 1, n) \in Seq(S) /\ Len(SubSeq(y, 1, n)) = IF 1 <= n THEN (n - 1) + 1 ELSE 0
              /\ \A i \in 1 .. (n - 1) + 1 : SubSeq(y, 1, n)[i] = y[(1 + i) - 1]
            BY <2>1, <3>1, SubSeqProperties
        <3> QED BY <2>1, <2>2, <3>1, <3>2
    <2> QED BY <1>1, <1>2, <2>3, <2>4, SeqEqual
<1> QED BY <1>1, <1>2, <1>3, <1>4 DEF y

\* The first k + 1 segments of a path.
LEMMA NextPrefix ==
    ASSUME NEW S, NEW path \in Seq(S), NEW k \in 0 .. Len(path) - 1
    PROVE  SubSeq(path, 1, k + 1) = Append(SubSeq(path, 1, k), path[k + 1])
           /\ SubSeq(path, 1, k) \in Seq(S)
<1>1. PICK n \in Nat : n = Len(path)
    BY LenProperties
<1>2. /\ 1 \in 1 .. n /\ k + 1 \in 1 .. n /\ (k + 1) - 1 = k /\ k \in Int /\ 1 \in Int
      /\ \A i \in 1 .. k : i \in 1 .. n
    BY <1>1
<1>3. SubSeq(path, 1, k + 1) = SubSeq(path, 1, (k + 1) - 1) \o <<path[k + 1]>>
    BY <1>1, <1>2, SubSeqRecursiveSecond
<1>4. SubSeq(path, 1, k) \in Seq(S)
    <2>1. \A i \in 1 .. k : path[i] \in S
        BY <1>1, <1>2, ElementOfSeq
    <2> QED BY <1>2, <2>1, SubSeqProperties
<1>5. Append(SubSeq(path, 1, k), path[k + 1]) = SubSeq(path, 1, k) \o <<path[k + 1]>>
    <2>1. path[k + 1] \in S
        BY <1>1, <1>2, ElementOfSeq
    <2> QED BY <1>4, <2>1, AppendIsConcat
<1> QED BY <1>2, <1>3, <1>4, <1>5

\* A node that the first k segments of the path may lead to.
Follows(node, path, k) ==
  /\ node \in Seq(Range(path) \cup {Param}) /\ Len(node) = k
  /\ \A i \in 1 .. k : node[i] \in {path[i], Param}

\* Such nodes, and one at most.
Reaches(reached, path, k) ==
  /\ \A node \in reached : Follows(node, path, k)
  /\ \A a, b \in reached : a = b

\* The walk reaches no others.
LEMMA WalkFollows ==
    ASSUME NEW nodes, NEW path, IsPath(path), NEW n \in Nat, n = Len(path),
           NEW at, WalksBy(at, nodes, path, n)
    PROVE  \A k \in 0 .. n : Reaches(at[k], path, k)
<1> DEFINE Good(k) == /\ \A node \in at[k] : Follows(node, path, k)
                      /\ \A a, b \in at[k] : a = b
           T == {k \in Nat : k <= n => Good(k)}
           S == Range(path) \cup {Param}
<1>1. 0 \in T
    <2>1. <<>> \in Seq(S) /\ Len(<<>>) = 0
        BY EmptySeq
    <2>2. Follows(<<>>, path, 0)
        BY <2>1 DEF Follows
    <2> QED BY <2>2 DEF WalksBy
<1>2. ASSUME NEW k \in T PROVE k + 1 \in T
    <2>1. k \in Nat /\ k + 1 \in Nat
        OBVIOUS
    <2>2. ASSUME k + 1 <= n PROVE Good(k + 1)
        <3> DEFINE seg == path[k + 1]
                   child(s) == {Append(node, s) : node \in at[k]} \cap nodes
        <3>1. /\ k + 1 \in 1 .. n /\ (k + 1) - 1 = k /\ k <= n
            BY <2>1, <2>2
        <3>2. Good(k)
            BY <2>1, <3>1
        <3>3. at[k + 1] = IF child(seg) # {} THEN child(seg) ELSE child(Param)
            BY <3>1 DEF Descend, WalksBy
        <3>4. seg \in S /\ Param \in S
            <4>1. path \in Seq(Range(path)) /\ seg \in Range(path)
                <5>1. path \in Seq(Range(path))
                    BY DEF IsPath
                <5> QED BY <3>1, <5>1, ElementOfSeq
            <4> QED BY <4>1
        <3> HIDE DEF S
        <3>5. ASSUME NEW s \in {seg, Param}, NEW node \in at[k]
              PROVE  Follows(Append(node, s), path, k + 1)
            <4>1. node \in Seq(S) /\ Len(node) = k /\ \A i \in 1 .. k : node[i] \in {path[i], Param}
                BY <3>2 DEF Follows, S
            <4>2. s \in S
                BY <3>4, <3>5
            <4>3. /\ Append(node, s) \in Seq(S) /\ Len(Append(node, s)) = k + 1
                  /\ Append(node, s)[k + 1] = s /\ \A i \in 1 .. k : Append(node, s)[i] = node[i]
                BY <4>1, <4>2, AppendProperties
            <4>4. \A i \in 1 .. k + 1 : i \in 1 .. k \/ i = k + 1
                BY <2>1
            <4>5. \A i \in 1 .. k + 1 : Append(node, s)[i] \in {path[i], Param}
                BY <3>5, <4>1, <4>3, <4>4
            <4> QED BY <4>3, <4>5 DEF Follows, S
        <3>6. \A s \in {seg, Param} : /\ \A node \in child(s) : Follows(node, path, k + 1)
                                      /\ \A a, b \in child(s) : a = b
            <4> HIDE DEF seg
            <4> QED BY <3>2, <3>5
        <3> HIDE DEF seg, child
        <3> QED BY <3>3, <3>6
    <2> HIDE DEF Good
    <2> QED BY <2>1, <2>2
<1>3. T = Nat
    <2> HIDE DEF T
    <2>1. T \in SUBSET Nat
        BY DEF T
    <2> QED BY <1>1, <1>2, <2>1, AllNumbers
<1>4. \A k \in 0 .. n : k \in Nat /\ k <= n
    OBVIOUS
<1> HIDE DEF Good
<1>5. \A k \in 0 .. n : Good(k)
    BY <1>3, <1>4
<1> QED BY <1>5 DEF Good, Reaches

\* The walk keeps to a pattern that fits when its trie has no conflict.
LEMMA WalkKeepsTo ==
    ASSUME NEW nodes, NEW path, IsPath(path), NEW n \in Nat, n = Len(path),
           NEW at, WalksBy(at, nodes, path, n),
           NEW pattern, IsPath(pattern), Fits(pattern, path),
           \A k \in 0 .. n : SubSeq(pattern, 1, k) \in nodes,
           \A x \in nodes : \A y \in nodes :
              ~(x # <<>> /\ y # x /\ Len(y) = Len(x) /\ Front(y) = Front(x) /\ Last(x) = Param)
    PROVE  at[n] = {pattern}
<1> DEFINE T == {k \in Nat : k <= n => at[k] = {SubSeq(pattern, 1, k)}}
           S == Range(path) \cup Range(pattern) \cup {Param}
<1>0. /\ DOMAIN path = 1 .. n /\ Len(pattern) = n /\ pattern \in Seq(S) /\ path \in Seq(S)
      /\ \A i \in 1 .. n : pattern[i] \in {path[i], Param}
    <2>1. path \in Seq(Range(path)) /\ pattern \in Seq(Range(pattern))
        BY DEF IsPath
    <2>2. path \in Seq(S) /\ pattern \in Seq(S)
        BY <2>1, SeqMonotonic
    <2>3. DOMAIN path = 1 .. n
        BY <2>1
    <2> QED BY <2>2, <2>3 DEF Fits
<1>1. 0 \in T
    <2>1. SubSeq(pattern, 1, 0) = <<>>
        BY SubSeqEmpty
    <2> QED BY <2>1 DEF WalksBy
<1>2. ASSUME NEW k \in T PROVE k + 1 \in T
    <2>1. k \in Nat /\ k + 1 \in Nat
        OBVIOUS
    <2>2. ASSUME k + 1 <= n PROVE at[k + 1] = {SubSeq(pattern, 1, k + 1)}
        <3> DEFINE seg == path[k + 1]
                   x == SubSeq(pattern, 1, k)
                   y == SubSeq(pattern, 1, k + 1)
                   child(s) == {Append(node, s) : node \in at[k]} \cap nodes
        <3>1. /\ k + 1 \in 1 .. n /\ (k + 1) - 1 = k /\ k <= n /\ k \in 0 .. n - 1
              /\ k + 1 \in 0 .. n
            BY <2>1, <2>2
        <3>2. at[k] = {x}
            BY <2>1, <3>1
        <3>3. at[k + 1] = IF child(seg) # {} THEN child(seg) ELSE child(Param)
            BY <3>1 DEF Descend, WalksBy
        <3> HIDE DEF S
        <3>4. y = Append(x, pattern[k + 1]) /\ x \in Seq(S) /\ y \in nodes
            BY <1>0, <3>1, NextPrefix
        <3>5. pattern[k + 1] \in {seg, Param} /\ pattern[k + 1] \in S /\ seg \in S
            BY <1>0, <3>1, ElementOfSeq
        <3> HIDE DEF x, y, seg
        <3>6. \A s : child(s) = {Append(x, s)} \cap nodes
            BY <3>2
        <3> HIDE DEF child
        <3>7. CASE Append(x, seg) \in nodes
            <4>1. child(seg) = {Append(x, seg)}
                BY <3>6, <3>7
            <4>2. Append(x, seg) = y
                <5>1. CASE pattern[k + 1] = seg
                    BY <3>4, <5>1
                <5>2. CASE pattern[k + 1] = Param
                    <6>1. y # <<>> /\ Front(y) = x /\ Last(y) = Param /\ Len(y) = Len(x) + 1
                        BY <3>4, <3>5, <5>2, OneMore
                    <6>2. Front(Append(x, seg)) = x /\ Len(Append(x, seg)) = Len(x) + 1
                        BY <3>4, <3>5, OneMore
                    <6> QED BY <3>4, <3>7, <6>1, <6>2
                <5> QED BY <3>5, <5>1, <5>2
            <4> QED BY <3>3, <4>1, <4>2 DEF y
        <3>8. CASE Append(x, seg) \notin nodes
            <4>1. child(seg) = {}
                BY <3>6, <3>8
            <4>2. y = Append(x, Param)
                BY <3>4, <3>5, <3>8
            <4>3. child(Param) = {y}
                BY <3>4, <3>6, <4>2
            <4> QED BY <3>3, <4>1, <4>3 DEF y
        <3> QED BY <3>7, <3>8
    <2> QED BY <2>1, <2>2
<1>3. T = Nat
    <2> HIDE DEF T
    <2>1. T \in SUBSET Nat
        BY DEF T
    <2> QED BY <1>1, <1>2, <2>1, AllNumbers
<1>4. at[n] = {SubSeq(pattern, 1, n)}
    BY <1>3
<1>5. SubSeq(pattern, 1, n) = pattern
    BY <1>0, SubSeqFull
<1> QED BY <1>4, <1>5

\* A table is a sequence of routes.
LEMMA TableIs ==
    ASSUME NEW table, IsTable(table)
    PROVE  /\ Len(table) \in Nat /\ DOMAIN table = 1 .. Len(table)
           /\ \A S : Range(table) \subseteq S => table \in Seq(S)
<1>1. table \in Seq(Range(table))
    BY DEF IsTable
<1> QED BY <1>1, LenProperties, SeqMonotonic

\* A node that a pattern of the method ends at, and the handler the trie has there.
LEMMA HandlerThere ==
    ASSUME NEW table, IsTable(table), NEW method, NEW node,
           NEW here, here = {j \in DOMAIN table : table[j].method = method /\ table[j].path = node}
    PROVE  /\ here = {} => HandlerAt(table, method, node) = NoHandler
           /\ here # {} => /\ HandlerAt(table, method, node) = table[Min(here)].handler
                           /\ Min(here) \in here /\ \A i \in here : Min(here) <= i
<1>1. here \subseteq Nat
    <2>1. DOMAIN table = 1 .. Len(table)
        BY TableIs
    <2> QED BY <2>1
<1>2. here # {} => Min(here) \in here /\ \A i \in here : Min(here) <= i
    BY <1>1, MinFact
<1> QED BY <1>2 DEF HandlerAt

\* A node the walk ends at fits the path.
LEMMA FollowsFits ==
    ASSUME NEW path, IsPath(path), NEW node, Follows(node, path, Len(path))
    PROVE  Fits(node, path)
<1>1. path \in Seq(Range(path))
    BY DEF IsPath
<1>2. DOMAIN path = 1 .. Len(path)
    BY <1>1
<1> QED BY <1>2 DEF Follows, Fits

\* The answer RoutesFit asks for.
Answers(table, method, path) ==
  LET answer == match(table, method, path) IN
  /\ answer # NoHandler =>
       \E j \in DOMAIN table :
         /\ table[j].method = method /\ Fits(table[j].path, path)
         /\ table[j].handler = answer
         /\ \A i \in 1 .. j - 1 : table[i].method = method => table[i].path # table[j].path
  /\ ~Conflict(table, method) => answer = FirstMatch(table, method, path)

\* What the trie answers for a path.
LEMMA MatchIs ==
    ASSUME NEW table, IsTable(table), NEW method, NEW path, IsPath(path)
    PROVE  Answers(table, method, path)
<1> DEFINE nodes == Nodes(table, method)
           answer == match(table, method, path)
           fit == {j \in DOMAIN table : table[j].method = method /\ Fits(table[j].path, path)}
           Here(node) == {j \in DOMAIN table : table[j].method = method /\ table[j].path = node}
<1>1. PICK n \in Nat : n = Len(path) /\ DOMAIN path = 1 .. n
    <2>1. path \in Seq(Range(path))
        BY DEF IsPath
    <2> QED BY <2>1, LenProperties
<1>2. PICK at : WalksBy(at, nodes, path, n) /\ Walk(nodes, path) = at[n]
    <2> HIDE DEF nodes
    <2> QED BY <1>1, WalkSteps
<1>3. (\A node \in at[n] : Follows(node, path, n)) /\ \A a, b \in at[n] : a = b
    <2>1. n \in 0 .. n
        OBVIOUS
    <2> HIDE DEF nodes
    <2>3. WalksBy(at, nodes, path, n)
        BY <1>2
    <2>2. \A k \in 0 .. n : Reaches(at[k], path, k)
        BY <1>1, <2>3, WalkFollows
    <2> QED BY <2>1, <2>2 DEF Reaches
<1>4. answer = IF at[n] = {} THEN NoHandler ELSE HandlerAt(table, method, CHOOSE node \in at[n] : TRUE)
    BY <1>2 DEF match
<1>5. ASSUME NEW node \in at[n]
      PROVE  /\ answer = HandlerAt(table, method, node) /\ Fits(node, path)
             /\ Here(node) = {} => answer = NoHandler
             /\ Here(node) # {} => /\ answer = table[Min(Here(node))].handler
                                   /\ Min(Here(node)) \in Here(node)
                                   /\ \A i \in Here(node) : Min(Here(node)) <= i
    <2>1. (CHOOSE x \in at[n] : TRUE) = node
        BY <1>3
    <2>2. answer = HandlerAt(table, method, node)
        <3> HIDE DEF answer
        <3> QED BY <1>4, <2>1
    <2>3. Fits(node, path)
        BY <1>1, <1>3, FollowsFits
    <2> HIDE DEF answer
    <2> QED BY <2>2, <2>3, HandlerThere
<1> HIDE DEF answer, nodes
<1>6. ASSUME answer # NoHandler
      PROVE  \E j \in DOMAIN table :
               /\ table[j].method = method /\ Fits(table[j].path, path)
               /\ table[j].handler = answer
               /\ \A i \in 1 .. j - 1 : table[i].method = method => table[i].path # table[j].path
    <2>1. PICK node \in at[n] : TRUE
        BY <1>4, <1>6
    <2>2. PICK j \in Here(node) : j = Min(Here(node))
        BY <1>5, <1>6, <2>1
    <2>3. table[j].handler = answer /\ Fits(table[j].path, path) /\ \A i \in Here(node) : j <= i
        BY <1>5, <2>2
    <2>4. ASSUME NEW i \in 1 .. j - 1, table[i].method = method PROVE table[i].path # table[j].path
        <3>1. j \in 1 .. Len(table) /\ Len(table) \in Nat /\ DOMAIN table = 1 .. Len(table)
            BY TableIs
        <3>2. i \in DOMAIN table /\ ~(j <= i)
            BY <3>1
        <3> QED BY <2>3, <2>4, <3>2
    <2> QED BY <2>3, <2>4
<1>7. ASSUME ~Conflict(table, method) PROVE answer = FirstMatch(table, method, path)
    <2>1. ASSUME NEW j \in fit PROVE at[n] = {table[j].path}
        <3> DEFINE pattern == table[j].path
        <3>1. IsPath(pattern) /\ Fits(pattern, path) /\ j \in DOMAIN table /\ table[j].method = method
            BY DEF IsTable, IsRoute
        <3>2. \A k \in 0 .. n : SubSeq(pattern, 1, k) \in nodes
            <4>1. Len(pattern) = n
                BY <1>1, <3>1 DEF Fits
            <4>2. table[j] \in {table[i] : i \in {i \in DOMAIN table : table[i].method = method}}
                BY <3>1
            <4> QED BY <4>1, <4>2 DEF nodes, Nodes
        <3>3. \A x \in nodes : \A y \in nodes :
                ~(x # <<>> /\ y # x /\ Len(y) = Len(x) /\ Front(y) = Front(x) /\ Last(x) = Param)
            BY <1>7 DEF Conflict, nodes
        <3> HIDE DEF pattern
        <3>4. at[n] = {pattern}
            BY <1>1, <1>2, <3>1, <3>2, <3>3, WalkKeepsTo
        <3> QED BY <3>4 DEF pattern
    <2>2. FirstMatch(table, method, path) = IF fit = {} THEN NoHandler ELSE table[Min(fit)].handler
        BY DEF FirstMatch
    <2>3. ASSUME NEW node \in at[n] PROVE Here(node) = fit
        <3>1. \A j \in fit : table[j].path = node
            BY <2>1
        <3> QED BY <1>5, <3>1
    <2>4. CASE at[n] = {}
        <3>1. fit = {}
            BY <2>1, <2>4
        <3> QED BY <1>4, <2>2, <2>4, <3>1
    <2>5. CASE at[n] # {}
        <3>1. PICK node \in at[n] : TRUE
            BY <2>5
        <3> HIDE DEF fit, Here
        <3> QED BY <1>5, <2>2, <2>3, <3>1
    <2> QED BY <2>4, <2>5
<1> QED BY <1>6, <1>7 DEF Answers, answer

\* One table behind the other.
LEMMA JoinedTables ==
    ASSUME NEW a, NEW b, IsTable(a), IsTable(b)
    PROVE  IsTable(a \o b)
<1> DEFINE S == Range(a) \cup Range(b)
<1>1. a \in Seq(S) /\ b \in Seq(S)
    BY TableIs
<1> HIDE DEF S
<1>2. PICK m, n \in Nat : m = Len(a) /\ n = Len(b) /\ DOMAIN a = 1 .. m /\ DOMAIN b = 1 .. n
    BY TableIs
<1>3. /\ a \o b \in Seq(S) /\ Len(a \o b) = m + n
      /\ \A i \in 1 .. m + n : (a \o b)[i] = IF i <= m THEN a[i] ELSE b[i - m]
    BY <1>1, <1>2, ConcatProperties
<1> DEFINE c == a \o b
<1> HIDE DEF c
<1>4. c \in Seq(S) /\ Len(c) = m + n /\ DOMAIN c = 1 .. m + n
      /\ \A i \in 1 .. m + n : c[i] = IF i <= m THEN a[i] ELSE b[i - m]
    BY <1>3, LenProperties DEF c
<1>5. ASSUME NEW i \in 1 .. m + n PROVE IsRoute(c[i])
    <2>1. CASE i <= m
        <3>1. i \in DOMAIN a /\ c[i] = a[i]
            BY <1>2, <1>4, <2>1
        <3> QED BY <3>1 DEF IsTable
    <2>2. CASE ~(i <= m)
        <3>1. i - m \in DOMAIN b /\ c[i] = b[i - m]
            BY <1>2, <1>4, <2>2
        <3> QED BY <3>1 DEF IsTable
    <2> QED BY <2>1, <2>2
<1>6. c \in Seq(Range(c))
    <2>1. c = [i \in 1 .. m + n |-> c[i]]
        BY <1>4
    <2>2. \A i \in 1 .. m + n : c[i] \in Range(c)
        BY <1>4 DEF Range
    <2> QED BY <2>1, <2>2
<1> QED BY <1>4, <1>5, <1>6 DEF IsTable, c

\* A table of one route.
LEMMA RouteTable == ASSUME NEW route, IsRoute(route) PROVE IsTable(<<route>>)
<1>1. /\ <<route>> \in Seq({route}) /\ DOMAIN <<route>> = 1 .. 1 /\ \A i \in 1 .. 1 : <<route>>[i] = route
    OBVIOUS
<1>2. Range(<<route>>) = {route}
    BY <1>1 DEF Range
<1> QED BY <1>1, <1>2 DEF IsTable

\* A router's table below its mount point.
LEMMA MountedTable ==
    ASSUME NEW prefix, IsPath(prefix), NEW table, IsTable(table)
    PROVE  IsTable(CollectRoutes(prefix, table))
<1> DEFINE c == CollectRoutes(prefix, table)
<1>1. PICK n \in Nat : n = Len(table) /\ DOMAIN table = 1 .. n
    BY TableIs
<1>2. c = [j \in 1 .. n |-> [table[j] EXCEPT !.path = prefix \o @]]
    BY <1>1 DEF CollectRoutes, joinPath
<1>3. ASSUME NEW j \in 1 .. n PROVE IsRoute(c[j])
    <2>1. DOMAIN table[j] = {"method", "path", "handler"} /\ IsPath(table[j].path)
        BY <1>1 DEF IsTable, IsRoute
    <2>2. c[j] = [table[j] EXCEPT !.path = prefix \o @]
        BY <1>2
    <2>3. DOMAIN c[j] = {"method", "path", "handler"} /\ c[j].path = prefix \o table[j].path
        BY <2>1, <2>2
    <2>4. IsPath(prefix \o table[j].path)
        <3> DEFINE S == Range(prefix) \cup Range(table[j].path)
                   p == prefix \o table[j].path
        <3>1. prefix \in Seq(S) /\ table[j].path \in Seq(S)
            <4>1. prefix \in Seq(Range(prefix)) /\ table[j].path \in Seq(Range(table[j].path))
                BY <2>1 DEF IsPath
            <4> QED BY <4>1, SeqMonotonic
        <3>2. p \in Seq(S)
            BY <3>1, ConcatProperties
        <3> HIDE DEF p, S
        <3>3. p \in Seq(Range(p))
            <4>1. Len(p) \in Nat /\ DOMAIN p = 1 .. Len(p) /\ p = [i \in 1 .. Len(p) |-> p[i]]
                BY <3>2
            <4>2. \A i \in 1 .. Len(p) : p[i] \in Range(p)
                BY <4>1 DEF Range
            <4> QED BY <4>1, <4>2
        <3> QED BY <3>3 DEF IsPath, p
    <2> HIDE DEF c
    <2> QED BY <2>3, <2>4 DEF IsRoute
<1> HIDE DEF c
<1>4. c \in Seq(Range(c)) /\ DOMAIN c = 1 .. n
    <2>1. c = [j \in 1 .. n |-> c[j]] /\ DOMAIN c = 1 .. n
        BY <1>2
    <2>2. \A i \in 1 .. n : c[i] \in Range(c)
        BY <2>1 DEF Range
    <2> QED BY <2>1, <2>2
<1> QED BY <1>3, <1>4 DEF IsTable, c

\* HttpRouter.add (http.ts 77-113) and Router._collect: the routes registered are a table.
LEMMA TableStep == IsTable(routes) /\ [Next]_vars => IsTable(routes)'
<1> SUFFICES ASSUME IsTable(routes), [Next]_vars PROVE IsTable(routes')
    OBVIOUS
<1>1. ASSUME NEW route \in Patterns, AddRoute(route) PROVE IsTable(routes')
    <2>1. IsTable(<<route>>)
        BY RouterAssumption, RouteTable
    <2>2. routes' = routes \o <<route>>
        <3>1. routes \in Seq(Range(routes) \cup {route}) /\ route \in Range(routes) \cup {route}
            BY TableIs
        <3> QED BY <1>1, <3>1, AppendIsConcat DEF AddRoute
    <2> QED BY <2>1, <2>2, JoinedTables
<1>2. ASSUME NEW router \in Routers, Mount(router) PROVE IsTable(routes')
    <2>1. IsTable(CollectRoutes(router.prefix, router.table))
        BY RouterAssumption, MountedTable
    <2> QED BY <1>2, <2>1, JoinedTables DEF Mount
<1>3. CASE Listen
    <2> DEFINE healthz == [method |-> "GET", path |-> <<"healthz">>, handler |-> "ctx"]
    <2>1. DOMAIN healthz = {"method", "path", "handler"} /\ healthz.path = <<"healthz">>
        OBVIOUS
    <2>2. Range(<<"healthz">>) = {"healthz"} /\ <<"healthz">> \in Seq({"healthz"})
        BY DEF Range
    <2>3. IsRoute(healthz)
        BY <2>1, <2>2 DEF IsRoute, IsPath
    <2>4. BuiltIns = <<healthz>>
        BY DEF BuiltIns
    <2> HIDE DEF healthz
    <2>5. IsTable(BuiltIns)
        BY <2>3, <2>4, RouteTable
    <2> QED BY <1>3, <2>5, JoinedTables DEF Listen
<1>4. CASE UNCHANGED routes
    BY <1>4
<1>5. ASSUME NEW q \in Requests, Accept(q) \/ Progress(q) \/ Disconnect(q) PROVE UNCHANGED routes
    BY <1>5 DEF Accept, Progress, Disconnect, RateLimit, Auth, UserLayer, ErrorLayer, CtxHandler,
                ExpressHandler, StreamHandler, Finish, Becomes
<1>6. Tick \/ Close \/ Drained \/ ForceClose \/ UnhandledRejection \/ Stopped => UNCHANGED routes
    BY DEF Tick, Close, Drained, ForceClose, UnhandledRejection, CutAll, Stopped, vars
<1> QED BY <1>1, <1>2, <1>3, <1>4, <1>5, <1>6 DEF Next, vars

\* HttpRouter (http.ts 66-148): what the trie answers is a pattern that fits, the first of
\* its shape, and where no literal stands beside a parameter it is what the linear scan
\* it replaced would answer, for any routes and routers registered in any order.
THEOREM TrieMatchesScan == Spec => []RoutesFit
<1>1. Init => IsTable(routes)
    <2>1. <<>> \in Seq(Range(<<>>)) /\ DOMAIN <<>> = {}
        BY EmptySeq
    <2> QED BY <2>1 DEF Init, IsTable
<1>2. IsTable(routes) => RoutesFit
    <2> SUFFICES ASSUME IsTable(routes), NEW p \in Probes
                 PROVE  Answers(routes, p.method, p.path)
        BY DEF RoutesFit, Answers
    <2>1. IsPath(p.path)
        BY RouterAssumption
    <2> QED BY <2>1, MatchIs
<1> QED BY <1>1, <1>2, TableStep, PTL DEF Spec

=============================================================================
