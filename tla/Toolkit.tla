------------------------------ MODULE Toolkit ------------------------------
(***************************************************************************)
(* The pure parts of packages/zenzip/src that the application object and   *)
(* its clients use: durations, event patterns and namespaces, the boot     *)
(* check of the options, roles and tools of the embedded servers, model    *)
(* prices, the evaluation harness, the address guard and the doctor.  A    *)
(* string is a sequence of the atoms its comparisons tell apart; a call    *)
(* that throws yields Throws.                                              *)
(***************************************************************************)
EXTENDS Integers, Sequences, FiniteSets, FiniteSetsExt, SequencesExt

CONSTANTS None,  \* undefined, null
          Off    \* "off"

Throws == -1

-----------------------------------------------------------------------------
(* Durations and push options *)

UNIT_MS == [number |-> 1, ms |-> 1, s |-> 1000, m |-> 60000, h |-> 3600000, d |-> 86400000]

\* A Duration is [tenths, unit]; unit "number" is a plain number, a unit outside
\* UNIT_MS is a string the pattern refuses, and so is a minus sign.
ms(d) == IF d.unit \notin DOMAIN UNIT_MS \/ d.tenths < 0 THEN Throws
         ELSE (d.tenths * UNIT_MS[d.unit]) \div 10

retentionMs(v) == IF v = None THEN None ELSE IF v = Off THEN 0 ELSE v

Round(a, b) == (2 * a + b) \div (2 * b)

\* The gap a throttled queue keeps between two starts of one key.
throttleSpacingMs(per, max) == LET m == IF max < 1 THEN 1 ELSE max
                                   r == Round(per, m)
                               IN IF r < 1 THEN 1 ELSE r

\* #pushOptions: a debounce window is the delay, whatever the call asked for.
pushOptions(queue, call, defaultRetries) ==
  [delayMs     |-> IF queue.debounce # None THEN queue.debounce ELSE call.delay,
   maxAttempts |-> 1 + (IF call.retries # None THEN call.retries
                        ELSE IF queue.retries # None THEN queue.retries ELSE defaultRetries),
   spacing     |-> IF queue.throttle = None THEN None
                   ELSE throttleSpacingMs(queue.throttle.per, queue.throttle.max)]

-----------------------------------------------------------------------------
(* Events and namespaces: a name is a sequence of dot-segments, a segment a
   sequence of its parts between colons *)

Star == <<"*">>
Rest == <<"**">>

SegmentsMatch(p, n) == \A i \in 1..Len(p) : p[i] = Star \/ p[i] = n[i]

eventMatches(pattern, name) ==
  \/ pattern = name
  \/ IF Last(pattern) = Rest
     THEN LET prefix == Front(pattern)
          IN Len(name) >= Len(prefix) /\ SegmentsMatch(prefix, name)
     ELSE Len(pattern) = Len(name) /\ SegmentsMatch(pattern, name)

\* Namespace.key: "<ns>:<name>", which lands in the first segment.
key(ns, name) == [name EXCEPT ![1] = ns \o @]

\* prefixOn, on, emit of a namespace put every name through key.
prefixOn(ns, on) == {key(ns, p) : p \in on}

\* _dispatchLocal: the subscribers an event reaches.
dispatchLocal(subscribers, event) == {p \in subscribers : eventMatches(p, event)}

-----------------------------------------------------------------------------
(* The boot check of the options *)

LogLevels == {"error", "warn", "info", "debug", "trace", "off"}

\* A url is blank, unparseable or parseable; None is an option left out.
validateConfig(o) ==
  /\ o.driver = "postgres" => o.url = "parses"
  /\ o.threshold # None => o.threshold >= 0
  /\ o.workerThreads # None => o.workerThreads >= 1
  /\ o.logLevel # None => o.logLevel \in LogLevels

\* A reference is [scheme, name]; env and files are functions to their contents.
resolveSecret(ref, env, files) ==
  IF ref = None THEN None
  ELSE LET store == IF ref.scheme = "env" THEN env ELSE files
       IN IF ref.scheme = "literal" THEN ref.name
          ELSE IF ref.name \in DOMAIN store /\ store[ref.name] # "" THEN store[ref.name] ELSE None

-----------------------------------------------------------------------------
(* Roles of the dashboard, tools of the MCP server *)

roleOf(operatorToken, viewerToken, provided) ==
  IF operatorToken = None /\ viewerToken = None THEN "operator"
  ELSE IF provided = None THEN None
  ELSE IF provided = operatorToken THEN "operator"
  ELSE IF provided = viewerToken THEN "viewer" ELSE None

authorized(role, need) == role # None /\ (need = "write" => role = "operator")

\* The dashboard's routes and what each asks of the role.
DashboardRoutes ==
  {<<"GET", "/", "read">>, <<"GET", "/api/overview", "read">>, <<"GET", "/api/stream", "read">>,
   <<"GET", "/api/metrics", "read">>, <<"GET", "/api/runs", "read">>, <<"GET", "/api/runs/:id", "read">>,
   <<"POST", "/api/queues/:name/requeue-dead", "write">>}

\* An option of McpServerOptions is "all", "off" or an allowlist.
selected(mode, name) == mode = {"all"} \/ name \in mode

\* Workflows first; an agent of the same name is left out, and the workflow an
\* agent is compiled to is not listed.
buildTools(defs, workflows, agents) ==
  LET named(kind, mode) == {d[2] : d \in {e \in defs : e[1] = kind /\ selected(mode, e[2])}}
      wfs == named("workflow", workflows)
  IN {<<"workflow", n>> : n \in wfs} \cup {<<"agent", n>> : n \in named("agent", agents) \ wfs}

-----------------------------------------------------------------------------
(* Prices, the mock provider, the evaluation harness (scores in hundredths) *)

\* priceFor: the longest registered prefix; a model id is a sequence of atoms.
priceFor(pricing, model) ==
  LET fits == {p \in DOMAIN pricing : IsPrefix(p, model)}
  IN IF fits = {} THEN None
     ELSE pricing[CHOOSE p \in fits : \A q \in fits : Len(q) <= Len(p)]

costOf(pricing, model, usage) ==
  LET price == priceFor(pricing, model)
  IN IF price = None THEN None
     ELSE usage.inputTokens * price.input + usage.outputTokens * price.output

\* mockProvider: the n-th call's answer; the last entry repeats.
mockProvider(script, n) == script[IF n < Len(script) THEN n ELSE Len(script)]

Least(a, b) == IF a <= b THEN a ELSE b

\* levenshtein: the table of the two rows, entry by entry.
levenshtein(a, b) ==
  LET d[i \in 0..Len(a), j \in 0..Len(b)] ==
        IF i = 0 THEN j
        ELSE IF j = 0 THEN i
        ELSE Least(Least(d[i-1, j] + 1, d[i, j-1] + 1),
                   d[i-1, j-1] + (IF a[i] = b[j] THEN 0 ELSE 1))
  IN d[Len(a), Len(b)]

clamp(n) == IF n < 0 THEN 0 ELSE IF n > 100 THEN 100 ELSE n

Verdict(score, threshold) == [score |-> score, passed |-> score >= threshold]

\* equals, contains and jsonValid: all or nothing.
Rule(passed) == Verdict(IF passed THEN 100 ELSE 0, 100)

similarity(output, reference, threshold) ==
  LET max == IF Len(output) > Len(reference) THEN Len(output) ELSE Len(reference)
  IN Verdict(IF max = 0 THEN 100
             ELSE clamp(100 - (100 * levenshtein(output, reference)) \div max), threshold)

\* llmJudge: the grader's 0..10, or 0 when its answer does not parse.
llmJudge(answer, threshold) == Verdict(IF answer = None THEN 0 ELSE clamp(10 * answer), threshold)

evaluate(results) ==
  [score  |-> IF results = <<>> THEN 100
              ELSE FoldSeq(LAMBDA r, sum : r.score + sum, 0, results) \div Len(results),
   passed |-> \A i \in 1..Len(results) : results[i].passed]

runEvals(cases) ==
  [passRate |-> IF cases = <<>> THEN 100
                ELSE (100 * Len(SelectSeq(cases, LAMBDA c : c.passed))) \div Len(cases),
   passed   |-> \A i \in 1..Len(cases) : cases[i].passed]

-----------------------------------------------------------------------------
(* The address guard: an address is [kind 4, a, b], [kind 6, class] with the
   embedded address of a mapped one, or [kind 0] *)

isPrivateIp4(a, b) ==
  \/ a \in {0, 10, 127} \/ a >= 224
  \/ a = 169 /\ b = 254
  \/ a = 172 /\ b >= 16 /\ b <= 31
  \/ a = 192 /\ b = 168
  \/ a = 100 /\ b >= 64 /\ b <= 127

isPrivateIp(ip) ==
  CASE ip.kind = 4 -> isPrivateIp4(ip.a, ip.b)
    [] ip.kind = 6 -> \/ ip.class \in {"loopback", "unspecified", "linkLocal", "uniqueLocal"}
                      \/ ip.class = "mapped" /\ isPrivateIp4(ip.a, ip.b)
    [] OTHER -> TRUE

\* assertPublicUrl: addresses are all those the host resolves to.
assertPublicUrl(url, addresses, options) ==
  /\ url.parses /\ url.scheme \in options.allowSchemes
  /\ options.allowHosts # {} => url.host \in options.allowHosts
  /\ options.allowPrivate \/ (addresses # {} /\ \A ip \in addresses : ~isPrivateIp(ip))

-----------------------------------------------------------------------------
(* Lists of runs: what the doctor, orphanedRuns and cancelRuns make of them *)

RunStatusNames == <<"running", "sleeping", "waitingEvent", "waitingChild",
                    "completed", "failed", "cancelled">>
Terminal == {"completed", "failed", "cancelled"}

\* The newest rows up to a limit, terminal ones among them.
Recent(rows, limit) == SubSeq(rows, 1, Least(limit, Len(rows)))

\* orphanedRuns, and the filter of cancelRuns: not terminal and idle since the cutoff.
orphanedRuns(rows, cutoff, limit) ==
  {r.id : r \in {x \in Range(Recent(rows, limit)) : x.status \notin Terminal /\ x.updatedAt < cutoff}}

\* doctor: workflows whose runs in flight carry more than one version.
drifted(rows) ==
  LET inflight == {r \in Range(rows) : r.status \notin Terminal}
  IN {w \in {r.workflow : r \in inflight} :
        Cardinality({r.version : r \in {x \in inflight : x.workflow = w}}) > 1}

\* waitForRunStatus: one poll of the test helper.
waitForRunStatus(wanted, status) ==
  IF status = wanted THEN "returned"
  ELSE IF status \in Terminal /\ wanted \notin Terminal THEN "threw" ELSE "polls"

\* Workflow._route: the registered definition a run is pinned to, or the current one.
route(versions, pinned, current) == IF pinned \in versions THEN pinned ELSE current

=============================================================================
