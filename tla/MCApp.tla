------------------------------- MODULE MCApp -------------------------------
EXTENDS App, Registration, Wire

Option(driver, url, threshold, threads, level) ==
  [driver |-> driver, url |-> url, threshold |-> threshold, workerThreads |-> threads, logLevel |-> level]
Good == Option("sqlite", None, 0, None, "info")
MCConfigs == {Good, Option("postgres", "blank", None, None, None)}
OneConfig == {Good}

Queue == {<<"queue", "q">>, <<"processor", "q">>}
Flow == {<<"workflow", "w">>, <<"agent", "w">>}
Scene(clients, program) == [clients |-> clients, program |-> program, nested |-> FALSE, servers |-> {}]
Stopping(clients) == [clients |-> clients, program |-> Queue, nested |-> TRUE, servers |-> {"http"}]

MCScenarios == { Scene({"p4"}, Queue),
                 Scene({"p1", "p2"}, Queue),
                 Stopping({"p1", "s1"}),
                 Stopping({"p3", "SIGINT"}),
                 Stopping({"p3", "s1", "SIGINT"}),
                 Scene({"p1", "o1", "t1"}, Queue),
                 Scene({"r1", "r2", "a1", "w1"}, Flow),
                 Scene({"r1", "a1", "w1", "k1"}, Flow),
                 Scene({"m1", "a1", "k1"}, Flow) }
MCItems == [p1 |-> 2, p2 |-> 2, p3 |-> 1, p4 |-> 3]
MCSteps == <<"a", "b">>
MCSafe == [s \in {"a", "b"} |-> s]
MCResults == {[id |-> 0, large |-> TRUE], [id |-> 1, large |-> TRUE], [id |-> 2, large |-> FALSE]}

(* Scenarios of the counterexamples *)
StopTwice == {Stopping({"p3", "s1", "SIGINT"})}
DrainCalls == {Stopping({"p3", "s1"})}
OverlappingTicks == {Scene({"p3", "t1", "t2"}, Queue)}
Zombie == {Scene({"r1", "a1", "a2"}, Flow)}

-----------------------------------------------------------------------------
(* The pure operators against what they are for, over bounded inputs *)

Tenths(n, unit) == [tenths |-> n, unit |-> unit]

\* Fractions are cut to whole milliseconds, and what does not parse is refused.
ASSUME Durations ==
  /\ ms(Tenths(15, "s")) = 1500 /\ ms(Tenths(9, "number")) = 0 /\ ms(Tenths(25, "ms")) = 2
  /\ ms(Tenths(-10, "number")) = Throws /\ ms(Tenths(10, "w")) = Throws
  /\ \A n \in 0..20, u \in DOMAIN UNIT_MS : ms(Tenths(n, u)) * 10 \in (n * UNIT_MS[u] - 9)..(n * UNIT_MS[u])
  /\ retentionMs(Off) = 0 /\ retentionMs(None) = None

\* The gap of a throttle rounds to the nearest millisecond: within half a millisecond
\* of per/max, so rounding down lets one start too many into a window (3 per 1000ms).
ASSUME Throttle ==
  /\ \A per \in 1..60, max \in 1..7 :
       LET gap == throttleSpacingMs(per, max)
       IN gap >= 1 /\ (gap > 1 => 2 * (gap * max - per) \in (-max)..max)
  /\ 3 * throttleSpacingMs(1000, 3) < 1000

\* A call's retries win over the queue's, the queue's over the default.
ASSUME Options ==
  LET queue(q) == [debounce |-> 9, retries |-> q, throttle |-> [per |-> 10, max |-> 2]]
      call(r) == [delay |-> 7, retries |-> r]
  IN /\ pushOptions(queue(4), call(0), 2) = [delayMs |-> 9, maxAttempts |-> 1, spacing |-> 5]
     /\ pushOptions(queue(4), call(None), 2).maxAttempts = 5
     /\ pushOptions(queue(None), call(None), 2).maxAttempts = 3

Atoms == {<<"x">>, <<"y">>}
Names == BoundedSeq(Atoms, 3) \ {<<>>}
Patterns == LET body == BoundedSeq(Atoms \cup {Star}, 2)
            IN (body \ {<<>>}) \cup {Append(b, Rest) : b \in body}

\* The names a pattern stands for: a segment for every star, any remainder for a
\* trailing double star.
Denoted(pattern) ==
  LET body == IF Last(pattern) = Rest THEN Front(pattern) ELSE pattern
      tails == IF Last(pattern) = Rest THEN BoundedSeq(Atoms, 3) ELSE {<<>>}
  IN {[i \in 1..Len(body) |-> IF body[i] = Star THEN f[i] ELSE body[i]] \o tail :
        f \in [1..Len(body) -> Atoms], tail \in tails}

ASSUME Events == \A p \in Patterns, n \in Names : eventMatches(p, n) <=> n \in Denoted(p)

\* Namespaces of one part do not hear each other, nor an event outside them; a star
\* in the first segment is no longer one under a namespace, and a colon in a name
\* is a nested namespace.
ASSUME Namespaces ==
  LET spaces == {<<"a">>, <<"b">>}
  IN /\ \A p \in Patterns, n \in Names, s, t \in spaces :
          (eventMatches(key(s, p), key(t, n)) => s = t) /\ ~eventMatches(key(s, p), n)
     /\ \A p \in Patterns, n \in Names, s \in spaces :
          p[1] \notin {Star, Rest} => (eventMatches(key(s, p), key(s, n)) <=> eventMatches(p, n))
     /\ dispatchLocal(prefixOn(<<"a">>, {<<Star>>, <<Rest>>}), key(<<"a">>, <<<<"x">>>>)) = {}
     /\ key(<<"a">>, <<<<"b", "x">>>>) = key(<<"a", "b">>, <<<<"x">>>>)

ASSUME Secrets ==
  /\ resolveSecret([scheme |-> "env", name |-> "K"], [K |-> ""], <<>>) = None
  /\ resolveSecret([scheme |-> "file", name |-> "K"], <<>>, [K |-> "v"]) = "v"
  /\ resolveSecret([scheme |-> "literal", name |-> "K"], <<>>, <<>>) = "K"
  /\ resolveSecret(None, <<>>, <<>>) = None

\* A viewer's token never writes; without tokens everyone does.
ASSUME Roles ==
  \A op, view, given \in {None, "t1", "t2"} :
    LET role == roleOf(op, view, given)
    IN /\ authorized(role, "write") => authorized(role, "read")
       /\ authorized(role, "write") <=> (op = None /\ view = None) \/ (op # None /\ given = op)

\* Whoever may not write reaches no route that changes anything.
ASSUME Routes ==
  \A role \in {None, "viewer", "operator"}, r \in DashboardRoutes :
    r[1] = "POST" /\ authorized(role, r[3]) => role = "operator"

\* One tool per name.
ASSUME Tools ==
  \A ds \in SUBSET ({"workflow", "agent"} \X {"w", "v"}), mode \in {{"all"}, {}, {"w"}} :
    \A t, u \in buildTools(ds, mode, {"all"}) : t[2] = u[2] => t = u

\* The longest prefix does not depend on the order of the table.
ASSUME Prices ==
  LET table == (<<"gpt">> :> [input |-> 2, output |-> 3]) @@ (<<"gpt", "mini">> :> [input |-> 1, output |-> 1])
  IN /\ costOf(table, <<"gpt", "mini", "x">>, [inputTokens |-> 4, outputTokens |-> 5]) = 9
     /\ costOf(table, <<"gpt", "x">>, [inputTokens |-> 4, outputTokens |-> 5]) = 23
     /\ costOf(table, <<"o1">>, [inputTokens |-> 4, outputTokens |-> 5]) = None
     /\ \A n \in 1..5 : mockProvider(<<"a", "b">>, n) = IF n = 1 THEN "a" ELSE "b"

Words == BoundedSeq({0, 1}, 3)
Neighbours(w) ==
  {v \in Words : \/ Len(v) = Len(w) /\ Cardinality({i \in 1..Len(w) : v[i] # w[i]}) = 1
                 \/ \E i \in 1..Len(w) : v = RemoveAt(w, i)
                 \/ \E i \in 1..Len(v) : w = RemoveAt(v, i)}

\* The table's distance is the number of single edits between two words.
ASSUME EditDistance ==
  LET ball[w \in Words, n \in 0..3] ==
        IF n = 0 THEN {w} ELSE ball[w, n-1] \cup UNION {Neighbours(v) : v \in ball[w, n-1]}
  IN \A a, b \in Words, n \in 0..3 : levenshtein(a, b) <= n <=> b \in ball[a, n]

\* A report passes when each verdict does; an empty one passes.
ASSUME Evaluation ==
  /\ \A a, b \in Words : similarity(a, b, 100).passed <=> a = b
  /\ \A a, b \in Words : similarity(a, b, 80).score \in 0..100
  /\ llmJudge(None, 50).passed = FALSE /\ llmJudge(25, 50).score = 100
  /\ evaluate(<<>>).passed /\ evaluate(<<Rule(TRUE), llmJudge(2, 50)>>) = [score |-> 60, passed |-> FALSE]
  /\ runEvals(<<evaluate(<<>>), evaluate(<<Rule(FALSE)>>)>>) = [passRate |-> 50, passed |-> FALSE]

\* The ranges as prefixes of the 16 leading bits.
Block(a, b, bits) == LET size == 2^(16 - bits) IN {(a * 256 + b) \div size} \X {size}
ASSUME Addresses ==
  LET blocks == Block(0, 0, 8) \cup Block(10, 0, 8) \cup Block(127, 0, 8) \cup Block(169, 254, 16)
                \cup Block(172, 16, 12) \cup Block(192, 168, 16) \cup Block(100, 64, 10)
                \cup Block(224, 0, 4) \cup Block(240, 0, 4)
      v4(a, b) == [kind |-> 4, a |-> a, b |-> b]
  IN /\ \A a \in 0..255, b \in {0, 15, 16, 31, 32, 63, 64, 127, 128, 167, 168, 253, 254, 255} :
          isPrivateIp(v4(a, b)) <=> \E x \in blocks : (a * 256 + b) \div x[2] = x[1]
     /\ isPrivateIp([kind |-> 6, class |-> "mapped", a |-> 10, b |-> 0]) /\ isPrivateIp([kind |-> 0])
     /\ LET url == [parses |-> TRUE, scheme |-> "https", host |-> "h"]
            options == [allowSchemes |-> {"https"}, allowHosts |-> {}, allowPrivate |-> FALSE]
        IN /\ assertPublicUrl(url, {v4(8, 8)}, options)
           /\ ~assertPublicUrl(url, {v4(8, 8), v4(10, 1)}, options) /\ ~assertPublicUrl(url, {}, options)

\* The limit counts ended runs too, so a stuck run behind newer ended ones is missed;
\* waiting for one terminal status never fails fast on another.
ASSUME RunLists ==
  LET row(id, status, version) ==
        [id |-> id, status |-> status, updatedAt |-> 0, workflow |-> "w", version |-> version]
      rows == <<row(3, "completed", "v2"), row(2, "sleeping", "v2"), row(1, "running", "v1")>>
  IN /\ orphanedRuns(rows, 1, 3) = {1, 2} /\ orphanedRuns(rows, 1, 2) = {2} /\ orphanedRuns(rows, 0, 3) = {}
     /\ drifted(rows) = {"w"} /\ drifted(Front(rows)) = {}
     /\ waitForRunStatus("completed", "failed") = "polls" /\ waitForRunStatus("sleeping", "failed") = "threw"
     /\ route({"v1"}, "v1", "v2") = "v1" /\ route({"v1"}, "v0", "v2") = "v2"

-----------------------------------------------------------------------------
(* Registrations *)

\* The budget a push carries is the one the queue is registered with; a key limit
\* never comes without a key on every job, in bulk too.
ASSUME QueuesAgree ==
  \A o \in QueueOptions({0, 2}, {{1, 2}}) : \A reg \in registerQueue(1, o) :
    /\ pushOptions(o, [delay |-> None, retries |-> None], DEFAULT_RETRIES).maxAttempts = reg.maxAttempts
    /\ reg.concurrency >= 1
    /\ reg.keyLimit # None <=> concurrencyKey(o, 1, [item \in {1} |-> "k"]) # None
    /\ registerQueue(None, o) = {}

\* A bulk push is all or nothing unless its items need keys: then it stops behind the
\* valid items it has pushed.
ASSUME BulkPushes ==
  \A o \in {x \in QueueOptions({2}, {{1, 2}}) : x.lease = 2 /\ x.delay = 2 /\ x.fair = None}, items \in BoundedSeq(1..3, 3) :
    LET pushed == pushBulk(o, items)
    IN /\ IsPrefix(pushed, items) /\ \A i \in DOMAIN pushed : validate(o, pushed[i])
       /\ ~PerItem(o) => pushed \in {<<>>, items}
       /\ pushed # items => ~validate(o, items[Len(pushed) + 1]) \/ ~PerItem(o)

\* A delay above the default cap is cut to the cap unless the cap is given too.
ASSUME Backoffs ==
  /\ backoff(120000, None) = [delayMs |-> 120000, maxDelayMs |-> 60000]
  /\ \A d \in {None} \cup 0..3, cap \in 0..3 : backoff(d, cap).maxDelayMs >= backoff(d, cap).delayMs

\* An agent's attempt has a lease of its own and as many attempts as asked for; its
\* limits are what the options say, zero included.
ASSUME Agents ==
  \A o \in AgentOptions({0, 7000}) :
    LET reg == agentWorkflow(o)
    IN /\ reg.stepMaxAttempts = IF o.stepRetries = None THEN 3 ELSE o.stepRetries + 1
       /\ reg.leaseMs = CASE o.lease = None -> 300000 [] o.lease = 0 -> 1000 [] OTHER -> 7000
       /\ reg.triggers = {} /\ reg.concurrency >= 1
       /\ agentLimits(o).historyWindow = 0 <=> o.historyWindow = 0
       /\ agentLimits(o).maxIterations = 0 <=> o.maxIterations = 0

\* Every workflow runs: at least one slot, one attempt, a second of lease.
ASSUME Workflows ==
  \A o \in WorkflowOptions({0, 5}, {{"p"}}, {<<"POST", "/path">>}) :
    LET reg == registerWorkflow(None, o)
    IN /\ reg.concurrency >= 1 /\ reg.stepMaxAttempts >= 1 /\ reg.leaseMs >= 1000
       /\ reg.triggers = {} <=> o.on = None
       /\ o.http # None => webhook(o.http) # {}

\* A webhook option that does not name a path is refused, leading blanks included.
ASSUME Webhooks ==
  /\ webhook(<<"POST", "/path">>) = webhook(<<"POST", "/path", "rest">>)
  /\ \A w \in {<<"POST">>, <<"POST", "path">>, <<"", "POST", "/path">>} : webhook(w) = {}

\* Exactly one of cron and every reaches the runtime.
ASSUME Schedules ==
  \A spec \in ScheduleSpecs({"c"}, {Tenths(10, "s")}) :
    LET reg == schedule(spec)
    IN /\ reg.cron = None <=> reg.everyMs # None
       /\ spec.kind = "string" => reg.overlap = "skip" /\ reg.catchup = "skip" /\ reg.jitterMs = 0

\* One target per state and event.
ASSUME Machines ==
  LET table == transitions([open |-> [pay |-> "paid", drop |-> "closed"], paid |-> [drop |-> "closed"], closed |-> <<>>])
  IN Cardinality(table) = 3 /\ \A t, u \in table : t[1] = u[1] /\ t[2] = u[2] => t = u

\* Loops never spin: every period has a floor.  "off" keeps a category for good, and
\* only postgres reads the url.
ASSUME Runtimes ==
  /\ \A o \in {x \in ZenzipOptions({0, 900}, {"u"}) : x.threshold = 0 /\ x.workerThreads # 900} :
       LET made == runtimeOptions(o)
       IN /\ made.sweepMs >= 100 /\ made.schedulerTickMs >= 50 /\ made.gcSweepMs >= 1000 /\ made.workerThreads >= 1
          /\ made.postgresUrl # None <=> o.driver = "postgres"
          /\ made.logLevel = "off" <=> o.logLevel = "off" \/ (o.logLevel = None /\ ~o.logger)
          /\ made.runRetentionMs = None <=> o.runs \in {Off, 0}
          /\ o.events = None => made.eventRetentionMs = 7 * UNIT_MS.d
          /\ made.offloadBytes = IF o.payloads THEN 0 ELSE None
  /\ createTestApp([sweep |-> 9], "tmp")
       = [handleSignals |-> FALSE, sweep |-> 9, schedulerTick |-> 50, dataDir |-> "tmp"]

-----------------------------------------------------------------------------
(* The edge of the process *)

Texts == [quotes : 0..3, inner : {"json", "plain"}]

\* json() behind the server's own parse undoes one more quote: the JSON of a string
\* that holds JSON arrives as the value inside.
ASSUME Bodies ==
  /\ readJsonBody(None) = None /\ json(None, "json") = None
  /\ \A t \in Texts : json(readJsonBody(t), "other") = readJsonBody(t)
  /\ \A t \in Texts : json(readJsonBody(t), "json") # readJsonBody(t)
                       <=> t.quotes > 1 \/ (t.quotes = 1 /\ t.inner = "json")

\* The Fetch adapter delivers what the Node server does, but for the body of a GET.
ASSUME Adapters ==
  /\ \A t \in Texts, m \in {"GET", "HEAD", "POST", "DELETE"} :
       fetchBody(m, t) # readJsonBody(t) <=> m \in {"GET", "HEAD"}
  /\ LET all == [frameOptions |-> None, referrerPolicy |-> None, hsts |-> None, contentSecurityPolicy |-> None]
     IN Cardinality(secureHeaders(all)) = 5 /\ Cardinality(secureHeaders([all EXCEPT !.hsts = Off])) = 4

\* No value of a form or a query is lost; a form that is JSON by itself is no form.
ASSUME Forms ==
  /\ \A pairs \in BoundedSeq({"a", "b"} \X {0, 1}, 3) :
       /\ FoldSet(LAMBDA k, n : n + Len(Entries(pairs)[k]), 0, DOMAIN Entries(pairs)) = Len(pairs)
       /\ \A i \in DOMAIN pairs : pairs[i][2] \in Range(Entries(pairs)[pairs[i][1]])
  /\ urlencoded(readJsonBody([quotes |-> 0, inner |-> "json"]), "form", <<<<"7", "">>>>) = None

Message(error) == [error |-> error, tools |-> {"t"}, content |-> <<[type |-> "text", text |-> "x"], [type |-> "image"]>>]
Replies == [ok : BOOLEAN, session : {None, "s1", "s2"}, sse : BOOLEAN,
            messages : {<<>>, <<Message(TRUE)>>, <<Message(FALSE)>>, <<Message(FALSE), Message(FALSE)>>}]

\* The client follows the last session the server named, through errors too, and
\* never counts an id twice; a server that pushes another event before the answer
\* makes the answer unreadable.
ASSUME McpClient ==
  /\ \A a, b \in Replies :
       LET one == callTool(Fresh, a) two == callTool(one.client, b)
       IN /\ two.client.id = 2
          /\ two.client.session = IF b.session # None THEN b.session ELSE a.session
          /\ two.text # None => b.ok /\ two.text = <<"x", "json">>
          /\ b.sse /\ Len(b.messages) # 1 => two.text = None
  /\ \A a, b \in Replies, guarded, public \in BOOLEAN :
       LET c == mcp(guarded, public, "p", a, b)
       IN c.tools # {} => c.tools = {<<"p", "t">>} /\ c.id = 2 /\ a.ok /\ (guarded => public)

Leaves == {[kind |-> "text"], [kind |-> "number"], [kind |-> "flag"], [kind |-> "url", password |-> TRUE]}
Group(kind, repeated, fields) == [kind |-> kind, repeated |-> repeated, fields |-> fields]
Objects(values) == {Group("object", s, (k :> v)) : s \in BOOLEAN, k \in {"token", "name"}, v \in values}
Lists(values) == {Group("list", s, <<v>>) : s \in BOOLEAN, v \in values}
Values == LET one == Leaves \cup Objects(Leaves) \cup Lists(Leaves) IN one \cup Objects(one) \cup Lists(one)
Twice(v) == v.kind \in {"list", "object"} /\ (v.repeated \/ \E k \in DOMAIN v.fields :
              v.fields[k].kind \in {"list", "object"} /\ v.fields[k].repeated)

\* A dump masks every password of a url and every scalar directly under a secret key,
\* unless the walk met the object before; a list under a secret key is not masked.
ASSUME Redaction ==
  /\ \A v \in Values : ~Twice(v) =>
       \A leaf \in Shown(redactSecrets(v), FALSE) : leaf.kind = "url" => ~leaf.password
  /\ \A v \in Objects(Leaves) : ~v.repeated => Shown(redactSecrets(v), FALSE) = {}
  /\ Shown(redactSecrets(Group("object", FALSE, ("token" :> Group("list", FALSE, <<[kind |-> "text"]>>)))), FALSE)
       = {[kind |-> "text"]}

\* Every level an engine event can have reaches the logger's method of that name.
ASSUME Logs ==
  \A level \in LogLevels \ {Off, "off"} : pinoLogger(level) = level /\ winstonLogger(level) \in {level, "debug"}
=============================================================================
