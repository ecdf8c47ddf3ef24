----------------------------- MODULE HttpServer -----------------------------
(***************************************************************************)
(* The HTTP side of an app: route registration, the router, the middleware *)
(* chain, the built-in middleware, the dispatch of a handler, the response *)
(* and the drain (packages/zenzip/src http.ts, express.ts, router.ts,      *)
(* middleware.ts, fetch.ts).                                               *)
(*                                                                         *)
(* A path is the sequence of its segments.  A pattern's segment Param is a *)
(* ":name".  JavaScript runs a layer up to its first await without a break,*)
(* so the layers that neither wait nor share state are evaluated in the    *)
(* step that reaches them; a layer of the user, an authentication that     *)
(* waits for its verifier, the rate limiter (whose buckets requests share) *)
(* and the route handler have steps of their own.                          *)
(***************************************************************************)
EXTENDS Integers, Sequences, FiniteSets, SequencesExt, FiniteSetsExt

CONSTANTS
  Requests,       \* requests of one run of the server
  Input,          \* [Requests -> set of Request records]
  Chain,          \* the middleware layers in the order of app.use
  Patterns,       \* routes [method, path, handler] a user may register
  Routers,        \* routers [prefix, table] a user may mount
  Probes,         \* bound: [method, path] the router is asked
  MaxRoutes,      \* bound: routes registered
  Served,         \* bound: the route tables requests are served with
  Param,          \* a ":name" segment
  Undecodable,    \* a segment decodeURIComponent throws on
  MaxPerWindow,   \* RateLimitOptions.max
  Window,         \* RateLimitOptions.window
  MaxClock,       \* bound: time
  DrainMs,        \* closeServer's drainMs
  NoHandler

ASSUME ServerAssumption ==
  /\ MaxPerWindow \in Nat /\ Window \in Nat \ {0} /\ DrainMs \in Nat
  /\ Len(Chain) \in Nat /\ DOMAIN Chain = 1 .. Len(Chain)
  /\ \A k \in DOMAIN Chain : /\ {"kind", "mount", "isError"} = DOMAIN Chain[k]
                            /\ Chain[k].isError = (Chain[k].kind = "onError")

\* A path is a sequence of segments; a router holds its routes in a list.
IsPath(path) == path \in Seq(Range(path))
IsRoute(route) == {"method", "path", "handler"} = DOMAIN route /\ IsPath(route.path)
IsTable(table) ==
  /\ table \in Seq(Range(table))
  /\ \A j \in DOMAIN table : IsRoute(table[j])

ASSUME RouterAssumption ==
  /\ \A p \in Probes : IsPath(p.path)
  /\ \A route \in Patterns : IsRoute(route)
  /\ \A router \in Routers : IsPath(router.prefix) /\ IsTable(router.table)

VARIABLES
  phase,      \* "setup", "listening", "draining", "closed"
  routes,     \* routes in the order of registration
  req,        \* the requests: cursors, running layers, response
  buckets,    \* rateLimit: [keys -> [count, resetAt]]
  clock,
  closeAt,    \* when the drain's timer fires
  admitted    \* history: for each key, the requests let through and when

vars == <<phase, routes, req, buckets, clock, closeAt, admitted>>

Keys == UNION {{i.key : i \in Input[q]} : q \in Requests}

-----------------------------------------------------------------------------
(* HttpRouter: a trie per method *)

\* add: the nodes of the trie are the prefixes of the patterns.
Nodes(table, method) ==
  {<<>>} \cup UNION {{SubSeq(r.path, 1, n) : n \in 0 .. Len(r.path)} :
                     r \in {table[j] : j \in {j \in DOMAIN table : table[j].method = method}}}

\* Mutant: the last handler registered for a node replaces the first.
HandlerAtLast(table, method, node) ==
  LET here == {j \in DOMAIN table : table[j].method = method /\ table[j].path = node}
  IN IF here = {} THEN NoHandler ELSE table[Max(here)].handler

\* add: the first handler registered for a node stays.
HandlerAt(table, method, node) ==
  LET here == {j \in DOMAIN table : table[j].method = method /\ table[j].path = node}
  IN IF here = {} THEN NoHandler ELSE table[Min(here)].handler

\* match: one step down, a literal child before the parameter child, from the
\* node reached; no node is left when there is no child.
Descend(nodes, reached, seg) ==
  LET child(s) == {Append(node, s) : node \in reached} \cap nodes
  IN IF child(seg) # {} THEN child(seg) ELSE child(Param)

Walk(nodes, path) == FoldLeft(LAMBDA reached, seg : Descend(nodes, reached, seg), {<<>>}, path)

match(table, method, path) ==
  LET reached == Walk(Nodes(table, method), path)
  IN IF reached = {} THEN NoHandler
     ELSE HandlerAt(table, method, CHOOSE node \in reached : TRUE)

\* match throws when the segment of a parameter cannot be decoded.
MatchThrows(table, method, path) ==
  \E n \in DOMAIN path :
     /\ path[n] = Undecodable
     /\ \E node \in Walk(Nodes(table, method), SubSeq(path, 1, n)) : Last(node) = Param

\* The linear scan the trie replaced: the first pattern that fits.
Fits(pattern, path) ==
  /\ Len(pattern) = Len(path)
  /\ \A n \in DOMAIN path : pattern[n] \in {path[n], Param}

FirstMatch(table, method, path) ==
  LET fit == {j \in DOMAIN table : table[j].method = method /\ Fits(table[j].path, path)}
  IN IF fit = {} THEN NoHandler ELSE table[Min(fit)].handler

(* Router: _collect prefixes what a router holds with its mount point *)

joinPath(prefix, path) == prefix \o path
CollectRoutes(prefix, table) ==
  [j \in DOMAIN table |-> [table[j] EXCEPT !.path = joinPath(prefix, @)]]
CollectMiddleware(prefix, layers) ==
  [k \in DOMAIN layers |-> [layers[k] EXCEPT !.mount = joinPath(prefix, @)]]

\* Mutant: a mount covers only its own path.
pathMatchesExactly(mount, path) == mount = <<>> \/ mount = path

pathMatches(mount, path) == IsPrefix(mount, path)

-----------------------------------------------------------------------------
(* The response *)

\* Mutant: headersSent is not looked at.
RespondAnyway(r, code) ==
  IF r.state # "open" THEN r ELSE [r EXCEPT !.sent = TRUE, !.status = code]

\* A response is written once: every later write finds headersSent.
Respond(r, code) ==
  IF r.sent THEN r ELSE [r EXCEPT !.sent = TRUE, !.status = code]

\* res.status(code).json(...) does not look: until the response is flushed the
\* status code is still assigned.
RawRespond(r, code) ==
  IF r.state # "open" THEN r ELSE [r EXCEPT !.sent = TRUE, !.status = code]

\* finalError: the status an error is reported with.
StatusOf(err) ==
  CASE err = "HttpError" -> 409
    [] err \in {"QueueFullError", "CircuitOpenError", "BulkheadFullError"} -> 503
    [] err = "ValidationError" -> 400
    [] OTHER -> 500

finalError(r, err) == Respond(r, StatusOf(err))

-----------------------------------------------------------------------------
(* The built-in middleware that answers in the step that reaches it *)

Pass == 0

\* cors: a preflight request ends here.
Cors(in) == IF in.method = "OPTIONS" THEN 204 ELSE Pass

\* csrf: a state-changing request needs an Origin or Referer of this host.
Csrf(in) == IF in.method \in {"GET", "HEAD", "OPTIONS"} \/ in.origin = "same" THEN Pass ELSE 403

\* validate: the query, then the body.
Validate(in) == IF in.valid THEN Pass ELSE 400

\* serveStatic: a file under the root, for GET and HEAD; anything else falls
\* through to the routes.
Static(in) == IF in.method \in {"GET", "HEAD"} /\ in.file THEN 200 ELSE Pass

\* The status a layer answers with, or Pass: json, urlencoded, secureHeaders
\* and logger always pass.
Verdict(kind, in) ==
  CASE kind = "cors" -> Cors(in)
    [] kind = "csrf" -> Csrf(in)
    [] kind = "validate" -> Validate(in)
    [] kind = "static" -> Static(in)
    [] OTHER -> Pass

\* Layers with steps of their own.
Waits(kind) == kind \in {"user", "auth", "rateLimit", "onError"}

-----------------------------------------------------------------------------
(* runMiddleware *)

\* The next layer of a pass that does something for this request.
Stops(r, k, errorPass) ==
  /\ Chain[k].isError = errorPass
  /\ pathMatches(Chain[k].mount, r.in.path)
  /\ Waits(Chain[k].kind) \/ Verdict(Chain[k].kind, r.in) # Pass

Following(r, from, errorPass) ==
  LET ahead == {k \in from .. Len(Chain) : Stops(r, k, errorPass)}
  IN IF ahead = {} THEN Len(Chain) + 1 ELSE Min(ahead)

\* A layer or the handler (layer 0) that has been entered and has not returned.
Enter(r, k) == [r EXCEPT !.running = @ \cup {<<k, 0>>}]
Leave(r, run) == [r EXCEPT !.running = @ \ {run}]

Start(r, h) == [Enter(r, 0) EXCEPT !.handler = h, !.ran = @ + 1]

\* dispatchRoute up to the handler: no match is a 404; a parameter that cannot
\* be decoded throws out of the promise nobody awaits.
Dispatch(r) ==
  LET matched == match(routes, r.in.method, r.in.path)
  IN IF MatchThrows(routes, r.in.method, r.in.path) THEN [r EXCEPT !.rejected = TRUE]
     ELSE IF matched = NoHandler THEN Respond(r, 404)
     ELSE Start(r, matched)

\* Mutant: no final handler behind the error layers.
handleErrorUnanswered(r, err) ==
  LET k == Following(r, r.ei, TRUE)
      at == [r EXCEPT !.erroring = TRUE, !.ei = k + 1]
  IN IF k <= Len(Chain) THEN Enter(at, k) ELSE at

handleError(r, err) ==
  LET k == Following(r, r.ei, TRUE)
      at == [r EXCEPT !.erroring = TRUE, !.ei = k + 1]
  IN IF k <= Len(Chain) THEN Enter(at, k) ELSE finalError(at, err)

\* Mutant: the dispatched flag is not kept.
nextDispatchesAgain(r) ==
  LET k == Following(r, r.i, FALSE)
      at == [r EXCEPT !.i = k + 1]
  IN IF r.erroring THEN r
     ELSE IF k > Len(Chain) THEN Dispatch(at)
     ELSE IF Waits(Chain[k].kind) THEN Enter(at, k)
     ELSE RawRespond(at, Verdict(Chain[k].kind, r.in))

next(r) ==
  LET k == Following(r, r.i, FALSE)
      at == [r EXCEPT !.i = k + 1]
  IN IF r.erroring THEN r
     ELSE IF k > Len(Chain) THEN IF r.dispatched THEN at ELSE Dispatch([at EXCEPT !.dispatched = TRUE])
     ELSE IF Waits(Chain[k].kind) THEN Enter(at, k)
     ELSE RawRespond(at, Verdict(Chain[k].kind, r.in))

-----------------------------------------------------------------------------
(* Requests *)

Idle == [state |-> "none", in |-> {}, i |-> 1, ei |-> 1, dispatched |-> FALSE,
         erroring |-> FALSE, running |-> {}, sent |-> FALSE, status |-> 0,
         principal |-> FALSE, handler |-> NoHandler, ran |-> 0, left |-> FALSE,
         stream |-> FALSE, rejected |-> FALSE]

\* makeNodeHandler: the body is read first, then the chain runs.
Accept(q) ==
  /\ phase = "listening" /\ req[q].state = "none"
  /\ \E in \in Input[q] :
       req' = [req EXCEPT ![q] = next([Idle EXCEPT !.state = "open", !.in = in])]
  /\ UNCHANGED <<phase, routes, buckets, clock, closeAt, admitted>>

\* The layers of a kind that are running, as <<place in the chain, calls made>>.
Running(q, kind) ==
  {run \in req[q].running : run[1] > 0 /\ Chain[run[1]].kind = kind}

Becomes(q, r) ==
  /\ req' = [req EXCEPT ![q] = r]
  /\ UNCHANGED <<phase, routes, buckets, clock, closeAt, admitted>>

\* Mutant: the window is kept for one tick too many.
BucketLingers(key) ==
  LET b == buckets[key]
  IN IF clock > b.resetAt THEN [count |-> 1, resetAt |-> clock + Window]
     ELSE [b EXCEPT !.count = @ + 1]

\* rateLimit: a fixed window per key, counted before it is compared.
Bucket(key) ==
  LET b == buckets[key]
  IN IF clock >= b.resetAt THEN [count |-> 1, resetAt |-> clock + Window]
     ELSE [b EXCEPT !.count = @ + 1]

RateLimit(q) ==
  \E run \in Running(q, "rateLimit") :
    LET key == req[q].in.key
        b == Bucket(key)
        r == Leave(req[q], run)
    IN /\ buckets' = [buckets EXCEPT ![key] = b]
       /\ IF b.count > MaxPerWindow
          THEN req' = [req EXCEPT ![q] = RawRespond(r, 429)] /\ UNCHANGED admitted
          ELSE /\ req' = [req EXCEPT ![q] = next(r)]
               /\ admitted' = [admitted EXCEPT ![key] = @ \cup {<<q, clock>>}]
       /\ UNCHANGED <<phase, routes, clock, closeAt>>

\* auth: a missing token is refused; a static token is accepted; anything else
\* is for the verifier, which accepts, refuses or throws.
Auth(q) ==
  \E run \in Running(q, "auth") :
    LET r == Leave(req[q], run)
        accepted == next([r EXCEPT !.principal = TRUE])
    IN CASE req[q].in.token = "none" -> Becomes(q, RawRespond(r, 401))
         [] req[q].in.token = "static" -> Becomes(q, accepted)
         [] OTHER -> \/ Becomes(q, accepted)
                     \/ Becomes(q, RawRespond(r, 401))
                     \/ Becomes(q, handleError(r, "Error"))

\* A layer of the user: next(), next(err), a response of its own, a throw, and
\* after a first next() once more any of these but the response.
UserLayer(q) ==
  \E run \in Running(q, "user") :
    LET r == Leave(req[q], run)
        again == [r EXCEPT !.running = @ \cup {<<run[1], 1>>}]
    IN \/ Becomes(q, next(r))
       \/ Becomes(q, handleError(r, "Error"))
       \/ run[2] = 0 /\ Becomes(q, Respond(r, 200))
       \/ run[2] = 0 /\ Becomes(q, next(again))
       \/ run[2] = 0 /\ Becomes(q, handleError(again, "Error"))
       \/ run[2] = 1 /\ Becomes(q, r)

\* Error middleware: it answers, passes the error on, fails itself, or calls
\* next() without an error, which leaves the request to the user.
ErrorLayer(q) ==
  \E run \in Running(q, "onError") :
    LET r == Leave(req[q], run)
    IN \/ Becomes(q, Respond(r, 500))
       \/ Becomes(q, handleError(r, "Error"))
       \/ Becomes(q, [next(r) EXCEPT !.left = TRUE])

\* The default answer of a handler that returned without writing.
Returned(r, code) == Respond(r, code)

\* A handler with one parameter: a value, nothing, or a throw.
CtxHandler(q) ==
  \E run \in req[q].running :
    LET r == Leave(req[q], run) IN
    /\ run[1] = 0 /\ r.handler = "ctx"
    /\ \/ \E code \in {200, 204} : Becomes(q, Returned(r, code))
       \/ Becomes(q, handleError(r, "QueueFullError"))

\* A handler with (req, res, next): its own response, next() for a 404,
\* next(err), a throw, or a returned value.
ExpressHandler(q) ==
  \E run \in req[q].running :
    LET r == Leave(req[q], run) IN
    /\ run[1] = 0 /\ r.handler = "express"
    /\ \/ \E code \in {200, 404} : Becomes(q, Returned(r, code))
       \/ Becomes(q, handleError(r, "HttpError"))

\* A stream: the head is written and the response ends with the connection;
\* writing the head of a response that was sent throws.
StreamHandler(q) ==
  \E run \in req[q].running :
    LET r == Leave(req[q], run) IN
    /\ run[1] = 0 /\ r.handler = "stream"
    /\ Becomes(q, IF r.sent THEN handleError(r, "Error")
                  ELSE [Respond(r, 200) EXCEPT !.stream = TRUE])

\* The response is flushed; a stream's stays open.
Finish(q) ==
  /\ req[q].state = "open" /\ req[q].sent /\ ~req[q].stream
  /\ Becomes(q, [req[q] EXCEPT !.state = "ended"])

\* The client goes away.
Disconnect(q) ==
  /\ req[q].state = "open" /\ (req[q].stream \/ req[q].left)
  /\ Becomes(q, [req[q] EXCEPT !.state = "cut"])

-----------------------------------------------------------------------------
(* Registration, time, drain *)

\* app.get and the like, before listen.
AddRoute(route) ==
  /\ phase = "setup" /\ Len(routes) < MaxRoutes
  /\ routes' = Append(routes, route)
  /\ UNCHANGED <<phase, req, buckets, clock, closeAt, admitted>>

\* app.use(prefix, router): what the router holds is collected under its prefix.
Mount(router) ==
  /\ phase = "setup" /\ Len(routes) + Len(router.table) <= MaxRoutes
  /\ routes' = routes \o CollectRoutes(router.prefix, router.table)
  /\ UNCHANGED <<phase, req, buckets, clock, closeAt, admitted>>

\* app.listen: the built-in routes come behind the user's.
BuiltIns == <<[method |-> "GET", path |-> <<"healthz">>, handler |-> "ctx"]>>
Listen ==
  /\ phase = "setup" /\ routes \in Served
  /\ phase' = "listening"
  /\ routes' = routes \o BuiltIns
  /\ UNCHANGED <<req, buckets, clock, closeAt, admitted>>

Tick ==
  /\ \/ phase = "listening" /\ clock < MaxClock
     \/ phase = "draining" /\ clock < closeAt
  /\ clock' = clock + 1
  /\ UNCHANGED <<phase, routes, req, buckets, closeAt, admitted>>

\* closeServer: no new connections, and a timer for those that stay.
Close ==
  /\ phase = "listening"
  /\ phase' = "draining"
  /\ closeAt' = clock + DrainMs
  /\ UNCHANGED <<routes, req, buckets, clock, admitted>>

Open == {q \in Requests : req[q].state = "open"}

\* server.close calls back when the last connection is gone.
Drained ==
  /\ phase = "draining" /\ Open = {}
  /\ phase' = "closed"
  /\ UNCHANGED <<routes, req, buckets, clock, closeAt, admitted>>

\* The server ends and cuts what is open.
CutAll ==
  /\ phase' = "closed"
  /\ req' = [q \in Requests |->
               IF req[q].state = "open" THEN [req[q] EXCEPT !.state = "cut"] ELSE req[q]]
  /\ UNCHANGED <<routes, buckets, clock, closeAt, admitted>>

\* The drain's timer.
ForceClose == phase = "draining" /\ clock >= closeAt /\ CutAll

\* A rejection nobody handles ends the Node process.
UnhandledRejection == phase # "closed" /\ (\E q \in Requests : req[q].rejected) /\ CutAll

Init ==
  /\ phase = "setup" /\ routes = <<>> /\ clock = 0 /\ closeAt = 0
  /\ req = [q \in Requests |-> Idle]
  /\ buckets = [k \in Keys |-> [count |-> 0, resetAt |-> 0]]
  /\ admitted = [k \in Keys |-> {}]

\* What a request does once the server has closed reaches nobody.
Progress(q) ==
  /\ phase # "closed"
  /\ \/ RateLimit(q) \/ Auth(q) \/ UserLayer(q) \/ ErrorLayer(q)
     \/ CtxHandler(q) \/ ExpressHandler(q) \/ StreamHandler(q) \/ Finish(q)

\* Nothing is left to do, or the app never listens.
Stopped == phase \in {"setup", "closed"} /\ UNCHANGED vars

Next ==
  \/ \E route \in Patterns : AddRoute(route)
  \/ \E router \in Routers : Mount(router)
  \/ Listen \/ Tick \/ Close \/ Drained \/ ForceClose \/ UnhandledRejection \/ Stopped
  \/ \E q \in Requests : Accept(q) \/ Progress(q) \/ Disconnect(q)

\* Layers and handlers of the program settle, timers fire.
Fairness == /\ WF_vars(\E q \in Requests : Progress(q))
            /\ WF_vars(Tick \/ Drained \/ ForceClose \/ UnhandledRejection)

Spec == Init /\ [][Next]_vars /\ Fairness
-----------------------------------------------------------------------------
(* Properties *)

\* What the trie answers is a pattern that fits the path, the first registered
\* with that shape; where no literal stands beside a parameter it is what the
\* linear scan would answer (http.ts:70: "preserving the old linear first-match
\* semantics").
Conflict(table, method) ==
  \E node \in Nodes(table, method) : \E other \in Nodes(table, method) :
    /\ node # <<>> /\ other # node /\ Len(other) = Len(node)
    /\ Front(other) = Front(node) /\ Last(node) = Param
RoutesFit ==
  phase = "setup" => \A p \in Probes : LET answer == match(routes, p.method, p.path) IN
    /\ answer # NoHandler =>
         \E j \in DOMAIN routes :
           /\ routes[j].method = p.method /\ Fits(routes[j].path, p.path)
           /\ routes[j].handler = answer
           /\ \A i \in 1 .. j - 1 : routes[i].method = p.method => routes[i].path # routes[j].path
    /\ ~Conflict(routes, p.method) => answer = FirstMatch(routes, p.method, p.path)

\* When a handler starts, every guard mounted over its path and placed before
\* the first layer of the user has let the request through, whatever the user's
\* layers do with next and however requests interleave (middleware.ts auth:
\* "Mount path-scoped as a route guard").
Guards(kind, path) ==
  {k \in DOMAIN Chain : /\ Chain[k].kind = kind /\ IsPrefix(Chain[k].mount, path)
                        /\ \A j \in 1 .. k : Chain[j].kind # "user"}
GuardsHold ==
  \A q \in Requests : LET r == req[q] IN
    r.ran > 0 =>
      /\ Guards("auth", r.in.path) # {} => r.principal
      /\ Guards("csrf", r.in.path) # {} => Csrf(r.in) = Pass
      /\ Guards("validate", r.in.path) # {} => r.in.valid
      /\ Guards("rateLimit", r.in.path) # {} => \E a \in admitted[r.in.key] : a[1] = q

\* A layer that calls next twice, or next after a failure, never runs the
\* handler twice and never starts it once an error is propagating (express.ts
\* runMiddleware: dispatched, erroring).
HandlerRunsOnce ==
  /\ [][\A q \in Requests : req[q].erroring => req'[q].ran = req[q].ran]_vars
  /\ [](\A q \in Requests : req[q].ran <= 1)

\* The first answer of a request is its answer: neither a second writer nor a
\* late error changes a status that was sent (express.ts finalError and http.ts
\* respond look at headersSent).
FirstResponseStands ==
  [][\A q \in Requests : req[q].sent => req'[q].sent /\ req'[q].status = req[q].status]_vars

\* A request is refused for its rate only when the maximum was let through
\* within the last window: no client is charged for a window that has passed
\* (middleware.ts rateLimit, the reset at now >= b.resetAt).
RefusalsJustified ==
  [][\A q \in Requests :
       ~req[q].sent /\ req'[q].status = 429 =>
         Cardinality({a \in admitted[req[q].in.key] : a[2] > clock - Window}) >= MaxPerWindow]_vars

\* Every request that is accepted is answered, cut, or left by an error layer
\* that called next() (express.ts runMiddleware: "the request is left to the
\* user"), and a server that starts to drain closes, streams or not.
Settled(r) == r.state = "open" => r.left \/ r.sent
RequestsEnd ==
  /\ []<>(\A q \in Requests : Settled(req[q]))
  /\ (phase = "draining") ~> (phase = "closed")

\* What one request does cuts no other: a request is cut by its client, or by
\* the drain once its time is up.
FailuresStayApart ==
  [][\A q \in Requests : req[q].state = "open" /\ req'[q].state = "cut" =>
       req[q].stream \/ req[q].left \/ (phase = "draining" /\ clock >= closeAt)]_vars

=============================================================================
