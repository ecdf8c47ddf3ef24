---------------------------- MODULE MCHttpServer ----------------------------
(* Instances of HttpServer. *)
EXTENDS HttpServer, TLC

CONSTANTS q1, q2, P, U

Layer(kind, mount) == [kind |-> kind, mount |-> mount, isError |-> kind = "onError"]

\* A router mounted at /api with its own guards and error layer, as app.use("/api",
\* router) collects it.
ApiRouter == CollectMiddleware(<<"api">>,
  <<Layer("auth", <<>>), Layer("csrf", <<>>), Layer("validate", <<>>), Layer("onError", <<>>)>>)
MCChain ==
  <<Layer("secureHeaders", <<>>), Layer("rateLimit", <<>>), Layer("cors", <<>>), Layer("static", <<"files">>)>>
  \o ApiRouter \o <<Layer("user", <<>>), Layer("onError", <<>>)>>

Route(m, path, h) == [method |-> m, path |-> path, handler |-> h]
MCPatterns ==
  {Route("GET", <<"api", "x">>, "ctx"), Route("GET", <<"api", P>>, "express"),
   Route("GET", <<"api", "x">>, "stream"), Route("GET", <<P, "x">>, "stream"), Route("GET", <<P>>, "stream"),
   Route("GET", <<"healthz">>, "express"), Route("POST", <<"api", P>>, "ctx")}

Api == [prefix |-> <<"api">>,
        table |-> <<Route("POST", <<P>>, "ctx"), Route("GET", <<P>>, "express")>>]
MCRouters == {Api}
MCServed == {Append(CollectRoutes(Api.prefix, Api.table), Route("GET", <<P>>, "stream"))}

Ask(m, path) == [method |-> m, path |-> path]
MCProbes == {Ask(m, p) : m \in {"GET", "POST"},
               p \in {<<"api", "x">>, <<"api", "y">>, <<"z", "x">>, <<"healthz">>, <<"y">>, <<>>}}

In(m, path, token, origin, valid) ==
  [method |-> m, path |-> path, key |-> "ip", token |-> token, origin |-> origin,
   valid |-> valid, file |-> FALSE]
Plain == In("GET", <<"healthz">>, "none", "none", TRUE)
\* One request meets every guard, layer and handler; the other only what they
\* share with it: the limiter's bucket and the drain.
MCInput ==
  q1 :> {In("POST", <<"api", "y">>, "none", "same", TRUE),
         In("POST", <<"api", "y">>, "other", "same", TRUE),
         In("POST", <<"api", "y">>, "static", "cross", TRUE),
         In("POST", <<"api", "y">>, "static", "same", FALSE),
         In("GET", <<"api", "y">>, "static", "none", TRUE),
         [Plain EXCEPT !.path = <<"s">>], [Plain EXCEPT !.path = <<U>>], Plain,
         [Plain EXCEPT !.path = <<"files", "a">>, !.file = TRUE]} @@
  q2 :> {[Plain EXCEPT !.method = "OPTIONS"]}
=============================================================================
