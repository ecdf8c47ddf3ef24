-------------------------------- MODULE Wire --------------------------------
(***************************************************************************)
(* What crosses the edge of the process in packages/zenzip/src: request    *)
(* bodies and query strings, the MCP client, redacted dumps and log        *)
(* events.  Only the distinctions the code makes are kept of a text.       *)
(***************************************************************************)
EXTENDS Toolkit

-----------------------------------------------------------------------------
(* Bodies.  A text is [quotes, inner]: inner "json" is the JSON of something that is
   not a string, "plain" is no JSON, and each quote makes it the JSON of a string
   around the rest.  A delivered body is None, a text, or Parsed. *)

Parsed == [quotes |-> 0, inner |-> "value"]
IsText(body) == body # None /\ body # Parsed
Parse(text) == IF text.quotes > 0 THEN [text EXCEPT !.quotes = @ - 1]
               ELSE IF text.inner = "json" THEN Parsed ELSE text

\* readJsonBody: no bytes is undefined, what does not parse is the raw text.
readJsonBody(raw) == IF raw = None THEN None ELSE Parse(raw)

\* makeFetchHandler: the body of a GET or HEAD is dropped before it is read.
fetchBody(method, raw) == IF method \in {"GET", "HEAD"} THEN None ELSE readJsonBody(raw)

\* json(): a body that is still a text is parsed again under its content type.
json(body, contentType) == IF IsText(body) /\ contentType = "json" THEN Parse(body) ELSE body

\* urlencoded() and parseQuery: one entry per key, a list when a key repeats.
Entries(pairs) ==
  [k \in {pairs[i][1] : i \in DOMAIN pairs} |->
     LET all == SelectSeq(pairs, LAMBDA p : p[1] = k) IN [i \in DOMAIN all |-> all[i][2]]]
urlencoded(body, contentType, pairs) ==
  IF IsText(body) /\ contentType = "form" THEN Entries(pairs) ELSE None

\* secureHeaders: two headers always, three unless switched off, one on request.
secureHeaders(o) ==
  {"x-content-type-options", "x-dns-prefetch-control"}
    \cup (IF o.frameOptions = Off THEN {} ELSE {"x-frame-options"})
    \cup (IF o.referrerPolicy = Off THEN {} ELSE {"referrer-policy"})
    \cup (IF o.hsts = Off THEN {} ELSE {"strict-transport-security"})
    \cup (IF o.contentSecurityPolicy = None THEN {} ELSE {"content-security-policy"})

-----------------------------------------------------------------------------
(* The MCP client.  A reply is [ok, session, sse, messages]: a message is an error or
   a result.  A client is [session, id]; an outcome is a message or none. *)

\* firstSseMessage: the data lines of all events are joined and parsed as one.
firstSseMessage(messages) == IF Len(messages) = 1 THEN messages ELSE <<>>

\* #send: the session of a reply is kept whatever its status; an error status, a body
\* that does not parse and a JSON-RPC error throw.
send(client, reply) ==
  LET body == IF reply.sse THEN firstSseMessage(reply.messages) ELSE reply.messages
  IN [client  |-> [session |-> IF reply.session # None THEN reply.session ELSE client.session,
                   id |-> client.id + 1],
      outcome |-> IF reply.ok /\ body # <<>> /\ ~body[1].error THEN body ELSE <<>>]

Fresh == [session |-> None, id |-> 0]

\* mcp: guard, initialize, list; the notification between them may fail unseen.
mcp(guarded, public, prefix, initialized, listed) ==
  LET first == send(Fresh, initialized)
      second == send(first.client, listed)
  IN IF guarded /\ ~public THEN Fresh @@ [tools |-> {}]
     ELSE IF first.outcome = <<>> THEN first.client @@ [tools |-> {}]
     ELSE second.client @@
            [tools |-> IF second.outcome = <<>> THEN {}
                       ELSE {<<prefix, name>> : name \in second.outcome[1].tools}]

\* contentToString: a text part as it is, any other as JSON, nothing as "null".
contentToString(content) ==
  IF content = None THEN <<"null">>
  ELSE [i \in DOMAIN content |-> IF content[i].type = "text" THEN content[i].text ELSE "json"]

\* callTool: the result's content; whether the server flagged it as an error is not read.
callTool(client, reply) ==
  LET sent == send(client, reply)
  IN [client |-> sent.client,
      text |-> IF sent.outcome = <<>> THEN None ELSE contentToString(sent.outcome[1].content)]

-----------------------------------------------------------------------------
(* Dumps.  A value is [kind, ...]: a leaf ("text", "number", "flag", or "url" with its
   password), or a list or object with its fields, repeated when the walk met it before. *)

SecretKeys == {"password", "token"}
Masked == [kind |-> "masked"]

redactUrl(v) == [v EXCEPT !.password = FALSE]

RECURSIVE redactSecrets(_)
redactSecrets(v) ==
  CASE v.kind = "url" -> redactUrl(v)
    [] v.kind \in {"list", "object"} /\ ~v.repeated ->
         [v EXCEPT !.fields = [k \in DOMAIN v.fields |->
            IF v.kind = "object" /\ k \in SecretKeys /\ v.fields[k].kind \in {"text", "url", "number"}
            THEN Masked ELSE redactSecrets(v.fields[k])]]
    [] OTHER -> v

\* The leaves of a value that a dump shows below a key that looks secret.
RECURSIVE Shown(_, _)
Shown(v, secret) ==
  CASE v.kind = "url" -> IF v.password \/ secret THEN {v} ELSE {}
    [] v.kind \in {"list", "object"} ->
         UNION {Shown(v.fields[k], secret \/ (v.kind = "object" /\ k \in SecretKeys)) : k \in DOMAIN v.fields}
    [] OTHER -> IF secret /\ v.kind \in {"text", "number"} THEN {v} ELSE {}

-----------------------------------------------------------------------------
(* Log events *)

pinoLogger(level) == IF level \in {"error", "warn", "debug", "trace"} THEN level ELSE "info"
winstonLogger(level) == IF level = "trace" THEN "debug" ELSE level

=============================================================================
