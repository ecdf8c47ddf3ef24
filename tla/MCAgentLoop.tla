---------------------------- MODULE MCAgentLoop ----------------------------
(* Instances of AgentLoop for TLC. *)
EXTENDS AgentLoop, TLC

CONSTANTS r1, r2, s1, NoSess

\* A tool of each sort; the coordinator of a network has handoff tools only.
ToolSet ==
  [look |-> tool(FALSE), pay |-> tool(TRUE)] @@ NetworkTools({"ask"})

Reply(tools, json) ==
  [tools |-> tools, json |-> json, input |-> 1, output |-> IF tools = <<>> THEN 0 ELSE 1]

BothSessions == (r1 :> s1) @@ (r2 :> s1)

\* In its first turn r1 meets a gate and an unknown tool, or a tool and a handoff,
\* then answers or asks for one more tool; a stream cut short gives the shorter
\* turns and the answer without JSON.  r2 answers at once.
Scripts ==
  (r1 :> <<{Reply(<<"pay", "ghost">>, FALSE), Reply(<<"look", "ask">>, FALSE)},
           {Reply(<<>>, TRUE), Reply(<<"look">>, FALSE)}>>)
  @@ (r2 :> <<{Reply(<<>>, TRUE)}, {}>>)

\* The gate twice: with ids made from the name an answer may reach the wrong one.
TwoGates ==
  (r1 :> <<{Reply(<<"pay">>, FALSE)}, {Reply(<<"pay">>, FALSE)}>>)
  @@ (r2 :> <<{}, {}>>)

-----------------------------------------------------------------------------
(* The adapters over small replies *)

Block(type, id, name) == [type |-> type, id |-> id, name |-> name, input |-> {}]
Blocks == {Block("text", <<"t">>, NoName), Block("toolUse", <<"u">>, "look"),
           Block("toolUse", <<"v">>, "look"), Block("thinking", <<"x">>, NoName)}
Turns == {[blocks |-> b, stop |-> s] : b \in BoundedSeq(Blocks, 2),
             s \in {"end_turn", "tool_use", "stop", "length", "STOP", "MAX_TOKENS", "none"}}
WireReplies == [ok : BOOLEAN, turns : {<<>>} \cup {<<t>> : t \in Turns},
                usage : {<<>>, <<[input |-> 3, output |-> 4]>>}]
Answers(res) == {anthropic(TRUE, res), bedrock(TRUE, res), openaiCompatible(res), googleGemini(res)}
Asked(content) == FoldLeft(LAMBDA names, b : IF b.type = "toolUse" THEN Append(names, b.name) ELSE names,
                           <<>>, content)

\* Every adapter reports the calls of a turn, all of them and in order, with a
\* reason of its type; an error status is never a response.
ASSUME AdaptersAgree ==
  \A res \in WireReplies : \A answer \in Answers(res) :
    /\ ~res.ok => answer = Throws
    /\ \A r \in answer : /\ r.stopReason \in StopReasons
                         /\ res.turns # <<>> => Asked(r.content) = Asked(res.turns[1].blocks)

\* Tokens the provider does not report are an error of anthropic, and free with the
\* others: they never count against maxTotalTokens.
ASSUME UnreportedTokens ==
  LET res == [ok |-> TRUE, turns |-> <<[blocks |-> <<>>, stop |-> "stop"]>>, usage |-> <<>>]
  IN /\ anthropic(TRUE, res) = Throws
     /\ \A answer \in Answers(res) \ {Throws} : \A r \in answer : r.usage = [input |-> 0, output |-> 0]

\* Only two adapters refuse to send without credentials.
ASSUME WithoutCredentials ==
  \A res \in WireReplies : anthropic(FALSE, res) = Throws /\ bedrock(FALSE, res) = Throws

\* Ids are unique within a turn with every adapter, across turns not with Gemini.
ASSUME IdsWithinTurn ==
  \A res \in WireReplies : \A r \in googleGemini(res) : \A j, k \in DOMAIN r.content :
     r.content[j].type = "toolUse" /\ r.content[k].type = "toolUse" /\ r.content[j].id = r.content[k].id => j = k
=============================================================================
