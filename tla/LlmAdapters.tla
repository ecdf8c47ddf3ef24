---------------------------- MODULE LlmAdapters ----------------------------
(***************************************************************************)
(* The provider adapters of packages/zenzip/src/llm: how a conversation    *)
(* becomes a request on the wire, and how a reply becomes a response.      *)
(*                                                                         *)
(* A message is a record [role, kind, of, calls].  Texts are left out: of  *)
(* is the set of runs the text speaks about, which is all the properties   *)
(* compare.  A tool use and a tool result are given by their call id; a    *)
(* tool use also has the name of the tool, a tool result only the id.      *)
(***************************************************************************)
EXTENDS Integers, Sequences, FiniteSets, SequencesExt

\* The name carried by a block that has none.
NoName == "none"

LlmContent(Ids, Names) == [id : Ids, name : Names \cup {NoName}]

LlmMessage(Ids, Names, Runs) ==
  [role : {"user", "assistant"},
   kind : {"text", "memory", "summary", "toolUse", "toolResult"},
   of : SUBSET Runs,
   calls : Seq(LlmContent(Ids, Names))]

Text(role, kind, of) == [role |-> role, kind |-> kind, of |-> of, calls |-> <<>>]

\* A response: the tools it asks for, whether its text is the JSON the output
\* schema wants, and the tokens it is charged with.
LlmResponse(Ids, Names, Tokens) ==
  [calls : Seq(LlmContent(Ids, Names)), json : BOOLEAN, input : Tokens, output : Tokens]

toolUses(response) == response.calls

-----------------------------------------------------------------------------
(* Requests.  The wire is a sequence of messages [role, kind, keys]: a key is *)
(* what the provider pairs a result with its call by.                        *)

\* Anthropic: one wire message per message, every block in its place.
toAnthropicMessages(messages) ==
  [j \in DOMAIN messages |->
     [role |-> messages[j].role, kind |-> messages[j].kind,
      keys |-> [k \in DOMAIN messages[j].calls |-> messages[j].calls[k].id]]]

\* Bedrock takes the same body.
toBedrockMessages(messages) == toAnthropicMessages(messages)

\* OpenAI: the calls of an assistant message stay together, each result is a
\* message of its own with role "tool".
toOpenAiMessages(messages) ==
  LET Split(m) == IF m.kind # "toolResult" THEN <<m>>
                  ELSE [k \in DOMAIN m.keys |->
                          [role |-> "tool", kind |-> m.kind, keys |-> <<m.keys[k]>>]]
      wire == toAnthropicMessages(messages)
  IN FlattenSeq([j \in DOMAIN wire |-> Split(wire[j])])

\* Gemini pairs by the name of the function: it is looked up among the tool
\* uses of the whole request (a later use of an id replaces an earlier one)
\* and is the id itself when there is none.
toGeminiContents(messages) ==
  LET uses == FlattenSeq([j \in DOMAIN messages |->
                IF messages[j].role = "assistant" THEN messages[j].calls ELSE <<>>])
      NameOf(id) == LET found == {j \in DOMAIN uses : uses[j].id = id}
                    IN IF found = {} THEN id
                       ELSE uses[CHOOSE j \in found : \A k \in found : k <= j].name
      Key(c) == IF c.name # NoName THEN c.name ELSE NameOf(c.id)
  IN [j \in DOMAIN messages |->
        [role |-> IF messages[j].role = "assistant" THEN "model" ELSE "user",
         kind |-> messages[j].kind,
         keys |-> [k \in DOMAIN messages[j].calls |-> Key(messages[j].calls[k])]]]

\* What each of the four providers receives for a conversation.
Wires(messages) ==
  {toAnthropicMessages(messages), toBedrockMessages(messages),
   toOpenAiMessages(messages), toGeminiContents(messages)}

\* The results that follow wire message j without another message between.
ResultsAfter(wire, j) ==
  LET span == {k \in j + 1 .. Len(wire) : \A n \in j + 1 .. k : wire[n].kind = "toolResult"}
  IN FlattenSeq([n \in 1 .. Cardinality(span) |-> wire[j + n].keys])

\* What a provider requires of a request: the calls of a turn are followed by
\* their results, all of them, once and in order; and results follow their calls.
WellFormed(wire) ==
  \A j \in DOMAIN wire :
     /\ wire[j].kind = "toolUse" => ResultsAfter(wire, j) = wire[j].keys
     /\ wire[j].kind = "toolResult" =>
          j # 1 /\ wire[j - 1].kind \in {"toolUse", "toolResult"}

-----------------------------------------------------------------------------
(* Replies.  A scripted reply names the tools in order; the adapter gives    *)
(* each call its id.                                                         *)

\* Anthropic, OpenAI and Bedrock return an id per call, unique in all
\* conversations: the turn (a run and an iteration) and the position j.
fromAnthropicContent(reply, turn) ==
  [calls |-> [j \in DOMAIN reply.tools |-> [id |-> <<turn, j>>, name |-> reply.tools[j]]],
   json |-> reply.json, input |-> reply.input, output |-> reply.output]

\* Gemini returns none: the adapter makes one from the name and the position,
\* the same one in every turn.
fromGeminiParts(reply, turn) ==
  [calls |-> [j \in DOMAIN reply.tools |-> [id |-> <<reply.tools[j], j>>, name |-> reply.tools[j]]],
   json |-> reply.json, input |-> reply.input, output |-> reply.output]

\* The streamed events add up to the reply.  A stream that ends early is not
\* an error: the blocks received so far are the response, and the output
\* tokens, which come with the last event, are missing.
Streamed(reply, n) ==
  IF n = Len(reply.tools) THEN reply
  ELSE [reply EXCEPT !.tools = SubSeq(@, 1, n), !.json = FALSE, !.output = 0]
-----------------------------------------------------------------------------
(* One exchange with a provider.  A reply on the wire is [ok, turns, usage]:  *)
(* turns holds the first turn and usage the tokens, each empty when the       *)
(* provider left it out; a turn is [blocks, stop], a block [type, id, name,   *)
(* input] whose input is empty when its arguments are not JSON.  A call that  *)
(* throws yields no response.                                                 *)

Throws == {}
Response(blocks, stop, usage) == {[content |-> blocks, stopReason |-> stop, usage |-> usage]}

StopReasons == {"endTurn", "toolUse", "maxTokens", "other"}
Reason(names, stop) == IF stop \in DOMAIN names THEN names[stop] ELSE "other"
mapStopReason(stop) ==
  Reason([end_turn |-> "endTurn", tool_use |-> "toolUse", max_tokens |-> "maxTokens"], stop)

\* Blocks that are neither text nor tool use are dropped.
Known(blocks) == SelectSeq(blocks, LAMBDA b : b.type \in {"text", "toolUse"})

Usage(res) == IF res.usage = <<>> THEN [input |-> 0, output |-> 0] ELSE res.usage[1]

\* anthropic: no request without a key; a body without content or usage throws.
anthropic(hasKey, res) ==
  IF ~hasKey \/ ~res.ok \/ res.turns = <<>> \/ res.usage = <<>> THEN Throws
  ELSE Response(Known(res.turns[1].blocks), mapStopReason(res.turns[1].stop), res.usage[1])

\* bedrock: no request without both halves of the credentials; content and usage
\* left out are empty and zero.
bedrock(hasCredentials, res) ==
  IF ~hasCredentials \/ ~res.ok THEN Throws
  ELSE IF res.turns = <<>> THEN Response(<<>>, "other", Usage(res))
  ELSE Response(Known(res.turns[1].blocks), mapStopReason(res.turns[1].stop), Usage(res))

\* openaiCompatible: sends without a key too; the text comes before the calls,
\* and a body without a choice throws.
openaiCompatible(res) ==
  IF ~res.ok \/ res.turns = <<>> THEN Throws
  ELSE LET typed(type) == SelectSeq(res.turns[1].blocks, LAMBDA b : b.type = type)
       IN Response(typed("text") \o typed("toolUse"),
                   Reason([stop |-> "endTurn", tool_calls |-> "toolUse", length |-> "maxTokens"],
                          res.turns[1].stop),
                   Usage(res))

\* googleGemini: a call's id is its name and its place among the calls, and the
\* reason is "toolUse" whenever there is a call.
googleGemini(res) ==
  LET turn == IF res.turns = <<>> THEN [blocks |-> <<>>, stop |-> "none"] ELSE res.turns[1]
      blocks == Known(turn.blocks)
      Place(j) == Len(SelectSeq(SubSeq(blocks, 1, j), LAMBDA b : b.type = "toolUse"))
      named == [j \in DOMAIN blocks |->
                  IF blocks[j].type = "text" THEN blocks[j]
                  ELSE [blocks[j] EXCEPT !.id = <<blocks[j].name, Place(j)>>]]
  IN IF ~res.ok THEN Throws
     ELSE Response(named,
                   IF \E j \in DOMAIN blocks : blocks[j].type = "toolUse" THEN "toolUse"
                   ELSE Reason([STOP |-> "endTurn", MAX_TOKENS |-> "maxTokens"], turn.stop),
                   Usage(res))
=============================================================================
