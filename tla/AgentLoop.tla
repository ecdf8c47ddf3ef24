----------------------------- MODULE AgentLoop -----------------------------
(***************************************************************************)
(* An agent is a workflow whose steps the model's replies generate         *)
(* (packages/zenzip/src/agent.ts).  Each reply, tool execution, approval   *)
(* gate and handoff is a journaled step; an attempt that suspends, fails   *)
(* or dies loses its local state, and the next one replays the journal     *)
(* from the top.  The session store, the vector memory and the approval    *)
(* events are shared by the runs.                                          *)
(*                                                                         *)
(* A step's body and its record are separate actions, so that a crash can  *)
(* fall between them; what follows a step reads the journal only, as a     *)
(* replay does.  Of the engine around the steps, which is the module       *)
(* Workflow, the store calls are kept between which a run has nothing that *)
(* drives it: a process that dies there leaves it stranded.                *)
(***************************************************************************)
EXTENDS LlmAdapters

CONSTANTS
  Runs,             \* runs of this agent
  Session,          \* [Runs -> session ids \cup {NoSession}]
  NoSession,
  Tools,            \* [tool names -> [requiresApproval, handoff : BOOLEAN]]
  Script,           \* [Runs -> for each turn, the replies the model may give]
  MaxIterations,    \* options.maxIterations
  MaxTotalTokens,   \* options.maxTotalTokens
  HistoryWindow,    \* options.historyWindow
  KeepRecent,       \* the keepRecent of AgentMemory.compress
  TopK,             \* AgentMemory's topK
  HasMemory,        \* options.memory is set
  HasOutput,        \* options.output is set
  FreshIds,         \* the provider gives each call an id of its own
  StepRetries,      \* options.stepRetries
  MaxFaults,        \* bound: step failures and crashes together
  None

VARIABLES
  status,     \* where each run is with the engine
  journal,    \* [Runs -> partial function from step ids to results]
  waiting,    \* the step a suspended run waits on
  failures,   \* failed attempts of the step a run is at
  local,      \* state of the attempt in progress: lost with the process
  sessions,   \* agentSessionPut / agentSessionGet
  memory,     \* InMemoryVectorStore: the runs whose turn is remembered
  faults,
  sent,       \* history: the requests sent for each llm-i
  executed,   \* history: tool calls whose execute ran
  granted,    \* history: calls an operator approved
  before      \* history: runs that had completed when a run was triggered

vars == <<status, journal, waiting, failures, local, sessions, memory, faults,
          sent, executed, granted, before>>
history == <<sent, executed, granted, before>>

ASSUME OptionsAssumption ==
  /\ MaxIterations \in Nat \ {0} /\ HistoryWindow \in Nat \ {0}
  /\ KeepRecent \in Nat \ {0} /\ TopK \in Nat /\ StepRetries \in Nat
  /\ {HasMemory, HasOutput, FreshIds} \subseteq BOOLEAN
  /\ Runs \subseteq DOMAIN Session

\* A scripted reply, and one set of them per iteration.
Replies == [tools : Seq(STRING), json : BOOLEAN, input : Nat, output : Nat]

ASSUME ScriptAssumption ==
  \A r \in Runs : Script[r] \in [1 .. MaxIterations -> SUBSET Replies]

SessionIds == Range(Session) \ {NoSession}

\* Mutant: slice(n) without the sign drops the first n and keeps the rest.
NewestUnsigned(s, n) == SubSeq(s, n + 1, Len(s))

\* The last n elements: messages.slice(-n).
Newest(s, n) == SubSeq(s, (IF Len(s) > n THEN Len(s) - n ELSE 0) + 1, Len(s))

\* tool and handoffTool: what the loop reads of a tool.
tool(requiresApproval) == [requiresApproval |-> requiresApproval, handoff |-> FALSE]
handoffTool == [requiresApproval |-> FALSE, handoff |-> TRUE]

\* The coordinator of a network: one handoff tool per member (network.ts), and
\* as many iterations as handoffs allowed, one more for the answer.
NetworkTools(members) ==
  [m \in members |-> handoffTool]
NetworkIterations(maxHandoffs) == maxHandoffs + 1

-----------------------------------------------------------------------------
(* AgentMemory *)

\* search: the nearest records of the session, of any session when the run has
\* none.  Nearness is the embedding's affair: any topK of the pool may come back.
Recallable(r) ==
  LET pool == IF Session[r] = NoSession THEN memory
              ELSE {q \in memory : Session[q] = Session[r]}
  IN {hits \in SUBSET pool :
        Cardinality(hits) = IF Cardinality(pool) < TopK THEN Cardinality(pool) ELSE TopK}

\* remember: the turn of r is added.
Remember(r) == memory' = memory \cup {r}

\* compress: all but the recent messages become one summary.
Compress(messages) ==
  IF Len(messages) <= KeepRecent THEN messages
  ELSE LET older == SubSeq(messages, 1, Len(messages) - KeepRecent)
       IN <<Text("user", "summary", UNION {older[j].of : j \in DOMAIN older})>>
            \o Newest(messages, KeepRecent)

-----------------------------------------------------------------------------
(* The attempt *)

\* An attempt starts at the session step with nothing in memory.
FreshAttempt ==
  [at |-> <<"session">>, out |-> None, messages |-> <<>>, tokens |-> 0,
   calls |-> <<>>, results |-> <<>>, json |-> FALSE, i |-> 0]

At(r, kind) == status[r] = "running" /\ local[r].at[1] = kind
Recorded(r) == local[r].at \in DOMAIN journal[r]
Result(r) == journal[r][local[r].at]

\* A journal with one more step; a step that is recorded keeps its result.
Recording(steps, id, value) ==
  [s \in DOMAIN steps \cup {id} |-> IF s \in DOMAIN steps THEN steps[s] ELSE value]

\* step.run, first half: the body has produced a result that is not journaled.
Produce(r, value) ==
  /\ ~Recorded(r) /\ local[r].out = None
  /\ local' = [local EXCEPT ![r].out = value]
  /\ UNCHANGED <<status, journal, waiting, failures, faults>>

\* step.run, second half: recordStep.
RecordStep(r) ==
  /\ status[r] = "running" /\ local[r].out # None
  /\ journal' = [journal EXCEPT ![r] = Recording(@, local[r].at, local[r].out)]
  /\ local' = [local EXCEPT ![r].out = None]
  /\ failures' = [failures EXCEPT ![r] = 0]
  /\ UNCHANGED <<status, waiting, sessions, memory, faults, history>>

\* The code behind a step goes on with the recorded result.
Continue(r, attempt) ==
  /\ local' = [local EXCEPT ![r] = attempt]
  /\ UNCHANGED <<status, journal, waiting, failures, sessions, memory, faults, history>>

Resume(r, attempt) == Recorded(r) /\ Continue(r, attempt)

\* A throw that is not a step failure ends the run.
Throw(r) ==
  /\ status' = [status EXCEPT ![r] = "failed"]
  /\ local' = [local EXCEPT ![r] = FreshAttempt]
  /\ UNCHANGED <<journal, waiting, failures, sessions, memory, faults, history>>

\* SuspendSignal: the attempt is over, the run waits, or will once its child has
\* been started.
Suspend(r, s) ==
  /\ ~Recorded(r)
  /\ status' = [status EXCEPT ![r] = s]
  /\ waiting' = [waiting EXCEPT ![r] = local[r].at]
  /\ local' = [local EXCEPT ![r] = FreshAttempt]
  /\ UNCHANGED <<journal, failures, sessions, memory, faults, history>>

\* The result of a wait is journaled.
RecordWait(r, value, s) ==
  /\ journal' = [journal EXCEPT ![r] = Recording(@, waiting[r], value)]
  /\ status' = [status EXCEPT ![r] = s]
  /\ waiting' = [waiting EXCEPT ![r] = None]
  /\ UNCHANGED <<failures, local, sessions, memory, faults, sent, executed, before>>

\* The engine moves a run on by a store call that journals nothing.
Pass(r, s) ==
  /\ status' = [status EXCEPT ![r] = s]
  /\ UNCHANGED <<journal, waiting, failures, local, sessions, memory, faults, history>>

\* The push of a job that executes the run.
Enqueue(r) == status[r] \in {"created", "recorded"} /\ Pass(r, "running")

-----------------------------------------------------------------------------
(* The loop *)

Goto(l, step) == [l EXCEPT !.at = step]

\* Agent.trigger, and run without its wait: the run is created, then enqueued.
Trigger(r) ==
  /\ status[r] = "new"
  /\ status' = [status EXCEPT ![r] = "created"]
  /\ before' = [before EXCEPT ![r] = {q \in Runs : status[q] = "completed"}]
  /\ UNCHANGED <<journal, waiting, failures, local, sessions, memory, faults,
                 sent, executed, granted>>

ReadSession(r) ==
  /\ At(r, "session")
  /\ Produce(r, IF Session[r] = NoSession THEN <<>>
                ELSE Newest(sessions[Session[r]], HistoryWindow))
  /\ UNCHANGED <<sessions, memory, history>>

\* The prompt: the history, what was recalled, and the message of this run.
Prompt(r, past, hits) ==
  past \o (IF hits = {} THEN <<>> ELSE <<Text("user", "memory", hits)>>)
       \o <<Text("user", "text", {r})>>

AfterSession(r) ==
  /\ At(r, "session")
  /\ Resume(r, IF HasMemory
               THEN [Goto(local[r], <<"memory-recall">>) EXCEPT !.messages = Result(r)]
               ELSE [Goto(local[r], <<"llm", 0>>) EXCEPT !.messages = Prompt(r, Result(r), {})])

Recall(r) ==
  /\ At(r, "memory-recall")
  /\ \E hits \in Recallable(r) : Produce(r, hits)
  /\ UNCHANGED <<sessions, memory, history>>

AfterRecall(r) ==
  /\ At(r, "memory-recall")
  /\ Resume(r, [Goto(local[r], <<"memory-compress">>) EXCEPT !.messages = Prompt(r, @, Result(r))])

CompressWorkingMemory(r) ==
  /\ At(r, "memory-compress")
  /\ Produce(r, Compress(local[r].messages))
  /\ UNCHANGED <<sessions, memory, history>>

\* Mutant: compression is no step, and each attempt compresses the store's history.
AfterCompressUnjournaled(r) ==
  /\ At(r, "memory-compress")
  /\ Resume(r, [Goto(local[r], <<"llm", 0>>) EXCEPT !.messages =
                  Compress(Prompt(r, IF Session[r] = NoSession THEN <<>>
                                     ELSE Newest(sessions[Session[r]], HistoryWindow), {}))])

AfterCompress(r) ==
  /\ At(r, "memory-compress")
  /\ Resume(r, [Goto(local[r], <<"llm", 0>>) EXCEPT !.messages = Result(r)])

\* One round trip; with onToken it is a stream, which may end early.
CallModel(r) ==
  /\ At(r, "llm")
  /\ \E reply \in Script[r][local[r].i + 1] : \E n \in 0 .. Len(reply.tools) :
       LET received == Streamed(reply, n)
       IN Produce(r, IF FreshIds THEN fromAnthropicContent(received, <<r, local[r].i>>)
                     ELSE fromGeminiParts(received, <<r, local[r].i>>))
  /\ sent' = [sent EXCEPT ![r] = @ \cup {<<local[r].at, local[r].messages>>}]
  /\ UNCHANGED <<sessions, memory, executed, granted, before>>

Spent(r) == local[r].tokens + Result(r).input + Result(r).output

AfterModel(r) ==
  /\ At(r, "llm") /\ Recorded(r)
  /\ IF Spent(r) > MaxTotalTokens THEN Throw(r)
     ELSE IF toolUses(Result(r)) = <<>>
     THEN Continue(r, [Goto(local[r], <<"output">>) EXCEPT
                          !.tokens = Spent(r), !.json = Result(r).json])
     ELSE Continue(r, [Goto(local[r], <<"dispatch">>) EXCEPT
                          !.tokens = Spent(r), !.calls = toolUses(Result(r)), !.results = <<>>,
                          !.messages = Append(@, [role |-> "assistant", kind |-> "toolUse",
                                                  of |-> {r}, calls |-> toolUses(Result(r))])])

\* A tool result for the call at hand, whatever became of it; on to the next.
Answered(l) ==
  [Goto(l, <<"dispatch">>) EXCEPT
     !.results = Append(@, [id |-> Head(l.calls).id, name |-> NoName]), !.calls = Tail(@)]

Perform(l) ==
  Goto(l, <<IF Tools[Head(l.calls).name].handoff THEN "handoff" ELSE "tool",
            l.i, Head(l.calls).id>>)

\* Mutant: a call of an unknown tool is passed over without a result.
DispatchSkipsUnknown(r) ==
  LET l == local[r] IN
  /\ At(r, "dispatch") /\ l.calls # <<>>
  /\ Continue(r,
       IF Head(l.calls).name \notin DOMAIN Tools THEN [l EXCEPT !.calls = Tail(@)]
       ELSE IF Tools[Head(l.calls).name].requiresApproval
       THEN Goto(l, <<"approval", l.i, Head(l.calls).id>>)
       ELSE Perform(l))

Dispatch(r) ==
  LET l == local[r] IN
  /\ At(r, "dispatch") /\ l.calls # <<>>
  /\ Continue(r,
       IF Head(l.calls).name \notin DOMAIN Tools THEN Answered(l)
       ELSE IF Tools[Head(l.calls).name].requiresApproval
       THEN Goto(l, <<"approval", l.i, Head(l.calls).id>>)
       ELSE Perform(l))

\* All calls answered: the next iteration, or too many of them.
EndIteration(r) ==
  LET l == local[r] IN
  /\ At(r, "dispatch") /\ l.calls = <<>>
  /\ IF l.i = MaxIterations - 1 THEN Throw(r)
     ELSE Continue(r, [Goto(l, <<"llm", l.i + 1>>) EXCEPT
                          !.i = @ + 1, !.results = <<>>,
                          !.messages = Append(@, [role |-> "user", kind |-> "toolResult",
                                                  of |-> {r}, calls |-> l.results])])

(* The approval gate *)

OpenGate(r) == At(r, "approval") /\ Suspend(r, "waiting")

\* approve / deny: an event with the run and the call id.  The operator answers
\* a gate that was opened, perhaps a second time; the event reaches the gate
\* that waits now if the ids agree, and is lost otherwise.  One transaction
\* journals the answer and enqueues the run.
Decide(r, gate, approved) ==
  /\ status[r] = "waiting" /\ waiting[r][1] = "approval"
  /\ gate[1] = "approval" /\ gate[3] = waiting[r][3]
  /\ RecordWait(r, IF approved THEN "approved" ELSE "denied", "running")
  /\ granted' = [granted EXCEPT ![r] = @ \cup (IF approved THEN {gate} ELSE {})]

\* Mutant: the timeout is taken from a run that is executing, so a gate has none.
ApprovalTimeoutRunning(r) ==
  /\ status[r] = "running" /\ waiting[r] # None
  /\ Pass(r, "released")

\* The timeout sweep releases the waiter: from here no answer reaches the gate.
\* It then journals the timeout and enqueues the run.
ApprovalTimeout(r) ==
  /\ status[r] = "waiting" /\ waiting[r][1] = "approval"
  /\ Pass(r, "released")

RecordTimeout(r) ==
  /\ status[r] = "released" /\ waiting[r][1] = "approval"
  /\ RecordWait(r, "timedOut", "recorded") /\ UNCHANGED granted

\* Mutant: only an explicit denial stops the tool, a timeout lets it run.
AfterApprovalUnlessDenied(r) ==
  /\ At(r, "approval")
  /\ Resume(r, IF Result(r) = "denied" THEN Answered(local[r]) ELSE Perform(local[r]))

AfterApproval(r) ==
  /\ At(r, "approval")
  /\ Resume(r, IF Result(r) = "approved" THEN Perform(local[r]) ELSE Answered(local[r]))

(* Handoff to a child agent, and tools *)

\* The child is created and the run parked, then the child is enqueued.
InvokeChild(r) == At(r, "handoff") /\ Suspend(r, "invoked")
StartChild(r) == status[r] = "invoked" /\ Pass(r, "waiting")

\* The child reaches its terminal status; its attempt then journals the outcome
\* for the parent (settle_parent), wakes it and enqueues it.
ChildEnds(r) ==
  /\ status[r] = "waiting" /\ waiting[r][1] = "handoff"
  /\ Pass(r, "released")

SettleParent(r, outcome) ==
  /\ status[r] = "released" /\ waiting[r][1] = "handoff"
  /\ RecordWait(r, outcome, "recorded") /\ UNCHANGED granted

AfterHandoff(r) ==
  /\ At(r, "handoff") /\ Recorded(r)
  /\ IF Result(r) = "completed" THEN Continue(r, Answered(local[r])) ELSE Throw(r)

ExecuteTool(r) ==
  /\ At(r, "tool")
  /\ Produce(r, "done")
  /\ executed' = [executed EXCEPT ![r] = @ \cup {<<local[r].at, Head(local[r].calls).name>>}]
  /\ UNCHANGED <<sessions, memory, sent, granted, before>>

AfterTool(r) == At(r, "tool") /\ Resume(r, Answered(local[r]))

(* Structured output, memory, session *)

AfterAnswer(r) ==
  Goto(local[r], IF HasMemory THEN <<"memory-remember">>
                 ELSE IF Session[r] # NoSession THEN <<"save-session">> ELSE <<"return">>)

ValidateOutput(r) ==
  /\ At(r, "output")
  /\ Continue(r, IF HasOutput /\ ~local[r].json
                 THEN [Goto(local[r], <<"llm-output-fix">>) EXCEPT
                         !.messages = @ \o <<Text("assistant", "text", {r}), Text("user", "text", {r})>>]
                 ELSE AfterAnswer(r))

CallFix(r) ==
  /\ At(r, "llm-output-fix")
  /\ \E json \in BOOLEAN : Produce(r, json)
  /\ sent' = [sent EXCEPT ![r] = @ \cup {<<local[r].at, local[r].messages>>}]
  /\ UNCHANGED <<sessions, memory, executed, granted, before>>

AfterFix(r) ==
  /\ At(r, "llm-output-fix") /\ Recorded(r)
  /\ IF Result(r) THEN Continue(r, AfterAnswer(r)) ELSE Throw(r)

StoreTurn(r) ==
  /\ At(r, "memory-remember")
  /\ Produce(r, "done") /\ Remember(r)
  /\ UNCHANGED <<sessions, history>>

AfterRemember(r) ==
  /\ At(r, "memory-remember")
  /\ Resume(r, Goto(local[r], IF Session[r] # NoSession THEN <<"save-session">> ELSE <<"return">>))

\* What save-session writes: this attempt's conversation, not the store's.
Conversation(r) ==
  Newest(Append(local[r].messages, Text("assistant", "text", {r})), HistoryWindow)

SaveSession(r) ==
  /\ At(r, "save-session")
  /\ Produce(r, "done")
  /\ sessions' = [sessions EXCEPT ![Session[r]] = Conversation(r)]
  /\ UNCHANGED <<memory, history>>

AfterSave(r) == At(r, "save-session") /\ Resume(r, Goto(local[r], <<"return">>))

Return(r) ==
  /\ At(r, "return")
  /\ status' = [status EXCEPT ![r] = "completed"]
  /\ local' = [local EXCEPT ![r] = FreshAttempt]
  /\ UNCHANGED <<journal, waiting, failures, sessions, memory, faults, history>>

-----------------------------------------------------------------------------
(* Faults *)

\* The steps whose body can throw: provider, tool and store calls.
Throwing == {"session", "memory-recall", "memory-compress", "llm", "tool",
             "llm-output-fix", "memory-remember", "save-session"}

\* StepFailure: the engine retries the attempt until the step's retries are spent.
FailStep(r) ==
  /\ status[r] = "running" /\ local[r].at[1] \in Throwing
  /\ ~Recorded(r) /\ local[r].out = None
  /\ faults < MaxFaults /\ faults' = faults + 1
  /\ failures' = [failures EXCEPT ![r] = @ + 1]
  /\ status' = [status EXCEPT ![r] = IF failures[r] >= StepRetries THEN "failed" ELSE @]
  /\ local' = [local EXCEPT ![r] = FreshAttempt]
  /\ UNCHANGED <<journal, waiting, sessions, memory, history>>

\* Runs between two store calls of the engine, with no job and nobody but the
\* caller, the sweep or the child's attempt to make the second.
Undriven == {"created", "invoked", "released", "recorded"}

\* The process dies: every attempt and the in-memory store are gone, and so is
\* whoever was driving a run from one store call to the next.
Crash ==
  /\ faults < MaxFaults /\ faults' = faults + 1
  /\ local' = [r \in Runs |-> FreshAttempt]
  /\ memory' = {}
  /\ status' = [r \in Runs |-> IF status[r] \in Undriven THEN "stranded" ELSE status[r]]
  /\ UNCHANGED <<journal, waiting, failures, sessions, history>>

-----------------------------------------------------------------------------
Init ==
  /\ status = [r \in Runs |-> "new"]
  /\ journal = [r \in Runs |-> <<>>]
  /\ waiting = [r \in Runs |-> None]
  /\ failures = [r \in Runs |-> 0]
  /\ local = [r \in Runs |-> FreshAttempt]
  /\ sessions = [s \in SessionIds |-> <<>>]
  /\ memory = {}
  /\ faults = 0
  /\ sent = [r \in Runs |-> {}]
  /\ executed = [r \in Runs |-> {}]
  /\ granted = [r \in Runs |-> {}]
  /\ before = [r \in Runs |-> {}]

\* The attempts share one event loop: code that waits for nothing, between steps
\* or over recorded ones, runs before any call of another attempt returns.  Such
\* code reads and writes its own attempt only, so one order of two attempts'
\* silent steps stands for all.
Silent(r) == status[r] = "running" /\ local[r].out = None
             /\ (Recorded(r) \/ local[r].at[1] \in {"dispatch", "output", "return"})

\* What the worker does with a run by itself.
Advance(r) ==
  /\ (\E q \in Runs : Silent(q)) => r = CHOOSE q \in Runs : Silent(q)
  /\ \/ ReadSession(r) \/ AfterSession(r) \/ Recall(r) \/ AfterRecall(r)
     \/ CompressWorkingMemory(r) \/ AfterCompress(r)
     \/ CallModel(r) \/ AfterModel(r) \/ Dispatch(r) \/ EndIteration(r)
     \/ OpenGate(r) \/ AfterApproval(r) \/ InvokeChild(r) \/ AfterHandoff(r)
     \/ ExecuteTool(r) \/ AfterTool(r) \/ ValidateOutput(r) \/ CallFix(r) \/ AfterFix(r)
     \/ StoreTurn(r) \/ AfterRemember(r) \/ SaveSession(r) \/ AfterSave(r) \/ Return(r)
     \/ RecordStep(r)

Answer(r) == \E gate \in DOMAIN journal[r] \cup {waiting[r]}, approved \in BOOLEAN :
               Decide(r, gate, approved)
ChildSettles(r) == \E outcome \in {"completed", "failed"} : SettleParent(r, outcome)

\* The store calls of the engine for a run without an attempt.
Drive(r) == Enqueue(r) \/ ApprovalTimeout(r) \/ RecordTimeout(r)
            \/ StartChild(r) \/ ChildEnds(r) \/ ChildSettles(r)

AllEnded == \A r \in Runs : status[r] \in {"completed", "failed", "stranded"}
Done == AllEnded /\ UNCHANGED vars

Next ==
  \/ \E r \in Runs : Trigger(r) \/ Drive(r) \/ Advance(r) \/ Answer(r) \/ FailStep(r)
  \/ Crash
  \/ Done

\* The worker keeps working, the sweep fires the timeouts, children end.  That some
\* run moves is enough: no run moves for ever.
Move(r) == Trigger(r) \/ Drive(r) \/ Advance(r)
Fairness == WF_vars(\E r \in Runs : Move(r))

Spec == Init /\ [][Next]_vars /\ Fairness

-----------------------------------------------------------------------------
(* Properties *)

\* Types of the durable state; a run that waits knows on what.
TypeOK ==
  /\ status \in [Runs -> {"new", "running", "waiting", "completed", "failed", "stranded"}
                           \cup Undriven]
  /\ failures \in [Runs -> 0 .. StepRetries + 1]
  /\ faults \in 0 .. MaxFaults
  /\ memory \subseteq Runs
  /\ \A r \in Runs : status[r] \in {"waiting", "invoked", "released"} => waiting[r] # None

\* A conversation cut inside a tool exchange: the window (agent.ts 267, 500) or
\* compress (memory.ts 130) took the calls and kept their results.
Cut(messages) ==
  \E j \in DOMAIN messages :
     messages[j].kind = "toolResult" /\ (j = 1 \/ messages[j - 1].kind = "summary")

\* A request whose conversation was not cut inside a tool exchange is one the
\* provider can accept: each tool call of a turn, known or not, granted or
\* denied, is answered once and in order by the message behind it (agent.ts
\* 338-417), and no result is without its calls, in the format of all four
\* adapters.
RequestsWellFormed ==
  \A r \in Runs : \A request \in sent[r] :
     ~Cut(request[2]) => \A wire \in Wires(request[2]) : WellFormed(wire)

\* Every request is one the provider can accept, those of a cut history too.
RequestsAccepted ==
  \A r \in Runs : \A request \in sent[r] :
     \A wire \in Wires(request[2]) : WellFormed(wire)

\* A tool that requires approval runs only after an operator approved that very
\* call: a timeout, a denial, a crash or an answer meant for another call never
\* stands in for it (agent.ts 351-376).
GatedNeedsApproval ==
  \A r \in Runs : \A e \in executed[r] :
     Tools[e[2]].requiresApproval => <<"approval", e[1][2], e[1][3]>> \in granted[r]

\* A replay asks the model what the first attempt asked: the request of an
\* llm-i is the same in every attempt, though other runs write the session and
\* the memory between them (agent.ts 260-294).
ReplaysAskTheSame ==
  \A r \in Runs : \A one, other \in sent[r] : one[1] = other[1] => one = other

\* A run triggered after another of its session had completed, with no third run
\* overlapping, knows that turn: it, or a summary of it, is in each of its
\* requests (agent.ts 262-268, 491-505).
HistoryCarriesOver ==
  \A r, q \in Runs :
     /\ q \in before[r] /\ Session[q] = Session[r] /\ Session[r] # NoSession
     /\ \A p \in Runs \ {q, r} : Session[p] = Session[r] => p \in before[q] \/ r \in before[p]
     => \A request \in sent[r] : \E j \in DOMAIN request[2] : q \in request[2][j].of

\* Every triggered run ends, unless a process dies between two store calls that
\* the engine makes for it: gates time out, iterations are bounded, and a replay
\* makes progress over what its journal already has, wherever else a crash falls.
RunsEnd ==
  \A r \in Runs : status[r] # "new" ~> status[r] \in {"completed", "failed", "stranded"}
=============================================================================
