------------------------------- MODULE AcpSession -------------------------------
(* One adapter of the Agent Client Protocol (libs/acp): its calls queue for *)
(* a private agent, a process that takes one prompt at a time.  A call      *)
(* reads the stream of its prompt, and prompts again when the answer does   *)
(* not fit the task.  Whatever ends a stream early disconnects the agent,   *)
(* and the next call has a new one.  The tools a stream tells of are        *)
(* followed by AcpToolReducer, their spans by createAcpObservability.       *)
(* The agent and the connection of @mastra/acp are external.                *)
EXTENDS Naturals, Sequences, FiniteSets

CONSTANTS
    AcpCalls,      \* the calls of execute
    Tools,         \* the ids of tool calls an agent may use in an attempt
    MaxRepairs,    \* structuredOutputRetryCount
    MaxRecords     \* MAX_TOOL_RECORD_COUNT

Nobody == "nobody"
Agents == 1..(Cardinality(AcpCalls) + 1)

VARIABLES
    at,            \* how far a call of execute has come
    answered,      \* what it answers
    line,          \* the execution queue
    agent,         \* the agent of agentState
    prompt,        \* whose prompt each agent has had last
    busy,          \* agents that work on their prompt
    gone,          \* agents that were disconnected
    scope,         \* permissionScope.current of each agent
    requested,     \* calls whose permission scope was asked
    asked,         \* calls whose own agent has asked
    attempt,       \* attempts of each call
    tool,          \* the records of the tools of the attempt
    closings,      \* how often each of those was closed
    records,       \* recordCount of each call
    spans,         \* spans that are open: a call, or a call and its tool
    left           \* calls whose signal has fired

acpVars == <<at, answered, line, agent, prompt, busy, gone, scope, requested, asked, attempt,
             tool, closings, records, spans, left>>
toolVars == <<tool, closings, records, spans>>
agentVars == <<agent, prompt, busy, gone, scope>>

InStream == {"streaming", "failing"}
Outcomes == {"success", "failure", "incomplete", "cancelled"}

AcpTypeOK ==
    /\ at \in [AcpCalls -> {"idle", "queued", "prompting", "answering", "settled"} \cup InStream]
    /\ answered \in [AcpCalls -> {"none", "ok", "interaction", "cancelled", "failed", "malformed"}]
    /\ agent \in Agents /\ busy \cup gone \subseteq Agents
    /\ scope \in [Agents -> AcpCalls \cup {Nobody}]
    /\ tool \in [AcpCalls -> [Tools -> {"none", "open"} \cup Outcomes]]

AcpInit ==
    /\ at = [c \in AcpCalls |-> "idle"]
    /\ answered = [c \in AcpCalls |-> "none"] /\ line = <<>>
    /\ agent = 1 /\ busy = {} /\ gone = {}
    /\ prompt = [a \in Agents |-> Nobody] /\ scope = [a \in Agents |-> Nobody]
    /\ requested = {} /\ asked = {} /\ left = {}
    /\ attempt = [c \in AcpCalls |-> 0] /\ records = [c \in AcpCalls |-> 0]
    /\ tool = [c \in AcpCalls |-> [x \in Tools |-> "none"]]
    /\ closings = [c \in AcpCalls |-> [x \in Tools |-> 0]]
    /\ spans = {}

Goto(c, to) == at' = [at EXCEPT ![c] = to]
Span(c) == <<c, Nobody>>

-----------------------------------------------------------------------------
(* The tools of an attempt. *)

Close(c, which, outcome) ==
    /\ tool' = [tool EXCEPT ![c] = [x \in Tools |-> IF x \in which THEN outcome ELSE @[x]]]
    /\ closings' = [closings EXCEPT ![c] = [x \in Tools |-> IF x \in which THEN @[x] + 1 ELSE @[x]]]
    /\ spans' = spans \ {<<c, x>> : x \in which}

Opened(c) == {x \in Tools : tool[c][x] = "open"}

(* A tool call, or more of one: the first opens a record and a span.  One   *)
(* that is closed already is not opened again.                              *)
ToolCall(c, x) ==
    /\ at[c] = "streaming" /\ agent \in busy
    /\ tool[c][x] = "none" /\ records[c] < MaxRecords
    /\ records' = [records EXCEPT ![c] = @ + 1]
    /\ tool' = [tool EXCEPT ![c][x] = "open"]
    /\ spans' = spans \cup {<<c, x>>}
    /\ UNCHANGED <<at, answered, line, agentVars, requested, asked, attempt, closings, left>>

(* The result of a tool closes it, once. *)
ToolResult(c, x) ==
    /\ at[c] = "streaming" /\ agent \in busy /\ tool[c][x] = "open"
    /\ \E outcome \in {"success", "failure"} : Close(c, {x}, outcome)
    /\ UNCHANGED <<at, answered, line, agentVars, requested, asked, attempt, records, left>>

-----------------------------------------------------------------------------
(* A call. *)

Enqueue(c) ==
    /\ at[c] = "idle"
    /\ Goto(c, "queued") /\ line' = Append(line, c)
    /\ UNCHANGED <<answered, agentVars, requested, asked, attempt, toolVars, left>>

(* The call answers: finish closes the spans that are left, and the next    *)
(* execution of the queue begins.                                           *)
Settle(c, how) ==
    /\ Goto(c, "settled")
    /\ answered' = [answered EXCEPT ![c] = how]
    /\ line' = Tail(line)
    /\ spans' = {s \in spans : s[1] # c}

(* A call that was aborted in the queue, or that selects a model, ends.     *)
Execute(c) ==
    /\ at[c] = "queued" /\ Head(line) = c
    /\ \/ /\ c \notin left
          /\ Goto(c, "prompting")
          /\ scope' = [scope EXCEPT ![agent] = c]
          /\ spans' = spans \cup {Span(c)}
          /\ UNCHANGED <<answered, line>>
       \/ Settle(c, IF c \in left THEN "cancelled" ELSE "failed") /\ UNCHANGED scope
    /\ UNCHANGED <<agent, prompt, busy, gone, requested, asked, attempt, tool, closings, records, left>>

(* agent.stream: the prompt is sent, or nothing is and the agent goes.  An  *)
(* attempt has its own records.                                             *)
StartStream(c) ==
    /\ at[c] = "prompting"
    /\ attempt' = [attempt EXCEPT ![c] = @ + 1]
    /\ tool' = [tool EXCEPT ![c] = [x \in Tools |-> "none"]]
    /\ closings' = [closings EXCEPT ![c] = [x \in Tools |-> 0]]
    /\ \/ /\ Goto(c, "streaming")
          /\ prompt' = [prompt EXCEPT ![agent] = c] /\ busy' = busy \cup {agent}
          /\ UNCHANGED gone
       \/ /\ Goto(c, "failing") /\ gone' = gone \cup {agent}
          /\ UNCHANGED <<prompt, busy>>
    /\ UNCHANGED <<answered, line, agent, scope, requested, asked, records, spans, left>>

(* The stream fails, breaks a limit or the protocol, or the call is aborted *)
(* or asked for a decision: the tools close and the agent is disconnected.  *)
StreamFails(c) ==
    /\ at[c] = "streaming"
    /\ Goto(c, "failing")
    /\ gone' = gone \cup {agent}
    /\ Close(c, Opened(c), IF c \in left THEN "cancelled" ELSE "failure")
    /\ UNCHANGED <<answered, line, agent, prompt, busy, scope, requested, asked, attempt, records, left>>

(* A faulty AnswerFailure: the agent that failed is kept. *)
AnswerFailureKept(c) ==
    /\ at[c] = "failing"
    /\ Settle(c, IF c \in left THEN "cancelled" ELSE "failed")
    /\ scope' = [scope EXCEPT ![agent] = Nobody]
    /\ UNCHANGED <<agent, prompt, busy, gone, requested, asked, attempt, tool, closings, records, left>>

(* The cleanup of a stream ends, or has taken its 100 ms; the call answers, *)
(* and the agent of the next one is new.                                    *)
AnswerFailure(c) ==
    /\ at[c] = "failing"
    /\ Settle(c, IF c \in requested THEN "interaction" ELSE IF c \in left THEN "cancelled" ELSE "failed")
    /\ scope' = [scope EXCEPT ![agent] = Nobody]
    /\ agent' = agent + 1
    /\ UNCHANGED <<prompt, busy, gone, requested, asked, attempt, tool, closings, records, left>>

(* The stream is at its end: tools without a result are incomplete. *)
StreamEnds(c) ==
    /\ at[c] = "streaming" /\ agent \notin busy
    /\ Goto(c, "answering")
    /\ Close(c, Opened(c), "incomplete")
    /\ UNCHANGED <<answered, line, agentVars, requested, asked, attempt, records, left>>

(* A permission that was asked for decides; else the output is that of the  *)
(* task, or is repaired by another prompt, or has been too often.           *)
Answer(c) ==
    /\ at[c] = "answering"
    /\ \/ /\ c \notin requested /\ attempt[c] <= MaxRepairs
          /\ Goto(c, "prompting") /\ UNCHANGED <<answered, line, scope, spans>>
       \/ /\ Settle(c, IF c \in requested THEN "interaction" ELSE "ok")
          /\ scope' = [scope EXCEPT ![agent] = Nobody]
       \/ /\ c \notin requested /\ attempt[c] > MaxRepairs
          /\ Settle(c, "malformed") /\ scope' = [scope EXCEPT ![agent] = Nobody]
    /\ UNCHANGED <<agent, prompt, busy, gone, requested, asked, attempt, tool, closings, records, left>>

Leave(c) ==
    /\ at[c] \notin {"idle", "settled"} /\ c \notin left
    /\ left' = left \cup {c}
    /\ UNCHANGED <<at, answered, line, agentVars, requested, asked, attempt, toolVars>>

-----------------------------------------------------------------------------
(* The agents. *)

(* The scope that onPermissionRequest of an agent has closed over. *)
ScopeOf(a) == a

(* An agent asks for a permission, which is refused.  One that was          *)
(* disconnected may have asked before.                                      *)
AskPermission(a) ==
    /\ a \in busy /\ prompt[a] \notin asked
    /\ asked' = asked \cup {prompt[a]}
    /\ requested' = requested \cup ({scope[ScopeOf(a)]} \ {Nobody})
    /\ UNCHANGED <<at, answered, line, agentVars, attempt, toolVars, left>>

(* An agent has done what its prompt says, or has stopped. *)
PromptEnds(a) ==
    /\ a \in busy
    /\ busy' = busy \ {a}
    /\ UNCHANGED <<at, answered, line, agent, prompt, gone, scope, requested, asked, attempt, toolVars, left>>

-----------------------------------------------------------------------------
AcpProgress ==
    \/ \E c \in AcpCalls : Execute(c) \/ StartStream(c) \/ AnswerFailure(c) \/ StreamEnds(c) \/ Answer(c)
    \/ \E a \in Agents : PromptEnds(a)

(* An abort, and a decision that was asked for, end the stream that waits.  *)
Interrupted == \E c \in AcpCalls : c \in left \cup requested /\ StreamFails(c)

AcpNext ==
    \/ AcpProgress
    \/ \E c \in AcpCalls : Enqueue(c) \/ Leave(c) \/ StreamFails(c)
    \/ \E c \in AcpCalls, x \in Tools : ToolCall(c, x) \/ ToolResult(c, x)
    \/ \E a \in Agents : AskPermission(a)

AcpOver == \A c \in AcpCalls : at[c] = "settled"
AcpRests == \A c \in AcpCalls : at[c] \in {"idle", "settled"}

-----------------------------------------------------------------------------
Contract ==
    INSTANCE AgentSession WITH
        Calls <- AcpCalls,
        SessionOf <- [c \in AcpCalls |-> 1],
        call <- [c \in AcpCalls |-> CASE at[c] = "idle" -> "idle" [] at[c] = "settled" -> "settled" [] OTHER -> "open"],
        work <- {prompt[a] : a \in busy},
        known <- {prompt[a] : a \in gone} \ {Nobody}

(* The adapter keeps the contract of a session: a prompt is sent only when  *)
(* no agent works unknown, and a call answers when its prompt has ended or  *)
(* its agent was told to end.                                               *)
AcpAccounted == Contract!Spec

(* A call ends for want of a decision only if its own agent has asked for   *)
(* one, not one that an earlier call has left behind.                       *)
OwnDecision == \A c \in AcpCalls : answered[c] = "interaction" => c \in asked

(* Each tool of an attempt has one end, whatever the stream says after it,  *)
(* and when a call has answered none of its tools or spans is open.         *)
ToolsEndOnce ==
    /\ \A c \in AcpCalls, x \in Tools :
          closings[c][x] = IF tool[c][x] \in Outcomes THEN 1 ELSE 0
    /\ \A c \in AcpCalls : at[c] = "settled" => Opened(c) = {} /\ \A s \in spans : s[1] # c

=============================================================================
