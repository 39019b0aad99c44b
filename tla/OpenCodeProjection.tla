--------------------------- MODULE OpenCodeProjection ---------------------------
(* What one call of the OpenCode adapter tells of the tools its prompts use *)
(* (libs/opencode): the events of the session and, when the prompt is over, *)
(* its messages pass through the dispatcher of attempt-transitions.ts, a    *)
(* new one for each prompt, which reports activities, and through the spans *)
(* of observability.ts, one set for the call.  A tool is told of in one of  *)
(* two formats; the messages have only the native one.  The server sends    *)
(* events late, again and out of order; a span may refuse an operation.     *)
EXTENDS Naturals, FiniteSets

CONSTANTS
    Tools,          \* tool calls
    MessageOf,      \* the assistant message each belongs to: 1, 2, ...
    Old,            \* how many messages the session has when the call begins
    MaxPrompts,     \* prompts of the call: one and its repairs
    PageSize,       \* messages of a page
    MaxPages,       \* maxMessageHistoryPages
    MaxSpans,       \* MAX_TOOL_IDENTITIES
    MaxRefusals     \* span operations that fail

Unlocated == 0     \* legacy events may not name the message
Messages == 1..(Old + MaxPrompts)

VARIABLES
    phase,      \* of the call
    textual,    \* whether the strategy is "prompt": the messages are read
    format,     \* how the events of each tool are written
    prompts,    \* prompts of the call so far
    listed,     \* messages the session has
    ran,        \* how far each tool is, at the server
    seen,       \* terminalObservations of the dispatcher
    named,      \* toolNames and activityIdentities
    located,    \* toolMessageIDs: tools with their message
    history,    \* messageHistory of the run
    pages,      \* pages read by this dispatchMessageHistory
    unsent,     \* messages of the page that are still to be dispatched
    span,       \* the spans of the call
    fallback,   \* fallbackModel is taken
    disabled,   \* the projection to spans has been given up
    refusals,   \* operations that a span refused
    shown,      \* activities of each tool in this prompt
    strange,    \* tools of earlier calls whose activity was reported
    blind       \* a read of the messages has failed

transitionVars == <<seen, named, located, shown, strange>>
spanVars == <<span, disabled, refusals>>
historyVars == <<history, pages, unsent, blind>>
projectionVars == <<phase, textual, format, prompts, listed, ran, transitionVars, spanVars,
                    historyVars, fallback>>

Formats == {"native", "legacy", "old"}
Statuses == {"running", "completed", "error"}
Terminal == {"completed", "error"}
Agent == <<"agent">>
Model(m) == <<"model", m>>
ToolSpan(m, t) == <<"tool", m, t>>
SpanKeys == {Agent} \cup {Model(m) : m \in Messages}
                \cup {ToolSpan(m, t) : m \in Messages \cup {Unlocated}, t \in Tools}

ProjectionTypeOK ==
    /\ phase \in {"idle", "snapshot", "prompting", "history", "sending", "answered", "settled"}
    /\ format \in [Tools -> Formats] /\ prompts \in 0..MaxPrompts
    /\ ran \in [Tools -> Statuses \cup {"none"}] /\ listed \in {0} \cup Messages
    /\ span \in [SpanKeys -> {"none", "open", "ended", "stuck"}]
    /\ history.known \subseteq Messages /\ pages \in 0..MaxPages
    /\ strange \subseteq Tools /\ refusals \in 0..MaxRefusals

ProjectionInit ==
    /\ phase = "idle" /\ textual \in BOOLEAN /\ prompts = 0
    /\ format \in [Tools -> Formats] /\ \A t \in Tools : MessageOf[t] <= Old => format[t] = "native"
    /\ listed = Old
    /\ ran = [t \in Tools |-> IF MessageOf[t] <= Old THEN "completed" ELSE "none"]
    /\ seen = {} /\ named = {} /\ located = {} /\ strange = {} /\ blind = FALSE
    /\ history = [ready |-> FALSE, cursor |-> 0, known |-> {}] /\ pages = 0 /\ unsent = {}
    /\ span = [k \in SpanKeys |-> "none"] /\ fallback = FALSE /\ disabled = FALSE /\ refusals = 0
    /\ shown = [t \in Tools |-> [ends |-> 0, revived |-> FALSE]]

-----------------------------------------------------------------------------
(* Spans. *)

OpenSpans == {k \in SpanKeys : span[k] = "open"}

(* disableProjection: after one failure every span is ended, as far as it   *)
(* lets itself be, and no other is made.                                    *)
Disable ==
    /\ disabled' = TRUE
    /\ \E stuck \in SUBSET OpenSpans :
          /\ Cardinality(stuck) <= 1
          /\ span' = [k \in SpanKeys |-> IF k \in stuck THEN "stuck"
                                         ELSE IF k \in OpenSpans THEN "ended" ELSE span[k]]

(* createChildSpan, update or end throws. *)
Refused ==
    /\ refusals < MaxRefusals /\ refusals' = refusals + 1
    /\ Disable

ToolSpans == {k \in SpanKeys : k[1] = "tool" /\ span[k] # "none"}

Apply(k, ends) ==
    span' = [span EXCEPT ![k] = IF ends \/ @ = "ended" THEN "ended" ELSE "open"]

(* observe: applyModel or applyTool, the span is made by the first event.   *)
Project(k, ends) ==
    IF disabled THEN UNCHANGED spanVars
    ELSE IF k[1] = "tool" /\ span[k] = "none" /\ Cardinality(ToolSpans) >= MaxSpans
         THEN Disable /\ UNCHANGED refusals
         ELSE \/ Apply(k, ends) /\ UNCHANGED <<disabled, refusals>>
              \/ span[k] # "ended" /\ Refused

-----------------------------------------------------------------------------
(* The dispatcher of one prompt. *)

(* onActivity: what is reported of a tool after its end is counted. *)
Report(t, ends) ==
    /\ shown' = [shown EXCEPT ![t] =
                    [ends |-> IF ends THEN @.ends + 1 ELSE @.ends,
                     revived |-> @.revived \/ (~ends /\ @.ends > 0)]]
    /\ strange' = IF MessageOf[t] <= Old THEN strange \cup {t} ELSE strange

Unreported == UNCHANGED <<shown, strange>>

(* dispatchObservation of a tool, which has its name and its message. *)
Native(t, status) ==
    LET identity == <<"tool", t>>
        ends == status \in Terminal
    IN  IF identity \in seen
        THEN UNCHANGED <<transitionVars, spanVars>>
        ELSE /\ seen' = IF ends THEN seen \cup {identity} ELSE seen
             /\ named' = named \cup {t} /\ UNCHANGED located
             /\ Project(ToolSpan(MessageOf[t], t), ends)
             /\ Report(t, ends)

(* dispatchLegacyTool: an event that names neither tool nor message relies  *)
(* on the earlier ones of the tool.                                         *)
Legacy(t, status, withName) ==
    LET identity == <<"legacy", t>>
        ends == status \in Terminal
        known == named \cup (IF withName THEN {t} ELSE {})
        place == located \cup (IF format[t] = "legacy" THEN {t} ELSE {})
    IN  IF identity \in seen
        THEN UNCHANGED <<transitionVars, spanVars>>
        ELSE /\ seen' = IF ends THEN seen \cup {identity} ELSE seen
             /\ named' = known
             /\ located' = IF ends THEN place \ {t} ELSE place
             /\ IF t \in known
                THEN /\ Project(ToolSpan(IF t \in place THEN MessageOf[t] ELSE Unlocated, t), ends)
                     /\ Report(t, ends)
                ELSE Unreported /\ UNCHANGED spanVars

(* dispatchObservation of an assistant message. *)
Assistant(m, ends) ==
    IF <<"assistant", m>> \in seen
    THEN UNCHANGED <<transitionVars, spanVars>>
    ELSE /\ seen' = IF ends THEN seen \cup {<<"assistant", m>>} ELSE seen
         /\ Project(Model(m), ends)
         /\ UNCHANGED <<named, located>> /\ Unreported

-----------------------------------------------------------------------------
(* The prompts of the call. *)

(* What an event may say of a tool: how far it is, or was. *)
Reached(t, status) == ran[t] # "none" /\ status \in {"running", ran[t]}

(* A prompt has a dispatcher of its own. *)
BeginPrompt ==
    /\ prompts' = prompts + 1
    /\ seen' = {} /\ named' = {} /\ located' = {}
    /\ shown' = [t \in Tools |-> [ends |-> 0, revived |-> FALSE]]
    /\ phase' = IF textual /\ ~history.ready THEN "snapshot" ELSE "prompting"
    /\ pages' = 0

(* createOpenCodeObservability: without a span to begin under, or one of    *)
(* its own, nothing is projected.                                           *)
ExecuteCall ==
    /\ phase = "idle" /\ BeginPrompt
    /\ \E traced \in BOOLEAN :
          /\ disabled' = ~traced
          /\ span' = [span EXCEPT ![Agent] = IF traced THEN "open" ELSE "none"]
    /\ UNCHANGED <<textual, format, listed, ran, refusals, fallback, strange, history, unsent, blind>>

(* The server works on the prompt: a message, and the tool it uses. *)
Work ==
    /\ phase = "prompting"
    /\ \/ listed < Old + prompts /\ listed' = listed + 1 /\ UNCHANGED ran
       \/ \E t \in Tools : /\ MessageOf[t] = listed /\ ran[t] \in {"none", "running"}
                           /\ \E s \in Statuses \ {ran[t]} : ran' = [ran EXCEPT ![t] = s]
                           /\ UNCHANGED listed
    /\ UNCHANGED <<phase, textual, format, prompts, transitionVars, spanVars, historyVars, fallback>>

(* waitForInteraction: the monitor runs until the prompt has been settled. *)
Monitored == phase \in {"prompting", "history", "sending"}

Event ==
    /\ Monitored
    /\ \/ \E t \in Tools, s \in Statuses :
             /\ MessageOf[t] = Old + prompts /\ Reached(t, s)
             /\ \/ format[t] = "native" /\ Native(t, s)
                \/ /\ format[t] # "native"
                   /\ \E withName \in BOOLEAN : Legacy(t, s, withName)
       \/ /\ listed = Old + prompts
          /\ \E ends \in BOOLEAN : Assistant(listed, ends)
    /\ UNCHANGED <<phase, textual, format, prompts, listed, ran, historyVars, fallback>>

(* dispatchMessageObservations: the tool of a message, if it has used one. *)
Dispatch(m) ==
    IF \E t \in Tools : MessageOf[t] = m /\ ran[t] # "none"
    THEN LET t == CHOOSE t \in Tools : MessageOf[t] = m IN Native(t, ran[t])
    ELSE UNCHANGED <<transitionVars, spanVars>>

(* The answer has the message of the prompt. *)
Respond ==
    /\ phase = "prompting" /\ listed = Old + prompts
    /\ Dispatch(listed)
    /\ phase' = IF textual THEN "history" ELSE "answered"
    /\ pages' = 0
    /\ UNCHANGED <<textual, format, prompts, listed, ran, history, unsent, blind, fallback>>

(* A page of dispatchMessageHistory.  listMessages passes no order on, so   *)
(* the server gives the last messages before the cursor, or of all.  Until  *)
(* the history is ready the pages are read back to the first message, the   *)
(* snapshot reporting nothing; a server that answers with the messages only *)
(* has no page before this one (parseMessagePage).  Then the last page is   *)
(* enough, and what is known is not reported.                               *)
ReadPage ==
    \E paged \in BOOLEAN :
    LET baseline == ~history.ready
        until == IF baseline /\ history.cursor # 0 THEN history.cursor - 1 ELSE listed
        first == until - PageSize + 1
        page == first..until \cap 1..listed
        more == baseline /\ paged /\ first > 1
        last == ~more \/ pages + 1 = MaxPages
    IN  /\ phase \in {"snapshot", "history"} /\ unsent = {}
        /\ pages' = pages + 1
        /\ unsent' = IF phase = "snapshot" THEN {}
                     ELSE {m \in page : baseline \/ m \notin history.known}
        /\ history' = [ready |-> last, cursor |-> IF last THEN 0 ELSE first,
                       known |-> history.known \cup page]
        /\ phase' = IF ~last THEN phase
                    ELSE IF phase = "snapshot" THEN "prompting" ELSE "sending"
        /\ UNCHANGED <<textual, format, prompts, listed, ran, transitionVars, spanVars, blind,
                       fallback>>

(* One message of the page goes to the dispatcher. *)
SendPart ==
    /\ unsent # {}
    /\ LET m == CHOOSE m \in unsent : \A n \in unsent : m <= n
       IN  Dispatch(m) /\ unsent' = unsent \ {m}
    /\ UNCHANGED <<phase, textual, format, prompts, listed, ran, history, pages, blind, fallback>>

(* addMessageIDs of the answer. *)
Reconciled ==
    /\ phase = "sending" /\ unsent = {} /\ phase' = "answered"
    /\ history' = [history EXCEPT !.known = @ \cup {listed}]
    /\ UNCHANGED <<textual, format, prompts, listed, ran, transitionVars, spanVars, pages, unsent,
                   blind, fallback>>

(* listMessages fails: a diagnostic, and on. *)
ReadFails ==
    /\ phase \in {"snapshot", "history"} /\ unsent = {}
    /\ blind' = TRUE
    /\ phase' = IF phase = "snapshot" THEN "prompting" ELSE "sending"
    /\ UNCHANGED <<textual, format, prompts, listed, ran, transitionVars, spanVars, history, pages,
                   unsent, fallback>>

(* observeTerminal: the message of the answer closes its span, or makes the *)
(* one fallback that a call may have.                                       *)
ObserveTerminal ==
    LET unmatched == ~disabled /\ span[Model(listed)] = "none"
    IN  /\ fallback' = (fallback \/ unmatched)
        /\ IF unmatched /\ fallback THEN UNCHANGED spanVars ELSE Project(Model(listed), TRUE)

(* An answer that does not fit the task is repaired. *)
Repair ==
    /\ phase = "answered" /\ prompts < MaxPrompts
    /\ ObserveTerminal /\ BeginPrompt
    /\ UNCHANGED <<textual, format, listed, ran, strange, history, unsent, blind>>

(* finish: tools, then models, then the agent; one refusal ends them all.   *)
Finish ==
    \/ disabled /\ UNCHANGED spanVars
    \/ /\ ~disabled /\ UNCHANGED <<disabled, refusals>>
       /\ span' = [k \in SpanKeys |-> IF span[k] = "open" THEN "ended" ELSE span[k]]
    \/ ~disabled /\ Refused

(* The call is answered, or fails: interaction, disconnection, the signal. *)
SettleCall ==
    /\ phase \notin {"idle", "settled"} /\ phase' = "settled"
    /\ Finish /\ unsent' = {}
    /\ UNCHANGED <<textual, format, prompts, listed, ran, transitionVars, history, pages, blind, fallback>>

CallProgress ==
    \/ ExecuteCall \/ Respond \/ ReadPage \/ ReadFails \/ SendPart \/ Reconciled
    \/ Repair \/ SettleCall

ProjectionNext == Work \/ Event \/ CallProgress

ProjectionOver == phase = "settled"

-----------------------------------------------------------------------------
(* A tool told of in the native format ends once in each prompt, whatever   *)
(* the events, the answer and the messages repeat, and nothing is reported  *)
(* of it afterwards (createAttemptTransitionDispatcher).                    *)
ActivitiesEndOnce ==
    \A t \in Tools : format[t] = "native" => shown[t].ends <= 1 /\ ~shown[t].revived

(* No span is left open under an agent span that has ended, or was never    *)
(* made, nor by a call that is over (createOpenCodeObservability).          *)
SpansNested ==
    span[Agent] # "open" \/ phase = "settled" => OpenSpans = {}

(* A call reports no tool of before it, unless the session could not be     *)
(* read (snapshotPromptMessageHistory).                                     *)
OwnTools ==
    strange = {} \/ blind

ProjectionSafe ==
    ProjectionTypeOK /\ ActivitiesEndOnce /\ SpansNested /\ OwnTools
=============================================================================
