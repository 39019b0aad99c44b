----------------------------- MODULE OpenCodeSession -----------------------------
(* One OpenCode adapter: createAdapterForRun of adapter.ts over the runs of *)
(* session.ts.  A run is a session at the OpenCode server: it is made once  *)
(* and shared by the calls until one of them invalidates it, its prompts    *)
(* queue, each is watched by polling the events of the session, and it is   *)
(* aborted at most once.  The server is external: it may end a prompt, lose *)
(* it, ask for a decision, fail a poll, and go on after an abort.  Every    *)
(* request to it is answered or given up in the end (fetch has a limit).    *)
EXTENDS Naturals, Sequences, SequencesExt, FiniteSets

CONSTANTS
    Calls,          \* calls of execute, numbered in the order they are made
    Runs,           \* runs that may be made, as many as there are calls
    Retries         \* retryCount of the prompt strategy

ASSUME OpenCodeAssumption ==
    /\ Calls \subseteq Nat /\ IsFiniteSet(Calls) /\ Runs = 1 .. Cardinality(Calls)
    /\ Retries \in Nat

VARIABLES
    pc,             \* how far a call has come
    at,             \* its run
    attempt,        \* attempts of execute so far
    strategy,       \* the strategy it has resolved
    watch,          \* its event monitor
    signal,         \* open calls whose signal has fired
    invalidated,    \* open calls that have invalidated their run
    current,        \* the run that is shared, or 0
    made,           \* createOpenCodeRun of each run
    opener,         \* the call whose signal a run depends on
    queue,          \* prompts of each run, with the one that is worked on
    shut,           \* runs that are closed
    stop,           \* abortPromise of each run
    owned,          \* ownedRuns
    adapter,        \* "closing" once close has been called
    native,         \* whether the structured output state resolves to native
    work,           \* calls whose prompt the server works on
    known,          \* those that were reported, or told to stop by an abort
    unread,         \* events of each session after SessionMonitorState.after
    based,          \* SessionMonitorState.initialized
    unheard            \* calls that failed with events to come, or not to be read

callVars == <<pc, at, attempt, strategy, watch, signal, invalidated>>
runVars == <<current, made, opener, queue, shut, stop, owned, adapter, native>>
serverVars == <<work, known, unread, based, unheard>>
sessionVars == <<callVars, runVars, serverVars>>

Watched == {"preparing", "prompting", "reading"}
Draining == {"draining", "accepting"}
Open == Watched \cup Draining \cup {"resolving", "queued", "stopping", "ending", "releasing"}

SessionTypeOK ==
    /\ pc \in [Calls -> Open \cup {"idle", "settled"}]
    /\ at \in [Calls -> Runs \cup {0}] /\ current \in Runs \cup {0}
    /\ attempt \in [Calls -> 0 .. Retries + 1]
    /\ strategy \in [Calls -> {"native", "prompt"}]
    /\ watch \in [Calls -> {"off", "on", "failed"}]
    /\ made \in [Runs -> {"none", "creating", "open", "failed"}]
    /\ queue \in [Runs -> Seq(Calls)]
    /\ stop \in [Runs -> {"none", "pending", "answered"}]
    /\ owned \cup shut \subseteq Runs
    /\ adapter \in {"open", "closing", "releasing", "closed"}
    /\ known \subseteq work /\ work \subseteq Calls
    /\ unread \in [Runs -> SUBSET (Calls \X (1 .. Retries + 1))]

SessionInit ==
    /\ pc = [c \in Calls |-> "idle"] /\ at = [c \in Calls |-> 0]
    /\ attempt = [c \in Calls |-> 0] /\ strategy = [c \in Calls |-> "prompt"]
    /\ watch = [c \in Calls |-> "off"] /\ signal = {} /\ invalidated = {}
    /\ current = 0 /\ made = [r \in Runs |-> "none"] /\ opener = [r \in Runs |-> {}]
    /\ queue = [r \in Runs |-> <<>>] /\ shut = {} /\ stop = [r \in Runs |-> "none"]
    /\ owned = {} /\ adapter = "open" /\ native \in BOOLEAN
    /\ work = {} /\ known = {} /\ unheard = {}
    /\ unread = [r \in Runs |-> {}] /\ based = [r \in Runs |-> FALSE]

-----------------------------------------------------------------------------
(* Runs. *)

Goto(c, to) == pc' = [pc EXCEPT ![c] = to]

(* abort of the given runs, those that were not aborted before. *)
StopRuns(rs) ==
    LET fresh == {r \in rs : stop[r] = "none"}
    IN  /\ stop' = [r \in Runs |-> IF r \in fresh THEN "pending" ELSE stop[r]]
        /\ known' = known \cup {c \in work : at[c] \in fresh}

(* release of the tracker, and close of the run. *)
Release(rs) ==
    /\ owned' = owned \ rs /\ shut' = shut \cup rs /\ StopRuns(rs)

(* What close of a run waits for. *)
Down(r) == stop[r] = "answered" /\ queue[r] = <<>>

(* A faulty PromptAborted: the close of the run is forgotten. *)
PromptAbortedByCaller(c) == c \in signal

(* What a prompt is submitted with: the signal of the caller and of the run.*)
PromptAborted(c) == c \in signal \/ at[c] \in shut

(* Of the structured output state: a runtime that could not read native     *)
(* output back once is asked for text from then on.                         *)
ResolvedStrategy == IF native THEN "native" ELSE "prompt"

(* An answer that does not fit the schema is repaired in the prompt strategy.*)
MayRepeat(c) == strategy[c] = "prompt" /\ attempt[c] <= Retries

(* resolve of the tracker; the run is made by the first call that asks. *)
Enter(c) ==
    /\ pc[c] = "idle" /\ \A d \in Calls : d < c => pc[d] # "idle"
    /\ IF adapter # "open"
       THEN /\ Goto(c, "settled") /\ UNCHANGED <<at, current, made, opener>>
       ELSE LET r == IF current # 0 THEN current
                     ELSE CHOOSE n \in Runs : made[n] = "none" /\ \A k \in 1 .. n - 1 : made[k] # "none"
            IN  /\ Goto(c, "resolving") /\ at' = [at EXCEPT ![c] = r] /\ current' = r
                /\ IF current # 0 THEN UNCHANGED <<made, opener>>
                   ELSE /\ made' = [made EXCEPT ![r] = "creating"]
                        /\ opener' = [opener EXCEPT ![r] = {c}]
    /\ UNCHANGED <<attempt, strategy, watch, signal, invalidated,
                   queue, shut, stop, owned, adapter, native, serverVars>>

(* createOpenCodeRunForSession; a failure stays what the calls share. *)
Create(r) ==
    /\ made[r] = "creating"
    /\ \/ opener[r] \cap signal = {} /\ made' = [made EXCEPT ![r] = "open"]
       \/ made' = [made EXCEPT ![r] = "failed"]
    /\ UNCHANGED <<callVars, current, opener, queue, shut, stop, owned, adapter, native, serverVars>>

(* The call has its run, resolves its strategy and queues its prompt.  A    *)
(* run that is there when the adapter has been closed is released.          *)
Resolve(c) ==
    LET r == at[c]
    IN  /\ pc[c] = "resolving" /\ made[r] = "open"
        /\ IF adapter = "open"
           THEN /\ owned' = owned \cup {r} /\ UNCHANGED <<shut, stop, known>>
                /\ strategy' = [strategy EXCEPT ![c] = ResolvedStrategy]
                /\ attempt' = [attempt EXCEPT ![c] = 1]
                /\ Goto(c, "queued") /\ queue' = [queue EXCEPT ![r] = Append(@, c)]
           ELSE Goto(c, "releasing") /\ Release({r}) /\ UNCHANGED <<strategy, attempt, queue>>
        /\ UNCHANGED <<at, watch, signal, invalidated, current, made, opener, adapter, native,
                       work, unread, based, unheard>>

ResolveFails(c) ==
    /\ pc[c] = "resolving" /\ made[at[c]] = "failed"
    /\ Goto(c, "ending") /\ at' = [at EXCEPT ![c] = 0]
    /\ UNCHANGED <<attempt, strategy, watch, signal, invalidated, runVars, serverVars>>

-----------------------------------------------------------------------------
(* Prompts. *)

(* The prompt is over before it has watched anything. *)
Refuse(c) ==
    /\ Goto(c, "ending")
    /\ queue' = [queue EXCEPT ![at[c]] = Tail(@)]

Begin(c) ==
    LET r == at[c]
    IN  /\ pc[c] = "queued" /\ Head(queue[r]) = c
        /\ IF r \in shut \/ stop[r] # "none" \/ signal \cap ({c} \cup opener[r]) # {}
           THEN Refuse(c) ELSE Goto(c, "preparing") /\ UNCHANGED queue
        /\ UNCHANGED <<at, attempt, strategy, watch, signal, invalidated,
                       current, made, opener, shut, stop, owned, adapter, native, serverVars>>

(* monitorSession could not read where the session stands. *)
PrepareFails(c) ==
    /\ pc[c] = "preparing" /\ ~based[at[c]]
    /\ Refuse(c)
    /\ UNCHANGED <<at, attempt, strategy, watch, signal, invalidated,
                   current, made, opener, shut, stop, owned, adapter, native, serverVars>>

(* The events so far are skipped if it is not known which of them were read;*)
(* then the prompt is sent, unless it was aborted in the meantime.          *)
Prompt(c) ==
    LET r == at[c]
    IN  /\ pc[c] = "preparing" /\ (based[r] \/ ~PromptAborted(c))
        /\ Goto(c, "prompting")
        /\ based' = [based EXCEPT ![r] = TRUE]
        /\ unread' = [unread EXCEPT ![r] = IF based[r] THEN @ ELSE {}]
        /\ watch' = [watch EXCEPT ![c] = "on"]
        /\ work' = IF PromptAborted(c) THEN work ELSE work \cup {c}
        /\ UNCHANGED <<at, attempt, strategy, signal, invalidated, runVars, known, unheard>>

(* The server has ended the prompt, and has written its events. *)
EndTurn(c) ==
    /\ c \in work
    /\ work' = work \ {c} /\ known' = known \ {c}
    /\ unread' = [unread EXCEPT ![at[c]] =
                    IF at[c] \in shut THEN @ ELSE @ \cup {<<c, attempt[c]>>}]
    /\ UNCHANGED <<callVars, runVars, based, unheard>>

(* A prompt that was sent has its answer. *)
HasAnswer(c) == pc[c] = "prompting" /\ c \notin work /\ ~PromptAborted(c)

Answered(c) ==
    /\ HasAnswer(c)
    /\ Goto(c, "reading")
    /\ UNCHANGED <<at, attempt, strategy, watch, signal, invalidated, runVars, serverVars>>

(* An answer of the server that says the runtime cannot do native output. *)
Incompatible(c) ==
    /\ HasAnswer(c) /\ strategy[c] = "native"
    /\ Goto(c, "draining") /\ native' = FALSE
    /\ UNCHANGED <<at, attempt, strategy, watch, signal, invalidated,
                   current, made, opener, queue, shut, stop, owned, adapter, serverVars>>

(* No answer: the connection is lost, or the run was closed. *)
Disconnect(c) ==
    /\ pc[c] = "prompting" /\ c \notin signal
    /\ Goto(c, "draining") /\ known' = known \cup ({c} \cap work) /\ unheard' = unheard \cup {c}
    /\ UNCHANGED <<at, attempt, strategy, watch, signal, invalidated, runVars,
                   work, unread, based>>

(* The monitor has ended first: the server asks for a decision, or a poll   *)
(* has failed.  The run is invalidated and its session is aborted.          *)
Interrupted(c) ==
    /\ pc[c] = "prompting" /\ ~PromptAborted(c)
    /\ \E ends \in {"off", "failed"} : watch' = [watch EXCEPT ![c] = ends]
    /\ Goto(c, "stopping")
    /\ invalidated' = invalidated \cup {c} /\ current' = 0
    /\ StopRuns({at[c]})
    /\ UNCHANGED <<at, attempt, strategy, signal, made, opener, queue, shut, owned, adapter, native,
                   work, unread, based, unheard>>

(* A prompt that was interrupted or cancelled has waited for the abort. *)
Stopped(c) ==
    /\ pc[c] = "stopping" \/ (pc[c] = "prompting" /\ c \in signal)
    /\ stop[at[c]] = "answered"
    /\ Goto(c, "draining")
    /\ UNCHANGED <<at, attempt, strategy, watch, signal, invalidated, runVars, serverVars>>

(* The answer is parsed, and the messages of the session are read back. *)
ReadBack(c) ==
    /\ pc[c] = "reading"
    /\ \/ Goto(c, "accepting") /\ UNCHANGED native
       \/ /\ Goto(c, "draining")
          /\ \E downgraded \in (IF strategy[c] = "prompt" THEN {FALSE} ELSE BOOLEAN) :
                native' = (native /\ ~downgraded)
    /\ UNCHANGED <<at, attempt, strategy, watch, signal, invalidated,
                   current, made, opener, queue, shut, stop, owned, adapter, serverVars>>

-----------------------------------------------------------------------------
(* Events. *)

Poll(c) ==
    /\ pc[c] \in {"prompting", "reading"} /\ watch[c] = "on"
    /\ unread' = [unread EXCEPT ![at[c]] = {}]
    /\ UNCHANGED <<callVars, runVars, work, known, based, unheard>>

(* A tool that was left running in the background cannot be followed. *)
Background(c) ==
    /\ pc[c] = "prompting" /\ watch[c] = "on" /\ c \in work
    /\ known' = known \cup {c}
    /\ UNCHANGED <<callVars, runVars, work, unread, based, unheard>>

(* A poll that fails when the answer is there. *)
PollFails(c) ==
    /\ pc[c] = "reading" /\ watch[c] = "on"
    /\ watch' = [watch EXCEPT ![c] = "failed"]
    /\ UNCHANGED <<pc, at, attempt, strategy, signal, invalidated, runVars, serverVars>>

(* A faulty FinalRead: what was not read in time is read by the next prompt.*)
FinalReadForgets(r) ==
    /\ \/ unread' = [unread EXCEPT ![r] = {}]
       \/ UNCHANGED unread
    /\ UNCHANGED <<based, unheard>>

(* readFinalHistory: the last events are read, or there is no time for it   *)
(* and the next prompt skips them.                                          *)
FinalRead(r) ==
    /\ \/ unread' = [unread EXCEPT ![r] = {}] /\ UNCHANGED based
       \/ based' = [based EXCEPT ![r] = FALSE] /\ UNCHANGED unread
    /\ UNCHANGED unheard

(* closeInteractionMonitor; then the prompt leaves the queue, and the call  *)
(* is over, or has an answer that does not fit the schema and asks again,   *)
(* behind the prompts of other calls.                                       *)
Drain(c) ==
    LET r == at[c]
        rest == Tail(queue[r])
    IN  /\ pc[c] \in Draining
        /\ watch' = [watch EXCEPT ![c] = "off"]
        /\ \/ watch[c] = "on" /\ FinalRead(r)
           \/ watch[c] # "off" /\ unheard' = unheard \cup {c} /\ UNCHANGED <<unread, based>>
           \/ watch[c] = "off" /\ UNCHANGED <<unread, based, unheard>>
        /\ \/ Goto(c, "ending") /\ queue' = [queue EXCEPT ![r] = rest] /\ UNCHANGED attempt
           \/ /\ pc[c] = "accepting" /\ unheard' = unheard /\ MayRepeat(c)
              /\ attempt' = [attempt EXCEPT ![c] = @ + 1]
              /\ Goto(c, "queued") /\ queue' = [queue EXCEPT ![r] = Append(rest, c)]
        /\ UNCHANGED <<at, strategy, signal, invalidated,
                       current, made, opener, shut, stop, owned, adapter, native, work, known>>

-----------------------------------------------------------------------------
(* Ends. *)

(* A call that is over leaves nothing in the adapter. *)
SettleCall(c) ==
    /\ Goto(c, "settled")
    /\ strategy' = [strategy EXCEPT ![c] = "prompt"]
    /\ signal' = signal \ {c} /\ invalidated' = invalidated \ {c}

(* A call that was cancelled invalidates what the calls share by then, and  *)
(* releases the run it had.                                                 *)
End(c) ==
    /\ pc[c] = "ending"
    /\ current' = IF c \in signal \ invalidated THEN 0 ELSE current
    /\ IF c \in signal \cup invalidated /\ at[c] # 0
       THEN Release({at[c]}) /\ Goto(c, "releasing") /\ UNCHANGED <<strategy, signal, invalidated>>
       ELSE UNCHANGED <<owned, shut, stop, known>> /\ SettleCall(c)
    /\ UNCHANGED <<at, attempt, watch, made, opener, queue, adapter, native,
                   work, unread, based, unheard>>

Released(c) ==
    /\ pc[c] = "releasing" /\ Down(at[c])
    /\ SettleCall(c)
    /\ UNCHANGED <<at, attempt, watch, runVars, serverVars>>

(* A faulty StopAnswered: the abort has no timeout, and no answer. *)
StopUnanswered(r) == stop[r] = "answered" /\ UNCHANGED sessionVars

(* The abort of a session is answered, or is not within two seconds; work   *)
(* that was told to stop may go on in both cases.                           *)
StopAnswered(r) ==
    /\ stop[r] = "pending" /\ stop' = [stop EXCEPT ![r] = "answered"]
    /\ \E halted \in {{}, {c \in work : at[c] = r}} :
          work' = work \ halted /\ known' = known \ halted
    /\ UNCHANGED <<callVars, current, made, opener, queue, shut, owned, adapter, native,
                   unread, based, unheard>>

(* The listener of a prompt aborts its session at once. *)
AbortCall(c) ==
    /\ pc[c] \in Open /\ c \notin signal
    /\ signal' = signal \cup {c}
    /\ IF pc[c] \in Watched THEN StopRuns({at[c]}) ELSE UNCHANGED <<stop, known>>
    /\ UNCHANGED <<pc, at, attempt, strategy, watch, invalidated,
                   current, made, opener, queue, shut, owned, adapter, native,
                   work, unread, based, unheard>>

Close ==
    /\ adapter = "open" /\ adapter' = "closing"
    /\ UNCHANGED <<callVars, current, made, opener, queue, shut, stop, owned, native, serverVars>>

(* A faulty CloseOwned: it does not wait for the runs that are being made.  *)
CloseOwnedAtOnce ==
    /\ adapter = "closing" /\ adapter' = "releasing"
    /\ Release(owned)
    /\ UNCHANGED <<callVars, current, made, opener, queue, native, work, unread, based, unheard>>

CloseOwned ==
    /\ adapter = "closing" /\ \A c \in Calls : pc[c] # "resolving"
    /\ adapter' = "releasing" /\ Release(owned)
    /\ UNCHANGED <<callVars, current, made, opener, queue, native, work, unread, based, unheard>>

CloseReturns ==
    /\ adapter = "releasing" /\ \A r \in shut : Down(r)
    /\ adapter' = "closed"
    /\ UNCHANGED <<callVars, current, made, opener, queue, shut, stop, owned, native, serverVars>>

SessionProgress ==
    \/ CloseOwned \/ CloseReturns
    \/ \E r \in Runs : Create(r) \/ StopAnswered(r)
    \/ \E c \in Calls :
          \/ Resolve(c) \/ ResolveFails(c) \/ Begin(c) \/ PrepareFails(c) \/ Prompt(c)
          \/ Answered(c) \/ Incompatible(c) \/ Disconnect(c) \/ Stopped(c)
          \/ ReadBack(c) \/ Drain(c) \/ End(c) \/ Released(c)

SessionNext ==
    \/ SessionProgress \/ Close
    \/ \E c \in Calls :
          \/ Enter(c) \/ AbortCall(c) \/ EndTurn(c)
          \/ Interrupted(c) \/ Poll(c) \/ Background(c) \/ PollFails(c)

SessionSpec == SessionInit /\ [][SessionNext]_sessionVars /\ WF_sessionVars(SessionProgress)

-----------------------------------------------------------------------------
(* Properties. *)

Contract ==
    INSTANCE AgentSession WITH
        SessionOf <- [c \in Calls |-> "session"],
        call <- [c \in Calls |-> IF pc[c] \in Open THEN "open" ELSE pc[c]]

(* The calls of an OpenCode adapter keep the contract of an adapter: no     *)
(* prompt is sent beside work that nobody knows of, in this session or the  *)
(* one that replaced it, and a call answers only when the server has ended  *)
(* its prompt, was told to while it worked on it, or the caller was warned. *)
WorkAccounted == Contract!Spec

(* The events a prompt passes on as its own are those of this attempt and   *)
(* of no earlier one, however late or badly the events were read before.    *)
(* The exceptions are a call that lost its connection, and one that failed  *)
(* because its events could not be read: the run of neither is invalidated, *)
(* and the next prompt passes their events on.                              *)
OwnEvents ==
    [][\A r \in Runs : based[r] =>
          \A event \in unread[r] \ unread'[r] :
              LET c == Head(queue[r])
              IN  event = <<c, attempt[c]>> \/ event[1] \in unheard]_sessionVars

(* When close of the adapter has returned, every session it has ever opened *)
(* was aborted and has no prompt under way: none is made or used later.     *)
ClosedLeavesNothing ==
    adapter = "closed" =>
        /\ \A r \in Runs : made[r] # "creating" /\ (made[r] = "open" => r \in shut)
        /\ \A c \in Calls : pc[c] \notin Watched \cup Draining \cup {"stopping"}

(* Every call answers, and so does the close of the adapter. *)
CallsEnd == <>[](adapter \in {"open", "closed"} /\ \A c \in Calls : pc[c] \notin Open)

=============================================================================
