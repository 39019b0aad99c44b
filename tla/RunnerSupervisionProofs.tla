------------------------ MODULE RunnerSupervisionProofs ------------------------
(* Proofs about RunnerSupervision, for any number of events and signals and *)
(* any size of the queue, and about the command line (MCRunner), which may   *)
(* run through a host instead (HostedRun).                                   *)
EXTENDS MCRunner, FiniteSetTheorems, SequenceTheorems, TLAPS

(* How many turns and signals there can be: a child exits once, and is     *)
(* sent at most one signal beside those of the terminal.                   *)
CountsFit ==
    /\ Len(turns) <= signalled + (IF child = "exited" THEN 1 ELSE 0)
    /\ childSignals <= grouped + (IF graceTimer = "expired" \/ cli # "running" THEN 1 ELSE 0)

(* Where turns, messages and signals come from: every request to cancel    *)
(* has a signal of the user, or the end of the supervision, behind it.     *)
CausesFit ==
    /\ \A n \in 1..Len(turns) : IF turns[n] = "signal" THEN signalled > 0 ELSE child = "exited"
    /\ cancelling => signalled > 0
    /\ down \in {<<"cancel">>, <<"start", "cancel">>} => cancelling
    /\ child \in {"booting", "idle"} => down \in {<<"start">>, <<"start", "cancel">>}
    /\ child \in Phases \ {"booting", "idle", "exited"} => down \in {<<>>, <<"cancel">>}
    /\ graceTimer # "off" => cancelling
    /\ cli # "running" => Settled
    /\ childSignals > 0 => grouped > 0 \/ graceTimer = "expired" \/ Settled
    /\ control => signalled > 0 \/ Settled

(* What has happened by each stage of startRun.                            *)
StageFits ==
    /\ child \in {"booting", "idle"} =>
          pending = <<>> /\ up = <<>> /\ sequence = 0 /\ delivered = 0 /\ ~transportFailed
          /\ failure = "none" /\ terminalEvent = "none"
    /\ child \in {"booting", "idle", "loading", "resolving"} => resources = "none"
    /\ child \in {"booting", "idle", "loading", "resolving", "preflight", "running"} => outcome = "none"
    /\ child = "loading" => sequence <= 1
    /\ child = "resolving" => sequence <= 2
    /\ child = "preflight" => sequence <= 3
    /\ child \in {"running", "closing"} => sequence <= MaxEvents + 3
    /\ child = "catching" /\ ~transportFailed => sequence <= MaxEvents + 3
    /\ child \in {"closing", "flushing"} /\ outcome = "none" => control
    /\ outcome = "cancelled" => control
    /\ child = "flushing" => resources # "open" /\ (failure # "none" => transportFailed)

(* A terminal event in the queue is its last, and that of the outcome.     *)
QueueFits ==
    Alive => \A n \in 1..Len(pending) :
        pending[n].type \in Terminals =>
            n = Len(pending) /\ child = "flushing" /\ pending[n].type = Terminal

(* The numbers on the way to the supervisor.                               *)
NumbersFit ==
    /\ ~transportFailed => sequence = delivered + Len(pending)
    /\ ~transportFailed => \A n \in 1..Len(pending) : pending[n].seq = delivered + n
    /\ transportFailed => delivered < sequence /\ failure # "none"
    /\ \A n \in 1..(Len(up) - 1) : up[n + 1].seq = up[n].seq + 1
    /\ Alive /\ up # <<>> => up[Len(up)].seq = delivered

(* What holds once a terminal event of this type has been sent.            *)
TerminalSent(type) ==
    /\ pending = <<>> /\ resources # "open"
    /\ child = "exited" \/ (child = "flushing" /\ failure = "none")
    /\ type = "succeeded" => outcome = "succeeded" /\ failure = "none"
    /\ type = "cancelled" => control

SentFits ==
    /\ \A n \in 1..Len(up) : up[n].type \in Terminals => n = Len(up) /\ TerminalSent(up[n].type)
    /\ terminalEvent # "none" => up = <<>> /\ TerminalSent(terminalEvent)

(* What the supervision resolves with, and why the child exits.            *)
ResultFits ==
    /\ result \in Terminals => terminalEvent = result
    /\ Settled /\ terminalEvent # "none" => result = terminalEvent
    /\ result \in {"cancelled", "cancelFailure"} => signalled > 0
    /\ Settled /\ Alive => terminalEvent # "none" \/ graceTimer = "expired"
    /\ exitCode # "none" => ~Alive
    /\ exitCode = "130" /\ resources = "open" => graceTimer = "expired" \/ grouped > 0

RunnerInv ==
    /\ TypeOK /\ CountsFit /\ CausesFit /\ StageFits /\ QueueFits /\ NumbersFit
    /\ SentFits /\ ResultFits

-----------------------------------------------------------------------------
(* The operators. *)

(* What a message leaves on the channel to the child.                      *)
LEMMA DownTail ==
    /\ Tail(<<"start">>) = <<>> /\ Tail(<<"cancel">>) = <<>>
    /\ Tail(<<"start", "cancel">>) = <<"cancel">>
    /\ <<"start">> # <<"cancel">> /\ <<"start">> # <<>> /\ <<"cancel">> # <<>>
    /\ <<"start", "cancel">> # <<"cancel">> /\ <<"start", "cancel">> # <<"start">>
    /\ <<"start", "cancel">> # <<>>
OBVIOUS

(* What a request to cancel leaves there.                                  *)
LEMMA DownAppend ==
    /\ Append(<<>>, "cancel") = <<"cancel">>
    /\ Append(<<"start">>, "cancel") = <<"start", "cancel">>
<1> DEFINE s == Append(<<"start">>, "cancel")
           t == <<"start", "cancel">>
<1>1. s \in Seq({"start", "cancel"}) /\ Len(s) = 2 /\ s[1] = "start" /\ s[2] = "cancel"
  OBVIOUS
<1>2. t \in Seq({"start", "cancel"}) /\ Len(t) = 2 /\ t[1] = "start" /\ t[2] = "cancel"
  OBVIOUS
<1>3. \A n \in 1..Len(s) : s[n] = t[n]
  BY <1>1, <1>2
<1> HIDE DEF s, t
<1>4. s = t
  BY <1>1, <1>2, <1>3, SeqEqual
<1>5. Append(<<>>, "cancel") = <<"cancel">>
  OBVIOUS
<1> QED BY <1>4, <1>5 DEF s, t

(* What a turn of the CLI leaves of those that wait.                       *)
LEMMA NextTurn ==
    ASSUME TypeOK, turns # <<>>, turns' = Tail(turns)
    PROVE  /\ turns' \in Seq({"signal", "exit", "error"})
           /\ Len(turns) \in Nat /\ Len(turns') \in Nat /\ Len(turns') = Len(turns) - 1
           /\ \A n \in 1..Len(turns') : n + 1 \in 1..Len(turns) /\ turns'[n] = turns[n + 1]
           /\ Head(turns) = turns[1] /\ 1 \in 1..Len(turns)
BY DEF TypeOK

(* What another turn adds to them.                                         *)
LEMMA AnotherTurn ==
    ASSUME TypeOK, NEW turn \in {"signal", "exit", "error"}, turns' = Append(turns, turn)
    PROVE  /\ turns' \in Seq({"signal", "exit", "error"})
           /\ Len(turns) \in Nat /\ Len(turns') = Len(turns) + 1
           /\ turns'[Len(turns) + 1] = turn
           /\ \A n \in 1..Len(turns) : turns'[n] = turns[n]
           /\ \A n \in 1..Len(turns') : n \in 1..Len(turns) \/ n = Len(turns) + 1
BY DEF TypeOK

(* An event joins the queue, which had room for it.                        *)
LEMMA Queued ==
    ASSUME TypeOK, NEW type \in Terminals \cup {"event"}, Enqueue(type),
           Len(pending) < QueueLimit, sequence <= MaxEvents + 3
    PROVE  /\ pending' \in Seq(Envelopes) /\ Len(pending') = Len(pending) + 1
           /\ Len(pending') <= QueueLimit /\ Len(pending) \in Nat
           /\ sequence' = sequence + 1 /\ sequence' \in 0..(MaxEvents + 4)
           /\ \A n \in 1..Len(pending) : pending'[n] = pending[n]
           /\ \A n \in 1..Len(pending') : n \in 1..Len(pending) \/ n = Len(pending) + 1
           /\ pending'[Len(pending) + 1] = [type |-> type, seq |-> sequence + 1]
           /\ UNCHANGED <<failure, transportFailed, delivered>>
<1>1. /\ pending \in Seq(Envelopes) /\ sequence \in 0..(MaxEvents + 4) /\ QueueLimit \in Nat
      /\ MaxEvents \in Nat
  BY BoundsAssumption DEF TypeOK
<1>2. [type |-> type, seq |-> sequence + 1] \in Envelopes
  BY <1>1 DEF Envelopes
<1> QED BY <1>1, <1>2 DEF Enqueue, Envelope

(* The head of the queue leaves it.                                        *)
LEMMA HeadLeaves ==
    ASSUME TypeOK, pending # <<>>, pending' = Tail(pending)
    PROVE  /\ pending' \in Seq(Envelopes)
           /\ Len(pending) \in Nat /\ Len(pending') \in Nat /\ Len(pending') = Len(pending) - 1
           /\ \A n \in 1..Len(pending') : n + 1 \in 1..Len(pending) /\ pending'[n] = pending[n + 1]
           /\ Head(pending) = pending[1] /\ 1 \in 1..Len(pending) /\ Head(pending) \in Envelopes
BY DEF TypeOK

(* An event is written to the channel.                                     *)
LEMMA Written ==
    ASSUME TypeOK, NEW e \in Envelopes, up' = Append(up, e)
    PROVE  /\ up' \in Seq(Envelopes)
           /\ Len(up) \in Nat /\ Len(up') = Len(up) + 1
           /\ up'[Len(up) + 1] = e
           /\ \A n \in 1..Len(up) : up'[n] = up[n]
           /\ \A n \in 1..Len(up') : n \in 1..Len(up) \/ n = Len(up) + 1
           /\ up = <<>> <=> Len(up) = 0
           /\ up' # <<>>
BY DEF TypeOK

(* An event is read from it.                                               *)
LEMMA Read ==
    ASSUME TypeOK, up # <<>>, up' = Tail(up)
    PROVE  /\ up' \in Seq(Envelopes)
           /\ Len(up) \in Nat /\ Len(up') \in Nat /\ Len(up') = Len(up) - 1
           /\ \A n \in 1..Len(up') : n + 1 \in 1..Len(up) /\ up'[n] = up[n + 1]
           /\ Head(up) = up[1] /\ 1 \in 1..Len(up)
           /\ up' # <<>> => Len(up') \in 1..Len(up')
BY DEF TypeOK

(* The event queue with one more event: its numbers go on, and only the    *)
(* event that joined may be terminal.                                      *)
LEMMA Emitted ==
    ASSUME RunnerInv, NEW type \in Terminals \cup {"event"}, Accepts, Enqueue(type),
           sequence <= MaxEvents + 3, child \notin {"flushing", "exited"}, UNCHANGED up
    PROVE  /\ pending' \in Seq(Envelopes) /\ Len(pending') <= QueueLimit
           /\ sequence' = sequence + 1 /\ sequence' \in 0..(MaxEvents + 4)
           /\ UNCHANGED <<failure, transportFailed, delivered>>
           /\ \A n \in 1..Len(pending') :
                 pending'[n].type \in Terminals => n = Len(pending') /\ pending'[n].type = type
           /\ NumbersFit'
<1>1. TypeOK /\ NumbersFit /\ Len(pending) < QueueLimit /\ ~transportFailed
  BY DEF RunnerInv, NumbersFit, Accepts
<1>2. /\ pending' \in Seq(Envelopes) /\ Len(pending') = Len(pending) + 1
      /\ Len(pending') <= QueueLimit /\ Len(pending) \in Nat
      /\ sequence' = sequence + 1 /\ sequence' \in 0..(MaxEvents + 4)
      /\ \A n \in 1..Len(pending) : pending'[n] = pending[n]
      /\ \A n \in 1..Len(pending') : n \in 1..Len(pending) \/ n = Len(pending) + 1
      /\ pending'[Len(pending) + 1] = [type |-> type, seq |-> sequence + 1]
      /\ UNCHANGED <<failure, transportFailed, delivered>>
  BY <1>1, Queued
<1>3. \A n \in 1..Len(pending) : pending[n].type \notin Terminals
  BY DEF RunnerInv, QueueFits, Alive
<1>4. \A n \in 1..Len(pending') :
         pending'[n].type \in Terminals => n = Len(pending') /\ pending'[n].type = type
  BY <1>2, <1>3
<1>5. NumbersFit'
  <2>1. sequence = delivered + Len(pending) /\ \A n \in 1..Len(pending) : pending[n].seq = delivered + n
    BY <1>1 DEF NumbersFit
  <2>2. sequence \in Nat /\ delivered \in Nat /\ delivered' = delivered
    BY <1>1, <1>2, BoundsAssumption DEF TypeOK
  <2>3. ASSUME NEW n \in 1..Len(pending') PROVE pending'[n].seq = delivered' + n
    <3>1. CASE n \in 1..Len(pending)
      BY <1>2, <2>1, <2>2, <3>1
    <3>2. CASE n = Len(pending) + 1
      BY <1>2, <2>1, <2>2, <3>2
    <3> QED BY <1>2, <3>1, <3>2
  <2>4. sequence' = delivered' + Len(pending')
    BY <1>2, <2>1, <2>2
  <2>5. /\ \A n \in 1..(Len(up') - 1) : up'[n + 1].seq = up'[n].seq + 1
        /\ up' # <<>> => up'[Len(up')].seq = delivered'
    BY <1>1, <1>2 DEF NumbersFit, Alive
  <2> QED BY <1>1, <1>2, <2>3, <2>4, <2>5 DEF NumbersFit
<1> QED BY <1>2, <1>4, <1>5

(* The event queue that has overflowed, or not been touched.               *)
LEMMA NotEmitted ==
    ASSUME RunnerInv, Overflow \/ UNCHANGED queueVars, Alive, UNCHANGED up
    PROVE  /\ UNCHANGED <<pending, sequence, transportFailed, delivered>>
           /\ failure' \in {failure, "overflow"} /\ (failure # "none" => failure' = failure)
           /\ NumbersFit'
BY DEF RunnerInv, NumbersFit, Overflow, queueVars, Alive

(* What is written with the number after the last that was sent follows    *)
(* what is on the channel.                                                 *)
LEMMA NumbersGoOn ==
    ASSUME RunnerInv, Alive, NEW e \in Envelopes, up' = Append(up, e), e.seq = delivered + 1
    PROVE  /\ \A n \in 1..(Len(up') - 1) : up'[n + 1].seq = up'[n].seq + 1
           /\ up'[Len(up')].seq = delivered + 1
<1>1. /\ Len(up) \in Nat /\ Len(up') = Len(up) + 1 /\ up'[Len(up) + 1] = e
      /\ \A n \in 1..Len(up) : up'[n] = up[n]
      /\ up # <<>> <=> Len(up) > 0
  BY Written DEF RunnerInv
<1>2. /\ \A n \in 1..(Len(up) - 1) : up[n + 1].seq = up[n].seq + 1
      /\ Len(up) > 0 => up[Len(up)].seq = delivered
  BY <1>1 DEF RunnerInv, NumbersFit
<1>3. up'[Len(up')].seq = delivered + 1
  BY <1>1
<1>4. ASSUME NEW n \in 1..(Len(up') - 1) PROVE up'[n + 1].seq = up'[n].seq + 1
  <2>1. n \in 1..Len(up) /\ up'[n] = up[n]
    BY <1>1
  <2>2. CASE n = Len(up)
    <3>1. up'[n + 1].seq = delivered + 1
      BY <1>1, <1>3, <2>2
    <3>2. up[n].seq = delivered
      BY <1>1, <1>2, <2>1, <2>2
    <3> QED BY <2>1, <3>1, <3>2
  <2>3. CASE n # Len(up)
    <3>1. n \in 1..(Len(up) - 1) /\ n + 1 \in 1..Len(up)
      BY <1>1, <2>1, <2>3
    <3> QED BY <1>1, <1>2, <2>1, <3>1
  <2> QED BY <2>2, <2>3
<1> QED BY <1>3, <1>4

-----------------------------------------------------------------------------
(* The runner. *)

LEMMA BootKeeps == ASSUME RunnerInv, Boot PROVE RunnerInv'
<1>1. TypeOK'
  BY DEF RunnerInv, Boot, supervisorVars, osVars, runVars, queueVars, TypeOK, Phases
<1>2. CountsFit'
  BY DEF RunnerInv, Boot, supervisorVars, osVars, CountsFit
<1>3. CausesFit'
  BY DEF RunnerInv, Boot, supervisorVars, osVars, CausesFit, Settled
<1>4. StageFits'
  BY DEF RunnerInv, Boot, supervisorVars, runVars, queueVars, StageFits
<1>5. QueueFits'
  BY DEF RunnerInv, Boot, queueVars, QueueFits, Alive
<1>6. NumbersFit'
  BY DEF RunnerInv, Boot, queueVars, Alive, NumbersFit
<1>7. SentFits'
  BY DEF RunnerInv, Boot, supervisorVars, SentFits, TerminalSent
<1>8. ResultFits'
  BY DEF RunnerInv, Boot, supervisorVars, osVars, Settled, Alive, ResultFits
<1> QED BY <1>1, <1>2, <1>3, <1>4, <1>5, <1>6, <1>7, <1>8 DEF RunnerInv

(* A request to cancel is the last message there can be.                   *)
LEMMA ReceiveCancelKeeps == ASSUME RunnerInv, ReceiveCancel PROVE RunnerInv'
<1>0. down = <<"cancel">> /\ down' = <<>> /\ control' = TRUE /\ cancelling /\ signalled > 0
  BY DownTail DEF ReceiveCancel, RunnerInv, CausesFit
<1>1. TypeOK'
  <2>1. UNCHANGED <<supervisorVars, osVars, up, child, childSignals, runVars, queueVars, exitCode>>
    BY DEF ReceiveCancel
  <2> QED BY <1>0, <2>1 DEF RunnerInv, TypeOK, supervisorVars, osVars, runVars, queueVars
<1>2. CountsFit'
  BY DEF RunnerInv, ReceiveCancel, supervisorVars, osVars, CountsFit
<1>3. CausesFit'
  <2>1. UNCHANGED <<supervisorVars, osVars, child, childSignals>>
    BY DEF ReceiveCancel
  <2>2. child \notin {"booting", "idle"} /\ down' \notin {<<"cancel">>, <<"start", "cancel">>}
    BY <1>0, DownTail DEF ReceiveCancel, Phases
  <2> QED BY <1>0, <2>1, <2>2 DEF RunnerInv, CausesFit, supervisorVars, osVars, Settled
<1>4. StageFits'
  BY DEF RunnerInv, ReceiveCancel, runVars, queueVars, StageFits
<1>5. QueueFits'
  BY DEF RunnerInv, ReceiveCancel, runVars, queueVars, QueueFits, Alive, Terminal
<1>6. NumbersFit'
  BY DEF RunnerInv, ReceiveCancel, queueVars, Alive, NumbersFit
<1>7. SentFits'
  BY DEF RunnerInv, ReceiveCancel, supervisorVars, runVars, queueVars, SentFits, TerminalSent
<1>8. ResultFits'
  BY DEF RunnerInv, ReceiveCancel, supervisorVars, osVars, Settled, Alive, ResultFits
<1> QED BY <1>1, <1>2, <1>3, <1>4, <1>5, <1>6, <1>7, <1>8 DEF RunnerInv

LEMMA DisconnectKeeps == ASSUME RunnerInv, Disconnect PROVE RunnerInv'
<1>1. TypeOK'
  BY DEF RunnerInv, Disconnect, supervisorVars, osVars, runVars, queueVars, TypeOK
<1>2. CountsFit'
  BY DEF RunnerInv, Disconnect, osVars, CountsFit
<1>3. CausesFit'
  BY DEF RunnerInv, Disconnect, supervisorVars, osVars, CausesFit, Settled
<1>4. StageFits'
  BY DEF RunnerInv, Disconnect, supervisorVars, runVars, queueVars, StageFits
<1>5. QueueFits'
  BY DEF RunnerInv, Disconnect, runVars, queueVars, QueueFits, Terminal
<1>6. NumbersFit'
  BY DEF RunnerInv, Disconnect, queueVars, NumbersFit
<1>7. SentFits'
  BY DEF RunnerInv, Disconnect, supervisorVars, runVars, queueVars, SentFits, TerminalSent
<1>8. ResultFits'
  BY DEF RunnerInv, Disconnect, supervisorVars, osVars, Settled, ResultFits
<1> QED BY <1>1, <1>2, <1>3, <1>4, <1>5, <1>6, <1>7, <1>8 DEF RunnerInv

(* A signal cancels, or ends the runner that is asked again.               *)
LEMMA SignalKeeps == ASSUME RunnerInv, Signal PROVE RunnerInv'
<1>1. TypeOK'
  <2>1. UNCHANGED <<supervisorVars, cli, signalled, grouped, down, up, runVars, queueVars>>
    BY DEF Signal
  <2>2. /\ control' \in BOOLEAN /\ child' \in Phases
        /\ exitCode' \in {"none", "0", "1", "130", "signal"}
    BY DEF RunnerInv, TypeOK, Signal, Exits, Phases
  <2>3. childSignals' \in 0..(MaxSignals + 1)
    BY BoundsAssumption DEF RunnerInv, TypeOK, Signal, Exits
  <2>4. turns' \in Seq({"signal", "exit", "error"}) /\ Len(turns') <= MaxSignals + 1
    <3>1. CASE turns' = turns
      BY <3>1 DEF RunnerInv, TypeOK
    <3>2. CASE turns' = Append(turns, "exit")
      <4>1. Len(turns) <= signalled /\ signalled \in 0..MaxSignals
        BY DEF RunnerInv, TypeOK, CountsFit, Signal, Alive
      <4> QED BY <3>2, <4>1, AnotherTurn, BoundsAssumption DEF RunnerInv
    <3> QED BY <3>1, <3>2 DEF Signal, Exits
  <2> QED BY <2>1, <2>2, <2>3, <2>4 DEF RunnerInv, TypeOK, supervisorVars, runVars, queueVars
<1>2. CountsFit'
  BY DEF RunnerInv, Signal, Alive, Exits, TypeOK, CountsFit
<1>3. CausesFit'
  BY DEF RunnerInv, Signal, Alive, Exits, supervisorVars, TypeOK, CausesFit, Settled
<1>4. StageFits'
  BY DEF RunnerInv, Signal, Exits, supervisorVars, runVars, queueVars, StageFits
<1>5. QueueFits'
  BY DEF RunnerInv, Signal, Alive, Exits, runVars, queueVars, QueueFits, Terminal
<1>6. NumbersFit'
  BY DEF RunnerInv, Signal, queueVars, NumbersFit
<1>7. SentFits'
  BY DEF RunnerInv, Signal, Exits, supervisorVars, runVars, queueVars, SentFits, TerminalSent
<1>8. ResultFits'
  BY DEF RunnerInv, Signal, Alive, Exits, supervisorVars, runVars, CausesFit, Settled, SentFits,
     TerminalSent, ResultFits
<1> QED BY <1>1, <1>2, <1>3, <1>4, <1>5, <1>6, <1>7, <1>8 DEF RunnerInv

LEMMA PreflightKeeps == ASSUME RunnerInv, Preflight PROVE RunnerInv'
<1>1. TypeOK'
  <2>1. activeRun' \in BOOLEAN /\ child' \in Phases
    BY DEF RunnerInv, TypeOK, Preflight, Phases
  <2>2. UNCHANGED <<supervisorVars, osVars, down, up, control, childSignals, resources, outcome,
                    queueVars, exitCode>>
    BY DEF Preflight
  <2> QED BY <2>1, <2>2 DEF RunnerInv, TypeOK, supervisorVars, osVars, queueVars
<1>2. CountsFit'
  BY DEF RunnerInv, Preflight, supervisorVars, osVars, CountsFit
<1>3. CausesFit'
  BY DEF RunnerInv, Preflight, supervisorVars, osVars, Phases, CausesFit, Settled
<1>4. StageFits'
  BY BoundsAssumption DEF RunnerInv, Preflight, queueVars, TypeOK, StageFits
<1>5. QueueFits'
  BY DEF RunnerInv, Preflight, queueVars, QueueFits, Alive
<1>6. NumbersFit'
  BY DEF RunnerInv, Preflight, queueVars, Alive, NumbersFit
<1>7. SentFits'
  BY DEF RunnerInv, Preflight, supervisorVars, SentFits, TerminalSent
<1>8. ResultFits'
  BY DEF RunnerInv, Preflight, supervisorVars, osVars, Settled, Alive, ResultFits
<1> QED BY <1>1, <1>2, <1>3, <1>4, <1>5, <1>6, <1>7, <1>8 DEF RunnerInv

LEMMA FinishKeeps == ASSUME RunnerInv, Finish PROVE RunnerInv'
<1>1. TypeOK'
  BY DEF RunnerInv, Finish, supervisorVars, osVars, queueVars, TypeOK, Terminals, Phases
<1>2. CountsFit'
  BY DEF RunnerInv, Finish, supervisorVars, osVars, CountsFit
<1>3. CausesFit'
  BY DEF RunnerInv, Finish, supervisorVars, osVars, Phases, CausesFit, Settled
<1>4. StageFits'
  BY DEF RunnerInv, Finish, queueVars, StageFits
<1>5. QueueFits'
  BY DEF RunnerInv, Finish, queueVars, QueueFits, Alive
<1>6. NumbersFit'
  BY DEF RunnerInv, Finish, queueVars, Alive, NumbersFit
<1>7. SentFits'
  BY DEF RunnerInv, Finish, supervisorVars, SentFits, TerminalSent
<1>8. ResultFits'
  BY DEF RunnerInv, Finish, supervisorVars, osVars, Settled, Alive, ResultFits
<1> QED BY <1>1, <1>2, <1>3, <1>4, <1>5, <1>6, <1>7, <1>8 DEF RunnerInv

(* The first message is run.start: run.started is the first event.         *)
LEMMA ReceiveStartKeeps == ASSUME RunnerInv, ReceiveStart PROVE RunnerInv'
<1>0. /\ down \in {<<"start">>, <<"start", "cancel">>} /\ down' \in {<<>>, <<"cancel">>}
      /\ child = "idle" /\ child' = "loading"
      /\ (down' = <<"cancel">> => down = <<"start", "cancel">>)
      /\ pending' \in Seq(Envelopes) /\ Len(pending') <= QueueLimit
      /\ sequence = 0 /\ sequence' = 1 /\ sequence' \in 0..(MaxEvents + 4)
      /\ UNCHANGED <<failure, transportFailed, delivered>>
      /\ \A n \in 1..Len(pending') : pending'[n].type \notin Terminals
      /\ NumbersFit'
  <2>1. child = "idle" /\ child' = "loading" /\ Enqueue("event") /\ UNCHANGED up
    BY DEF ReceiveStart
  <2>2. pending = <<>> /\ sequence = 0 /\ failure = "none"
    BY <2>1 DEF RunnerInv, StageFits
  <2>3. Accepts /\ sequence <= MaxEvents + 3
    BY <2>2, BoundsAssumption DEF Accepts
  <2>4. /\ pending' \in Seq(Envelopes) /\ Len(pending') <= QueueLimit
        /\ sequence' = sequence + 1 /\ sequence' \in 0..(MaxEvents + 4)
        /\ UNCHANGED <<failure, transportFailed, delivered>>
        /\ \A n \in 1..Len(pending') :
              pending'[n].type \in Terminals => n = Len(pending') /\ pending'[n].type = "event"
        /\ NumbersFit'
    BY <2>1, <2>3, Emitted
  <2>5. "event" \notin Terminals
    BY DEF Terminals
  <2>6. down \in {<<"start">>, <<"start", "cancel">>} /\ down' = Tail(down)
    BY <2>1 DEF RunnerInv, CausesFit, ReceiveStart
  <2>7. down' \in {<<>>, <<"cancel">>} /\ (down' = <<"cancel">> => down = <<"start", "cancel">>)
    BY <2>6, DownTail
  <2> QED BY <2>1, <2>2, <2>4, <2>5, <2>6, <2>7
<1>1. TypeOK'
  <2>1. UNCHANGED <<supervisorVars, osVars, up, control, childSignals, runVars, exitCode>>
    BY DEF ReceiveStart
  <2> QED BY <1>0, <2>1 DEF RunnerInv, TypeOK, Phases, supervisorVars, osVars, runVars
<1>2. CountsFit'
  BY DEF RunnerInv, ReceiveStart, supervisorVars, osVars, CountsFit
<1>3. CausesFit'
  <2>1. UNCHANGED <<supervisorVars, osVars, control, childSignals>>
    BY DEF ReceiveStart
  <2>2. down' = <<"cancel">> => cancelling
    BY <1>0, DownTail DEF RunnerInv, CausesFit
  <2>3. down' # <<"start", "cancel">>
    BY <1>0, DownTail
  <2> QED BY <1>0, <2>1, <2>2, <2>3 DEF RunnerInv, CausesFit, supervisorVars, osVars, Settled, Phases
<1>4. StageFits'
  BY DEF RunnerInv, ReceiveStart, Enqueue, runVars, StageFits
<1>5. QueueFits'
  BY <1>0 DEF QueueFits
<1>6. NumbersFit'
  BY <1>0
<1>7. SentFits'
  BY DEF RunnerInv, ReceiveStart, supervisorVars, SentFits, TerminalSent
<1>8. ResultFits'
  BY DEF RunnerInv, ReceiveStart, supervisorVars, osVars, Settled, Alive, ResultFits
<1> QED BY <1>1, <1>2, <1>3, <1>4, <1>5, <1>6, <1>7, <1>8 DEF RunnerInv

LEMMA LoadKeeps == ASSUME RunnerInv, Load PROVE RunnerInv'
<1>0. /\ pending' \in Seq(Envelopes) /\ Len(pending') <= QueueLimit
      /\ sequence' \in {sequence, sequence + 1} /\ sequence' \in 0..(MaxEvents + 4)
      /\ UNCHANGED <<transportFailed, delivered>>
      /\ failure' \in {failure, "overflow"} /\ (failure # "none" => failure' = failure)
      /\ \A n \in 1..Len(pending') : pending'[n].type \notin Terminals
      /\ NumbersFit'
  <2>1. child = "loading" /\ UNCHANGED up /\ sequence <= MaxEvents + 3
    BY BoundsAssumption DEF RunnerInv, StageFits, TypeOK, Load
  <2>2. \A n \in 1..Len(pending) : pending[n].type \notin Terminals
    BY <2>1 DEF RunnerInv, QueueFits, Alive
  <2>3. CASE Accepts /\ Enqueue("event")
    <3>1. "event" \notin Terminals
      BY DEF Terminals
    <3> QED BY <2>1, <2>3, <3>1, Emitted
  <2>4. CASE Overflow \/ UNCHANGED queueVars
    BY <2>1, <2>2, <2>4, NotEmitted DEF RunnerInv, TypeOK, Alive
  <2> QED BY <2>3, <2>4 DEF Load, EmitThen, Accepts, Overflow
<1>1. TypeOK'
  <2>1. UNCHANGED <<supervisorVars, osVars, down, up, control, childSignals, activeRun, resources, exitCode>>
    BY DEF Load
  <2>2. child' \in Phases /\ outcome' \in Terminals \cup {"none"}
    BY DEF RunnerInv, TypeOK, Load, Phases, Terminals
  <2> QED BY <1>0, <2>1, <2>2 DEF RunnerInv, TypeOK, supervisorVars, osVars
<1>2. CountsFit'
  BY DEF RunnerInv, Load, supervisorVars, osVars, CountsFit
<1>3. CausesFit'
  BY DEF RunnerInv, Load, supervisorVars, osVars, Phases, CausesFit, Settled
<1>4. StageFits'
  BY BoundsAssumption DEF RunnerInv, Load, queueVars, Enqueue, Overflow, TypeOK, StageFits
<1>5. QueueFits'
  BY <1>0 DEF QueueFits
<1>6. NumbersFit'
  BY <1>0
<1>7. SentFits'
  BY DEF RunnerInv, Load, supervisorVars, SentFits, TerminalSent
<1>8. ResultFits'
  BY DEF RunnerInv, Load, supervisorVars, osVars, Settled, Alive, ResultFits
<1> QED BY <1>1, <1>2, <1>3, <1>4, <1>5, <1>6, <1>7, <1>8 DEF RunnerInv

LEMMA ResolveKeeps == ASSUME RunnerInv, Resolve PROVE RunnerInv'
<1>0. /\ pending' \in Seq(Envelopes) /\ Len(pending') <= QueueLimit
      /\ sequence' \in {sequence, sequence + 1} /\ sequence' \in 0..(MaxEvents + 4)
      /\ UNCHANGED <<transportFailed, delivered>>
      /\ failure' \in {failure, "overflow"} /\ (failure # "none" => failure' = failure)
      /\ \A n \in 1..Len(pending') : pending'[n].type \notin Terminals
      /\ NumbersFit'
  <2>1. child = "resolving" /\ UNCHANGED up /\ sequence <= MaxEvents + 3
    BY BoundsAssumption DEF RunnerInv, StageFits, TypeOK, Resolve
  <2>2. \A n \in 1..Len(pending) : pending[n].type \notin Terminals
    BY <2>1 DEF RunnerInv, QueueFits, Alive
  <2>3. CASE Accepts /\ Enqueue("event")
    <3>1. "event" \notin Terminals
      BY DEF Terminals
    <3> QED BY <2>1, <2>3, <3>1, Emitted
  <2>4. CASE Overflow \/ UNCHANGED queueVars
    BY <2>1, <2>2, <2>4, NotEmitted DEF RunnerInv, TypeOK, Alive
  <2> QED BY <2>3, <2>4 DEF Resolve, EmitThen, Accepts, Overflow
<1>1. TypeOK'
  <2>1. UNCHANGED <<supervisorVars, osVars, down, up, control, childSignals, activeRun, outcome, exitCode>>
    BY DEF Resolve
  <2>2. child' \in Phases /\ resources' \in {"none", "open", "closed"}
    BY DEF RunnerInv, TypeOK, Resolve, EmitThen, Phases
  <2> QED BY <1>0, <2>1, <2>2 DEF RunnerInv, TypeOK, supervisorVars, osVars
<1>2. CountsFit'
  BY DEF RunnerInv, Resolve, supervisorVars, osVars, TypeOK, CountsFit
<1>3. CausesFit'
  BY DEF RunnerInv, Resolve, EmitThen, supervisorVars, osVars, Phases, CausesFit, Settled
<1>4. StageFits'
  BY BoundsAssumption DEF RunnerInv, Resolve, queueVars, EmitThen, Enqueue, Overflow, TypeOK,
     StageFits
<1>5. QueueFits'
  BY <1>0 DEF QueueFits
<1>6. NumbersFit'
  BY <1>0
<1>7. SentFits'
  BY DEF RunnerInv, Resolve, supervisorVars, SentFits, TerminalSent
<1>8. ResultFits'
  BY DEF RunnerInv, Resolve, supervisorVars, osVars, Settled, Alive, ResultFits
<1> QED BY <1>1, <1>2, <1>3, <1>4, <1>5, <1>6, <1>7, <1>8 DEF RunnerInv

LEMMA WorkKeeps == ASSUME RunnerInv, Work PROVE RunnerInv'
<1>0. /\ pending' \in Seq(Envelopes) /\ Len(pending') <= QueueLimit
      /\ sequence' \in {sequence, sequence + 1} /\ sequence' \in 0..(MaxEvents + 4)
      /\ UNCHANGED <<transportFailed, delivered>>
      /\ failure' \in {failure, "overflow"} /\ (failure # "none" => failure' = failure)
      /\ \A n \in 1..Len(pending') : pending'[n].type \notin Terminals
      /\ NumbersFit'
  <2>1. child = "running" /\ UNCHANGED up /\ sequence <= MaxEvents + 3
    BY BoundsAssumption DEF RunnerInv, StageFits, TypeOK, Work
  <2>2. \A n \in 1..Len(pending) : pending[n].type \notin Terminals
    BY <2>1 DEF RunnerInv, QueueFits, Alive
  <2>3. CASE Accepts /\ Enqueue("event")
    <3>1. "event" \notin Terminals
      BY DEF Terminals
    <3> QED BY <2>1, <2>3, <3>1, Emitted
  <2>4. CASE Overflow \/ UNCHANGED queueVars
    BY <2>1, <2>2, <2>4, NotEmitted DEF RunnerInv, TypeOK, Alive
  <2> QED BY <2>3, <2>4 DEF Work
<1>1. TypeOK'
  <2>1. UNCHANGED <<supervisorVars, osVars, down, up, child, control, childSignals, runVars, exitCode>>
    BY DEF Work
  <2> QED BY <1>0, <2>1 DEF RunnerInv, TypeOK, supervisorVars, osVars, runVars
<1>2. CountsFit'
  BY DEF RunnerInv, Work, supervisorVars, osVars, CountsFit
<1>3. CausesFit'
  BY DEF RunnerInv, Work, supervisorVars, osVars, CausesFit, Settled
<1>4. StageFits'
  BY BoundsAssumption DEF RunnerInv, Work, Enqueue, Overflow, runVars, TypeOK, StageFits
<1>5. QueueFits'
  BY <1>0 DEF QueueFits
<1>6. NumbersFit'
  BY <1>0
<1>7. SentFits'
  BY DEF RunnerInv, Work, supervisorVars, SentFits, TerminalSent
<1>8. ResultFits'
  BY DEF RunnerInv, Work, supervisorVars, osVars, Settled, Alive, ResultFits
<1> QED BY <1>1, <1>2, <1>3, <1>4, <1>5, <1>6, <1>7, <1>8 DEF RunnerInv

(* The terminal event is the last of the queue.                            *)
LEMMA CloseExecutionKeeps == ASSUME RunnerInv, CloseExecution PROVE RunnerInv'
<1>0. /\ pending' \in Seq(Envelopes) /\ Len(pending') <= QueueLimit
      /\ sequence' \in {sequence, sequence + 1} /\ sequence' \in 0..(MaxEvents + 4)
      /\ UNCHANGED <<transportFailed, delivered>>
      /\ failure' \in {failure, "overflow"} /\ (failure # "none" => failure' = failure)
      /\ \A n \in 1..Len(pending') :
            pending'[n].type \in Terminals =>
               n = Len(pending') /\ child' = "flushing" /\ pending'[n].type = Terminal
      /\ NumbersFit'
  <2>1. child = "closing" /\ UNCHANGED up /\ sequence <= MaxEvents + 3
    BY BoundsAssumption DEF RunnerInv, StageFits, TypeOK, CloseExecution
  <2>2. \A n \in 1..Len(pending) : pending[n].type \notin Terminals
    BY <2>1 DEF RunnerInv, QueueFits, Alive
  <2>3. CASE Accepts /\ Enqueue(Terminal) /\ child' = "flushing"
    <3>1. Terminal \in Terminals \cup {"event"}
      BY DEF RunnerInv, TypeOK, Terminal, Terminals
    <3> QED BY <2>1, <2>3, <3>1, Emitted
  <2>4. CASE Overflow \/ UNCHANGED queueVars
    BY <2>1, <2>2, <2>4, NotEmitted DEF RunnerInv, TypeOK, Alive
  <2> QED BY <2>3, <2>4 DEF CloseExecution, EmitThen
<1>1. TypeOK'
  <2>1. UNCHANGED <<supervisorVars, osVars, down, up, control, childSignals, activeRun, outcome, exitCode>>
    BY DEF CloseExecution
  <2>2. child' \in Phases /\ resources' \in {"none", "open", "closed"}
    BY DEF RunnerInv, TypeOK, CloseExecution, EmitThen, Phases
  <2> QED BY <1>0, <2>1, <2>2 DEF RunnerInv, TypeOK, supervisorVars, osVars
<1>2. CountsFit'
  BY DEF RunnerInv, CloseExecution, supervisorVars, osVars, TypeOK, CountsFit
<1>3. CausesFit'
  BY DEF RunnerInv, CloseExecution, EmitThen, supervisorVars, osVars, Phases, CausesFit, Settled
<1>4. StageFits'
  BY DEF RunnerInv, CloseExecution, EmitThen, Accepts, Enqueue, Overflow, queueVars, StageFits
<1>5. QueueFits'
  <2>1. Terminal' = Terminal
    BY DEF CloseExecution, Terminal
  <2> QED BY <1>0, <2>1 DEF QueueFits
<1>6. NumbersFit'
  BY <1>0
<1>7. SentFits'
  BY DEF RunnerInv, CloseExecution, supervisorVars, SentFits, TerminalSent
<1>8. ResultFits'
  BY DEF RunnerInv, CloseExecution, supervisorVars, osVars, Settled, Alive, ResultFits
<1> QED BY <1>1, <1>2, <1>3, <1>4, <1>5, <1>6, <1>7, <1>8 DEF RunnerInv

(* What is sent has the number after the last that was.                    *)
LEMMA DeliverKeeps == ASSUME RunnerInv, Deliver PROVE RunnerInv'
<1>1. /\ pending' \in Seq(Envelopes) /\ pending # <<>>
      /\ Len(pending) \in Nat /\ Len(pending') \in Nat /\ Len(pending') = Len(pending) - 1
      /\ \A n \in 1..Len(pending') : n + 1 \in 1..Len(pending) /\ pending'[n] = pending[n + 1]
      /\ Head(pending) = pending[1] /\ 1 \in 1..Len(pending) /\ pending[1] \in Envelopes
  BY HeadLeaves DEF Deliver, RunnerInv
<1>2. \/ /\ ~transportFailed /\ up' = Append(up, pending[1]) /\ delivered' = pending[1].seq
         /\ UNCHANGED <<failure, transportFailed>>
      \/ /\ transportFailed' = TRUE /\ UNCHANGED <<up, delivered>>
         /\ failure' = IF failure = "none" THEN "transport" ELSE failure
  BY <1>1 DEF Deliver
<1>3. TypeOK'
  <2>1. UNCHANGED <<supervisorVars, osVars, down, child, control, childSignals, runVars, sequence, exitCode>>
    BY DEF Deliver
  <2>2. up' \in Seq(Envelopes)
    BY <1>1, <1>2, Written DEF RunnerInv, TypeOK
  <2>3. /\ delivered' \in 0..(MaxEvents + 4) /\ transportFailed' \in BOOLEAN
        /\ failure' \in {"none", "overflow", "transport"}
    <3>1. CASE UNCHANGED <<failure, transportFailed>> /\ delivered' = pending[1].seq
      BY <1>1, <3>1, BoundsAssumption DEF RunnerInv, TypeOK, Envelopes
    <3>2. CASE ~(UNCHANGED <<failure, transportFailed>> /\ delivered' = pending[1].seq)
      BY <1>2, <3>2, BoundsAssumption DEF RunnerInv, TypeOK
    <3> QED BY <3>1, <3>2
  <2>4. Len(pending') <= QueueLimit
    BY <1>1, BoundsAssumption DEF RunnerInv, TypeOK
  <2> QED BY <1>1, <2>1, <2>2, <2>3, <2>4 DEF RunnerInv, TypeOK, supervisorVars, osVars, runVars
<1>4. CountsFit'
  BY DEF RunnerInv, Deliver, supervisorVars, osVars, CountsFit
<1>5. CausesFit'
  BY DEF RunnerInv, Deliver, supervisorVars, osVars, CausesFit, Settled
<1>6. StageFits'
  BY DEF RunnerInv, Deliver, runVars, StageFits
<1>7. QueueFits'
  <2>1. child' = child /\ Terminal' = Terminal
    BY DEF Deliver, Terminal, runVars
  <2> QED BY <1>1, <2>1 DEF RunnerInv, QueueFits, Alive
<1>8. NumbersFit'
  <2>1. sequence' = sequence /\ sequence \in Nat /\ delivered \in Nat /\ Alive /\ up \in Seq(Envelopes)
    BY BoundsAssumption DEF RunnerInv, TypeOK, Deliver
  <2>2. CASE transportFailed'
    <3>1. delivered < sequence
      BY <1>1, <2>1 DEF RunnerInv, NumbersFit
    <3> QED BY <1>2, <2>1, <2>2, <3>1 DEF RunnerInv, NumbersFit, Alive
  <2>3. CASE ~transportFailed'
    <3>1. /\ ~transportFailed /\ delivered' = pending[1].seq
          /\ up' = Append(up, pending[1]) /\ pending[1] \in Envelopes
      BY <1>1, <1>2, <2>3
    <3>2. sequence = delivered + Len(pending) /\ \A n \in 1..Len(pending) : pending[n].seq = delivered + n
      BY <3>1 DEF RunnerInv, NumbersFit
    <3>3. delivered' = delivered + 1
      BY <1>1, <2>1, <3>1, <3>2
    <3>4. sequence' = delivered' + Len(pending')
      BY <1>1, <2>1, <3>2, <3>3
    <3>5. \A n \in 1..Len(pending') : pending'[n].seq = delivered' + n
      BY <1>1, <2>1, <3>2, <3>3
    <3>6. /\ \A n \in 1..(Len(up') - 1) : up'[n + 1].seq = up'[n].seq + 1
          /\ up'[Len(up')].seq = delivered'
      BY <2>1, <3>1, <3>3, NumbersGoOn
    <3> QED BY <2>3, <3>4, <3>5, <3>6 DEF NumbersFit
  <2> QED BY <2>2, <2>3
<1>9. SentFits'
  <2>1. /\ \A n \in 1..Len(up) : up[n].type \notin Terminals
        /\ terminalEvent = "none" /\ terminalEvent' = "none"
    BY DEF RunnerInv, SentFits, TerminalSent, Deliver, supervisorVars
  <2>2. CASE transportFailed'
    BY <1>2, <2>1, <2>2 DEF SentFits
  <2>3. CASE ~transportFailed'
    <3>1. ~transportFailed /\ failure' = failure /\ up' = Append(up, pending[1]) /\ pending[1] \in Envelopes
      BY <1>1, <1>2, <2>3
    <3>2. /\ Len(up) \in Nat /\ Len(up') = Len(up) + 1 /\ up'[Len(up) + 1] = pending[1]
          /\ \A n \in 1..Len(up) : up'[n] = up[n]
          /\ \A n \in 1..Len(up') : n \in 1..Len(up) \/ n = Len(up) + 1
      BY <3>1, Written DEF RunnerInv
    <3>3. ASSUME NEW type \in Terminals, type = pending[1].type PROVE TerminalSent(type)'
      <4>1. Len(pending) = 1 /\ child = "flushing" /\ type = Terminal
        BY <1>1, <3>3 DEF RunnerInv, QueueFits, Deliver
      <4>2. pending' = <<>>
        BY <1>1, <4>1
      <4>3. UNCHANGED <<child, control, resources, outcome>>
        BY DEF Deliver, runVars
      <4>4. resources # "open" /\ failure = "none" /\ (outcome \in {"none", "cancelled"} => control)
        BY <3>1, <4>1 DEF RunnerInv, StageFits
      <4>5. Terminal = "succeeded" => outcome = "succeeded"
        BY DEF Terminal
      <4>6. Terminal = "cancelled" => outcome \in {"none", "cancelled"}
        BY DEF Terminal
      <4> QED BY <3>1, <4>1, <4>2, <4>3, <4>4, <4>5, <4>6 DEF TerminalSent
    <3> QED BY <2>1, <3>2, <3>3 DEF SentFits
  <2> QED BY <2>2, <2>3
<1>10. ResultFits'
  BY DEF RunnerInv, Deliver, supervisorVars, osVars, Settled, ResultFits
<1> QED BY <1>3, <1>4, <1>5, <1>6, <1>7, <1>8, <1>9, <1>10 DEF RunnerInv

LEMMA FlushKeeps == ASSUME RunnerInv, Flush PROVE RunnerInv'
<1>1. TypeOK'
  <2>1. UNCHANGED <<supervisorVars, cli, signalled, grouped, down, up, control, resources, outcome, queueVars>>
    BY DEF Flush
  <2>2. /\ child' \in Phases /\ exitCode' \in {"none", "0", "1", "130", "signal"}
        /\ activeRun' \in BOOLEAN
    BY DEF RunnerInv, TypeOK, Flush, Exits, Phases
  <2>3. childSignals' \in 0..(MaxSignals + 1)
    BY BoundsAssumption DEF RunnerInv, TypeOK, Flush, Exits
  <2>4. turns' \in Seq({"signal", "exit", "error"}) /\ Len(turns') <= MaxSignals + 1
    <3>1. CASE turns' = turns
      BY <3>1 DEF RunnerInv, TypeOK
    <3>2. CASE turns' = Append(turns, "exit")
      <4>1. Len(turns) <= signalled /\ signalled \in 0..MaxSignals
        BY DEF RunnerInv, TypeOK, CountsFit, Flush
      <4> QED BY <3>2, <4>1, AnotherTurn, BoundsAssumption DEF RunnerInv
    <3> QED BY <3>1, <3>2 DEF Flush, Exits
  <2> QED BY <2>1, <2>2, <2>3, <2>4 DEF RunnerInv, TypeOK, supervisorVars, queueVars
<1>2. CountsFit'
  BY DEF RunnerInv, Flush, Exits, supervisorVars, TypeOK, CountsFit
<1>3. CausesFit'
  BY DEF RunnerInv, Flush, Exits, supervisorVars, Phases, CausesFit, Settled
<1>4. StageFits'
  BY DEF RunnerInv, Flush, Exits, queueVars, StageFits
<1>5. QueueFits'
  <2>1. pending' = pending /\ \A n \in 1..Len(pending) : pending[n].type \notin Terminals
    BY DEF RunnerInv, TypeOK, Flush, queueVars, ToSet
  <2> QED BY <2>1 DEF QueueFits
<1>6. NumbersFit'
  BY DEF RunnerInv, Flush, queueVars, Alive, NumbersFit
<1>7. SentFits'
  BY DEF RunnerInv, Flush, Exits, supervisorVars, queueVars, SentFits, TerminalSent
<1>8. ResultFits'
  BY DEF RunnerInv, Flush, Exits, supervisorVars, Settled, Alive, ResultFits
<1> QED BY <1>1, <1>2, <1>3, <1>4, <1>5, <1>6, <1>7, <1>8 DEF RunnerInv

(* The terminal event that bypasses the queue has the number after the last that was sent. *)
LEMMA CatchKeeps == ASSUME RunnerInv, Catch PROVE RunnerInv'
<1>1. child = "catching" /\ Alive /\ pending = <<>> /\ (up' = up \/ up' = Append(up, Settlement))
  BY DEF Catch, Alive
<1>2. Settlement \in Envelopes
  <2>1. delivered \in Nat /\ delivered <= MaxEvents + 3
    BY <1>1, BoundsAssumption DEF RunnerInv, TypeOK, StageFits, NumbersFit
  <2> QED BY <2>1, BoundsAssumption DEF Settlement, Envelopes, Terminals
<1>3. TypeOK'
  <2>1. UNCHANGED <<supervisorVars, cli, signalled, grouped, down, control, activeRun, outcome, queueVars>>
    BY DEF Catch
  <2>2. /\ child' \in Phases /\ exitCode' \in {"none", "0", "1", "130", "signal"}
        /\ resources' \in {"none", "open", "closed"} /\ childSignals' \in 0..(MaxSignals + 1)
    BY BoundsAssumption DEF RunnerInv, TypeOK, Catch, Exits, Phases
  <2>3. turns' \in Seq({"signal", "exit", "error"}) /\ Len(turns') <= MaxSignals + 1
    <3>1. CASE turns' = turns
      BY <3>1 DEF RunnerInv, TypeOK
    <3>2. CASE turns' = Append(turns, "exit")
      <4>1. Len(turns) <= signalled /\ signalled \in 0..MaxSignals
        BY DEF RunnerInv, TypeOK, CountsFit, Catch
      <4> QED BY <3>2, <4>1, AnotherTurn, BoundsAssumption DEF RunnerInv
    <3> QED BY <3>1, <3>2 DEF Catch, Exits
  <2>4. up' \in Seq(Envelopes)
    BY <1>1, <1>2, Written DEF RunnerInv, TypeOK
  <2> QED BY <2>1, <2>2, <2>3, <2>4 DEF RunnerInv, TypeOK, supervisorVars, queueVars
<1>4. CountsFit'
  BY DEF RunnerInv, Catch, Exits, TypeOK, CountsFit
<1>5. CausesFit'
  BY DEF RunnerInv, Catch, Exits, supervisorVars, CausesFit, Settled
<1>6. StageFits'
  BY DEF RunnerInv, Catch, Exits, StageFits
<1>7. QueueFits'
  BY DEF Catch, Exits, QueueFits, Alive
<1>8. NumbersFit'
  <2>1. UNCHANGED queueVars /\ child' = "exited"
    BY <1>1 DEF Catch, Exits
  <2>2. CASE up' = up
    BY <2>1, <2>2 DEF RunnerInv, NumbersFit, queueVars, Alive
  <2>3. CASE up' = Append(up, Settlement)
    <3>1. Settlement.seq = delivered + 1
      BY DEF Settlement
    <3>2. \A n \in 1..(Len(up') - 1) : up'[n + 1].seq = up'[n].seq + 1
      BY <1>1, <1>2, <2>3, <3>1, NumbersGoOn
    <3> QED BY <2>1, <3>2 DEF RunnerInv, NumbersFit, queueVars, Alive
  <2> QED BY <1>1, <2>2, <2>3
<1>9. SentFits'
  <2>1. /\ \A n \in 1..Len(up) : up[n].type \notin Terminals
        /\ terminalEvent = "none" /\ terminalEvent' = "none"
    BY <1>1 DEF RunnerInv, SentFits, TerminalSent, Catch, supervisorVars
  <2>2. CASE up' = up
    BY <2>1, <2>2 DEF SentFits
  <2>3. CASE up' = Append(up, Settlement)
    <3>1. /\ Len(up) \in Nat /\ Len(up') = Len(up) + 1 /\ up'[Len(up) + 1] = Settlement
          /\ \A n \in 1..Len(up) : up'[n] = up[n]
          /\ \A n \in 1..Len(up') : n \in 1..Len(up) \/ n = Len(up) + 1
      BY <1>2, <2>3, Written DEF RunnerInv
    <3>2. /\ pending' = <<>> /\ child' = "exited" /\ resources' # "open"
          /\ control' = control
      BY DEF Catch, Exits, queueVars
    <3>3. Settlement.type # "succeeded" /\ (Settlement.type = "cancelled" => control)
      BY DEF Settlement
    <3>4. ASSUME NEW type, type = Settlement.type PROVE TerminalSent(type)'
      BY <3>2, <3>3, <3>4 DEF TerminalSent
    <3> QED BY <2>1, <3>1, <3>4 DEF SentFits
  <2> QED BY <1>1, <2>2, <2>3
<1>10. ResultFits'
  BY DEF RunnerInv, Catch, Exits, supervisorVars, Alive, SentFits, TerminalSent, ResultFits
<1> QED BY <1>3, <1>4, <1>5, <1>6, <1>7, <1>8, <1>9, <1>10 DEF RunnerInv

-----------------------------------------------------------------------------
(* The supervisor. *)

LEMMA InterruptKeeps == ASSUME RunnerInv, Interrupt PROVE RunnerInv'
<1>1. TypeOK'
  <2>1. UNCHANGED <<supervisorVars, cli, down, up, child, control, runVars, queueVars, exitCode>>
    BY DEF Interrupt
  <2>2. turns' \in Seq({"signal", "exit", "error"}) /\ Len(turns') <= MaxSignals + 1
    <3>1. Len(turns) <= signalled + 1 /\ signalled < MaxSignals /\ signalled \in Nat
      BY BoundsAssumption DEF RunnerInv, TypeOK, CountsFit, Interrupt
    <3> QED BY <3>1, AnotherTurn, BoundsAssumption DEF RunnerInv, Interrupt
  <2>3. signalled' \in 0..MaxSignals /\ grouped' \in 0..signalled' /\ childSignals' \in 0..(MaxSignals + 1)
    BY BoundsAssumption DEF RunnerInv, TypeOK, CountsFit, Interrupt
  <2> QED BY <2>1, <2>2, <2>3 DEF RunnerInv, TypeOK, supervisorVars, runVars, queueVars
<1>2. CountsFit'
  BY DEF RunnerInv, Interrupt, supervisorVars, TypeOK, CountsFit
<1>3. CausesFit'
  BY DEF RunnerInv, Interrupt, supervisorVars, TypeOK, CausesFit, Settled
<1>4. StageFits'
  BY DEF RunnerInv, Interrupt, supervisorVars, runVars, queueVars, StageFits
<1>5. QueueFits'
  BY DEF RunnerInv, Interrupt, Alive, runVars, queueVars, QueueFits, Terminal
<1>6. NumbersFit'
  BY DEF RunnerInv, Interrupt, Alive, queueVars, NumbersFit
<1>7. SentFits'
  BY DEF RunnerInv, Interrupt, supervisorVars, runVars, queueVars, SentFits, TerminalSent
<1>8. ResultFits'
  BY DEF RunnerInv, Interrupt, Alive, supervisorVars, runVars, TypeOK, Settled, ResultFits
<1> QED BY <1>1, <1>2, <1>3, <1>4, <1>5, <1>6, <1>7, <1>8 DEF RunnerInv

(* The first request is the only one that reaches the child.               *)
LEMMA CancelRunKeeps == ASSUME RunnerInv, CancelRun PROVE RunnerInv'
<1>1. /\ turns' \in Seq({"signal", "exit", "error"})
      /\ Len(turns) \in Nat /\ Len(turns') \in Nat /\ Len(turns') = Len(turns) - 1
      /\ \A n \in 1..Len(turns') : n + 1 \in 1..Len(turns) /\ turns'[n] = turns[n + 1]
      /\ Head(turns) = turns[1] /\ 1 \in 1..Len(turns)
  BY NextTurn DEF RunnerInv, CancelRun
<1>2. down' \in {<<>>, <<"start">>, <<"cancel">>, <<"start", "cancel">>}
  BY DownAppend DEF RunnerInv, TypeOK, CausesFit, CancelRun, CannotCancel, Forward
<1>3. TypeOK'
  <2>1. UNCHANGED forwardUnchanged
    BY DEF CancelRun
  <2>2. Len(turns') <= MaxSignals + 1
    BY <1>1, BoundsAssumption DEF RunnerInv, TypeOK
  <2>3. cancelling' \in BOOLEAN /\ graceTimer' \in {"off", "armed", "expired"} /\ childSignals' = childSignals
    BY DEF RunnerInv, TypeOK, CancelRun, Forward
  <2> QED BY <1>1, <1>2, <2>1, <2>2, <2>3 DEF RunnerInv, TypeOK, forwardUnchanged, runVars, queueVars
<1>4. CountsFit'
  BY DEF RunnerInv, CancelRun, CannotCancel, Forward, forwardUnchanged, TypeOK, CountsFit,
     CausesFit
<1>5. CausesFit'
  <2>1. UNCHANGED <<result, cli, signalled, grouped, child, control, childSignals>>
    BY DEF CancelRun, Forward, forwardUnchanged
  <2>2. \A n \in 1..Len(turns') : IF turns'[n] = "signal" THEN signalled > 0 ELSE child = "exited"
    BY <1>1 DEF RunnerInv, CausesFit
  <2>3. signalled > 0
    BY <1>1 DEF RunnerInv, CausesFit, CancelRun
  <2>4. CASE UNCHANGED <<cancelling, graceTimer, down>>
    BY <2>1, <2>2, <2>4 DEF RunnerInv, CausesFit, Settled
  <2>5. CASE ~CannotCancel /\ Forward
    <3>1. /\ child \in {"booting", "idle"} => down' \in {<<"start">>, <<"start", "cancel">>}
          /\ child \in Phases \ {"booting", "idle", "exited"} => down' \in {<<>>, <<"cancel">>}
      BY <2>5, DownAppend DEF RunnerInv, CausesFit, CannotCancel, Forward, Alive, Phases
    <3>2. cancelling' /\ graceTimer' = "armed" /\ graceTimer # "expired"
      BY <2>5 DEF RunnerInv, CausesFit, TypeOK, CannotCancel, Forward
    <3> QED BY <2>1, <2>2, <2>3, <3>1, <3>2 DEF RunnerInv, CausesFit, Settled
  <2> QED BY <2>4, <2>5 DEF CancelRun
<1>6. StageFits'
  BY DEF RunnerInv, CancelRun, forwardUnchanged, runVars, queueVars, StageFits
<1>7. QueueFits'
  BY DEF RunnerInv, CancelRun, Alive, forwardUnchanged, runVars, queueVars, QueueFits, Terminal
<1>8. NumbersFit'
  BY DEF RunnerInv, CancelRun, Alive, forwardUnchanged, queueVars, NumbersFit
<1>9. SentFits'
  BY DEF RunnerInv, CancelRun, forwardUnchanged, runVars, queueVars, SentFits, TerminalSent
<1>10. ResultFits'
  BY DEF RunnerInv, CancelRun, CannotCancel, Settled, Alive, forwardUnchanged, runVars,
     CausesFit, ResultFits
<1> QED BY <1>3, <1>4, <1>5, <1>6, <1>7, <1>8, <1>9, <1>10 DEF RunnerInv

LEMMA GraceExpiresKeeps == ASSUME RunnerInv, GraceExpires PROVE RunnerInv'
<1>1. TypeOK'
  <2>1. UNCHANGED <<terminalEvent, cancelling, osVars, down, up, child, control, runVars, queueVars, exitCode>>
    BY DEF GraceExpires
  <2>2. /\ graceTimer' \in {"off", "armed", "expired"}
        /\ result' \in Terminals \cup {"none", "failure", "cancelFailure"}
    BY DEF RunnerInv, TypeOK, GraceExpires
  <2>3. childSignals <= grouped
    BY DEF RunnerInv, TypeOK, CountsFit, CausesFit, GraceExpires
  <2>4. childSignals' \in 0..(MaxSignals + 1)
    BY <2>3, BoundsAssumption DEF RunnerInv, TypeOK, GraceExpires
  <2> QED BY <2>1, <2>2, <2>4 DEF RunnerInv, TypeOK, osVars, runVars, queueVars
<1>2. CountsFit'
  BY DEF RunnerInv, GraceExpires, osVars, TypeOK, CountsFit, CausesFit
<1>3. CausesFit'
  BY DEF RunnerInv, GraceExpires, osVars, CausesFit
<1>4. StageFits'
  BY DEF RunnerInv, GraceExpires, runVars, queueVars, StageFits
<1>5. QueueFits'
  BY DEF RunnerInv, GraceExpires, Alive, runVars, queueVars, QueueFits, Terminal
<1>6. NumbersFit'
  BY DEF RunnerInv, GraceExpires, Alive, queueVars, NumbersFit
<1>7. SentFits'
  BY DEF RunnerInv, GraceExpires, runVars, queueVars, SentFits, TerminalSent
<1>8. ResultFits'
  BY DEF RunnerInv, GraceExpires, Settled, Alive, osVars, Terminals, CausesFit, ResultFits
<1> QED BY <1>1, <1>2, <1>3, <1>4, <1>5, <1>6, <1>7, <1>8 DEF RunnerInv

LEMMA ReceiveEventKeeps == ASSUME RunnerInv, ReceiveEvent PROVE RunnerInv'
<1>1. TypeOK'
  BY DEF RunnerInv, ReceiveEvent, osVars, runVars, queueVars, TypeOK
<1>2. CountsFit'
  BY DEF RunnerInv, ReceiveEvent, osVars, CountsFit
<1>3. CausesFit'
  BY DEF RunnerInv, ReceiveEvent, osVars, CausesFit
<1>4. StageFits'
  BY DEF RunnerInv, ReceiveEvent, runVars, queueVars, StageFits
<1>5. QueueFits'
  BY DEF RunnerInv, ReceiveEvent, runVars, queueVars, QueueFits, Alive, Terminal
<1>6. NumbersFit'
  BY DEF RunnerInv, ReceiveEvent, queueVars, Alive, NumbersFit
<1>7. SentFits'
  BY DEF RunnerInv, ReceiveEvent, runVars, queueVars, SentFits, TerminalSent
<1>8. ResultFits'
  BY DEF RunnerInv, ReceiveEvent, Settled, Terminals, osVars, runVars, Alive, SentFits,
     ResultFits
<1> QED BY <1>1, <1>2, <1>3, <1>4, <1>5, <1>6, <1>7, <1>8 DEF RunnerInv

LEMMA SettleTerminalKeeps == ASSUME RunnerInv, SettleTerminal PROVE RunnerInv'
<1>1. TypeOK'
  BY DEF RunnerInv, SettleTerminal, osVars, runVars, queueVars, TypeOK
<1>2. CountsFit'
  BY DEF RunnerInv, SettleTerminal, osVars, CountsFit
<1>3. CausesFit'
  BY DEF RunnerInv, SettleTerminal, osVars, CausesFit
<1>4. StageFits'
  BY DEF RunnerInv, SettleTerminal, runVars, queueVars, StageFits
<1>5. QueueFits'
  BY DEF RunnerInv, SettleTerminal, runVars, queueVars, QueueFits, Alive, Terminal
<1>6. NumbersFit'
  BY DEF RunnerInv, SettleTerminal, queueVars, Alive, NumbersFit
<1>7. SentFits'
  BY DEF RunnerInv, SettleTerminal, runVars, queueVars, SentFits, TerminalSent
<1>8. ResultFits'
  BY DEF RunnerInv, SettleTerminal, osVars, runVars, TypeOK, Terminals, CausesFit, Alive,
     SentFits, TerminalSent, ResultFits
<1> QED BY <1>1, <1>2, <1>3, <1>4, <1>5, <1>6, <1>7, <1>8 DEF RunnerInv

LEMMA SpawnFailsKeeps == ASSUME RunnerInv, SpawnFails PROVE RunnerInv'
<1>1. TypeOK'
  <2>1. UNCHANGED <<supervisorVars, cli, signalled, grouped, down, up, control, runVars, queueVars>>
    BY DEF SpawnFails
  <2>2. turns' \in Seq({"signal", "exit", "error"}) /\ Len(turns') <= MaxSignals + 1
    <3>1. Len(turns) <= signalled /\ signalled \in 0..MaxSignals
      BY BoundsAssumption DEF RunnerInv, TypeOK, CountsFit, SpawnFails
    <3> QED BY <3>1, AnotherTurn, BoundsAssumption DEF RunnerInv, SpawnFails
  <2>3. child' \in Phases /\ exitCode' = "1" /\ childSignals' \in 0..(MaxSignals + 1)
    BY BoundsAssumption DEF SpawnFails, Phases
  <2> QED BY <2>1, <2>2, <2>3 DEF RunnerInv, TypeOK, supervisorVars, runVars, queueVars
<1>2. CountsFit'
  BY DEF RunnerInv, SpawnFails, TypeOK, CountsFit
<1>3. CausesFit'
  BY DEF RunnerInv, SpawnFails, supervisorVars, CausesFit, Settled
<1>4. StageFits'
  BY DEF RunnerInv, SpawnFails, runVars, StageFits
<1>5. QueueFits'
  BY DEF SpawnFails, QueueFits, Alive
<1>6. NumbersFit'
  BY DEF RunnerInv, SpawnFails, queueVars, Alive, NumbersFit
<1>7. SentFits'
  BY DEF RunnerInv, SpawnFails, supervisorVars, SentFits, TerminalSent
<1>8. ResultFits'
  BY DEF RunnerInv, SpawnFails, supervisorVars, StageFits, Alive, ResultFits
<1> QED BY <1>1, <1>2, <1>3, <1>4, <1>5, <1>6, <1>7, <1>8 DEF RunnerInv

(* The exit of the child settles what no terminal event has.               *)
LEMMA ChildGoneKeeps == ASSUME RunnerInv, ChildGone PROVE RunnerInv'
<1>1. /\ turns' \in Seq({"signal", "exit", "error"})
      /\ Len(turns) \in Nat /\ Len(turns') \in Nat /\ Len(turns') = Len(turns) - 1
      /\ \A n \in 1..Len(turns') : n + 1 \in 1..Len(turns) /\ turns'[n] = turns[n + 1]
      /\ Head(turns) = turns[1] /\ 1 \in 1..Len(turns)
  BY NextTurn DEF RunnerInv, ChildGone
<1>2. TypeOK'
  <2>1. UNCHANGED <<terminalEvent, cancelling, graceTimer, cli, signalled, grouped, down, up, child,
                    control, childSignals, runVars, queueVars, exitCode>>
    BY DEF ChildGone
  <2>2. Len(turns') <= MaxSignals + 1
    BY <1>1, BoundsAssumption DEF RunnerInv, TypeOK
  <2>3. result' \in Terminals \cup {"none", "failure", "cancelFailure"}
    BY DEF RunnerInv, TypeOK, ChildGone
  <2> QED BY <1>1, <2>1, <2>2, <2>3 DEF RunnerInv, TypeOK, runVars, queueVars
<1>3. CountsFit'
  BY DEF RunnerInv, ChildGone, TypeOK, CountsFit
<1>4. CausesFit'
  BY DEF RunnerInv, ChildGone, Settled, CausesFit
<1>5. StageFits'
  BY DEF RunnerInv, ChildGone, runVars, queueVars, StageFits
<1>6. QueueFits'
  BY DEF RunnerInv, ChildGone, runVars, queueVars, QueueFits, Alive, Terminal
<1>7. NumbersFit'
  BY DEF RunnerInv, ChildGone, queueVars, Alive, NumbersFit
<1>8. SentFits'
  BY DEF RunnerInv, ChildGone, runVars, queueVars, SentFits, TerminalSent
<1>9. ResultFits'
  <2>1. UNCHANGED <<terminalEvent, cancelling, graceTimer, signalled, grouped, child, resources, exitCode>>
    BY DEF ChildGone, runVars
  <2>2. ~Alive
    BY <1>1 DEF RunnerInv, CausesFit, ChildGone, Alive
  <2>3. CASE result' = result
    BY <2>1, <2>2, <2>3 DEF RunnerInv, ResultFits, Settled, Alive
  <2>4. CASE result' # result
    <3>1. ~Settled /\ terminalEvent = "none" /\ result' = IF cancelling THEN "cancelFailure" ELSE "failure"
      BY <2>4 DEF ChildGone
    <3>2. result' \notin Terminals /\ (result' \in {"cancelled", "cancelFailure"} => signalled > 0)
      BY <3>1 DEF RunnerInv, CausesFit, Terminals
    <3> QED BY <2>1, <2>2, <3>1, <3>2 DEF RunnerInv, ResultFits, Settled, Alive
  <2> QED BY <2>3, <2>4
<1> QED BY <1>2, <1>3, <1>4, <1>5, <1>6, <1>7, <1>8, <1>9 DEF RunnerInv

LEMMA CloseRunnerKeeps == ASSUME RunnerInv, CloseRunner PROVE RunnerInv'
<1>1. TypeOK'
  <2>1. UNCHANGED <<supervisorVars, turns, signalled, grouped, down, up, child, control, runVars, queueVars, exitCode>>
    BY DEF CloseRunner
  <2>2. cli' \in {"running", "closed", "gone"} /\ childSignals' \in 0..(MaxSignals + 1)
    BY BoundsAssumption DEF RunnerInv, TypeOK, CountsFit, CloseRunner
  <2> QED BY <2>1, <2>2 DEF RunnerInv, TypeOK, supervisorVars, runVars, queueVars
<1>2. CountsFit'
  BY DEF RunnerInv, CloseRunner, TypeOK, CountsFit
<1>3. CausesFit'
  BY DEF RunnerInv, CloseRunner, Settled, supervisorVars, CausesFit
<1>4. StageFits'
  BY DEF RunnerInv, CloseRunner, supervisorVars, runVars, queueVars, StageFits
<1>5. QueueFits'
  BY DEF RunnerInv, CloseRunner, Alive, runVars, queueVars, QueueFits, Terminal
<1>6. NumbersFit'
  BY DEF RunnerInv, CloseRunner, Alive, queueVars, NumbersFit
<1>7. SentFits'
  BY DEF RunnerInv, CloseRunner, supervisorVars, runVars, queueVars, SentFits, TerminalSent
<1>8. ResultFits'
  BY DEF RunnerInv, CloseRunner, Alive, supervisorVars, runVars, ResultFits
<1> QED BY <1>1, <1>2, <1>3, <1>4, <1>5, <1>6, <1>7, <1>8 DEF RunnerInv

LEMMA LeaveKeeps == ASSUME RunnerInv, Leave PROVE RunnerInv'
<1>1. TypeOK'
  BY DEF RunnerInv, Leave, supervisorVars, runVars, queueVars, TypeOK
<1>2. CountsFit'
  BY DEF RunnerInv, Leave, CountsFit
<1>3. CausesFit'
  BY DEF RunnerInv, Leave, supervisorVars, CausesFit, Settled
<1>4. StageFits'
  BY DEF RunnerInv, Leave, supervisorVars, runVars, queueVars, StageFits
<1>5. QueueFits'
  BY DEF RunnerInv, Leave, runVars, queueVars, QueueFits, Alive, Terminal
<1>6. NumbersFit'
  BY DEF RunnerInv, Leave, queueVars, Alive, NumbersFit
<1>7. SentFits'
  BY DEF RunnerInv, Leave, supervisorVars, runVars, queueVars, SentFits, TerminalSent
<1>8. ResultFits'
  BY DEF RunnerInv, Leave, supervisorVars, runVars, Settled, Alive, ResultFits
<1> QED BY <1>1, <1>2, <1>3, <1>4, <1>5, <1>6, <1>7, <1>8 DEF RunnerInv

-----------------------------------------------------------------------------
(* The specification. *)

LEMMA InitRunnerInv == Init => RunnerInv
<1> SUFFICES ASSUME Init PROVE RunnerInv
  OBVIOUS
<1>1. TypeOK
  <2>1. <<>> \in Seq({"signal", "exit", "error"}) /\ <<>> \in Seq(Envelopes) /\ Len(<<>>) = 0
    OBVIOUS
  <2>2. /\ Len(<<>>) <= MaxSignals + 1 /\ Len(<<>>) <= QueueLimit
        /\ 0 \in 0..MaxSignals /\ 0 \in 0..0 /\ 0 \in 0..(MaxSignals + 1) /\ 0 \in 0..(MaxEvents + 4)
    BY <2>1, BoundsAssumption
  <2> QED BY <2>1, <2>2 DEF Init, TypeOK, Phases
<1>2. CountsFit /\ CausesFit
  BY DownTail DEF Init, CountsFit, CausesFit, Phases, Settled
<1>3. StageFits
  BY DEF Init, StageFits
<1>4. QueueFits /\ NumbersFit /\ SentFits
  BY DEF Init, QueueFits, NumbersFit, SentFits
<1>5. ResultFits
  BY DEF Init, ResultFits, Settled, Terminals
<1> QED BY <1>1, <1>2, <1>3, <1>4, <1>5 DEF RunnerInv

LEMMA StutterKeepsRunner == ASSUME RunnerInv, UNCHANGED vars PROVE RunnerInv'
<1> USE DEF vars, supervisorVars, osVars, queueVars, runVars
<1>1. (TypeOK /\ CountsFit)'
  BY DEF RunnerInv, TypeOK, CountsFit
<1>2. (CausesFit /\ StageFits)'
  BY DEF RunnerInv, CausesFit, StageFits, Settled
<1>3. (QueueFits /\ NumbersFit)'
  BY DEF RunnerInv, QueueFits, NumbersFit, Alive, Terminal
<1>4. (SentFits /\ ResultFits)'
  BY DEF RunnerInv, SentFits, TerminalSent, ResultFits, Settled, Alive
<1> QED BY <1>1, <1>2, <1>3, <1>4 DEF RunnerInv

LEMMA NextKeepsRunner == RunnerInv /\ [Next]_vars => RunnerInv'
<1> SUFFICES ASSUME RunnerInv, [Next]_vars PROVE RunnerInv'
  OBVIOUS
<1>1. CASE Boot \/ ReceiveStart \/ ReceiveCancel \/ Disconnect \/ Signal
  BY <1>1, BootKeeps, ReceiveStartKeeps, ReceiveCancelKeeps, DisconnectKeeps, SignalKeeps
<1>2. CASE Load \/ Resolve \/ Preflight \/ Work \/ Finish
  BY <1>2, LoadKeeps, ResolveKeeps, PreflightKeeps, WorkKeeps, FinishKeeps
<1>3. CASE CloseExecution \/ Deliver \/ Flush \/ Catch
  BY <1>3, CloseExecutionKeeps, DeliverKeeps, FlushKeeps, CatchKeeps
<1>4. CASE Interrupt \/ CancelRun \/ GraceExpires \/ ReceiveEvent \/ SettleTerminal
  BY <1>4, InterruptKeeps, CancelRunKeeps, GraceExpiresKeeps, ReceiveEventKeeps, SettleTerminalKeeps
<1>5. CASE SpawnFails \/ ChildGone \/ CloseRunner \/ Leave
  BY <1>5, SpawnFailsKeeps, ChildGoneKeeps, CloseRunnerKeeps, LeaveKeeps
<1>6. CASE Done \/ UNCHANGED vars
  BY <1>6, StutterKeepsRunner DEF Done
<1> QED BY <1>1, <1>2, <1>3, <1>4, <1>5, <1>6 DEF Next

(* Each stage of startRun, the numbers of the queue and of the channel, and *)
(* what is behind every request, signal and result, at every step of both  *)
(* processes.                                                              *)
THEOREM RunnerInvariant == Spec => []RunnerInv
BY InitRunnerInv, NextKeepsRunner, PTL DEF Spec

(* The state of both processes and of what is between them keeps its type; *)
(* above all a run needs no more numbers than it has events and stages.    *)
THEOREM RunnerTypeCorrect == Spec => []TypeOK
<1>1. RunnerInv => TypeOK
  BY DEF RunnerInv
<1> QED BY <1>1, RunnerInvariant, PTL

(* Only the last event on the channel may be a terminal one.               *)
LEMMA OneTerminal ==
    ASSUME RunnerInv
    PROVE  /\ IsFiniteSet(TerminalsIn(up)) /\ Cardinality(TerminalsIn(up)) \in {0, 1}
           /\ terminalEvent # "none" => Cardinality(TerminalsIn(up)) = 0
<1>1. Len(up) \in Nat /\ DOMAIN up = 1..Len(up)
  BY DEF RunnerInv, TypeOK
<1>2. TerminalsIn(up) \subseteq {Len(up)}
  BY <1>1 DEF RunnerInv, SentFits, TerminalsIn
<1>3. CASE TerminalsIn(up) = {}
  BY <1>3, FS_EmptySet
<1>4. CASE TerminalsIn(up) # {}
  <2>1. TerminalsIn(up) = {Len(up)}
    BY <1>2, <1>4
  <2>2. terminalEvent = "none"
    <3>1. up # <<>>
      BY <1>1, <1>4 DEF TerminalsIn
    <3> QED BY <3>1 DEF RunnerInv, SentFits
  <2> QED BY <2>1, <2>2, FS_Singleton
<1> QED BY <1>3, <1>4

LEMMA RunnerTruthful == RunnerInv => ReportsTruthful
<1> SUFFICES ASSUME RunnerInv PROVE ReportsTruthful
  OBVIOUS
<1>1. result = "succeeded" => outcome = "succeeded" /\ failure = "none"
  BY DEF RunnerInv, ResultFits, SentFits, TerminalSent, Terminals
<1>2. Settled /\ Status(result) = 130 => signalled > 0
  <2> SUFFICES ASSUME Settled, Status(result) = 130 PROVE signalled > 0
    OBVIOUS
  <2>1. result \in {"succeeded", "failed", "failure", "cancelled", "cancelFailure"}
    BY DEF RunnerInv, TypeOK, Settled, Terminals
  <2>2. result \in {"cancelled", "cancelFailure"}
    BY <2>1 DEF Status
  <2> QED BY <2>2 DEF RunnerInv, ResultFits
<1>3. Settled /\ terminalEvent # "none" => result = terminalEvent
  BY DEF RunnerInv, ResultFits
<1>4. EventsInOrder
  BY OneTerminal DEF RunnerInv, NumbersFit, EventsInOrder
<1> QED BY <1>1, <1>2, <1>3, <1>4 DEF ReportsTruthful, StatusTruthful

(* What the CLI reports is what happened, for any number of events and     *)
(* signals and any size of the queue: success only for a workflow that     *)
(* succeeded and lost no event, cancellation only to a user who asked, the *)
(* terminal event that was received decides; and every number reaches the  *)
(* supervisor once and in order, with one terminal event.                  *)
THEOREM ReportsTrue == Spec => []ReportsTruthful
BY RunnerTruthful, RunnerInvariant, PTL

LEMMA RunnerCleansUp == RunnerInv => CleanupFirst
<1> SUFFICES ASSUME RunnerInv PROVE CleanupFirst
  OBVIOUS
<1>1. TerminalsIn(up) # {} => resources # "open"
  BY DEF RunnerInv, TypeOK, SentFits, TerminalSent, TerminalsIn
<1>2. terminalEvent # "none" => resources # "open"
  BY DEF RunnerInv, SentFits, TerminalSent
<1>3. exitCode = "130" /\ resources = "open" => graceTimer = "expired" \/ grouped > 0
  BY DEF RunnerInv, ResultFits
<1> QED BY <1>1, <1>2, <1>3 DEF CleanupFirst

(* No terminal event before the resources of the run are closed, and no    *)
(* exit for an impatient user with open resources unless the grace period  *)
(* is over or the terminal has signalled the child itself.                 *)
THEOREM CleansUpFirst == Spec => []CleanupFirst
BY RunnerCleansUp, RunnerInvariant, PTL
-----------------------------------------------------------------------------
(* A run through a host. *)

HostedKinds == {"started", "work", "succeeded", "failed", "cancelled"}
HostedEvents == [kind : HostedKinds, sequence : Nat]
Closing == Hosted!Cleanup \cup {"done"}

(* What the state of a command is made of, and what its events are.        *)
StateTyped ==
    /\ command \in {"opening", "resolving", "posting", "observing", "waiting", "deciding", "flushing",
                    "recovering", "conceding"} \cup Closing
    /\ owned \in BOOLEAN /\ visible \in BOOLEAN /\ observing \in BOOLEAN /\ delivery \in BOOLEAN
    /\ execution \in {"absent", "running"} \cup Hosted!Ended
    /\ unseen \in 0..MaxUnseen /\ tries \in 0..CancelTries
    /\ interrupted \in {"no", "in-time", "late"}
    /\ cancellation \in {"none", "asking", "accepted", "failed"}
    /\ report \in [status : {"none", "succeeded", "failed", "cancelled"}, exitCode : {0, 1, 130}]

EventsTyped ==
    /\ bridge \in [queue : Seq(HostedEvents), sequence : Nat, failed : BOOLEAN, delivered : Nat]
    /\ open \in BOOLEAN /\ accepted \in Nat
    /\ terminals \in Seq(HostedKinds) /\ recorded \in Seq(Nat)
    /\ consumer \in [Hosted!Consumers -> [queue : Seq(HostedEvents), failed : BOOLEAN, flushed : BOOLEAN]]

(* The consumers were told of one end last, that of the report.            *)
ToldAsReported == terminals # <<>> /\ terminals[Len(terminals)] = report.status

(* What is queued follows what was delivered.  A terminal event is only in *)
(* the queue while it is flushed, is its last, and tells what the report   *)
(* will.                                                                   *)
BridgeFits ==
    /\ bridge.sequence = bridge.delivered + Len(bridge.queue) /\ Len(bridge.queue) <= BridgeRoom
    /\ \A i \in DOMAIN bridge.queue : bridge.queue[i].sequence = bridge.delivered + i
    /\ \A i \in DOMAIN bridge.queue :
          Hosted!Terminal(bridge.queue[i].kind) => command = "flushing" /\ i = Len(bridge.queue)
    /\ command = "flushing" =>
          /\ Hosted!Terminal(report.status)
          /\ bridge.queue # <<>> => bridge.queue[Len(bridge.queue)].kind = report.status
          /\ bridge.queue = <<>> => ToldAsReported

(* A recording that was not given up has what was dispatched, but for what *)
(* is in its queue.                                                        *)
ConsumersFit ==
    /\ \A c \in Hosted!Consumers : Len(consumer[c].queue) <= ConsumerRoom
    /\ \A i \in DOMAIN recorded : recorded[i] = i
    /\ ~consumer["recording"].failed => Len(recorded) + Len(consumer["recording"].queue) = accepted
    /\ open <=> command \notin {"closing-consumers", "done"}
    /\ command = "done" /\ ~consumer["recording"].failed => consumer["recording"].queue = <<>>

(* What is behind a request to cancel, the outcome and the report.         *)
ReportFits ==
    /\ cancellation # "none" => interrupted # "no"
    /\ ~observing => interrupted # "no"
    /\ delivery => bridge.failed
    /\ command \in {"deciding", "flushing"} => execution \in Hosted!Ended
    /\ command \in {"flushing"} \cup Closing =>
          /\ interrupted = "in-time" /\ ~bridge.failed => report.status = "cancelled"
          /\ report.status = "cancelled" => interrupted # "no" \/ execution = "canceled"
    /\ command \in Closing => ToldAsReported

HostedInv == StateTyped /\ EventsTyped /\ BridgeFits /\ ConsumersFit /\ ReportFits
-----------------------------------------------------------------------------
(* Queues of events. *)

(* What Append and Tail do to a queue. *)
LEMMA QueueFacts ==
    ASSUME NEW S, NEW q \in Seq(S), NEW e \in S
    PROVE  /\ Append(q, e) \in Seq(S) /\ Len(Append(q, e)) = Len(q) + 1 /\ Append(q, e) # <<>>
           /\ \A i \in 1..Len(q) : Append(q, e)[i] = q[i]
           /\ Append(q, e)[Len(q) + 1] = e
           /\ Len(q) \in Nat /\ DOMAIN q = 1..Len(q) /\ DOMAIN Append(q, e) = 1..(Len(q) + 1)
           /\ q = <<>> <=> Len(q) = 0
OBVIOUS

LEMMA TailFacts ==
    ASSUME NEW S, NEW q \in Seq(S), q # <<>>
    PROVE  /\ Tail(q) \in Seq(S) /\ Len(Tail(q)) = Len(q) - 1 /\ Len(q) \in Nat /\ Len(q) > 0
           /\ \A i \in 1..(Len(q) - 1) : Tail(q)[i] = q[i + 1]
           /\ DOMAIN q = 1..Len(q) /\ DOMAIN Tail(q) = 1..(Len(q) - 1)
           /\ Head(q) = q[1] /\ q[1] \in S
           /\ Tail(q) = <<>> <=> Len(q) = 1
<1>1. Len(q) \in Nat /\ Len(q) > 0 /\ DOMAIN q = 1..Len(q)
  OBVIOUS
<1>2. Tail(q) \in Seq(S) /\ Len(Tail(q)) = Len(q) - 1 /\ Head(q) = q[1] /\ q[1] \in S
  BY <1>1
<1>3. \A i \in 1..(Len(q) - 1) : Tail(q)[i] = q[i + 1]
  BY <1>1
<1>4. DOMAIN Tail(q) = 1..(Len(q) - 1)
  BY <1>1, <1>2
<1>5. Tail(q) = <<>> <=> Len(q) = 1
  BY <1>1, <1>2
<1> QED BY <1>1, <1>2, <1>3, <1>4, <1>5

(* emit: an event that fits follows what is queued.                        *)
LEMMA EmittedFacts ==
    ASSUME EventsTyped, BridgeFits, NEW kind \in HostedKinds, bridge' = Hosted!Emitted(kind)
    PROVE  /\ bridge' \in [queue : Seq(HostedEvents), sequence : Nat, failed : BOOLEAN, delivered : Nat]
           /\ bridge'.sequence = bridge'.delivered + Len(bridge'.queue) /\ Len(bridge'.queue) <= BridgeRoom
           /\ \A i \in DOMAIN bridge'.queue : bridge'.queue[i].sequence = bridge'.delivered + i
           /\ \/ Hosted!Overflows /\ bridge'.failed /\ bridge'.queue = bridge.queue
              \/ /\ ~Hosted!Overflows /\ bridge'.failed = bridge.failed
                 /\ Len(bridge'.queue) = Len(bridge.queue) + 1 /\ bridge'.queue # <<>>
                 /\ DOMAIN bridge'.queue = 1..Len(bridge'.queue) /\ Len(bridge.queue) \in Nat
                 /\ DOMAIN bridge.queue = 1..Len(bridge.queue)
                 /\ \A i \in 1..Len(bridge.queue) : bridge'.queue[i] = bridge.queue[i]
                 /\ bridge'.queue[Len(bridge'.queue)].kind = kind
<1> DEFINE q == bridge.queue
           s == bridge.sequence + 1
           e == [kind |-> kind, sequence |-> s]
           r == Append(q, e)
<1>1. /\ q \in Seq(HostedEvents) /\ bridge.sequence \in Nat /\ bridge.delivered \in Nat /\ bridge.failed \in BOOLEAN
      /\ bridge \in [queue : Seq(HostedEvents), sequence : Nat, failed : BOOLEAN, delivered : Nat]
  BY DEF EventsTyped
<1>2. s \in Nat /\ e \in HostedEvents /\ e.kind = kind /\ e.sequence = s
  BY <1>1 DEF HostedEvents
<1>3. /\ r \in Seq(HostedEvents) /\ Len(r) = Len(q) + 1 /\ r # <<>> /\ r[Len(q) + 1] = e
      /\ \A i \in 1..Len(q) : r[i] = q[i]
      /\ Len(q) \in Nat /\ DOMAIN q = 1..Len(q) /\ DOMAIN r = 1..(Len(q) + 1)
  BY <1>1, <1>2, QueueFacts
<1>4. CASE Hosted!Overflows
  <2>1. bridge' = [bridge EXCEPT !.failed = TRUE]
    BY <1>4 DEF Hosted!Emitted
  <2> QED BY <1>1, <1>4, <2>1 DEF BridgeFits
<1>5. CASE ~Hosted!Overflows
  <2>1. bridge' = [bridge EXCEPT !.queue = r, !.sequence = s]
    BY <1>5 DEF Hosted!Emitted
  <2>2. Len(q) < BridgeRoom
    BY <1>3, <1>5, HostedAssumption DEF Hosted!Overflows
  <2>3. \A i \in DOMAIN r : r[i].sequence = bridge.delivered + i
    <3>1. r[Len(q) + 1].sequence = bridge.delivered + (Len(q) + 1)
      BY <1>1, <1>2, <1>3 DEF BridgeFits
    <3> QED BY <1>3, <3>1 DEF BridgeFits
  <2>4. s = bridge.delivered + Len(r)
    BY <1>1, <1>3 DEF BridgeFits
  <2> HIDE DEF q, r, s, e
  <2>5. /\ bridge'.queue = r /\ bridge'.sequence = s /\ bridge'.failed = bridge.failed
        /\ bridge'.delivered = bridge.delivered
        /\ bridge' \in [queue : Seq(HostedEvents), sequence : Nat, failed : BOOLEAN, delivered : Nat]
    BY <1>1, <1>2, <1>3, <2>1
  <2>6. q = bridge.queue
    BY DEF q
  <2> QED BY <1>2, <1>3, <1>5, <2>2, <2>3, <2>4, <2>5, <2>6, HostedAssumption
<1> QED BY <1>4, <1>5

(* consume of the dispatcher: what a consumer takes is queued, or the      *)
(* consumer is given up.                                                   *)
LEMMA ConsumeFacts ==
    ASSUME EventsTyped, ConsumersFit, NEW event \in HostedEvents, Hosted!Consume(event), recorded' = recorded
    PROVE  /\ accepted' \in Nat /\ terminals' \in Seq(HostedKinds)
           /\ consumer' \in [Hosted!Consumers -> [queue : Seq(HostedEvents), failed : BOOLEAN, flushed : BOOLEAN]]
           /\ \A c \in Hosted!Consumers : Len(consumer'[c].queue) <= ConsumerRoom
           /\ ~consumer'["recording"].failed =>
                 Len(recorded) + Len(consumer'["recording"].queue) = accepted'
           /\ ~open => UNCHANGED <<consumer, terminals>>
           /\ ~Hosted!Terminal(event.kind) => terminals' = terminals
           /\ open /\ Hosted!Terminal(event.kind) =>
                 terminals' # <<>> /\ terminals'[Len(terminals')] = event.kind
<1>1. /\ consumer \in [Hosted!Consumers -> [queue : Seq(HostedEvents), failed : BOOLEAN, flushed : BOOLEAN]]
      /\ accepted \in Nat /\ terminals \in Seq(HostedKinds) /\ recorded \in Seq(Nat) /\ event.kind \in HostedKinds
  BY DEF EventsTyped, HostedEvents
<1>2. CASE ~open
  BY <1>1, <1>2 DEF Hosted!Consume, ConsumersFit
<1>3. CASE open
  <2> DEFINE New(c) == IF consumer[c].failed THEN consumer[c]
                       ELSE IF Len(consumer[c].queue) >= ConsumerRoom
                            THEN [consumer[c] EXCEPT !.failed = TRUE, !.queue = <<>>]
                            ELSE [consumer[c] EXCEPT !.queue = Append(@, event)]
  <2>1. /\ accepted' = accepted + 1 /\ consumer' = [c \in Hosted!Consumers |-> New(c)]
        /\ terminals' = IF Hosted!Terminal(event.kind) THEN Append(terminals, event.kind) ELSE terminals
    BY <1>3 DEF Hosted!Consume
  <2>2. ASSUME NEW c \in Hosted!Consumers
        PROVE  /\ New(c) \in [queue : Seq(HostedEvents), failed : BOOLEAN, flushed : BOOLEAN]
               /\ Len(New(c).queue) <= ConsumerRoom
               /\ ~New(c).failed => ~consumer[c].failed /\ Len(New(c).queue) = Len(consumer[c].queue) + 1
    <3> DEFINE q == consumer[c].queue
               r == Append(q, event)
    <3>1. q \in Seq(HostedEvents) /\ consumer[c].failed \in BOOLEAN
          /\ consumer[c] \in [queue : Seq(HostedEvents), failed : BOOLEAN, flushed : BOOLEAN]
      BY <1>1
    <3>2. r \in Seq(HostedEvents) /\ Len(r) = Len(q) + 1 /\ Len(q) \in Nat
      BY <3>1, QueueFacts
    <3>3. <<>> \in Seq(HostedEvents) /\ Len(<<>>) = 0
      OBVIOUS
    <3>4. CASE consumer[c].failed
      BY <3>1, <3>4 DEF ConsumersFit
    <3>5. CASE ~consumer[c].failed /\ Len(q) >= ConsumerRoom
      <4>1. New(c) = [consumer[c] EXCEPT !.failed = TRUE, !.queue = <<>>]
        BY <3>5
      <4>2. New(c).failed = TRUE /\ New(c).queue = <<>> /\ New(c).flushed = consumer[c].flushed
        BY <3>1, <4>1
      <4>3. New(c) \in [queue : Seq(HostedEvents), failed : BOOLEAN, flushed : BOOLEAN]
        BY <3>1, <3>3, <4>1
      <4> HIDE DEF New
      <4> QED BY <3>3, <4>2, <4>3, HostedAssumption
    <3>6. CASE ~consumer[c].failed /\ ~(Len(q) >= ConsumerRoom)
      <4>1. New(c) = [consumer[c] EXCEPT !.queue = r]
        BY <3>6
      <4>2. Len(r) <= ConsumerRoom
        BY <3>2, <3>6, HostedAssumption
      <4> HIDE DEF r
      <4>3. New(c).queue = r
        BY <3>1, <4>1
      <4> QED BY <3>1, <3>2, <3>6, <4>1, <4>2, <4>3
    <3> QED BY <3>4, <3>5, <3>6
  <2> HIDE DEF New
  <2>3. consumer' \in [Hosted!Consumers -> [queue : Seq(HostedEvents), failed : BOOLEAN, flushed : BOOLEAN]]
    BY <2>1, <2>2
  <2>4. "recording" \in Hosted!Consumers /\ consumer'["recording"] = New("recording")
    BY <2>1 DEF Hosted!Consumers
  <2>5. ~consumer'["recording"].failed => Len(recorded) + Len(consumer'["recording"].queue) = accepted'
    <3>1. Len(recorded) \in Nat /\ Len(consumer["recording"].queue) \in Nat
      BY <1>1, <2>4
    <3> SUFFICES ASSUME ~consumer'["recording"].failed
                 PROVE  Len(recorded) + Len(consumer'["recording"].queue) = accepted'
      OBVIOUS
    <3>2. ~consumer["recording"].failed /\ Len(consumer'["recording"].queue) = Len(consumer["recording"].queue) + 1
      BY <2>2, <2>4
    <3>3. Len(recorded) + Len(consumer["recording"].queue) = accepted
      BY <3>2 DEF ConsumersFit
    <3>4. accepted' = accepted + 1
      BY <2>1
    <3>5. accepted \in Nat
      BY <1>1
    <3> QED BY <3>1, <3>2, <3>3, <3>4, <3>5
  <2>6. \A c \in Hosted!Consumers : Len(consumer'[c].queue) <= ConsumerRoom
    BY <2>1, <2>2
  <2>7. /\ Append(terminals, event.kind) \in Seq(HostedKinds) /\ Append(terminals, event.kind) # <<>>
        /\ Append(terminals, event.kind)[Len(Append(terminals, event.kind))] = event.kind
    BY <1>1, QueueFacts
  <2>8. accepted' \in Nat
    BY <1>1, <2>1
  <2>9. terminals' \in Seq(HostedKinds)
    BY <1>1, <2>1, <2>7
  <2>10. ~Hosted!Terminal(event.kind) => terminals' = terminals
    BY <2>1
  <2>11. Hosted!Terminal(event.kind) => terminals' # <<>> /\ terminals'[Len(terminals')] = event.kind
    BY <2>1, <2>7
  <2> QED BY <1>3, <2>3, <2>5, <2>6, <2>8, <2>9, <2>10, <2>11
<1> QED BY <1>2, <1>3

-----------------------------------------------------------------------------
(* Steps that leave the events alone. *)

EventsKept == UNCHANGED <<bridge, terminals, accepted, open, consumer, recorded>>

(* The server, a signal and the request to cancel. *)
LEMMA ServerKeepsHosted ==
    ASSUME HostedInv, Hosted!RunStep \/ Hosted!Signal \/ Hosted!CancelRun
    PROVE  HostedInv'
<1> USE DEF HostedInv, Hosted!commandVars, Hosted!executionVars, Hosted!cancelVars, Hosted!consumerVars,
        Hosted!eventVars
<1>1. EventsKept /\ UNCHANGED <<command, report, owned, unseen, delivery>>
  BY DEF EventsKept, Hosted!RunStep, Hosted!StartReceived, Hosted!RecordStored, Hosted!RunEnds, Hosted!Signal,
      Hosted!CancelRun
<1>2. EventsTyped' /\ BridgeFits' /\ ConsumersFit'
  BY <1>1 DEF EventsKept, EventsTyped, BridgeFits, ConsumersFit, ToldAsReported
<1>3. CASE Hosted!RunStep
  <2>1. UNCHANGED <<interrupted, cancellation, observing, tries>>
    BY <1>3 DEF Hosted!RunStep, Hosted!StartReceived, Hosted!RecordStored, Hosted!RunEnds
  <2>2. /\ execution' \in {"absent", "running"} \cup Hosted!Ended /\ visible' \in BOOLEAN
        /\ execution \in Hosted!Ended => execution' = execution
    BY <1>3 DEF StateTyped, Hosted!RunStep, Hosted!StartReceived, Hosted!RecordStored, Hosted!RunEnds, Hosted!Ended
  <2>3. StateTyped'
    BY <1>1, <2>1, <2>2 DEF StateTyped, Closing, Hosted!Cleanup, Hosted!Ended
  <2>4. ReportFits'
    BY <1>1, <2>1, <2>2 DEF ReportFits, EventsKept, ToldAsReported, Hosted!Ended
  <2> QED BY <1>2, <2>3, <2>4
<1>4. CASE Hosted!Signal
  <2>1. UNCHANGED <<execution, visible, observing, tries>> /\ interrupted = "no"
        /\ interrupted' \in {"in-time", "late"} /\ cancellation' \in {"none", "asking"}
        /\ command \notin Closing /\ (command = "flushing" => interrupted' = "late")
    BY <1>4 DEF Hosted!Signal, Hosted!interrupted, Closing
  <2>2. StateTyped'
    BY <1>1, <2>1 DEF StateTyped, Closing, Hosted!Cleanup, Hosted!Ended
  <2>3. ReportFits'
    BY <1>1, <2>1 DEF ReportFits, EventsKept
  <2> QED BY <1>2, <2>2, <2>3
<1>5. CASE Hosted!CancelRun
  <2>1. UNCHANGED <<execution, visible, interrupted>> /\ cancellation = "asking"
        /\ cancellation' \in {"asking", "accepted", "failed"}
        /\ (~observing' => ~observing \/ interrupted # "no")
    <3>1. cancellation = "asking"
      BY <1>5 DEF Hosted!CancelRun
    <3> QED BY <1>5, <3>1 DEF Hosted!CancelRun, ReportFits
  <2>2. tries' \in 0..CancelTries
    <3>1. tries \in Nat /\ tries <= CancelTries /\ CancelTries \in Nat
      BY HostedAssumption DEF StateTyped
    <3>2. tries' = tries \/ (tries' = tries + 1 /\ tries + 1 < CancelTries)
      BY <1>5 DEF Hosted!CancelRun
    <3> QED BY <3>1, <3>2
  <2>5. observing' \in BOOLEAN
    BY <1>5 DEF StateTyped, Hosted!CancelRun
  <2>3. StateTyped'
    BY <1>1, <2>1, <2>2, <2>5 DEF StateTyped, Closing, Hosted!Cleanup, Hosted!Ended
  <2>4. ReportFits'
    BY <1>1, <2>1 DEF ReportFits, EventsKept, ToldAsReported
  <2> QED BY <1>2, <2>3, <2>4
<1> QED BY <1>3, <1>4, <1>5

(* The command waits for the server, and closes its host.                  *)
LEMMA WaitingKeepsHosted ==
    ASSUME HostedInv,
           \/ Hosted!Resolve \/ Hosted!Posted \/ Hosted!Observe \/ Hosted!Wait
           \/ Hosted!CloseHost \/ Hosted!FlushEvents
    PROVE  HostedInv'
<1> USE DEF HostedInv, Hosted!commandVars, Hosted!executionVars, Hosted!cancelVars, Hosted!consumerVars,
        Hosted!eventVars
<1>1. EventsKept /\ UNCHANGED <<report, owned, delivery, visible, interrupted, cancellation, tries, observing>>
  BY DEF EventsKept, Hosted!Resolve, Hosted!Posted, Hosted!Observe, Hosted!Wait, Hosted!CloseHost, Hosted!FlushEvents
<1>2. CASE Hosted!Resolve \/ Hosted!Posted \/ Hosted!Observe \/ Hosted!Wait
  <2>1. /\ command \in {"resolving", "posting", "observing", "waiting"} /\ execution' = execution
        /\ command' \in {"posting", "observing", "waiting", "deciding", "recovering"}
        /\ command' = "deciding" => execution \in Hosted!Ended
    BY <1>2 DEF Hosted!Resolve, Hosted!Posted, Hosted!Observe, Hosted!Wait, Hosted!Goto
  <2>2. unseen' \in 0..MaxUnseen
    <3>1. unseen \in Nat /\ unseen <= MaxUnseen /\ MaxUnseen \in Nat
      BY HostedAssumption DEF StateTyped
    <3>2. unseen' = unseen \/ unseen' = 0 \/ (unseen' = unseen + 1 /\ unseen + 1 < MaxUnseen)
      BY <1>2 DEF Hosted!Resolve, Hosted!Posted, Hosted!Observe, Hosted!Wait
    <3> QED BY <3>1, <3>2
  <2>3. StateTyped'
    BY <1>1, <2>1, <2>2 DEF StateTyped, Closing, Hosted!Cleanup, Hosted!Ended
  <2>4. EventsTyped' /\ BridgeFits' /\ ConsumersFit'
    BY <1>1, <2>1 DEF EventsKept, EventsTyped, BridgeFits, ConsumersFit
  <2>5. ReportFits'
    BY <1>1, <2>1 DEF ReportFits, EventsKept, Closing, Hosted!Cleanup
  <2> QED BY <2>3, <2>4, <2>5
<1>3. CASE Hosted!CloseHost \/ Hosted!FlushEvents
  <2>1. /\ command \in {"closing-host", "flushing-events"} /\ unseen' = unseen
        /\ command' \in {"flushing-events", "flushing-consumers"}
        /\ execution' \in {execution, "failed"} /\ (execution = "canceled" => execution' = execution)
    BY <1>3 DEF Hosted!CloseHost, Hosted!FlushEvents, Hosted!Goto
  <2>2. StateTyped'
    BY <1>1, <2>1 DEF StateTyped, Closing, Hosted!Cleanup, Hosted!Ended
  <2>3. EventsTyped' /\ BridgeFits' /\ ConsumersFit'
    BY <1>1, <2>1 DEF EventsKept, EventsTyped, BridgeFits, ConsumersFit
  <2>4. ReportFits'
    BY <1>1, <2>1 DEF ReportFits, EventsKept, Closing, Hosted!Cleanup, ToldAsReported
  <2> QED BY <2>2, <2>3, <2>4
<1> QED BY <1>2, <1>3

-----------------------------------------------------------------------------
(* Steps of the bridge. *)

(* An event of the run that is not its end leaves the bridge as it was.    *)
LEMMA EmittingKeepsBridge ==
    ASSUME EventsTyped, BridgeFits, command # "flushing", command' # "flushing",
           NEW kind \in {"started", "work"}, bridge' = Hosted!Emitted(kind)
    PROVE  BridgeFits' /\ (bridge.failed => bridge'.failed)
<1>1. kind \in HostedKinds /\ ~Hosted!Terminal(kind)
  BY DEF HostedKinds, Hosted!Terminal
<1>2. \A i \in DOMAIN bridge'.queue : ~Hosted!Terminal(bridge'.queue[i].kind)
  <2>1. \A i \in DOMAIN bridge.queue : ~Hosted!Terminal(bridge.queue[i].kind)
    BY DEF BridgeFits
  <2>2. CASE bridge'.queue = bridge.queue
    BY <2>1, <2>2
  <2>3. CASE bridge'.queue # bridge.queue
    <3>1. /\ Len(bridge'.queue) = Len(bridge.queue) + 1 /\ Len(bridge.queue) \in Nat
          /\ DOMAIN bridge'.queue = 1..Len(bridge'.queue) /\ DOMAIN bridge.queue = 1..Len(bridge.queue)
          /\ \A i \in 1..Len(bridge.queue) : bridge'.queue[i] = bridge.queue[i]
          /\ bridge'.queue[Len(bridge'.queue)].kind = kind
      BY <1>1, <2>3, EmittedFacts
    <3> QED BY <1>1, <2>1, <3>1
  <2> QED BY <2>2, <2>3
<1>3. /\ bridge'.sequence = bridge'.delivered + Len(bridge'.queue) /\ Len(bridge'.queue) <= BridgeRoom
      /\ \A i \in DOMAIN bridge'.queue : bridge'.queue[i].sequence = bridge'.delivered + i
  BY <1>1, EmittedFacts
<1>4. bridge.failed => bridge'.failed
  BY <1>1, EmittedFacts DEF Hosted!Overflows
<1> QED BY <1>2, <1>3, <1>4 DEF BridgeFits

(* The host listens, or the command recovers.                              *)
LEMMA OpenKeepsHosted == ASSUME HostedInv, Hosted!Open PROVE HostedInv'
<1> USE DEF HostedInv, Hosted!commandVars, Hosted!executionVars, Hosted!consumerVars
<1>1. /\ UNCHANGED <<owned, unseen, observing, delivery, report, execution, visible, interrupted, tries,
                     open, consumer, recorded, terminals, accepted>>
      /\ command = "opening" /\ command' \in {"resolving", "recovering"}
      /\ bridge' = bridge \/ bridge' = Hosted!Emitted("started")
      /\ cancellation' \in {cancellation, IF interrupted # "no" THEN "asking" ELSE "none"}
  BY DEF Hosted!Open, Hosted!Goto, Hosted!interrupted
<1>2. bridge' \in [queue : Seq(HostedEvents), sequence : Nat, failed : BOOLEAN, delivered : Nat]
  <2>1. "started" \in HostedKinds
    BY DEF HostedKinds
  <2> QED BY <1>1, <2>1, EmittedFacts DEF EventsTyped
<1>3. BridgeFits' /\ (bridge.failed => bridge'.failed)
  <2>1. CASE bridge' = bridge
    BY <1>1, <2>1 DEF BridgeFits
  <2>2. CASE bridge' = Hosted!Emitted("started")
    BY <1>1, <2>2, EmittingKeepsBridge
  <2> QED BY <1>1, <2>1, <2>2
<1>4. StateTyped'
  BY <1>1 DEF StateTyped, Closing, Hosted!Cleanup, Hosted!Ended
<1>5. EventsTyped' /\ ConsumersFit'
  BY <1>1, <1>2 DEF EventsTyped, ConsumersFit
<1>6. ReportFits'
  BY <1>1, <1>3 DEF ReportFits, Closing, Hosted!Cleanup
<1> QED BY <1>3, <1>4, <1>5, <1>6

(* An event of the run.                                                    *)
LEMMA RunWorksKeepsHosted == ASSUME HostedInv, Hosted!RunWorks PROVE HostedInv'
<1> USE DEF HostedInv, Hosted!commandVars, Hosted!cancelVars, Hosted!consumerVars
<1>1. /\ UNCHANGED <<command, owned, unseen, observing, delivery, report, visible, interrupted, cancellation,
                     tries, open, consumer, recorded, terminals, accepted>>
      /\ execution = "running" /\ execution' \in {"running", "failed"} /\ bridge' = Hosted!Emitted("work")
  BY DEF Hosted!RunWorks
<1>2. command \notin {"deciding", "flushing"}
  BY <1>1 DEF ReportFits, Hosted!Ended
<1>3. bridge' \in [queue : Seq(HostedEvents), sequence : Nat, failed : BOOLEAN, delivered : Nat]
  <2>1. "work" \in HostedKinds
    BY DEF HostedKinds
  <2> QED BY <1>1, <2>1, EmittedFacts
<1>4. BridgeFits' /\ (bridge.failed => bridge'.failed)
  BY <1>1, <1>2, EmittingKeepsBridge
<1>5. StateTyped'
  BY <1>1 DEF StateTyped, Closing, Hosted!Cleanup, Hosted!Ended
<1>6. EventsTyped' /\ ConsumersFit'
  BY <1>1, <1>3 DEF EventsTyped, ConsumersFit
<1>7. ReportFits'
  BY <1>1, <1>2, <1>4 DEF ReportFits, Closing, Hosted!Cleanup, ToldAsReported
<1> QED BY <1>4, <1>5, <1>6, <1>7

(* The end of the run is queued, with the status that is reported.         *)
LEMMA DecideKeepsHosted == ASSUME HostedInv, Hosted!Decide PROVE HostedInv'
<1> USE DEF HostedInv, Hosted!executionVars, Hosted!cancelVars, Hosted!consumerVars
<1>1. /\ UNCHANGED <<owned, unseen, observing, delivery, execution, visible, interrupted, cancellation,
                     tries, open, consumer, recorded, terminals, accepted>>
      /\ command = "deciding"
  BY DEF Hosted!Decide
<1>2. \A i \in DOMAIN bridge.queue : ~Hosted!Terminal(bridge.queue[i].kind)
  BY <1>1 DEF BridgeFits
<1>3. CASE cancellation = "failed" \/ Hosted!Overflows
  <2>1. command' = "recovering" /\ report' = report
    BY <1>3 DEF Hosted!Decide, Hosted!Goto
  <2>2. bridge' = bridge \/ bridge' = [bridge EXCEPT !.failed = TRUE]
    BY <1>3 DEF Hosted!Decide, Hosted!Emitted
  <2>3. bridge' \in [queue : Seq(HostedEvents), sequence : Nat, failed : BOOLEAN, delivered : Nat]
    BY <2>2 DEF EventsTyped
  <2>4. bridge'.queue = bridge.queue /\ bridge'.sequence = bridge.sequence
        /\ bridge'.delivered = bridge.delivered /\ (bridge.failed => bridge'.failed)
    BY <2>2 DEF EventsTyped
  <2>5. BridgeFits'
    BY <1>2, <2>1, <2>4 DEF BridgeFits
  <2>6. StateTyped'
    BY <1>1, <2>1 DEF StateTyped
  <2>7. EventsTyped' /\ ConsumersFit'
    BY <1>1, <2>1, <2>3 DEF EventsTyped, ConsumersFit
  <2>8. ReportFits'
    BY <1>1, <2>1, <2>4 DEF ReportFits, Closing, Hosted!Cleanup
  <2> QED BY <2>5, <2>6, <2>7, <2>8
<1>4. CASE ~(cancellation = "failed" \/ Hosted!Overflows)
  <2>1. PICK status \in {Hosted!Outcome} \cup (IF Hosted!Outcome = "succeeded" THEN {"failed"} ELSE {}) :
           bridge' = Hosted!Emitted(status) /\ Hosted!Report(status) /\ Hosted!Goto("flushing")
    BY <1>4 DEF Hosted!Decide
  <2>2. /\ status \in {"succeeded", "failed", "cancelled"}
        /\ interrupted # "no" => status = "cancelled"
        /\ status = "cancelled" => interrupted # "no" \/ execution = "canceled"
    BY <2>1 DEF Hosted!Outcome, Hosted!interrupted
  <2>3. status \in HostedKinds /\ Hosted!Terminal(status)
    BY <2>2 DEF HostedKinds, Hosted!Terminal
  <2>4. /\ command' = "flushing" /\ report'.status = status
        /\ report' \in [status : {"none", "succeeded", "failed", "cancelled"}, exitCode : {0, 1, 130}]
    BY <2>1, <2>2 DEF Hosted!Goto, Hosted!Report, Hosted!Exit
  <2>5. /\ bridge' \in [queue : Seq(HostedEvents), sequence : Nat, failed : BOOLEAN, delivered : Nat]
        /\ bridge'.sequence = bridge'.delivered + Len(bridge'.queue) /\ Len(bridge'.queue) <= BridgeRoom
        /\ \A i \in DOMAIN bridge'.queue : bridge'.queue[i].sequence = bridge'.delivered + i
    BY <2>1, <2>3, EmittedFacts
  <2>6. /\ bridge'.failed = bridge.failed /\ bridge'.queue # <<>>
        /\ Len(bridge'.queue) = Len(bridge.queue) + 1 /\ Len(bridge.queue) \in Nat
        /\ DOMAIN bridge'.queue = 1..Len(bridge'.queue) /\ DOMAIN bridge.queue = 1..Len(bridge.queue)
        /\ \A i \in 1..Len(bridge.queue) : bridge'.queue[i] = bridge.queue[i]
        /\ bridge'.queue[Len(bridge'.queue)].kind = status
    BY <1>4, <2>1, <2>3, EmittedFacts
  <2>7. \A i \in DOMAIN bridge'.queue : Hosted!Terminal(bridge'.queue[i].kind) => i = Len(bridge'.queue)
    BY <1>2, <2>6
  <2>8. BridgeFits'
    BY <2>3, <2>4, <2>5, <2>6, <2>7 DEF BridgeFits, Hosted!Terminal
  <2>9. StateTyped'
    BY <1>1, <2>4 DEF StateTyped
  <2>10. EventsTyped' /\ ConsumersFit'
    BY <1>1, <2>4, <2>5 DEF EventsTyped, ConsumersFit
  <2>11. ReportFits'
    BY <1>1, <2>2, <2>4, <2>6 DEF ReportFits, Closing, Hosted!Cleanup
  <2> QED BY <2>8, <2>9, <2>10, <2>11
<1> QED BY <1>3, <1>4

(* The end has been delivered, or what was left of it is given up.         *)
LEMMA SettlingKeepsHosted ==
    ASSUME HostedInv, Hosted!Flushed \/ Hosted!Recover PROVE HostedInv'
<1> USE DEF HostedInv, Hosted!executionVars, Hosted!cancelVars, Hosted!consumerVars, Hosted!eventVars
<1>1. EventsKept /\ UNCHANGED <<owned, unseen, observing, report, execution, visible, interrupted,
                                cancellation, tries>>
  BY DEF EventsKept, Hosted!Flushed, Hosted!Recover
<1>2. /\ command \in {"flushing", "recovering"} /\ command' \in {"recovering", "closing-host", "conceding"}
      /\ command' = "closing-host" => command = "flushing" /\ bridge.queue = <<>>
      /\ delivery' \in {delivery, bridge.failed}
  BY DEF Hosted!Flushed, Hosted!Recover, Hosted!Goto
<1>3. delivery' \in BOOLEAN /\ (delivery' => bridge.failed)
  BY <1>2 DEF StateTyped, EventsTyped, ReportFits
<1>4. \A i \in DOMAIN bridge.queue : ~Hosted!Terminal(bridge.queue[i].kind)
  <2>1. bridge.queue = <<>>
    BY DEF Hosted!Flushed, Hosted!Recover
  <2> QED BY <2>1
<1>5. StateTyped'
  BY <1>1, <1>2, <1>3 DEF StateTyped, Closing, Hosted!Cleanup
<1>6. EventsTyped' /\ ConsumersFit'
  BY <1>1, <1>2 DEF EventsKept, EventsTyped, ConsumersFit
<1>7. BridgeFits'
  BY <1>1, <1>2, <1>4 DEF EventsKept, BridgeFits
<1>8. ReportFits'
  BY <1>1, <1>2, <1>3 DEF EventsKept, ReportFits, BridgeFits, Closing, Hosted!Cleanup, ToldAsReported
<1> QED BY <1>5, <1>6, <1>7, <1>8

(* The end that is sent past the queue is the last that is told.           *)
LEMMA ConcedeKeepsHosted == ASSUME HostedInv, Hosted!Concede PROVE HostedInv'
<1> USE DEF HostedInv, Hosted!executionVars, Hosted!cancelVars
<1> DEFINE status == IF ~delivery /\ (interrupted # "no" \/ ~observing) THEN "cancelled" ELSE "failed"
           event == [kind |-> status, sequence |-> bridge.delivered + 1]
<1>1. /\ UNCHANGED <<owned, unseen, observing, delivery, execution, visible, interrupted, cancellation,
                     tries, open, recorded, bridge>>
      /\ command = "conceding" /\ command' = "closing-host"
      /\ Hosted!Consume(event) /\ Hosted!Report(status)
  BY DEF Hosted!Concede, Hosted!Goto, Hosted!interrupted
<1>2. event \in HostedEvents /\ Hosted!Terminal(event.kind) /\ event.kind = status
  BY DEF EventsTyped, HostedEvents, HostedKinds, Hosted!Terminal
<1>3. /\ report'.status = status
      /\ report' \in [status : {"none", "succeeded", "failed", "cancelled"}, exitCode : {0, 1, 130}]
  BY <1>1 DEF Hosted!Report, Hosted!Exit
<1>4. /\ interrupted = "in-time" /\ ~bridge.failed => status = "cancelled"
      /\ status = "cancelled" => interrupted # "no"
  BY DEF ReportFits
<1>5. open
  BY <1>1 DEF ConsumersFit
<1> HIDE DEF status, event
<1>6. /\ accepted' \in Nat /\ terminals' \in Seq(HostedKinds)
      /\ consumer' \in [Hosted!Consumers -> [queue : Seq(HostedEvents), failed : BOOLEAN, flushed : BOOLEAN]]
      /\ \A c \in Hosted!Consumers : Len(consumer'[c].queue) <= ConsumerRoom
      /\ ~consumer'["recording"].failed => Len(recorded) + Len(consumer'["recording"].queue) = accepted'
      /\ terminals' # <<>> /\ terminals'[Len(terminals')] = status
  BY <1>1, <1>2, <1>5, ConsumeFacts
<1>7. StateTyped'
  BY <1>1, <1>3 DEF StateTyped, Closing, Hosted!Cleanup
<1>8. EventsTyped'
  BY <1>1, <1>6 DEF EventsTyped
<1>9. BridgeFits'
  BY <1>1 DEF BridgeFits
<1>10. ConsumersFit'
  BY <1>1, <1>5, <1>6 DEF ConsumersFit
<1>11. ReportFits'
  BY <1>1, <1>3, <1>4, <1>6 DEF ReportFits, ToldAsReported
<1> QED BY <1>7, <1>8, <1>9, <1>10, <1>11

-----------------------------------------------------------------------------
(* Steps of the dispatcher and its consumers. *)

(* The head of the bridge is dispatched.                                   *)
LEMMA DeliverKeepsHosted == ASSUME HostedInv, Hosted!Deliver PROVE HostedInv'
<1> USE DEF HostedInv, Hosted!commandVars, Hosted!executionVars, Hosted!cancelVars
<1> DEFINE q == bridge.queue
           event == Head(q)
<1>1. /\ UNCHANGED <<command, owned, unseen, observing, delivery, report, execution, visible, interrupted,
                     cancellation, tries, open, recorded>>
      /\ q # <<>> /\ Hosted!Consume(event)
      /\ bridge' = [bridge EXCEPT !.queue = Tail(q), !.delivered = event.sequence]
  BY DEF Hosted!Deliver
<1>2. /\ q \in Seq(HostedEvents) /\ bridge.sequence \in Nat /\ bridge.delivered \in Nat
      /\ bridge \in [queue : Seq(HostedEvents), sequence : Nat, failed : BOOLEAN, delivered : Nat]
  BY DEF EventsTyped
<1>3. /\ Tail(q) \in Seq(HostedEvents) /\ Len(Tail(q)) = Len(q) - 1 /\ Len(q) \in Nat /\ Len(q) > 0
      /\ \A i \in 1..(Len(q) - 1) : Tail(q)[i] = q[i + 1]
      /\ DOMAIN q = 1..Len(q) /\ DOMAIN Tail(q) = 1..(Len(q) - 1)
      /\ event = q[1] /\ event \in HostedEvents
      /\ Tail(q) = <<>> <=> Len(q) = 1
  BY <1>1, <1>2, TailFacts
<1>4. event.sequence = bridge.delivered + 1 /\ event.sequence \in Nat /\ event.kind \in HostedKinds
  <2>1. 1 \in DOMAIN q
    BY <1>3
  <2>2. q[1].sequence = bridge.delivered + 1
    BY <2>1 DEF BridgeFits
  <2> QED BY <1>2, <1>3, <2>2 DEF HostedEvents
<1>5. Hosted!Terminal(event.kind) => command = "flushing" /\ Len(q) = 1 /\ event.kind = report.status
  <2>1. Hosted!Terminal(event.kind) => command = "flushing" /\ 1 = Len(q)
    BY <1>2, <1>3 DEF BridgeFits
  <2>2. command = "flushing" => q[Len(q)].kind = report.status
    BY <1>1 DEF BridgeFits
  <2> QED BY <1>3, <2>1, <2>2
<1>6. command = "flushing" /\ Len(q) = 1 => Hosted!Terminal(event.kind)
  <2>1. command = "flushing" => Hosted!Terminal(report.status) /\ q[Len(q)].kind = report.status
    BY <1>1 DEF BridgeFits
  <2> QED BY <1>3, <2>1
<1>7. /\ accepted' \in Nat /\ terminals' \in Seq(HostedKinds)
      /\ consumer' \in [Hosted!Consumers -> [queue : Seq(HostedEvents), failed : BOOLEAN, flushed : BOOLEAN]]
      /\ \A c \in Hosted!Consumers : Len(consumer'[c].queue) <= ConsumerRoom
      /\ ~consumer'["recording"].failed => Len(recorded) + Len(consumer'["recording"].queue) = accepted'
      /\ ~open => UNCHANGED <<consumer, terminals>>
      /\ ~Hosted!Terminal(event.kind) => terminals' = terminals
      /\ open /\ Hosted!Terminal(event.kind) => terminals' # <<>> /\ terminals'[Len(terminals')] = event.kind
  BY <1>1, <1>3, ConsumeFacts
<1>8. /\ bridge' \in [queue : Seq(HostedEvents), sequence : Nat, failed : BOOLEAN, delivered : Nat]
      /\ bridge'.queue = Tail(q) /\ bridge'.delivered = bridge.delivered + 1
      /\ bridge'.sequence = bridge.sequence /\ bridge'.failed = bridge.failed
  <2>1. Tail(q) \in Seq(HostedEvents) /\ event.sequence = bridge.delivered + 1 /\ event.sequence \in Nat
    BY <1>3, <1>4
  <2> QED BY <1>1, <1>2, <2>1
<1>9. \A i \in 1..(Len(q) - 1) : q[i + 1].sequence = bridge.delivered + (i + 1)
  <2>1. \A j \in 1..Len(q) : q[j].sequence = bridge.delivered + j
    BY <1>3 DEF BridgeFits
  <2> QED BY <1>3, <2>1
<1>10. \A i \in 1..(Len(q) - 1) :
          Hosted!Terminal(q[i + 1].kind) => command = "flushing" /\ i + 1 = Len(q)
  <2>1. \A j \in 1..Len(q) : Hosted!Terminal(q[j].kind) => command = "flushing" /\ j = Len(q)
    BY <1>3 DEF BridgeFits
  <2> QED BY <1>3, <2>1
<1>11. bridge.sequence = bridge.delivered + Len(q) /\ Len(q) <= BridgeRoom
  BY DEF BridgeFits
<1>12. command = "flushing" =>
          /\ Hosted!Terminal(report.status)
          /\ Tail(q) # <<>> => Tail(q)[Len(Tail(q))].kind = report.status
          /\ Tail(q) = <<>> => terminals' # <<>> /\ terminals'[Len(terminals')] = report.status
  <2> SUFFICES ASSUME command = "flushing"
               PROVE  /\ Hosted!Terminal(report.status)
                      /\ Tail(q) # <<>> => Tail(q)[Len(Tail(q))].kind = report.status
                      /\ Tail(q) = <<>> => terminals' # <<>> /\ terminals'[Len(terminals')] = report.status
    OBVIOUS
  <2>1. Hosted!Terminal(report.status) /\ q[Len(q)].kind = report.status
    BY <1>1 DEF BridgeFits
  <2>2. Tail(q) # <<>> => Tail(q)[Len(Tail(q))] = q[Len(q)]
    <3> SUFFICES ASSUME Tail(q) # <<>> PROVE Tail(q)[Len(Tail(q))] = q[Len(q)]
      OBVIOUS
    <3>1. Len(q) - 1 \in 1..(Len(q) - 1) /\ (Len(q) - 1) + 1 = Len(q)
      BY <1>3
    <3>2. Tail(q)[Len(q) - 1] = q[(Len(q) - 1) + 1]
      BY <1>3, <3>1
    <3> QED BY <1>3, <3>1, <3>2
  <2>3. open
    BY DEF ConsumersFit
  <2>4. Tail(q) = <<>> => terminals' # <<>> /\ terminals'[Len(terminals')] = report.status
    BY <1>3, <1>5, <1>6, <1>7, <2>3
  <2> QED BY <2>1, <2>2, <2>4
<1>13. command \in Closing => terminals' = terminals
  BY <1>5, <1>7 DEF Closing, Hosted!Cleanup
<1> HIDE DEF q, event
<1>14. StateTyped'
  BY <1>1 DEF StateTyped
<1>15. EventsTyped'
  BY <1>1, <1>7, <1>8 DEF EventsTyped
<1>16. BridgeFits'
  <2>1. bridge'.sequence = bridge'.delivered + Len(bridge'.queue) /\ Len(bridge'.queue) <= BridgeRoom
    <3>1. Len(bridge'.queue) = Len(q) - 1 /\ Len(q) \in Nat
      BY <1>3, <1>8
    <3>2. bridge'.sequence = bridge.delivered + Len(q) /\ Len(q) <= BridgeRoom
      BY <1>8, <1>11
    <3>3. bridge'.delivered = bridge.delivered + 1 /\ bridge.delivered \in Nat
      BY <1>2, <1>8
    <3> QED BY <3>1, <3>2, <3>3, HostedAssumption
  <2>2. \A i \in DOMAIN bridge'.queue : bridge'.queue[i].sequence = bridge'.delivered + i
    <3> SUFFICES ASSUME NEW i \in 1..(Len(q) - 1) PROVE Tail(q)[i].sequence = (bridge.delivered + 1) + i
      BY <1>3, <1>8
    <3>1. q[i + 1].sequence = bridge.delivered + (i + 1) /\ i \in Nat /\ bridge.delivered \in Nat
      BY <1>2, <1>3, <1>9
    <3> QED BY <1>3, <3>1
  <2>3. \A i \in DOMAIN bridge'.queue :
           Hosted!Terminal(bridge'.queue[i].kind) => command = "flushing" /\ i = Len(bridge'.queue)
    <3> SUFFICES ASSUME NEW i \in 1..(Len(q) - 1), Hosted!Terminal(q[i + 1].kind)
                 PROVE  command = "flushing" /\ i = Len(q) - 1
      BY <1>3, <1>8
    <3>1. command = "flushing" /\ i + 1 = Len(q) /\ Len(q) \in Nat
      BY <1>3, <1>10
    <3> QED BY <3>1
  <2> QED BY <1>1, <1>8, <1>12, <2>1, <2>2, <2>3 DEF BridgeFits, ToldAsReported
<1>17. ConsumersFit'
  <2>1. command = "done" /\ ~consumer'["recording"].failed => consumer'["recording"].queue = <<>>
    BY <1>7 DEF ConsumersFit
  <2> QED BY <1>1, <1>7, <2>1 DEF ConsumersFit
<1>18. ReportFits'
  BY <1>1, <1>8, <1>13 DEF ReportFits, ToldAsReported
<1> QED BY <1>14, <1>15, <1>16, <1>17, <1>18

(* A consumer takes an event, or the recording is given up.                *)
LEMMA DrainKeepsHosted ==
    ASSUME HostedInv, NEW c \in Hosted!Consumers, Hosted!Drain(c) \/ Hosted!FlushConsumer(c)
    PROVE  HostedInv'
<1> USE DEF HostedInv, Hosted!commandVars, Hosted!executionVars, Hosted!cancelVars, Hosted!eventVars
<1> DEFINE Record == [queue : Seq(HostedEvents), failed : BOOLEAN, flushed : BOOLEAN]
           q == consumer[c].queue
<1>1. /\ UNCHANGED <<command, owned, unseen, observing, delivery, report, execution, visible, interrupted,
                     cancellation, tries, open, bridge, terminals, accepted>>
      /\ consumer \in [Hosted!Consumers -> Record] /\ recorded \in Seq(Nat) /\ accepted \in Nat
      /\ q \in Seq(HostedEvents) /\ consumer[c] \in Record
  BY DEF EventsTyped, Hosted!Drain, Hosted!FlushConsumer
<1>2. StateTyped' /\ BridgeFits' /\ ReportFits'
  <2>1. StateTyped'
    BY <1>1 DEF StateTyped
  <2>2. BridgeFits'
    BY <1>1 DEF BridgeFits, ToldAsReported
  <2>3. ReportFits'
    BY <1>1 DEF ReportFits, ToldAsReported
  <2> QED BY <2>1, <2>2, <2>3
<1>3. CASE consumer' = Hosted!Failed(c) /\ recorded' = recorded /\ c = "recording"
  <2>1. /\ consumer' \in [Hosted!Consumers -> Record] /\ consumer'["recording"].failed
        /\ \A d \in Hosted!Consumers : consumer'[d].queue = <<>> \/ consumer'[d] = consumer[d]
    <3>1. consumer' = [consumer EXCEPT ![c] = [consumer[c] EXCEPT !.failed = TRUE, !.queue = <<>>]]
      BY <1>1, <1>3 DEF Hosted!Failed
    <3> DEFINE gone == [consumer[c] EXCEPT !.failed = TRUE, !.queue = <<>>]
    <3>2. <<>> \in Seq(HostedEvents)
      OBVIOUS
    <3>3. gone \in Record /\ gone.failed /\ gone.queue = <<>>
      BY <1>1, <3>2
    <3>4. consumer' = [consumer EXCEPT ![c] = gone]
      BY <3>1
    <3> HIDE DEF gone
    <3> QED BY <1>1, <1>3, <3>3, <3>4
  <2>2. EventsTyped'
    BY <1>1, <1>3, <2>1 DEF EventsTyped
  <2>3. \A d \in Hosted!Consumers : Len(consumer'[d].queue) <= ConsumerRoom
    BY <2>1, HostedAssumption DEF ConsumersFit
  <2>4. ConsumersFit'
    BY <1>1, <1>3, <2>1, <2>3 DEF ConsumersFit
  <2> QED BY <1>2, <2>2, <2>4
<1>4. CASE consumer' = [consumer EXCEPT ![c].flushed = TRUE] /\ recorded' = recorded
  <2>1. /\ consumer' \in [Hosted!Consumers -> Record]
        /\ \A d \in Hosted!Consumers :
              consumer'[d].queue = consumer[d].queue /\ consumer'[d].failed = consumer[d].failed
    BY <1>1, <1>4
  <2>2. EventsTyped'
    BY <1>1, <1>4, <2>1 DEF EventsTyped
  <2>3. "recording" \in Hosted!Consumers
    BY DEF Hosted!Consumers
  <2>4. ConsumersFit'
    BY <1>1, <1>4, <2>1, <2>3 DEF ConsumersFit
  <2> QED BY <1>2, <2>2, <2>4
<1>5. CASE /\ q # <<>> /\ consumer' = [consumer EXCEPT ![c].queue = Tail(@)]
           /\ IF c = "recording" THEN Hosted!Record(Head(q)) ELSE recorded' = recorded
  <2>1. /\ Tail(q) \in Seq(HostedEvents) /\ Len(Tail(q)) = Len(q) - 1 /\ Len(q) \in Nat /\ Len(q) > 0
        /\ Head(q) \in HostedEvents
    BY <1>1, <1>5, TailFacts
  <2>2. /\ consumer' \in [Hosted!Consumers -> Record] /\ consumer'[c].queue = Tail(q)
        /\ consumer'[c].failed = consumer[c].failed
        /\ \A d \in Hosted!Consumers \ {c} : consumer'[d] = consumer[d]
    BY <1>1, <1>5, <2>1
  <2>3. \A d \in Hosted!Consumers : Len(consumer'[d].queue) <= ConsumerRoom
    <3>1. Len(q) <= ConsumerRoom
      BY DEF ConsumersFit
    <3>2. Len(consumer'[c].queue) <= ConsumerRoom
      BY <2>1, <2>2, <3>1, HostedAssumption
    <3> QED BY <2>2, <3>2 DEF ConsumersFit
  <2>4. "recording" \in Hosted!Consumers /\ Len(recorded) \in Nat /\ DOMAIN recorded = 1..Len(recorded)
    BY <1>1 DEF Hosted!Consumers
  <2>5. CASE c = "recording"
    <3> DEFINE n == Head(q).sequence
    <3>1. n = Len(recorded) + 1 /\ recorded' = Append(recorded, n) /\ n \in Nat
      BY <1>5, <2>1, <2>5 DEF Hosted!Record, Hosted!Recordable, HostedEvents
    <3>2. /\ recorded' \in Seq(Nat) /\ Len(recorded') = Len(recorded) + 1
          /\ \A i \in 1..Len(recorded) : recorded'[i] = recorded[i]
          /\ recorded'[Len(recorded) + 1] = n /\ DOMAIN recorded' = 1..(Len(recorded) + 1)
      BY <1>1, <3>1, QueueFacts
    <3>3. \A i \in DOMAIN recorded' : recorded'[i] = i
      BY <2>4, <3>1, <3>2 DEF ConsumersFit
    <3>4. ~consumer'["recording"].failed => Len(recorded') + Len(consumer'["recording"].queue) = accepted
      <4> SUFFICES ASSUME ~consumer'["recording"].failed
                   PROVE  Len(recorded') + Len(consumer'["recording"].queue) = accepted
        OBVIOUS
      <4>1. Len(recorded) + Len(q) = accepted
        BY <2>2, <2>5 DEF ConsumersFit
      <4>2. Len(consumer'["recording"].queue) = Len(q) - 1 /\ Len(q) \in Nat
        BY <2>1, <2>2, <2>5
      <4>3. Len(recorded') = Len(recorded) + 1 /\ Len(recorded) \in Nat
        BY <2>4, <3>2
      <4>4. \A a, b, d \in Nat : a + b = d => (a + 1) + (b - 1) = d
        OBVIOUS
      <4>5. (Len(recorded) + 1) + (Len(q) - 1) = accepted
        <5>1. Len(recorded) \in Nat /\ Len(q) \in Nat /\ accepted \in Nat
          BY <1>1, <4>2, <4>3
        <5> HIDE DEF q, HostedInv
        <5> QED BY <4>1, <4>4, <5>1
      <4> QED BY <4>2, <4>3, <4>5
    <3>5. ~(command = "done" /\ ~consumer["recording"].failed)
      BY <1>5, <2>5 DEF ConsumersFit
    <3>6. EventsTyped'
      BY <1>1, <2>2, <3>2 DEF EventsTyped
    <3>7. ConsumersFit'
      BY <1>1, <2>2, <2>3, <2>5, <3>3, <3>4, <3>5 DEF ConsumersFit
    <3> QED BY <1>2, <3>6, <3>7
  <2>6. CASE c # "recording"
    <3>1. recorded' = recorded /\ consumer'["recording"] = consumer["recording"]
      BY <1>5, <2>2, <2>4, <2>6
    <3>2. EventsTyped'
      BY <1>1, <2>2, <3>1 DEF EventsTyped
    <3>3. ConsumersFit'
      BY <1>1, <2>3, <3>1 DEF ConsumersFit
    <3> QED BY <1>2, <3>2, <3>3
  <2> QED BY <2>5, <2>6
<1> QED BY <1>3, <1>4, <1>5 DEF Hosted!Drain, Hosted!FlushConsumer

(* The dispatcher is closed, and what its consumers hold is flushed.       *)
LEMMA ClosingKeepsHosted ==
    ASSUME HostedInv, Hosted!FlushConsumers \/ Hosted!CloseConsumers PROVE HostedInv'
<1> USE DEF HostedInv, Hosted!executionVars, Hosted!cancelVars, Hosted!consumerVars, Hosted!eventVars
<1>1. /\ UNCHANGED <<owned, unseen, observing, delivery, report, execution, visible, interrupted,
                     cancellation, tries, consumer, recorded, bridge, terminals, accepted>>
      /\ command \in {"flushing-consumers", "closing-consumers"}
      /\ command' \in {"closing-consumers", "done"} /\ open' = FALSE
      /\ Hosted!ConsumersFlushed
  <2>1. CASE Hosted!FlushConsumers
    BY <2>1 DEF Hosted!FlushConsumers, Hosted!Goto
  <2>2. CASE Hosted!CloseConsumers
    BY <2>2 DEF Hosted!CloseConsumers, Hosted!Goto, ConsumersFit, EventsTyped
  <2> QED BY <2>1, <2>2
<1>2. StateTyped'
  BY <1>1 DEF StateTyped, Closing, Hosted!Cleanup
<1>3. EventsTyped'
  BY <1>1 DEF EventsTyped
<1>4. BridgeFits'
  BY <1>1 DEF BridgeFits
<1>5. ConsumersFit'
  <2>1. ~consumer["recording"].failed => consumer["recording"].queue = <<>>
    BY <1>1 DEF Hosted!ConsumersFlushed, Hosted!Consumers
  <2> QED BY <1>1, <2>1 DEF ConsumersFit
<1>6. ReportFits'
  BY <1>1 DEF ReportFits, ToldAsReported, Closing, Hosted!Cleanup
<1> QED BY <1>2, <1>3, <1>4, <1>5, <1>6

-----------------------------------------------------------------------------
(* The command line. *)

LEMMA InitHostedInv == Hosted!HostedInit => HostedInv
<1> SUFFICES ASSUME Hosted!HostedInit PROVE HostedInv
  OBVIOUS
<1>1. /\ <<>> \in Seq(HostedEvents) /\ <<>> \in Seq(HostedKinds) /\ <<>> \in Seq(Nat) /\ Len(<<>>) = 0
      /\ DOMAIN <<>> = {}
  OBVIOUS
<1>2. 0 \in 0..MaxUnseen /\ 0 \in 0..CancelTries /\ 0 <= BridgeRoom /\ 0 <= ConsumerRoom
  BY HostedAssumption
<1>3. StateTyped
  BY <1>2 DEF Hosted!HostedInit, StateTyped
<1>4. EventsTyped
  BY <1>1 DEF Hosted!HostedInit, EventsTyped
<1>5. BridgeFits
  BY <1>1, <1>2 DEF Hosted!HostedInit, BridgeFits
<1>6. ConsumersFit
  <2>1. "recording" \in Hosted!Consumers
    BY DEF Hosted!Consumers
  <2> QED BY <1>1, <1>2, <2>1 DEF Hosted!HostedInit, ConsumersFit
<1>7. ReportFits
  BY DEF Hosted!HostedInit, ReportFits, Closing, Hosted!Cleanup
<1> QED BY <1>3, <1>4, <1>5, <1>6, <1>7 DEF HostedInv

LEMMA NextKeepsHosted == HostedInv /\ [Hosted!HostedNext]_hostedVars => HostedInv'
<1> SUFFICES ASSUME HostedInv, [Hosted!HostedNext]_hostedVars PROVE HostedInv'
  OBVIOUS
<1>1. CASE Hosted!CommandStep
  BY <1>1, OpenKeepsHosted, WaitingKeepsHosted, DecideKeepsHosted, SettlingKeepsHosted, ConcedeKeepsHosted,
     ClosingKeepsHosted DEF Hosted!CommandStep
<1>2. CASE Hosted!EventStep
  BY <1>2, DeliverKeepsHosted, DrainKeepsHosted DEF Hosted!EventStep
<1>3. CASE Hosted!CancelRun \/ Hosted!RunStep \/ Hosted!Signal
  BY <1>3, ServerKeepsHosted
<1>4. CASE Hosted!RunWorks
  BY <1>4, RunWorksKeepsHosted
<1>5. CASE UNCHANGED hostedVars
  <2> USE <1>5 DEF HostedInv, hostedVars
  <2>1. StateTyped'
    BY DEF StateTyped
  <2>2. EventsTyped' /\ BridgeFits'
    BY DEF EventsTyped, BridgeFits, ToldAsReported
  <2>3. ConsumersFit' /\ ReportFits'
    BY DEF ConsumersFit, ReportFits, ToldAsReported
  <2> QED BY <2>1, <2>2, <2>3
<1> QED BY <1>1, <1>2, <1>3, <1>4, <1>5 DEF Hosted!HostedNext

(* What follows from the invariant for a command that goes through a host. *)
LEMMA HostedTruthful ==
    ASSUME HostedInv
    PROVE  Hosted!HostedTypeOK /\ Hosted!ReportedAsTold /\ Hosted!RecordingFaithful
<1> USE DEF HostedInv
<1>1. Hosted!HostedTypeOK
  <2>1. bridge.delivered <= bridge.sequence
    <3>1. bridge.delivered \in Nat /\ Len(bridge.queue) \in Nat
      BY DEF EventsTyped
    <3>2. bridge.sequence = bridge.delivered + Len(bridge.queue)
      BY DEF BridgeFits
    <3> QED BY <3>1, <3>2
  <2> QED BY <2>1 DEF StateTyped, BridgeFits, ConsumersFit, Closing, Hosted!HostedTypeOK
<1>2. Hosted!ReportedAsTold
  BY DEF ReportFits, ToldAsReported, Closing, Hosted!ReportedAsTold, Hosted!interrupted
<1>3. Hosted!RecordingFaithful
  <2> SUFFICES ASSUME command = "done", ~consumer["recording"].failed PROVE Len(recorded) = accepted
    BY DEF ConsumersFit, Hosted!RecordingFaithful
  <2>1. Len(recorded) + Len(consumer["recording"].queue) = accepted /\ consumer["recording"].queue = <<>>
    BY DEF ConsumersFit
  <2>2. Len(recorded) \in Nat
    BY DEF EventsTyped
  <2> QED BY <2>1, <2>2
<1> QED BY <1>1, <1>2, <1>3

(* Each step of a command keeps what both machines need: the one that was  *)
(* not chosen does not move.                                               *)
THEOREM CommandInvariant == CommandSpec => [](RunnerInv /\ HostedInv)
<1>1. CommandInit => RunnerInv /\ HostedInv
  BY InitRunnerInv, InitHostedInv DEF CommandInit
<1>2. (RunnerInv /\ HostedInv) /\ [CommandNext]_commandVars => (RunnerInv /\ HostedInv)'
  <2> SUFFICES ASSUME RunnerInv, HostedInv, [CommandNext]_commandVars
               PROVE  RunnerInv' /\ HostedInv'
    OBVIOUS
  <2>1. [Next]_vars /\ [Hosted!HostedNext]_hostedVars
    BY DEF CommandNext, RunnerStep, HostedStep, HostedDone, commandVars
  <2> QED BY <2>1, NextKeepsRunner, NextKeepsHosted
<1> QED BY <1>1, <1>2, PTL DEF CommandSpec

(* What the command line reports is what happened, on either route and for *)
(* any sizes of the bridge and of the consumers' queues: through a host the *)
(* end that the consumers were told last, a cancellation when a signal was *)
(* heard in time and no event was lost and only then or when the server    *)
(* says so, and a recording that is whole and in order unless it was given *)
(* up.                                                                     *)
THEOREM CommandReports == CommandSpec => []CommandTruthful
<1>1. RunnerInv /\ HostedInv => CommandTruthful
  BY RunnerTruthful, HostedTruthful DEF CommandTruthful
<1> QED BY <1>1, CommandInvariant, PTL

(* Nor is a terminal event sent before the resources of a supervised run   *)
(* are closed, on the command line.                                        *)
THEOREM CommandCleansUp == CommandSpec => []CleanupFirst
BY RunnerCleansUp, CommandInvariant, PTL
=============================================================================
