-------------------------------- MODULE MCRunner --------------------------------
(* A run of the command line: in a child process that it supervises, or      *)
(* through an operational host.  The machine that was not chosen keeps its   *)
(* first state.                                                              *)
EXTENDS RunnerSupervision

CONSTANTS MaxWork, BridgeRoom, ConsumerRoom, MaxUnseen, CancelTries  \* HostedRun

(* The limits of HostedRun are numbers. *)
ASSUME HostedAssumption ==
    MaxWork \in Nat /\ BridgeRoom \in Nat /\ ConsumerRoom \in Nat /\ MaxUnseen \in Nat /\ CancelTries \in Nat

VARIABLES
    route,     \* the machine that runs
    command, owned, unseen, observing, delivery, report, execution, visible, interrupted,
    cancellation, tries, open, consumer, recorded, bridge, terminals, accepted

Hosted == INSTANCE HostedRun WITH signalled <- interrupted

hostedVars == <<command, owned, unseen, observing, delivery, report, execution, visible,
                interrupted, cancellation, tries, open, consumer, recorded, bridge, terminals,
                accepted>>
commandVars == <<route, vars, hostedVars>>

CommandInit ==
    /\ route \in {"runner", "host"}
    /\ Init
    /\ Hosted!HostedInit /\ (route = "runner" => owned)

RunnerStep == route = "runner" /\ Next /\ UNCHANGED <<route, hostedVars>>
HostedStep == route = "host" /\ Hosted!HostedNext /\ UNCHANGED <<route, vars>>
HostedDone == route = "host" /\ Hosted!HostedOver /\ UNCHANGED commandVars

CommandNext == RunnerStep \/ HostedStep \/ HostedDone

CommandFairness ==
    /\ WF_vars(route = "runner" /\ RunnerTurn)
    /\ WF_vars(route = "runner" /\ Supervise)
    /\ WF_hostedVars(route = "host" /\ Hosted!CommandStep)
    /\ WF_hostedVars(route = "host" /\ Hosted!EventStep)
    /\ WF_hostedVars(route = "host" /\ Hosted!CancelRun)
    /\ WF_hostedVars(route = "host" /\ Hosted!RunStep)

CommandSpec == CommandInit /\ [][CommandNext]_commandVars /\ CommandFairness

(* What the command reports is what happened: in a child process the status *)
(* of the run that was received, every event once and in order, one end     *)
(* (RunnerSupervision); through a host what the consumers were told last,   *)
(* with a recording that is whole unless it was given up (HostedRun).       *)
CommandTruthful ==
    /\ route = "runner" => ReportsTruthful
    /\ route = "host" => Hosted!HostedTypeOK /\ Hosted!ReportedAsTold /\ Hosted!RecordingFaithful

(* The command ends: a cancelled supervision whatever the child does, with  *)
(* no runner left behind, and a run through a host as soon as its requests  *)
(* are answered or fail, although the cancellation may come at any point.   *)
CommandEnds ==
    /\ SupervisionEnds
    /\ (route = "host") ~> Hosted!HostedOver
=============================================================================
