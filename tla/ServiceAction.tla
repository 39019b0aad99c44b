---------------------------- MODULE ServiceAction ----------------------------
(* A service that one step of a CI job starts and its post step stops:      *)
(* actions/opencode-server (with the executable of actions/setup-opencode), *)
(* actions/zvec-grep-server and actions/ripwire-server, over                *)
(* libs/action-service-lifecycle.  The service runs in a process group led  *)
(* by an anchor (process-anchor.js), which kills the group when the step    *)
(* goes away before it has adopted it; a sentinel stays in the group so     *)
(* that it can be recognised when the anchor is gone.                       *)
(*                                                                          *)
(* The operating system is external.  A process id is used again when the   *)
(* whole group is gone, never with the same start time.  A process is       *)
(* identified and its group signalled in one step; a killed process is gone *)
(* at once.  The step of the job may be killed at any time, its post step   *)
(* is not.                                                                  *)
EXTENDS Naturals, FiniteSets

CONSTANTS
    Kinds,      \* the actions: "opencode", "zvec" and "ripwire"
    MaxFaults   \* bound: kills from outside, of the step or of one process;
                \* nothing in the code stands against a second one

VARIABLES
    kind,       \* the action
    step,       \* how far the step of the job and its post step have come
    tool,       \* the executable: where it is from and whether it is the one asked for
    folder,     \* the install directory of ripwire exists
    process,    \* anchor, sentinel and service of the group
    adopted,    \* adopted of process-anchor.js
    link,       \* the IPC channel between the step and the anchor
    asked,      \* "adopt" has been written to it and is not read yet
    sent,       \* what the anchor has written and the step has not read
    foreign,    \* another group has got the process group id
    known,      \* members whose identity the step, or its post step, holds
    saved,      \* the state that the step has saved for its post step
    stopping,   \* how far terminateProcessGroup has come
    told,       \* the step has failed, or a warning was given
    harmed,     \* a signal went to another group
    faults      \* kills so far

serviceVars == <<kind, step, tool, folder, process, adopted, link, asked, sent, foreign,
                 known, saved, stopping, told, harmed, faults>>

Members == {"anchor", "sentinel", "service"}
Identified == {"anchor", "sentinel"}

Starting == {"install", "check", "spawn", "identify", "ready", "reap", "discard",
             "save", "adopt", "adopting", "probe", "clean"}
Ending == {"left", "post", "stop", "remove", "over"}

ServiceTypeOK ==
    /\ kind \in Kinds
    /\ step \in Starting \cup Ending
    /\ tool \in [from : {"none", "missed", "cache", "archive", "unpacked", "installed"}, sound : BOOLEAN]
    /\ process \in [Members -> {"none", "up", "gone"}]
    /\ {folder, adopted, link, asked, foreign, told, harmed} \subseteq BOOLEAN
    /\ sent \subseteq {"ready", "error", "adopted"}
    /\ known \subseteq Identified
    /\ saved \subseteq {"folder", "folder-only", "pid", "members", "anchor", "sentinel"}
    /\ stopping \in {"off", "waiting", "stopped", "unverified"}
    /\ faults \in 0..MaxFaults

ServiceInit ==
    /\ kind \in Kinds
    /\ step = "install"
    /\ tool = [from |-> "none", sound |-> FALSE]
    /\ folder = FALSE
    /\ process = [m \in Members |-> "none"]
    /\ adopted = FALSE /\ link = FALSE /\ asked = FALSE /\ sent = {}
    /\ foreign = FALSE
    /\ known = {} /\ saved = {} /\ stopping = "off"
    /\ told = FALSE /\ harmed = FALSE /\ faults = 0

Up(m) == process[m] = "up"
GroupRuns == \E m \in Members : Up(m)

(* processGroupIsAlive: whoever has the process group id. *)
GroupAlive == GroupRuns \/ foreign

(* The processes of the group die, or some of them. *)
Kill(members) ==
    process' = [m \in Members |-> IF m \in members /\ Up(m) THEN "gone" ELSE process[m]]

processVars == <<process, adopted, foreign, harmed>>
channelVars == <<link, asked, sent>>
stateVars == <<folder, known, saved, stopping>>

-----------------------------------------------------------------------------
(* The executable. *)

(* setupOpenCode, from the cache: what is restored is used if it reports    *)
(* the version; otherwise it is removed and the release is fetched.         *)
Restore ==
    /\ kind = "opencode" /\ tool.from = "none"
    /\ \E sound \in BOOLEAN : tool' = [from |-> "cache", sound |-> sound]
    /\ UNCHANGED step

UseRestored ==
    /\ tool.from = "cache"
    /\ IF tool.sound
       THEN tool' = [tool EXCEPT !.from = "installed"]
       ELSE tool' = [tool EXCEPT !.from = "missed"]
    /\ UNCHANGED step

(* The archive of the release, whatever was served. *)
Download ==
    /\ kind \in {"opencode", "ripwire"} /\ tool.from \in {"none", "missed"}
    /\ \E sound \in BOOLEAN : tool' = [from |-> "archive", sound |-> sound]
    /\ folder' = (kind = "ripwire")
    /\ UNCHANGED step

(* The digests of the release and, for ripwire, of the repository agree     *)
(* with the archive, so that what is unpacked is what was asked for.        *)
Unpack ==
    /\ tool.from = "archive" /\ tool.sound
    /\ tool' = [tool EXCEPT !.from = "unpacked"]
    /\ UNCHANGED step

(* The executable has reported its version and is where it is run from.     *)
Install ==
    /\ tool.from = "unpacked"
    /\ tool' = [tool EXCEPT !.from = "installed"]
    /\ saved' = IF kind = "ripwire" THEN saved \cup {"folder"} ELSE saved
    /\ UNCHANGED <<step, folder, known, stopping>>

(* A step of the installation fails.  ripwire removes what it had, or says  *)
(* that it could not and leaves the removal to the post step.               *)
InstallFails ==
    /\ step = "install" /\ kind # "zvec" /\ tool.from \notin {"cache", "installed"}
    /\ step' = "left" /\ told' = TRUE
    /\ \/ folder' = FALSE /\ UNCHANGED saved
       \/ folder /\ saved' = saved \cup {"folder", "folder-only"} /\ UNCHANGED folder
    /\ UNCHANGED <<kind, tool, known, stopping, faults>> /\ UNCHANGED processVars
    /\ UNCHANGED channelVars

(* The directory, the address and, for zvec-grep, the commands before the   *)
(* server are in order.                                                     *)
Checked ==
    /\ kind = "zvec" \/ tool.from = "installed"
    /\ step' = "spawn"
    /\ UNCHANGED <<tool, folder>>

Prepare ==
    /\ step = "install"
    /\ \/ /\ Restore \/ UseRestored \/ Unpack \/ Checked
          /\ UNCHANGED stateVars
       \/ Download /\ UNCHANGED <<known, saved, stopping>>
       \/ Install
    /\ UNCHANGED <<kind, told, faults>> /\ UNCHANGED processVars /\ UNCHANGED channelVars

-----------------------------------------------------------------------------
(* Ends of the step. *)

(* run() rejects, and core.setFailed says so.  ripwire removes its install  *)
(* directory when nothing can run from it any more, if that succeeds.       *)
Fail(clean) ==
    /\ step' = "left" /\ told' = TRUE
    /\ folder' \in {folder} \cup (IF clean THEN {FALSE} ELSE {})

(* What is wrong before a process is there. *)
CheckFails ==
    /\ step = "install" /\ (kind = "zvec" \/ tool.from = "installed")
    /\ Fail(TRUE)
    /\ UNCHANGED <<kind, tool, known, saved, stopping, faults>>
    /\ UNCHANGED processVars /\ UNCHANGED channelVars

(* The anchor cannot be spawned: no cleanup is known to have succeeded.     *)
SpawnFails ==
    /\ step = "spawn" /\ Fail(FALSE)
    /\ UNCHANGED <<kind, tool, known, saved, stopping, faults>>
    /\ UNCHANGED processVars /\ UNCHANGED channelVars

-----------------------------------------------------------------------------
(* terminateProcessGroup. *)

(* findMatchingProcessMember: a member that is known and still the process  *)
(* that it was.                                                             *)
Owner == {m \in known : Up(m)}

(* The signal goes to the group, whoever it is. *)
Signal == harmed' = (harmed \/ foreign)

(* It begins: nobody is left, nobody can be recognised, or SIGTERM is sent, *)
(* which anchor and sentinel ignore.                                        *)
BeginStop ==
    /\ stopping = "off"
    /\ \/ (known = {} \/ ~GroupAlive) /\ stopping' = "stopped" /\ UNCHANGED harmed
       \/ known # {} /\ GroupAlive /\ Owner = {} /\ stopping' = "unverified" /\ UNCHANGED harmed
       \/ known # {} /\ GroupAlive /\ Owner # {} /\ stopping' = "waiting" /\ Signal
    /\ UNCHANGED process

(* The group ends within the grace period, or its owner is looked for again *)
(* and SIGKILL is sent.                                                     *)
EndStop ==
    /\ stopping = "waiting"
    /\ \/ ~GroupAlive /\ stopping' = "stopped" /\ UNCHANGED <<process, harmed>>
       \/ Owner = {} /\ GroupAlive /\ stopping' = "unverified" /\ UNCHANGED <<process, harmed>>
       \/ Owner # {} /\ stopping' = "stopped" /\ Kill(Members) /\ Signal

Stop ==
    /\ step \in {"reap", "clean", "stop"}
    /\ step = "reap" => ~link /\ "anchor" \in known
    /\ BeginStop \/ EndStop
    /\ UNCHANGED <<kind, step, tool, folder, adopted, foreign, known, saved, told, faults>>
    /\ UNCHANGED channelVars

-----------------------------------------------------------------------------
(* The step: spawnDetached. *)

Spawn ==
    /\ step = "spawn" /\ step' = "identify"
    /\ process' = [process EXCEPT !["anchor"] = "up"] /\ link' = TRUE
    /\ UNCHANGED <<kind, tool, asked, sent, told, faults, adopted, foreign, harmed>>
    /\ UNCHANGED stateVars

(* readProcessIdentity of the anchor. *)
Identify ==
    /\ step = "identify"
    /\ IF Up("anchor")
       THEN step' = "ready" /\ known' = {"anchor"}
       ELSE step' = "reap" /\ UNCHANGED known
    /\ UNCHANGED <<kind, tool, folder, saved, stopping, told, faults>>
    /\ UNCHANGED processVars /\ UNCHANGED channelVars

(* waitForAnchorReady and the identity of the sentinel.  The wait ends with *)
(* the first message, when the anchor is gone, or after five seconds.       *)
Ready ==
    /\ step = "ready"
    /\ \/ /\ "ready" \in sent /\ Up("sentinel")
          /\ step' = "save" /\ known' = Identified
       \/ step' = "reap" /\ UNCHANGED known
    /\ sent' = {}
    /\ UNCHANGED <<kind, tool, folder, saved, stopping, told, faults, link, asked>>
    /\ UNCHANGED processVars

(* terminateFailedAnchor: the channel is closed, and a group whose anchor   *)
(* was identified is terminated.                                            *)
DisconnectFailed ==
    /\ step = "reap" /\ link
    /\ link' = FALSE
    /\ UNCHANGED <<kind, step, tool, told, faults, asked, sent>>
    /\ UNCHANGED processVars /\ UNCHANGED stateVars

(* Otherwise the anchor has a second to end by itself before it is killed,  *)
(* and alone: whether the group ends as well is looked at.                  *)
Reap ==
    /\ step = "reap" /\ ~link
    /\ stopping = "unverified" \/ known = {}
    /\ step' = "discard" /\ Kill({"anchor"})
    /\ UNCHANGED <<kind, tool, told, faults, adopted, foreign, harmed>>
    /\ UNCHANGED stateVars /\ UNCHANGED channelVars

(* spawnDetached rejects.  ripwire leaves what it knows of an ambiguous     *)
(* group to its post step.                                                  *)
Discard ==
    /\ \/ step = "reap" /\ stopping = "stopped" /\ Fail(TRUE) /\ UNCHANGED saved
       \/ step = "discard" /\ ~GroupAlive /\ Fail(TRUE) /\ UNCHANGED saved
       \/ /\ step = "discard" /\ Fail(FALSE)
          /\ saved' = IF kind = "ripwire" THEN saved \cup known ELSE saved
    /\ stopping' = "off"
    /\ UNCHANGED <<kind, tool, known, faults>> /\ UNCHANGED processVars /\ UNCHANGED channelVars

-----------------------------------------------------------------------------
(* The step: what the post step will need, and the adoption. *)

(* A faulty Save: the group is adopted first. *)
SaveLater ==
    /\ step = "save" /\ step' = "adopt"
    /\ UNCHANGED <<kind, tool, folder, known, stopping, told, faults, saved>>
    /\ UNCHANGED processVars /\ UNCHANGED channelVars

(* saveProcessState.  ripwire writes one entry; the others write the        *)
(* process id first and its identity after it.  A write may fail.           *)
Save ==
    /\ step = "save"
    /\ \/ /\ kind = "ripwire" \/ "pid" \in saved
          /\ step' = "adopt" /\ saved' = saved \cup {"pid"} \cup known
       \/ /\ kind # "ripwire" /\ "pid" \notin saved
          /\ UNCHANGED step /\ saved' = saved \cup {"pid"}
       \/ step' = "clean" /\ UNCHANGED saved
    /\ UNCHANGED <<kind, tool, folder, known, stopping, told, faults>>
    /\ UNCHANGED processVars /\ UNCHANGED channelVars

(* adoptAnchor: the request is written, unless the channel is gone. *)
Adopt ==
    /\ step = "adopt"
    /\ IF link THEN step' = "adopting" /\ asked' = TRUE ELSE step' = "clean" /\ UNCHANGED asked
    /\ UNCHANGED <<kind, tool, told, faults, link, sent>>
    /\ UNCHANGED processVars /\ UNCHANGED stateVars

(* The anchor has answered, or it has not within a second or is gone; the   *)
(* channel is closed in either case.                                        *)
Adopted ==
    /\ step = "adopting"
    /\ \/ "adopted" \in sent /\ step' = "probe"
       \/ step' = "clean"
    /\ sent' = {} /\ link' = FALSE
    /\ UNCHANGED <<kind, tool, told, faults, asked>>
    /\ UNCHANGED processVars /\ UNCHANGED stateVars

(* The socket that ripwire asks belongs to a process of the group. *)
ListenOwned == Up("service")

(* The anchor is still the process that was started. *)
AnchorVerified == Up("anchor")

(* The service has answered; the probe of ripwire takes no other answer     *)
(* than that of the service it has started.                                 *)
Probed ==
    /\ kind = "ripwire" => ListenOwned /\ AnchorVerified
    /\ step' = "left"

(* The service is waited for until the deadline.  The other actions take    *)
(* any answer at the address for that of the service.                       *)
Probe ==
    /\ step = "probe"
    /\ Probed \/ step' = "clean"
    /\ UNCHANGED <<kind, tool, told, faults>>
    /\ UNCHANGED processVars /\ UNCHANGED stateVars /\ UNCHANGED channelVars

(* cleanupService: the step fails when the group has been terminated, or    *)
(* could not be.                                                            *)
Clean ==
    /\ step = "clean" /\ stopping \in {"stopped", "unverified"}
    /\ Fail(stopping = "stopped")
    /\ stopping' = "off"
    /\ UNCHANGED <<kind, tool, known, saved, faults>>
    /\ UNCHANGED processVars /\ UNCHANGED channelVars

-----------------------------------------------------------------------------
(* The post step. *)

(* The members that can be identified from what was saved. *)
SavedMembers == saved \cap Identified

(* The other steps of the job are over.  The post step knows what was       *)
(* saved; without a process there is nothing to stop.                       *)
Post ==
    /\ step = "left"
    /\ known' = SavedMembers
    /\ IF saved \cap {"pid", "anchor"} # {}
       THEN step' = "stop" /\ UNCHANGED told
       ELSE /\ step' = IF "folder-only" \in saved THEN "remove" ELSE "over"
            /\ told' = (told \/ ("folder" \in saved /\ "folder-only" \notin saved))
    /\ UNCHANGED <<kind, tool, folder, saved, stopping, faults>>
    /\ UNCHANGED processVars /\ UNCHANGED channelVars

(* A group that could not be stopped is warned of, and ripwire keeps the    *)
(* directory it runs from.                                                  *)
PostStopped ==
    /\ step = "stop" /\ stopping \in {"stopped", "unverified"}
    /\ step' = IF stopping = "stopped" /\ "folder" \in saved THEN "remove" ELSE "over"
    /\ told' = (told \/ stopping = "unverified")
    /\ stopping' = "off"
    /\ UNCHANGED <<kind, tool, folder, known, saved, faults>>
    /\ UNCHANGED processVars /\ UNCHANGED channelVars

(* removeInstallDirectory, or a warning. *)
Remove ==
    /\ step = "remove" /\ step' = "over"
    /\ \/ folder' = FALSE /\ UNCHANGED told
       \/ told' = TRUE /\ UNCHANGED folder
    /\ UNCHANGED <<kind, tool, known, saved, stopping, faults>>
    /\ UNCHANGED processVars /\ UNCHANGED channelVars

-----------------------------------------------------------------------------
(* The processes of the group. *)

groupUnchanged == UNCHANGED <<kind, step, tool, told, faults>> /\ UNCHANGED stateVars

(* The anchor starts the sentinel, then the service, and says that it is    *)
(* ready; or one of them cannot be started and the anchor exits, which      *)
(* kills the group.                                                         *)
AnchorStarts ==
    /\ Up("anchor") /\ process["service"] = "none"
    /\ \/ /\ process["sentinel"] = "none"
          /\ process' = [process EXCEPT !["sentinel"] = "up"]
          /\ UNCHANGED <<link, sent>>
       \/ /\ process["sentinel"] # "none"
          /\ process' = [process EXCEPT !["service"] = "up"]
          /\ sent' = IF link THEN sent \cup {"ready"} ELSE sent
          /\ UNCHANGED link
       \/ /\ Kill(Members)
          /\ sent' = IF link THEN sent \cup {"error"} ELSE sent
          /\ link' = FALSE
    /\ UNCHANGED <<adopted, asked, foreign, harmed>> /\ groupUnchanged

(* It reads the request to adopt. *)
AnchorAdopts ==
    /\ Up("anchor") /\ asked
    /\ asked' = FALSE /\ adopted' = TRUE
    /\ sent' = IF link THEN sent \cup {"adopted"} ELSE sent
    /\ UNCHANGED <<link, process, foreign, harmed>> /\ groupUnchanged

(* The channel is closed, which it hears of when it has read what was       *)
(* written before: without the adoption it kills the group.                 *)
AnchorLetGo ==
    /\ Up("anchor") /\ ~link /\ ~asked /\ ~adopted
    /\ Kill(Members)
    /\ UNCHANGED <<adopted, foreign, harmed>> /\ UNCHANGED channelVars /\ groupUnchanged

(* The service exits.  The anchor of ripwire exits with it, which kills the *)
(* group and closes the channel.                                            *)
ServiceExits ==
    /\ Up("service")
    /\ IF kind = "ripwire" /\ Up("anchor")
       THEN Kill(Members) /\ link' = FALSE
       ELSE Kill({"service"}) /\ UNCHANGED link
    /\ UNCHANGED <<adopted, foreign, harmed, asked, sent>> /\ groupUnchanged

(* The process group id is given to another group, once this one is gone.   *)
Reuse ==
    /\ ~GroupRuns /\ process["anchor"] = "gone"
    /\ foreign' = ~foreign
    /\ UNCHANGED <<process, adopted, harmed>> /\ UNCHANGED channelVars /\ groupUnchanged

-----------------------------------------------------------------------------
(* Kills from outside. *)

(* The step is killed: what it has written stays, the channel closes.       *)
KillStep ==
    /\ faults < MaxFaults /\ step \in Starting
    /\ faults' = faults + 1
    /\ step' = "left" /\ link' = FALSE /\ sent' = {} /\ stopping' = "off"
    /\ UNCHANGED <<kind, tool, folder, known, saved, told, asked>> /\ UNCHANGED processVars

(* Anchor or sentinel is killed. *)
KillMember(m) ==
    /\ faults < MaxFaults /\ Up(m)
    /\ faults' = faults + 1
    /\ Kill({m})
    /\ link' = (link /\ m # "anchor")
    /\ UNCHANGED <<kind, step, tool, told, adopted, foreign, harmed, asked, sent>>
    /\ UNCHANGED stateVars

-----------------------------------------------------------------------------
(* The specification. *)
ServiceProgress ==
    \/ Prepare \/ InstallFails \/ CheckFails \/ SpawnFails
    \/ Spawn \/ Identify \/ Ready \/ DisconnectFailed \/ Stop \/ Reap \/ Discard
    \/ Save \/ Adopt \/ Adopted \/ Probe \/ Clean
    \/ Post \/ PostStopped \/ Remove

Anchor == AnchorStarts \/ AnchorAdopts \/ AnchorLetGo

ServiceOver == step = "over"

ServiceNext ==
    \/ ServiceProgress \/ Anchor \/ ServiceExits \/ Reuse
    \/ KillStep \/ \E m \in Identified : KillMember(m)

(* The step goes on: every wait in it has a timer.  The anchor handles what *)
(* it hears; no service ever has to end by itself.                          *)
ServiceSpec ==
    ServiceInit /\ [][ServiceNext]_serviceVars
    /\ WF_serviceVars(ServiceProgress) /\ WF_serviceVars(Anchor)

-----------------------------------------------------------------------------
(* Properties. *)

(* The group is about to kill itself. *)
Dying == Up("anchor") /\ ~link /\ ~asked /\ ~adopted

(* When the job is over the group is gone, or somebody was told: by the     *)
(* failure of the step or by a warning of the post step.  Between the save  *)
(* of the state and the adoption no kill may leave a group that nobody      *)
(* knows of (saveProcessState).                                             *)
GroupAccounted == ServiceOver /\ GroupRuns => Dying \/ told

(* No signal ever reaches a group that has got the process group id since   *)
(* (terminateProcessGroup).                                                 *)
StrangersSpared == ~harmed

(* The directory of ripwire is not removed under a group that runs from it. *)
FolderKept == kind = "ripwire" /\ GroupRuns /\ ~Dying => folder

(* What runs is what was asked for (setupOpenCode, installRipwire). *)
ToolSound == tool.from = "installed" => tool.sound

ServiceSafe == GroupAccounted /\ StrangersSpared /\ FolderKept /\ ToolSound

(* A job with a service ends, however the step was left. *)
ServiceEnds == <>ServiceOver

=============================================================================
