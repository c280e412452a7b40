--------------------------- MODULE SoftwareUpdate ---------------------------
(***************************************************************************)
(* Software updates asked for in the browser: the panel's client           *)
(* (pera_panel/maintenance.py), the root helper behind a systemd socket    *)
(* (deploy/maintenance.py), the installer it runs (install.sh) and the     *)
(* maintenance lock it shares with installer commands on the console.      *)
(*                                                                         *)
(* The helper is started by a connection and exits when it has been idle   *)
(* for a minute; the installer may stop and start the panel, whose client  *)
(* then remembers nothing.  A start request the client has given up on     *)
(* stays in the socket's queue until a helper reads it.                    *)
(***************************************************************************)
CONSTANTS Targets,     \* what users update in this instance
          CanLose,     \* may a request fail, or its answer be lost?
          CanDelay,    \* may a start request outlive the client's patience?
          CanFail,     \* may a write of job.json, or a new thread, fail?
          CanKill      \* may the helper or the panel be killed?

ASSUME UpdateAssumption ==
    /\ Targets \subseteq {"panel", "game"}
    /\ {CanLose, CanDelay, CanFail, CanKill} \subseteq BOOLEAN

VARIABLES
    helper,      \* is the helper process running?
    memory,      \* the state of Updater.job
    disk,        \* the state in job.json
    worker,      \* where Updater.run is
    target,      \* what the update in progress updates
    succeeded,   \* Updater.run's success
    lock,        \* who holds the maintenance lock
    console,     \* an installer command on the console
    panel,       \* the panel's service
    last_job,    \* Maintenance.last_job: its state
    request,     \* the start request the panel is waiting on
    queued,      \* is an abandoned start request in the socket's queue?
    working,     \* does the panel run a world, or an operation?
    told,        \* history: has this panel been told of the running update?
    finished     \* history: how the last accepted update ended

hvars == <<helper, memory, disk>>
wvars == <<worker, target, succeeded>>
lvars == <<lock, console>>
pvars == <<panel, last_job, request, queued, working, told>>
vars == <<hvars, wvars, lvars, pvars, finished>>

JobStates == {"none", "running", "completed", "failed"}

Init ==
    /\ helper = "off" /\ memory = "none" /\ disk = "none"
    /\ worker = "none" /\ target = "game" /\ succeeded = FALSE
    /\ lock = "free" /\ console = "idle"
    /\ panel = "up" /\ last_job = "none" /\ request = "none"
    /\ queued = FALSE /\ working = FALSE
    /\ told = FALSE /\ finished = "none"

\* The panel's process ends; what its client knew is gone, and a request it
\* had sent stays queued.
PanelEnds ==
    /\ last_job' = "none"
    /\ request' = "none"
    /\ queued' = (queued \/ (CanDelay /\ request = "sent"))
    /\ working' = FALSE
    /\ told' = FALSE

PanelGoes(state) ==
    /\ panel' = state
    /\ UNCHANGED <<last_job, request, queued, working, told>>

-----------------------------------------------------------------------------
(* The client.  A status request is answered from the helper's memory; when *)
(* it fails, the last known job stands.  The helper serves one connection  *)
(* at a time and in order: while an abandoned request is queued, whoever   *)
(* comes after it runs out of patience too.                                *)
Reachable ==
    {r \in BOOLEAN : IF r THEN helper = "up" /\ ~queued ELSE CanLose \/ queued}

AfterStatus_Forgets(reached) == IF reached THEN memory ELSE "none"
AfterStatus(reached) == IF reached THEN memory ELSE last_job

Asks(reached) ==
    /\ panel = "up"
    /\ request = "none"
    /\ last_job' = AfterStatus(reached)
    /\ told' = IF reached THEN memory = "running" ELSE told

Status ==
    \E reached \in Reachable :
        /\ Asks(reached)
        /\ UNCHANGED <<hvars, wvars, lvars, panel, request, queued, working, finished>>

\* require_idle, then an operation or the start of a world.
WorkBegins ==
    \E reached \in Reachable :
        /\ ~working
        /\ Asks(reached)
        /\ working' = (AfterStatus(reached) # "running")
        /\ UNCHANGED <<hvars, wvars, lvars, panel, request, queued, finished>>

WorkEnds ==
    /\ working
    /\ working' = FALSE
    /\ UNCHANGED <<hvars, wvars, lvars, panel, last_job, request, queued, told, finished>>

\* update_software: nothing else runs, and Service.lock is held meanwhile.
UpdateRequested ==
    /\ panel = "up" /\ ~working /\ request = "none"
    /\ Targets # {}
    /\ request' = "sent"
    /\ UNCHANGED <<hvars, wvars, lvars, panel, last_job, queued, working, told, finished>>

\* Three seconds without an answer: the user is told that the updater is
\* unavailable.  If the connection was made, the request is in its queue.
RequestTimesOut ==
    /\ CanDelay
    /\ request = "sent"
    /\ request' = "none"
    /\ queued' \in {queued, TRUE}
    /\ UNCHANGED <<hvars, wvars, lvars, panel, last_job, working, told, finished>>

-----------------------------------------------------------------------------
(* dispatch of a start request.                                            *)
Takes(live) ==
    /\ helper = "up"
    /\ \/ live /\ ~queued /\ request = "sent" /\ request' = "none" /\ UNCHANGED queued
       \/ ~live /\ queued /\ queued' = FALSE /\ UNCHANGED request
    /\ UNCHANGED <<panel, working>>

Answers(live, job) ==
    \/ live /\ last_job' = job /\ told' = (job = "running")
    \/ (~live \/ CanLose) /\ UNCHANGED <<last_job, told>>

MayAccept_IgnoresLock == worker = "none"
MayAccept == worker = "none" /\ lock = "free"

Refuse ==
    \E live \in BOOLEAN :
        /\ Takes(live)
        /\ ~MayAccept
        /\ Answers(live, memory)
        /\ UNCHANGED <<hvars, wvars, lvars, finished>>

Accepted_InMemory == disk
Accepted == "running"

Accept ==
    \E live \in BOOLEAN :
        /\ Takes(live)
        /\ MayAccept
        /\ lock' = "helper"
        /\ memory' = "running"
        /\ disk' = Accepted
        /\ worker' = "begin"
        /\ target' \in Targets
        /\ succeeded' = FALSE
        /\ finished' = "none"
        /\ Answers(live, "running")
        /\ UNCHANGED <<helper, console>>

\* The job cannot be saved: the lock is closed and nothing is answered, but
\* the job in memory is running.  Or the thread cannot be started, which ends
\* the helper.
AcceptFails ==
    \E live \in BOOLEAN :
        /\ CanFail
        /\ Takes(live)
        /\ MayAccept
        /\ \/ memory' = "running" /\ UNCHANGED <<helper, disk>>
           \/ helper' = "off" /\ memory' = "none" /\ disk' = "running"
        /\ UNCHANGED <<wvars, lvars, last_job, told, finished>>

-----------------------------------------------------------------------------
(* The helper's process.  It reads job.json when it starts, where a running *)
(* job means that its worker was interrupted.                              *)
Recovered(state) == IF state = "running" THEN "failed" ELSE state

HelperStarts ==
    /\ helper = "off"
    /\ panel = "up" \/ queued
    /\ helper' = "up"
    /\ memory' = Recovered(disk)
    /\ disk' = Recovered(disk)
    /\ UNCHANGED <<wvars, lvars, pvars, finished>>

MayExit_WhenJobEnded == memory # "running"
MayExit == worker = "none"

HelperExits ==
    /\ helper = "up"
    /\ MayExit
    /\ helper' = "off"
    /\ memory' = "none"
    /\ UNCHANGED <<disk, wvars, lvars, pvars, finished>>

\* The helper's control group is killed, the installer with it.
HelperKilled ==
    /\ CanKill
    /\ helper = "up"
    /\ helper' = "off"
    /\ memory' = "none"
    /\ worker' = "none"
    /\ lock' = IF lock = "helper" THEN "free" ELSE lock
    /\ UNCHANGED <<disk, target, succeeded, console, pvars, finished>>

-----------------------------------------------------------------------------
(* Updater.run and the installer command it runs.                          *)
RunBegins ==
    /\ worker = "begin"
    /\ worker' \in {"install", "recover"}
    /\ UNCHANGED <<target, succeeded, hvars, lvars, pvars, finished>>

InstallFails ==
    /\ worker = "install"
    /\ worker' = "recover"
    /\ UNCHANGED <<target, succeeded, hvars, lvars, pvars, finished>>

\* update-game keeps the panel online.
GameInstalled ==
    /\ worker = "install" /\ target = "game"
    /\ worker' = "recover"
    /\ succeeded' = TRUE
    /\ UNCHANGED <<target, hvars, lvars, pvars, finished>>

\* switch_release: the panel is stopped, the new release started; when it is
\* not healthy, the previous one is restarted if it can be.
StopsPanel ==
    /\ worker = "install" /\ target = "panel"
    /\ worker' = "switch"
    /\ panel' = "down"
    /\ PanelEnds
    /\ UNCHANGED <<target, succeeded, hvars, lvars, finished>>

SwitchEnds ==
    /\ worker = "switch"
    /\ worker' = "recover"
    /\ \/ succeeded' = TRUE /\ PanelGoes("up")
       \/ UNCHANGED succeeded /\ \E state \in {"up", "down"} : PanelGoes(state)
    /\ UNCHANGED <<target, hvars, lvars, finished>>

\* ensure_panel starts the panel and waits until it is healthy.
AfterRecovery_IgnoresFailure(ok) == succeeded
AfterRecovery(ok) == succeeded /\ ok

Recover ==
    /\ worker = "recover"
    /\ worker' = "record"
    /\ \E ok \in BOOLEAN :
          /\ succeeded' = AfterRecovery(ok)
          /\ \E state \in IF ok THEN {"up"} ELSE {"up", panel} : PanelGoes(state)
    /\ UNCHANGED <<target, hvars, lvars, finished>>

Result == IF succeeded THEN "completed" ELSE "failed"

\* A write that fails is only reported.
Record ==
    /\ worker = "record"
    /\ worker' = "unlock"
    /\ memory' = Result
    /\ \/ disk' = Result
       \/ CanFail /\ disk' = disk
    /\ finished' = Result
    /\ UNCHANGED <<helper, target, succeeded, lvars, pvars>>

Unlock ==
    /\ worker = "unlock"
    /\ worker' = "none"
    /\ lock' = "free"
    /\ UNCHANGED <<console, target, succeeded, hvars, pvars, finished>>

-----------------------------------------------------------------------------
(* Installer commands on the console, and the panel's own crashes, after   *)
(* which systemd starts it again.                                          *)
ConsoleBegins ==
    /\ lock = "free"
    /\ lock' = "console"
    /\ console' = "busy"
    /\ UNCHANGED <<hvars, wvars, pvars, finished>>

ConsoleStopsPanel ==
    /\ console = "busy" /\ panel = "up"
    /\ panel' = "down"
    /\ PanelEnds
    /\ UNCHANGED <<hvars, wvars, lvars, finished>>

ConsoleStartsPanel ==
    /\ console = "busy" /\ panel = "down"
    /\ PanelGoes("up")
    /\ UNCHANGED <<hvars, wvars, lvars, finished>>

ConsoleEnds ==
    /\ console = "busy"
    /\ console' = "idle"
    /\ lock' = "free"
    /\ UNCHANGED <<hvars, wvars, pvars, finished>>

PanelCrashes ==
    /\ CanKill
    /\ panel = "up"
    /\ PanelEnds
    /\ UNCHANGED <<panel, hvars, wvars, lvars, finished>>

-----------------------------------------------------------------------------
Client == Status \/ WorkBegins \/ WorkEnds \/ UpdateRequested \/ RequestTimesOut
Helper == Refuse \/ Accept \/ AcceptFails \/ HelperStarts \/ HelperExits \/ HelperKilled
Run == RunBegins \/ InstallFails \/ GameInstalled \/ StopsPanel \/ SwitchEnds
         \/ Recover \/ Record \/ Unlock
Others == ConsoleBegins \/ ConsoleStopsPanel \/ ConsoleStartsPanel \/ ConsoleEnds
            \/ PanelCrashes

Next == Client \/ Helper \/ Run \/ Others

Spec == Init /\ [][Next]_vars

(* The helper's loop wakes every second.  Nothing is assumed of the        *)
(* installer, which has no time limit, nor of users.                       *)
FairSpec == Spec /\ WF_vars(HelperExits)

-----------------------------------------------------------------------------
TypeOK ==
    /\ helper \in {"off", "up"}
    /\ memory \in JobStates /\ disk \in JobStates /\ last_job \in JobStates
    /\ worker \in {"none", "begin", "install", "switch", "recover", "record", "unlock"}
    /\ target \in {"panel", "game"}
    /\ succeeded \in BOOLEAN
    /\ lock \in {"free", "helper", "console"}
    /\ console \in {"idle", "busy"}
    /\ panel \in {"up", "down"}
    /\ request \in {"none", "sent"}
    /\ queued \in BOOLEAN /\ working \in BOOLEAN /\ told \in BOOLEAN
    /\ finished \in {"none", "completed", "failed"}

\* The helper works from the moment it accepts until its result is recorded.
Updating == worker \notin {"none", "unlock"}

\* "It shares the console installer's maintenance lock through update and
\* recovery": the two never work at the same time, and the lock is never left
\* held by a helper that does not.
OneMaintenance ==
    /\ lock = "helper" <=> worker # "none"
    /\ lock = "console" <=> console = "busy"

\* An update that reports completion leaves the panel running: nobody stops
\* it between the recovery and the report.
CompletedMeansUp == worker = "unlock" /\ memory = "completed" => panel = "up"

\* Whatever is killed, or cannot be saved, an update is reported as completed
\* only if the last one that was accepted did complete.
NoFalseSuccess == memory = "completed" => finished = "completed"

\* Once the panel has been told of the running update, it begins no operation
\* and starts no world while the update runs, reachable helper or not.
KnownUpdateBlocks == [][told /\ Updating => ~(working' /\ ~working)]_vars

\* A job reported as running although no worker runs (it could not be saved
\* when it was accepted) does not block the panel for ever.
PhantomEnds == memory = "running" /\ worker = "none" ~> ~(memory = "running" /\ worker = "none")

\* While an update runs, no operation is in progress and no world runs.
MutationsBlocked == Updating => ~working
=============================================================================
