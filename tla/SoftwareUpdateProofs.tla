------------------------ MODULE SoftwareUpdateProofs ------------------------
(***************************************************************************)
(* Proofs about SoftwareUpdate, for every choice of targets and with every *)
(* fault allowed.                                                          *)
(***************************************************************************)
EXTENDS SoftwareUpdate, TLAPS

\* What the helper's process and its thread have in common.
HelperConsistent ==
    /\ helper = "off" => memory = "none" /\ worker = "none"
    /\ Updating => memory = "running" /\ finished = "none"

\* No completion is on record, in memory or on disk, that did not happen.
ResultsTrue ==
    /\ NoFalseSuccess
    /\ disk = "completed" => finished = "completed"

\* Between the recovery and the report the panel is up.
RecoveredUp ==
    /\ worker = "record" /\ succeeded => panel = "up"
    /\ CompletedMeansUp

\* What the panel has been told, its client remembers.
ToldRemembered == told => last_job = "running"

UInv == OneMaintenance /\ HelperConsistent /\ ResultsTrue
          /\ RecoveredUp /\ ToldRemembered

LEMMA UInit == ASSUME Init PROVE UInv
BY DEF Init, UInv, OneMaintenance, HelperConsistent, ResultsTrue,
       NoFalseSuccess, RecoveredUp, CompletedMeansUp, ToldRemembered, Updating

LEMMA UStutter == ASSUME UInv, UNCHANGED vars PROVE UInv'
BY DEF UInv, vars, hvars, wvars, lvars, pvars, OneMaintenance,
       HelperConsistent, ResultsTrue, NoFalseSuccess, RecoveredUp, CompletedMeansUp,
       ToldRemembered, Updating

\* The client changes neither the helper nor the lock.
LEMMA ClientStep == ASSUME UInv, Client PROVE UInv'
<1> USE DEF UInv, hvars, wvars, lvars, OneMaintenance,
            HelperConsistent, ResultsTrue, NoFalseSuccess, RecoveredUp,
            CompletedMeansUp, ToldRemembered, Updating
<1>1. CASE Status
  BY <1>1 DEF Status, Asks, AfterStatus, Reachable
<1>2. CASE WorkBegins
  BY <1>2 DEF WorkBegins, Asks, AfterStatus, Reachable
<1>3. CASE WorkEnds
  BY <1>3 DEF WorkEnds
<1>4. CASE UpdateRequested
  BY <1>4 DEF UpdateRequested
<1>5. CASE RequestTimesOut
  BY <1>5 DEF RequestTimesOut
<1> QED BY <1>1, <1>2, <1>3, <1>4, <1>5 DEF Client

\* The helper takes the lock with its job, and loses both with its process.
LEMMA HelperStep == ASSUME UInv, Helper PROVE UInv'
<1> USE DEF UInv, hvars, wvars, lvars, pvars, OneMaintenance,
            HelperConsistent, ResultsTrue, NoFalseSuccess, RecoveredUp,
            CompletedMeansUp, ToldRemembered, Updating
<1>1. CASE Refuse
  <2>1. told' => last_job' = "running"
    BY <1>1, Zenon DEF Refuse, Answers
  <2>2. UNCHANGED <<hvars, wvars, lvars, panel, finished>>
    BY <1>1 DEF Refuse, Takes
  <2> QED BY <2>1, <2>2
<1>2. CASE Accept
  BY <1>2 DEF Accept, Takes, Answers, MayAccept, Accepted
<1>3. CASE AcceptFails
  <2>1. /\ worker = "none"
        /\ UNCHANGED <<worker, succeeded, lock, console, panel, last_job, told, finished>>
    BY <1>3 DEF AcceptFails, Takes, MayAccept
  <2>2. \/ memory' = "running" /\ UNCHANGED <<helper, disk>>
        \/ helper' = "off" /\ memory' = "none" /\ disk' = "running"
    BY <1>3 DEF AcceptFails
  <2>3. helper = "up"
    BY <1>3 DEF AcceptFails, Takes
  <2> QED BY <2>1, <2>2, <2>3
<1>4. CASE HelperStarts
  BY <1>4 DEF HelperStarts, Recovered
<1>5. CASE HelperExits
  BY <1>5 DEF HelperExits, MayExit
<1>6. CASE HelperKilled
  BY <1>6 DEF HelperKilled
<1> QED BY <1>1, <1>2, <1>3, <1>4, <1>5, <1>6 DEF Helper

\* The worker keeps the lock until its result is recorded.
LEMMA RunStep == ASSUME UInv, Run PROVE UInv'
<1> USE DEF UInv, hvars, lvars, pvars, OneMaintenance,
            HelperConsistent, ResultsTrue, NoFalseSuccess, RecoveredUp,
            CompletedMeansUp, ToldRemembered, Updating
<1>1. CASE RunBegins
  BY <1>1 DEF RunBegins
<1>2. CASE InstallFails
  BY <1>2 DEF InstallFails
<1>3. CASE GameInstalled
  BY <1>3 DEF GameInstalled
<1>4. CASE StopsPanel
  BY <1>4 DEF StopsPanel, PanelEnds
<1>5. CASE SwitchEnds
  BY <1>5 DEF SwitchEnds, PanelGoes
<1>6. CASE Recover
  BY <1>6 DEF Recover, AfterRecovery, PanelGoes
<1>7. CASE Record
  <2>1. Result = "completed" => succeeded
    BY DEF Result
  <2>2. disk # "completed"
    BY <1>7 DEF Record
  <2> QED BY <1>7, <2>1, <2>2 DEF Record
<1>8. CASE Unlock
  BY <1>8 DEF Unlock
<1> QED BY <1>1, <1>2, <1>3, <1>4, <1>5, <1>6, <1>7, <1>8 DEF Run

\* The console works, and stops the panel, only with the lock.
LEMMA OtherStep == ASSUME UInv, Others PROVE UInv'
<1> USE DEF UInv, hvars, wvars, lvars, pvars, OneMaintenance,
            HelperConsistent, ResultsTrue, NoFalseSuccess, RecoveredUp,
            CompletedMeansUp, ToldRemembered, Updating
<1>1. CASE ConsoleBegins
  BY <1>1 DEF ConsoleBegins
<1>2. CASE ConsoleStopsPanel
  BY <1>2 DEF ConsoleStopsPanel, PanelEnds
<1>3. CASE ConsoleStartsPanel
  BY <1>3 DEF ConsoleStartsPanel, PanelGoes
<1>4. CASE ConsoleEnds
  BY <1>4 DEF ConsoleEnds
<1>5. CASE PanelCrashes
  BY <1>5 DEF PanelCrashes, PanelEnds
<1> QED BY <1>1, <1>2, <1>3, <1>4, <1>5 DEF Others

\* The inductive invariant of the update protocol.
THEOREM UpdateInvariant == Spec => []UInv
<1>1. UInv /\ [Next]_vars => UInv'
  BY UStutter, ClientStep, HelperStep, RunStep, OtherStep DEF Next
<1> QED BY UInit, <1>1, PTL DEF Spec

\* The helper and the console never work at the same time, and the lock is
\* held exactly while one of them does.
THEOREM MaintenanceExclusive == Spec => []OneMaintenance
<1>1. UInv => OneMaintenance
  BY DEF UInv
<1> QED BY <1>1, UpdateInvariant, PTL

\* Completion is reported only with the panel running.
THEOREM CompletedPanelUp == Spec => []CompletedMeansUp
<1>1. UInv => CompletedMeansUp
  BY DEF UInv, RecoveredUp
<1> QED BY <1>1, UpdateInvariant, PTL

\* Completion is reported only of an update that completed, whatever is
\* killed and whichever writes fail.
THEOREM CompletionTrue == Spec => []NoFalseSuccess
<1>1. UInv => NoFalseSuccess
  BY DEF UInv, ResultsTrue
<1> QED BY <1>1, UpdateInvariant, PTL

\* The panel begins nothing during an update it has been told of, whichever
\* of its requests fail.
THEOREM KnownUpdatesBlock == Spec => KnownUpdateBlocks
<1>1. ASSUME UInv, [Next]_vars
      PROVE  [told /\ Updating => ~(working' /\ ~working)]_vars
  <2> SUFFICES ASSUME told, Updating, ~working, working', Next
               PROVE  FALSE
    BY <1>1 DEF vars, pvars
  <2>1. memory = "running" /\ last_job = "running"
    BY <1>1 DEF UInv, HelperConsistent, ToldRemembered
  <2>2. CASE WorkBegins
    BY <2>1, <2>2 DEF WorkBegins, AfterStatus
  <2>3. CASE Client /\ ~WorkBegins
    BY <2>3 DEF Client, Status, WorkEnds, UpdateRequested, RequestTimesOut
  <2>4. CASE Helper
    BY <2>4 DEF Helper, Refuse, Accept, AcceptFails, Takes, HelperStarts,
                HelperExits, HelperKilled, pvars
  <2>5. CASE Run
    BY <2>5 DEF Run, RunBegins, InstallFails, GameInstalled, StopsPanel, PanelEnds,
                SwitchEnds, Recover, PanelGoes, Record, Unlock, pvars
  <2>6. CASE Others
    BY <2>6 DEF Others, ConsoleBegins, ConsoleStopsPanel, ConsoleStartsPanel,
                ConsoleEnds, PanelCrashes, PanelEnds, PanelGoes, pvars
  <2> QED BY <2>2, <2>3, <2>4, <2>5, <2>6 DEF Next
<1> QED BY <1>1, UpdateInvariant, PTL DEF Spec, KnownUpdateBlocks
-----------------------------------------------------------------------------
\* What the panel's client knows keeps its type: the part that the actions
\* share.
ClientTyped ==
    /\ last_job \in JobStates
    /\ request \in {"none", "sent"}
    /\ queued \in BOOLEAN /\ working \in BOOLEAN /\ told \in BOOLEAN

LEMMA TypedPanelEnds == ASSUME PanelEnds PROVE ClientTyped'
<1>1. queued' \in BOOLEAN
  BY Zenon DEF PanelEnds
<1> QED BY <1>1 DEF PanelEnds, ClientTyped, JobStates

LEMMA TypedPanelGoes == ASSUME TypeOK, NEW state, PanelGoes(state) PROVE ClientTyped'
BY DEF TypeOK, PanelGoes, ClientTyped

LEMMA TypedAsks ==
    ASSUME TypeOK, NEW reached, Asks(reached)
    PROVE  last_job' \in JobStates /\ told' \in BOOLEAN
<1>1. last_job' \in JobStates
  BY DEF TypeOK, Asks, AfterStatus
<1>2. told' \in BOOLEAN
  BY Zenon DEF TypeOK, Asks
<1> QED BY <1>1, <1>2

LEMMA TypedTakes ==
    ASSUME TypeOK, NEW live, Takes(live)
    PROVE  request' \in {"none", "sent"} /\ queued' \in BOOLEAN /\ working' \in BOOLEAN
BY DEF TypeOK, Takes

LEMMA TypedAnswers ==
    ASSUME TypeOK, NEW live, NEW job \in JobStates, Answers(live, job)
    PROVE  last_job' \in JobStates /\ told' \in BOOLEAN
<1>1. last_job' \in JobStates
  BY DEF TypeOK, Answers
<1>2. told' \in BOOLEAN
  BY Zenon DEF TypeOK, Answers
<1> QED BY <1>1, <1>2

\* The variables of the protocol keep their types.
THEOREM UpdateTypeCorrect == Spec => []TypeOK
<1>1. Init => TypeOK
  BY DEF Init, TypeOK, JobStates
<1>2. TypeOK /\ [Next]_vars => TypeOK'
  <2> SUFFICES ASSUME TypeOK, [Next]_vars PROVE TypeOK'
    OBVIOUS
  <2> USE DEF hvars, wvars, lvars, pvars
  <2>1. CASE UNCHANGED vars
    BY <2>1 DEF TypeOK, vars
  <2>2. CASE Status
    BY <2>2, TypedAsks DEF Status, TypeOK, Asks
  <2>3. CASE WorkBegins
    <3>1. working' \in BOOLEAN
      BY <2>3, Zenon DEF WorkBegins
    <3> QED BY <2>3, <3>1, TypedAsks DEF WorkBegins, TypeOK, Asks
  <2>4. CASE WorkEnds \/ UpdateRequested \/ RequestTimesOut
    BY <2>4 DEF WorkEnds, UpdateRequested, RequestTimesOut, TypeOK
  <2>5. CASE Refuse
    <3>1. memory \in JobStates
      BY DEF TypeOK
    <3> QED BY <2>5, <3>1, TypedTakes, TypedAnswers DEF Refuse, Takes, TypeOK
  <2>6. CASE Accept
    <3>1. "running" \in JobStates
      BY DEF JobStates
    <3> QED BY <2>6, <3>1, TypedTakes, TypedAnswers, UpdateAssumption
            DEF Accept, Accepted, Takes, TypeOK
  <2>7. CASE AcceptFails
    BY <2>7, TypedTakes DEF AcceptFails, Takes, TypeOK, JobStates
  <2>8. CASE HelperStarts \/ HelperExits \/ HelperKilled
    BY <2>8 DEF HelperStarts, HelperExits, HelperKilled, Recovered, TypeOK, JobStates
  <2>9. CASE RunBegins \/ InstallFails \/ GameInstalled \/ Unlock
    BY <2>9 DEF RunBegins, InstallFails, GameInstalled, Unlock, TypeOK
  <2>10. CASE StopsPanel
    BY <2>10, TypedPanelEnds DEF StopsPanel, ClientTyped, TypeOK
  <2>11. CASE SwitchEnds
    BY <2>11, TypedPanelGoes DEF SwitchEnds, PanelGoes, ClientTyped, TypeOK
  <2>12. CASE Recover
    <3>1. succeeded' \in BOOLEAN
      BY <2>12, Zenon DEF Recover, AfterRecovery
    <3>2. panel' \in {"up", "down"}
      BY <2>12 DEF Recover, PanelGoes, TypeOK
    <3>3. ClientTyped'
      BY <2>12, TypedPanelGoes DEF Recover
    <3> QED BY <2>12, <3>1, <3>2, <3>3 DEF Recover, ClientTyped, TypeOK
  <2>13. CASE Record
    <3>1. Result \in {"completed", "failed"}
      BY DEF Result
    <3> QED BY <2>13, <3>1 DEF Record, TypeOK, JobStates
  <2>14. CASE ConsoleBegins \/ ConsoleEnds
    BY <2>14 DEF ConsoleBegins, ConsoleEnds, TypeOK
  <2>15. CASE ConsoleStopsPanel \/ PanelCrashes
    BY <2>15, TypedPanelEnds DEF ConsoleStopsPanel, PanelCrashes, ClientTyped, TypeOK
  <2>16. CASE ConsoleStartsPanel
    BY <2>16 DEF ConsoleStartsPanel, PanelGoes, TypeOK
  <2> QED BY <2>1, <2>2, <2>3, <2>4, <2>5, <2>6, <2>7, <2>8, <2>9, <2>10, <2>11,
             <2>12, <2>13, <2>14, <2>15, <2>16
          DEF Next, Client, Helper, Run, Others
<1> QED BY <1>1, <1>2, PTL DEF Spec
=============================================================================
