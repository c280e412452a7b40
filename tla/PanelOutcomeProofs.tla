-------------------------- MODULE PanelOutcomeProofs --------------------------
(***************************************************************************)
(* What users get from the service layer: exports and updates that meet no *)
(* game, jobs that tell the truth, imported worlds that stay down, a note  *)
(* of the world that ran at a restart, and an exit that leaves no game.    *)
(*                                                                         *)
(* Each argument adds its own invariant to those of PanelProofs (RestInv:  *)
(* the process table and where calls are made; AccessInv: the end of the   *)
(* process), which are used as facts.                                      *)
(***************************************************************************)
EXTENDS PanelProofs

\* The operations' own steps, beside those of a call in progress.
OwnStep == \/ Queue \/ Begin \/ Finish \/ Pause \/ ServiceStop \/ StopEnds
           \/ ServiceStart \/ StartEnds \/ Check \/ Work \/ Resume \/ Clear

Quietly == RuntimeMoves(CallStep) \/ RuntimeMoves(ProcessStep)

\* close(), up to where it stops the games; the signal that begins it.
CloseReads == \/ Signal \/ CloseReadsActive \/ CloseWritesNote \/ CloseSeesUpdater
              \/ ClosePollsUpdater \/ CloseKillsUpdater \/ CloseShutsExecutor

\* The process ends, and all its memory with it.
Ends == CloseReturns \/ CrashedExit \/ Kill

\* Requests that are not operations, and what the helper does by itself.
Asks == WebStep \/ StrayRead \/ UpdateEnds \/ WaiterSees

LEMMA Cases ==
    [PanelNext]_vars =>
    \/ OwnStep \/ Quietly \/ CloseReads \/ CloseStopsGames \/ Ends \/ Asks
    \/ WaiterStarts \/ Boot \/ UNCHANGED vars
  BY DEF PanelNext, OpStep, CloseStep, OwnStep, Quietly, CloseReads, Ends, Asks

(* How calls proceed: only Launch makes a game, and a forced stop that has *)
(* returned has left none.                                                 *)
Preparing == {"mods", "spawned", "download", "settle"}

LEMMA CallMoves ==
    ASSUME RuntimeStep
    PROVE  /\ UNCHANGED <<target, launching>>
           /\ call = "idle" => call' = "idle" /\ UNCHANGED outcome
           /\ call' = "stop" => call = "stop"
           /\ call = "stop" => call' \in {"stop", "idle"}
           /\ call = "force" => \/ call' = "force"
                                \/ call' = "idle" /\ (outcome' = "error" \/ ~Active')
           /\ call' \in Preparing => call \in Preparing
           /\ call' = "force" => call \in {"force", "settle"}
<1> USE DEF Preparing
<1>1. CASE CallStep
  BY <1>1, NoProcessesFacts
  DEF CallStep, SpawnUpdater, PublishUpdater, DownloadTimesOut, UpdaterReaped, ModsUpdated,
      Launch, LaunchFails, Settle, StopReturns, StopTimesOut, ForceKill,
      KillHangs, Return, Active, Alive
<1>2. CASE ProcessStep
  BY <1>2 DEF ProcessStep, ShardExits, OrphanExits, DownloadEnds
<1> QED BY <1>1, <1>2 DEF RuntimeStep

LEMMA GamesAppear ==
    ASSUME RInv, RuntimeStep, Active'
    PROVE  \/ Active /\ world_id' = world_id
           \/ /\ call = "mods" /\ launching /\ world_id' = target
              /\ call' \in {"settle", "idle"}
<1>1. CASE Launch
  BY <1>1 DEF Launch
<1>2. CASE LaunchFails
  <2>1. processes' # NoProcesses
    BY NoProcessesFacts DEF Active, Alive
  <2> QED BY <1>2, <2>1 DEF LaunchFails, Return
<1>3. CASE CallStep /\ ~Launch /\ ~LaunchFails
  BY <1>3, NoProcessesFacts
  DEF CallStep, SpawnUpdater, PublishUpdater, DownloadTimesOut, UpdaterReaped, ModsUpdated,
      Settle, StopReturns, StopTimesOut, ForceKill, KillHangs, Active, Alive
<1>4. CASE ProcessStep
  BY <1>4 DEF ProcessStep, ShardExits, OrphanExits, DownloadEnds, Active, Alive, RInv, TypeOK
<1> QED BY <1>1, <1>2, <1>3, <1>4 DEF RuntimeStep

(* What the steps leave alone, group by group.                             *)
LEMMA QuietFrame ==
    Quietly => /\ RuntimeStep
               /\ UNCHANGED <<main, opvars, jobvars, resumevars, webvars, worlds, imported>>
  BY DEF Quietly, RuntimeMoves, RuntimeStep

LEMMA OwnFrame ==
    OwnStep => /\ UNCHANGED <<main, op, resumeFile, exporting, waiter, updatevars, answervars, owed>>
               /\ uploading' \in {uploading, NoWorld}
               /\ pc # "idle" /\ pc' # "submit"
               /\ busy' => busy \/ pc = "submit"
  BY DEF OwnStep, Queue, Begin, Finish, Pause, ServiceStop, StopEnds, ServiceStart, StartEnds,
     Check, Work, Resume, Clear, OpKeeps, OpStays, jobvars, resumevars, webvars, ghosts,
     FirstStep, AfterStop, AfterStart

LEMMA CloseFrame ==
    CloseReads \/ CloseStopsGames =>
    /\ UNCHANGED <<world_id, processes, orphans, target, launching, op, was, completed, result,
                   jobvars, resume_after_operation, webvars, worlds, imported>>
    /\ pc' = pc \/ (pc = "queued" /\ pc' = "idle")
    /\ CloseReads => call' = call /\ main' # "stop"
  BY DEF CloseReads, Signal, CloseReadsActive, CloseWritesNote, CloseSeesUpdater,
     ClosePollsUpdater, CloseKillsUpdater, CloseShutsExecutor, CloseStopsGames, StopBegins,
     MainKeeps, ghosts, rvars

LEMMA EndsFrame == Ends => ProcessEnds /\ main' \in {"down", "killed"} /\ owed' \in {owed, NoWorld}
  BY DEF Ends, CloseReturns, CrashedExit, Kill

LEMMA AsksFrame ==
    Asks => /\ UNCHANGED <<rvars, main, was, completed, result, jobvars, resumevars, worlds,
                           owed, missed>>
            /\ \/ UNCHANGED <<op, pc, imported>>
               \/ /\ pc' = "submit" /\ LockFree /\ ~busy /\ ~Closing /\ ~Exited /\ LetIn
                  /\ exporting' = exporting
                  /\ op'.kind \in {"start", "restart"} => imported' = NoWorld
                  /\ imported' \in {imported, NoWorld}
<1>1. CASE UserSubmits
  <2>1. PICK k \in Kinds \ {"import"}, w \in worlds : Submit(k, w)
    BY <1>1 DEF UserSubmits
  <2>2. op'.kind = k
    BY <2>1 DEF Submit
  <2> QED BY <1>1, <2>1, <2>2 DEF UserSubmits, Submit, CanSubmit
<1>2. CASE UploadSubmits
  BY <1>2 DEF UploadSubmits, Submit, CanSubmit
<1>3. CASE Asks /\ ~UserSubmits /\ ~UploadSubmits
  BY <1>3 DEF Asks, WebStep, ExportBegins, ExportEnds, UploadBegins, UploadFails, UpdateBegins,
     UpdateUnanswered, AsksStatus, StrayRead, UpdateEnds, WaiterSees, opvars, ghosts
<1> QED BY <1>1, <1>2, <1>3

LEMMA WaiterFrame ==
    WaiterStarts =>
    /\ UNCHANGED <<rvars, main, was, completed, result, resume_after_operation, exporting,
                   uploading, updatevars, worlds, owed, missed>>
    /\ imported' \in {imported, NoWorld} /\ resumeFile' \in {resumeFile, NoWorld}
    /\ WaiterMayStart \/ UNCHANGED <<resumeFile, imported>>
    /\ ~Exited
    /\ \/ UNCHANGED <<op, pc, jobvars, overlooked>>
       \/ /\ LockFree /\ LetIn /\ WaiterMayStart /\ AutostartWorld \in worlds
          /\ Autostart(AutostartWorld) /\ imported' = NoWorld
  BY DEF WaiterStarts, TurnedAway, NoAutostart, answervars

LEMMA BootFrame ==
    Boot =>
    /\ Exited /\ main' \in {"serve", "active"}
    /\ owed' = NoWorld /\ imported' = NoWorld
    /\ resumeFile' \in {resumeFile, NoWorld} /\ waiter' \in {waiter, "polling"}
    /\ UNCHANGED <<rvars, was, completed, result, resume_after_operation, exporting, uploading,
                   updatevars, worlds>>
    /\ \/ NothingQueued /\ overlooked' = overlooked
       \/ LetIn /\ Autostart(AutostartWorld) /\ AutostartWorld \in worlds
  BY DEF Boot, BootWaits, BootStarts, BootFails, TurnedAway, NoAutostart

LEMMA IdleFrame == UNCHANGED rvars => UNCHANGED <<world_id, call, outcome, target, launching>> /\ Active' = Active
  BY DEF rvars, Active, Alive

-----------------------------------------------------------------------------
(* Exports and updates.  While one goes on no operation does, so no call   *)
(* is made but the stop of close(), and no game appears.                   *)
AloneInv ==
    /\ exporting # NoWorld => ~busy /\ pc = "idle" /\ ~ActiveWorld(exporting)
    /\ updating /\ ~overlooked =>
          ~busy /\ pc = "idle" /\ uploading = NoWorld /\ exporting = NoWorld /\ ~Active
    /\ main = "stop" => call \in {"idle", "force"}

LEMMA AloneInit == PanelInit => AloneInv
  BY DEF PanelInit, AloneInv

LEMMA AloneAsks == ASSUME RestInv, AloneInv, Asks PROVE AloneInv'
<1>f. UNCHANGED <<main, world_id, call>> /\ Active' = Active /\ UNCHANGED busy
  BY AsksFrame, IdleFrame DEF jobvars
<1>1. CASE UserSubmits \/ UploadSubmits
  <2>1. LockFree /\ LetIn /\ UNCHANGED <<exporting, updating>>
    BY <1>1 DEF UserSubmits, UploadSubmits, Submit, updatevars
  <2> QED BY <1>f, <2>1, LetInFacts DEF AloneInv, LockFree
<1>2. CASE ExportBegins
  <2>1. PICK w \in worlds : LockFree /\ LetIn /\ CanExport(w) /\ exporting' = w
                            /\ UNCHANGED <<pc, updating>>
    BY <1>2 DEF ExportBegins, opvars, updatevars
  <2> QED BY <1>f, <2>1, LetInFacts
          DEF AloneInv, LockFree, CanExport, ActiveWorld, RestInv, BusyInv
<1>3. CASE UploadBegins
  <2>1. LetIn /\ UNCHANGED <<exporting, pc, updating>>
    BY <1>3 DEF UploadBegins, opvars, updatevars
  <2> QED BY <1>f, <2>1, LetInFacts DEF AloneInv, ActiveWorld
<1>4. CASE UpdateBegins
  BY <1>f, <1>4 DEF UpdateBegins, LockFree, CanUpdate, opvars, AloneInv, RestInv, BusyInv
<1>5. CASE StrayRead
  <2>1. UNCHANGED <<pc, exporting, uploading>>
    BY <1>5 DEF StrayRead, opvars
  <2>2. CASE UNCHANGED <<updating, overlooked>>
    BY <1>f, <2>1, <2>2 DEF AloneInv, ActiveWorld
  <2>3. CASE overlooked' = InUse
    BY <1>f, <2>1, <2>3 DEF AloneInv, ActiveWorld, InUse
  <2> QED BY <1>5, <2>2, <2>3 DEF StrayRead
<1>6. CASE ExportEnds \/ UploadFails \/ UpdateEnds
  BY <1>f, <1>6 DEF ExportEnds, UploadFails, UpdateEnds, opvars, updatevars, answervars,
     AloneInv, ActiveWorld
<1>7. CASE UpdateUnanswered \/ AsksStatus \/ WaiterSees
  <2>1. UNCHANGED <<pc, exporting, uploading, updating, overlooked>>
    BY <1>7 DEF UpdateUnanswered, AsksStatus, WaiterSees, opvars, updatevars, answervars
  <2> QED BY <1>f, <2>1 DEF AloneInv, ActiveWorld
<1> QED BY <1>1, <1>2, <1>3, <1>4, <1>5, <1>6, <1>7 DEF Asks, WebStep

LEMMA AloneStep == RestInv /\ AccessInv /\ AloneInv /\ [PanelNext]_vars => AloneInv'
<1> SUFFICES ASSUME RestInv, AccessInv, AloneInv, [PanelNext]_vars PROVE AloneInv'
  OBVIOUS
<1>1. CASE OwnStep
  <2>1. /\ UNCHANGED <<main, exporting, updating, overlooked>> /\ pc # "idle"
        /\ uploading' \in {uploading, NoWorld}
    BY <1>1, OwnFrame DEF updatevars, answervars
  <2>2. pc \notin {"stop", "start", "check"} => call' = call
    BY <1>1 DEF OwnStep, Queue, Begin, Finish, Pause, ServiceStop, StopEnds, ServiceStart,
       StartEnds, Check, Work, Resume, Clear, rvars
  <2> QED BY <2>1, <2>2 DEF AloneInv, RestInv, CallInv
<1>2. CASE Quietly
  <2>1. RuntimeStep /\ UNCHANGED <<main, pc, busy, exporting, uploading, updating, overlooked>>
    BY <1>2, QuietFrame DEF opvars, jobvars, webvars, updatevars, answervars
  <2>2. exporting # NoWorld \/ (updating /\ ~overlooked) \/ main = "stop"
          => call \in {"idle", "force"}
    BY DEF AloneInv, RestInv, CallInv
  <2>3. call \in {"idle", "force"} /\ Active' => Active /\ world_id' = world_id
    BY <2>1, GamesAppear DEF RestInv
  <2> QED BY <2>1, <2>2, <2>3, CallMoves DEF AloneInv, ActiveWorld
<1>3. CASE CloseReads \/ CloseStopsGames
  <2>1. /\ UNCHANGED <<world_id, processes, busy, exporting, uploading, updating, overlooked>>
        /\ (pc = "idle" => pc' = "idle") /\ (main' = "stop" => call' = "force")
    BY <1>3, CloseFrame DEF CloseStopsGames, StopBegins, jobvars, webvars, updatevars, answervars
  <2> QED BY <2>1 DEF AloneInv, ActiveWorld, Active, Alive
<1>4. CASE Ends
  BY <1>4, EndsFrame, NoProcessesFacts DEF ProcessEnds, AloneInv, Active, Alive
<1>5. CASE WaiterStarts
  <2>1. /\ UNCHANGED <<main, world_id, call, exporting, uploading, updating>> /\ Active' = Active
    BY <1>5, WaiterFrame, IdleFrame DEF updatevars
  <2>2. CASE UNCHANGED <<op, pc, jobvars, overlooked>>
    BY <2>1, <2>2 DEF AloneInv, ActiveWorld, jobvars
  <2>3. CASE LockFree /\ LetIn
    BY <2>1, <2>3, LetInFacts DEF AloneInv, LockFree
  <2> QED BY <1>5, WaiterFrame, <2>2, <2>3
<1>6. CASE Boot
  <2>1. /\ UNCHANGED <<world_id, call, exporting, uploading, updating>> /\ Active' = Active
        /\ main' # "stop" /\ exporting = NoWorld
    BY <1>6, BootFrame, IdleFrame DEF updatevars, AccessInv, ExitInv
  <2>2. CASE NothingQueued /\ overlooked' = overlooked
    BY <2>1, <2>2 DEF AloneInv, ActiveWorld, NothingQueued
  <2>3. CASE LetIn
    BY <2>1, <2>3, LetInFacts DEF AloneInv
  <2> QED BY <1>6, BootFrame, <2>2, <2>3
<1>7. CASE UNCHANGED vars
  BY <1>7, IdleFrame
  DEF vars, pvars, opvars, jobvars, webvars, updatevars, answervars, AloneInv, ActiveWorld
<1> QED BY Cases, AloneAsks, <1>1, <1>2, <1>3, <1>4, <1>5, <1>6, <1>7

LEMMA AloneInvariant == PanelSpec => [](RestInv /\ AccessInv /\ AloneInv)
<1>1. PanelInit => RestInv /\ AccessInv /\ AloneInv
  BY RestInvInit, AccessInvInit, AloneInit
<1>2. RestInv /\ AccessInv /\ AloneInv /\ [PanelNext]_vars => RestInv' /\ AccessInv' /\ AloneInv'
  BY RestInvStep, AccessInvStep, AloneStep
<1> QED BY <1>1, <1>2, PTL DEF PanelSpec

LEMMA TableSays ==
    ASSUME RestInv, ~CanLeak
    PROVE  LiveGames = Abandoned /\ \A w : w \in LiveWorlds => ActiveWorld(w)
  BY DEF RestInv, LiveWorlds, LiveGames, Abandoned, ActiveWorld, Active

\* While the ZIP of a world is built no game serves that world, whatever is
\* asked of the panel meanwhile, provided spawning is all or nothing.
THEOREM ExportsAtRest == ASSUME ~CanLeak PROVE PanelSpec => []ExportAtRest
<1>1. RestInv /\ AloneInv => ExportAtRest
  BY TableSays DEF AloneInv, ExportAtRest
<1> QED BY <1>1, AloneInvariant, PTL

\* A software update runs beside no game, operation, upload or export,
\* restarts of the panel by the update and lost answers included, unless
\* something was let in while the helper did not answer; under the same
\* proviso.
THEOREM UpdatesRunAlone == ASSUME ~CanLeak PROVE PanelSpec => []UpdateAlone
<1>1. RestInv /\ AloneInv => UpdateAlone
  BY TableSays DEF AloneInv, UpdateAlone, Abandoned, Active
<1> QED BY <1>1, AloneInvariant, PTL

-----------------------------------------------------------------------------
(* The job history.  A job is open only while busy is set, through every   *)
(* failed write, cancelled queue and restart.                              *)
JobInv == ~busy => job \notin {"queued", "running"}

LEMMA JobStep == RestInv /\ JobInv /\ [PanelNext]_vars => JobInv'
<1> SUFFICES ASSUME RestInv, JobInv, [PanelNext]_vars PROVE JobInv'
  OBVIOUS
<1> USE DEF jobvars, JobInv
<1>1. CASE OwnStep
  BY <1>1 DEF OwnStep, Queue, Begin, Finish, Pause, ServiceStop, StopEnds, ServiceStart,
     StartEnds, Check, Work, Resume, Clear, OpKeeps, OpStays, RestInv, BusyInv
<1>2. CASE Quietly \/ CloseReads \/ CloseStopsGames \/ Asks
  BY <1>2, QuietFrame, CloseFrame, AsksFrame
<1>3. CASE Ends
  BY <1>3, EndsFrame DEF ProcessEnds
<1>4. CASE WaiterStarts
  BY <1>4, WaiterFrame DEF Autostart
<1>5. CASE Boot
  BY <1>5, BootFrame DEF Autostart, NothingQueued, BootJob
<1>6. CASE UNCHANGED vars
  BY <1>6 DEF vars, pvars
<1> QED BY Cases, <1>1, <1>2, <1>3, <1>4, <1>5, <1>6

\* No job is shown as queued or running when no operation goes on, after any
\* failed writes, deaths and restarts of the panel.
THEOREM JobsTellTheTruth == PanelSpec => []NoGhostJob
<1>1. PanelInit => JobInv
  BY DEF PanelInit, JobInv
<1>2. JobInv => NoGhostJob
  BY DEF JobInv, NoGhostJob
<1> QED BY <1>1, <1>2, JobStep, RestInvariant, PTL DEF PanelSpec

-----------------------------------------------------------------------------
(* Which operation is at a place, and for which world a call is made.      *)
KindInv ==
    /\ pc \in {"pause", "resume"} => op.kind \in Pausing
    /\ pc = "check" => op.kind \notin Pausing
    /\ pc \in {"stop", "stopping"} => op.kind \in {"stop", "restart"} \cup Pausing
    /\ pc = "start" => op.kind \in {"start", "restart"} \cup Pausing
    /\ call = "stop" => pc = "stopping" /\ (Active => world_id = op.world)
    /\ call \in Preparing =>
          pc = "starting" /\ target = op.world /\ (op.kind = "mods" => ~launching)

LEMMA KindInit == PanelInit => KindInv
  BY DEF PanelInit, KindInv, Init, Preparing

LEMMA KindStep == RestInv /\ AccessInv /\ AloneInv /\ KindInv /\ [PanelNext]_vars => KindInv'
<1> SUFFICES ASSUME RestInv, AccessInv, AloneInv, KindInv, [PanelNext]_vars PROVE KindInv'
  OBVIOUS
<1> USE DEF Pausing, Preparing
<1>f. UNCHANGED rvars => UNCHANGED <<world_id, call, target, launching>> /\ Active' = Active
  BY IdleFrame
<1>c. /\ call # "idle" => pc \in {"starting", "stopping"} \/ main = "stop"
      /\ main = "stop" => call \in {"idle", "force"}
  BY DEF RestInv, CallInv, AloneInv
<1>1. CASE OwnStep
  <2>0. UNCHANGED <<op, main>>
    BY <1>1, OwnFrame
  <2>1. CASE Queue \/ Begin \/ Finish \/ Work \/ Resume \/ Clear \/ Pause
    BY <2>0, <2>1, <1>f, <1>c
    DEF Queue, Begin, Finish, Work, Resume, Clear, Pause, FirstStep, KindInv
  <2>2. CASE StopEnds \/ StartEnds
    BY <2>0, <2>2, <1>f DEF StopEnds, StartEnds, AfterStop, AfterStart, KindInv
  <2>3. CASE ServiceStop
    BY <2>0, <2>3, <1>f, <1>c
    DEF ServiceStop, StopBegins, AfterStop, AfterStart, KindInv, Active, Alive
  <2>4. CASE ServiceStart
    <3>1. pc' = "starting" => Start(op.world)
      BY <2>4 DEF ServiceStart, AfterStart
    <3>2. pc' # "starting" => UNCHANGED rvars /\ pc' \in {"clear", "finish"}
      BY <2>4 DEF ServiceStart, AfterStart
    <3>3. pc' = "starting" => call' \in {"idle", "mods"} /\ (call' = "mods" => target' = op.world)
      BY <3>1 DEF Start, StartRefused, StartAccepted, Return
    <3> QED BY <2>0, <2>4, <3>2, <3>3, <1>f, <1>c DEF ServiceStart, KindInv
  <2>5. CASE Check
    <3>1. pc' = "starting" => UpdateMods(op.world)
      BY <2>5 DEF Check
    <3>2. pc' # "starting" => UNCHANGED rvars /\ pc' \in {"work", "finish"}
      BY <2>5 DEF Check
    <3>3. pc' = "starting" => call' \in {"idle", "mods"}
                              /\ (call' = "mods" => target' = op.world /\ ~launching')
      BY <3>1 DEF UpdateMods, Return
    <3> QED BY <2>0, <2>5, <3>2, <3>3, <1>f, <1>c DEF Check, KindInv
  <2> QED BY <1>1, <2>1, <2>2, <2>3, <2>4, <2>5 DEF OwnStep
<1>2. CASE Quietly
  <2>1. RuntimeStep /\ UNCHANGED <<op, pc>>
    BY <1>2, QuietFrame DEF opvars
  <2>2. call = "stop" /\ Active' => Active /\ world_id' = world_id
    BY <2>1, GamesAppear DEF RestInv
  <2> QED BY <2>1, <2>2, CallMoves DEF KindInv
<1>3. CASE CloseReads
  BY <1>3, CloseFrame DEF KindInv, Active, Alive
<1>4. CASE CloseStopsGames
  BY <1>4 DEF CloseStopsGames, StopBegins, MainKeeps, KindInv, Drained
<1>5. CASE Ends
  BY <1>5, EndsFrame DEF ProcessEnds, KindInv
<1>6. CASE Asks
  <2>1. CASE UNCHANGED <<op, pc, imported>>
    BY <1>6, <2>1, AsksFrame, <1>f DEF KindInv
  <2>2. CASE pc' = "submit" /\ LockFree /\ ~busy /\ ~Closing /\ ~Exited
    BY <1>6, <2>2, AsksFrame, <1>f, <1>c DEF KindInv, RestInv, BusyInv, Closing, Serving, LockFree
  <2> QED BY <1>6, <2>1, <2>2, AsksFrame
<1>7. CASE WaiterStarts
  <2>1. CASE UNCHANGED <<op, pc, jobvars, overlooked>>
    BY <1>7, <2>1, WaiterFrame, <1>f DEF KindInv
  <2>2. CASE LockFree /\ WaiterMayStart /\ Autostart(AutostartWorld)
    <3>1. pc' = "queued" /\ ~busy /\ pc # "submit" /\ ~Closing /\ ~Exited
      BY <1>7, <2>2, WaiterFrame DEF LockFree, WaiterMayStart, Autostart
    <3> QED BY <1>7, <3>1, WaiterFrame, <1>f, <1>c DEF KindInv, RestInv, BusyInv, Closing, Serving
  <2> QED BY <1>7, <2>1, <2>2, WaiterFrame
<1>8. CASE Boot
  <2>1. UNCHANGED rvars /\ pc = "idle" /\ call = "idle" /\ pc' \in {"idle", "queued"}
    BY <1>8, BootFrame, <1>c DEF Autostart, NothingQueued, Exited, AccessInv, ExitInv
  <2> QED BY <2>1, <1>f DEF KindInv
<1>9. CASE UNCHANGED vars
  BY <1>9, <1>f DEF vars, pvars, opvars, KindInv
<1> QED BY Cases, <1>1, <1>2, <1>3, <1>4, <1>5, <1>6, <1>7, <1>8, <1>9

LEMMA KindInvariant == PanelSpec => [](RestInv /\ AccessInv /\ AloneInv /\ KindInv)
<1>1. PanelInit => KindInv
  BY KindInit
<1>2. RestInv /\ AccessInv /\ AloneInv /\ KindInv /\ [PanelNext]_vars => KindInv'
  BY KindStep
<1> QED BY <1>1, <1>2, AloneInvariant, PTL DEF PanelSpec

-----------------------------------------------------------------------------
(* The restart.  From the signal on, the owed world runs and nobody means  *)
(* to stop it, or the operation that has it down is to start it again;     *)
(* from close()'s look at the table on, the place close() takes the world  *)
(* from names it, and in the end the note does.                            *)
MidPause == {"stopping", "work", "resume", "start", "starting", "clear"}
PauseInv ==
    op.kind \in Pausing =>
    /\ pc \in {"stop", "stopping"} /\ ActiveWorld(op.world) => was
    /\ pc \in {"stop"} \cup MidPause /\ was => resume_after_operation = op.world

\* The operation that has stopped the owed world is to start it again.
Paused == /\ op.kind \in {"restart", "backup"} /\ op.world = owed
          /\ op.kind = "backup" => resume_after_operation = owed /\ pc \in MidPause

OwedInv ==
    owed # NoWorld /\ ~missed =>
    \/ main = "active" /\ Active /\ world_id = owed /\ ~MeantToStop
    \/ main = "active" /\ ~Active /\ Paused
    \/ main = "world" /\ world_id = owed
    \/ main = "resume" /\ op.kind = "backup" /\ Paused
    \/ /\ main \in {"updater", "poll", "kill", "shut", "drain", "stop", "crashed", "down"}
       /\ resumeFile = owed

LEMMA PauseStep ==
    RestInv /\ KindInv /\ AccessInv /\ PauseInv /\ [PanelNext]_vars => PauseInv'
<1> SUFFICES ASSUME RestInv, KindInv, AccessInv, PauseInv, [PanelNext]_vars PROVE PauseInv'
  OBVIOUS
<1> USE DEF Pausing, MidPause
<1>1. CASE OwnStep
  <2>0. op' = op
    BY <1>1, OwnFrame
  <2>1. CASE Queue \/ Begin \/ Finish \/ Clear
    BY <2>0, <2>1 DEF Queue, Begin, Finish, Clear, FirstStep, PauseInv
  <2>2. CASE Pause
    BY <2>0, <2>2, IdleFrame DEF Pause, PauseInv, ActiveWorld
  <2>3. CASE ServiceStop
    <3>1. UNCHANGED <<world_id, processes, resume_after_operation>> /\ (op.kind # "restart" => was' = was)
          /\ pc = "stop" /\ pc' \in {"stopping", "finish", "start", "work", "clear"}
      BY <2>3 DEF ServiceStop, StopBegins, AfterStop, AfterStart, rvars
    <3> QED BY <2>0, <3>1 DEF PauseInv, ActiveWorld, Active, Alive
  <2>4. CASE StopEnds \/ StartEnds \/ Resume \/ Work
    <3>1. UNCHANGED <<was, resume_after_operation>> /\ pc \in {"stopping", "starting", "resume", "work"}
          /\ pc' \notin {"stop", "stopping"} /\ (pc = "starting" => pc' \in {"clear", "finish"})
      BY <2>4 DEF StopEnds, StartEnds, Resume, Work, AfterStop, AfterStart, resumevars
    <3> QED BY <2>0, <3>1 DEF PauseInv
  <2>5. CASE ServiceStart
    <3>1. UNCHANGED <<was, resume_after_operation>> /\ pc = "start"
          /\ pc' \in {"starting", "clear", "finish"}
      BY <2>5 DEF ServiceStart, AfterStart
    <3> QED BY <2>0, <3>1 DEF PauseInv
  <2>6. CASE Check
    BY <2>0, <2>6 DEF Check, KindInv, PauseInv
  <2> QED BY <1>1, <2>1, <2>2, <2>3, <2>4, <2>5, <2>6 DEF OwnStep
<1>2. CASE Quietly
  <2>1. RuntimeStep /\ UNCHANGED <<op, pc, was, resume_after_operation>>
    BY <1>2, QuietFrame DEF opvars, resumevars
  <2>2. pc \in {"stop", "stopping"} => call \in {"idle", "stop"}
    BY DEF RestInv, CallInv, StoppedInv
  <2>3. call \in {"idle", "stop"} /\ Active' => Active /\ world_id' = world_id
    BY <2>1, GamesAppear DEF RestInv
  <2> QED BY <2>1, <2>2, <2>3 DEF PauseInv, ActiveWorld
<1>3. CASE CloseReads \/ CloseStopsGames
  BY <1>3, CloseFrame DEF PauseInv, ActiveWorld, Active, Alive
<1>4. CASE Ends
  BY <1>4, EndsFrame DEF ProcessEnds, PauseInv
<1>5. CASE Asks
  BY <1>5, AsksFrame, IdleFrame DEF PauseInv, ActiveWorld, resumevars
<1>6. CASE WaiterStarts
  BY <1>6, WaiterFrame, IdleFrame DEF Autostart, PauseInv, ActiveWorld
<1>7. CASE Boot
  BY <1>7, BootFrame, IdleFrame
  DEF Autostart, NothingQueued, AccessInv, ExitInv, PauseInv, ActiveWorld
<1>8. CASE UNCHANGED vars
  BY <1>8, IdleFrame DEF vars, pvars, opvars, resumevars, PauseInv, ActiveWorld
<1> QED BY Cases, <1>1, <1>2, <1>3, <1>4, <1>5, <1>6, <1>7, <1>8

\* The operation thread: no step of it stops the owed world on purpose, and
\* the step that forgets it is missed.
LEMMA OwedOwn ==
    ASSUME RestInv, KindInv, OwedInv, OwnStep
    PROVE  OwedInv'
<1> SUFFICES ASSUME owed # NoWorld, ~missed' PROVE OwedInv'
  BY OwnFrame DEF OwedInv
<1> USE DEF Pausing, MidPause
<1>1. UNCHANGED <<main, op, resumeFile, owed>> /\ (busy' => busy \/ pc = "submit")
      /\ pc' # "submit"
  BY OwnFrame
<1>2. ~missed /\ (Clear => main # "resume" /\ ~(main = "active" /\ ~Active))
  <2>1. CASE Clear
    BY <2>1 DEF Clear
  <2>2. CASE ~Clear
    <3>1. missed' = missed
      BY <2>2 DEF OwnStep, Queue, Begin, Finish, Pause, ServiceStop, StopEnds, ServiceStart,
         StartEnds, Check, Work, Resume, OpKeeps, ghosts
    <3> QED BY <2>2, <3>1
  <2> QED BY <2>1, <2>2
<1>3. /\ main \in {"active", "world", "resume"} =>
             UNCHANGED <<world_id, processes>> /\ (call' = "force" => call = "force")
  <2>1. CASE UNCHANGED rvars
    BY <2>1 DEF rvars
  <2>2. CASE ServiceStop
    BY <2>1, <2>2 DEF ServiceStop, StopBegins
  <2>3. CASE ServiceStart
    BY <2>1, <2>3 DEF ServiceStart, StartRefusedByClose, Closing, Serving, Exited
  <2>4. CASE Check
    BY <2>1, <2>4 DEF Check, UpdateMods, Return
  <2> QED BY <2>1, <2>2, <2>3, <2>4
          DEF OwnStep, Queue, Begin, Finish, Pause, StopEnds, StartEnds, Work, Resume, Clear
<1>4. CASE main \notin {"active", "world", "resume"}
  BY <1>1, <1>2, <1>4 DEF OwedInv
<1>5. CASE main = "world"
  BY <1>1, <1>2, <1>3, <1>5 DEF OwedInv
<1>6. CASE main = "active" /\ Active
  BY <1>1, <1>2, <1>3, <1>6 DEF OwedInv, MeantToStop, InProgress, Active, Alive
<1>7. CASE main = "resume" \/ (main = "active" /\ ~Active)
  <2>1. Paused /\ (main = "resume" => op.kind = "backup")
    BY <1>2, <1>7 DEF OwedInv
  <2>2. Active' = Active
    BY <1>3, <1>7 DEF Active, Alive
  <2>3. op.kind = "backup" => UNCHANGED resume_after_operation /\ pc' \in MidPause
    BY <1>2, <1>7, <2>1
    DEF Paused, OwnStep, Queue, Begin, Finish, Pause, ServiceStop, StopEnds, ServiceStart,
        StartEnds, Check, Work, Resume, Clear, AfterStop, AfterStart, resumevars
  <2>4. Paused'
    BY <1>1, <2>1, <2>3 DEF Paused
  <2> QED BY <1>1, <1>7, <2>1, <2>2, <2>4 DEF OwedInv
<1> QED BY <1>4, <1>5, <1>6, <1>7

\* The table: a world that goes down while nobody means to stop it has gone
\* down by itself or for an operation that is to start it again.
LEMMA OwedQuiet ==
    ASSUME RestInv, KindInv, PauseInv, OwedInv, Quietly
    PROVE  OwedInv'
<1>1. /\ RuntimeStep
      /\ UNCHANGED <<main, op, pc, busy, resume_after_operation, resumeFile>>
  BY QuietFrame DEF opvars, jobvars, resumevars
<1>2. /\ owed' = IF Collapses THEN NoWorld ELSE owed
      /\ missed' = (missed \/ (main = "world" /\ world_id' # world_id))
  BY DEF Quietly, RuntimeMoves
<1> SUFFICES ASSUME owed' # NoWorld, ~missed' PROVE OwedInv'
  BY DEF OwedInv
<1>3. ~Collapses /\ owed' = owed /\ ~missed
  BY <1>2
<1>4. CASE main # "active"
  BY <1>1, <1>2, <1>3, <1>4 DEF OwedInv, Paused
<1>5. CASE main = "active" /\ Active
  <2>1. world_id = owed /\ ~MeantToStop
    BY <1>3, <1>5 DEF OwedInv
  <2>2. CASE Active'
    <3>1. world_id' = world_id
      BY <1>1, <1>5, <2>2, GamesAppear DEF RestInv, RInv, TableInv
    <3>2. call' # "force"
      BY <1>1, <1>3, <2>1, CallMoves DEF Collapses, MeantToStop
    <3> QED BY <1>1, <1>3, <1>5, <2>1, <2>2, <3>1, <3>2 DEF OwedInv, MeantToStop, InProgress
  <2>3. CASE ~Active'
    <3>1. call = "stop"
      BY <1>3, <1>5, <2>1, <2>3 DEF Collapses, MeantToStop
    <3>2. pc = "stopping" /\ op.world = world_id /\ op.kind \in {"restart", "backup"}
      BY <1>5, <2>1, <3>1 DEF KindInv, MeantToStop, InProgress, RestInv, BusyInv, Pausing
    <3>3. op.kind = "backup" => resume_after_operation = op.world
      BY <1>5, <3>2 DEF PauseInv, Pausing, MidPause, ActiveWorld
    <3> QED BY <1>1, <1>3, <1>5, <2>1, <2>3, <3>2, <3>3 DEF OwedInv, Paused, MidPause
  <2> QED BY <2>2, <2>3
<1>6. CASE main = "active" /\ ~Active
  <2>1. Paused
    BY <1>3, <1>6 DEF OwedInv
  <2>2. CASE ~Active'
    BY <1>1, <1>3, <1>6, <2>1, <2>2 DEF OwedInv, Paused
  <2>3. CASE Active'
    <3>1. call = "mods" /\ world_id' = target /\ call' \in {"settle", "idle"}
      BY <1>1, <1>6, <2>3, GamesAppear DEF RestInv
    <3>2. target = op.world
      BY <3>1 DEF KindInv, Preparing
    <3>3. ~MeantToStop'
      BY <1>1, <2>1, <3>1 DEF MeantToStop, Paused
    <3> QED BY <1>1, <1>3, <1>6, <2>1, <2>3, <3>1, <3>2, <3>3 DEF OwedInv, Paused
  <2> QED BY <2>2, <2>3
<1> QED BY <1>4, <1>5, <1>6

\* close(): what it finds where it looks.
LEMMA OwedClose ==
    ASSUME RestInv, PauseInv, OwedInv, CloseReads \/ CloseStopsGames \/ Ends
    PROVE  OwedInv'
<1>1. CASE Signal
  <2>1. /\ UNCHANGED <<rvars, pc, op, busy, resume_after_operation>>
        /\ main' = "active" /\ owed' = Expected
    BY <1>1 DEF Signal, MainKeeps, jobvars
  <2>2. CASE Active /\ ~MeantToStop
    BY <2>1, <2>2, IdleFrame DEF Expected, OwedInv, MeantToStop, InProgress
  <2>3. CASE ~(Active /\ ~MeantToStop) /\ Interrupted
    <3>1. op.kind = "backup" => resume_after_operation = op.world /\ pc \in MidPause
      BY <2>3 DEF Interrupted, PauseInv, Pausing, MidPause
    <3> QED BY <2>1, <2>3, <3>1, IdleFrame DEF Expected, Interrupted, OwedInv, Paused
  <2>4. CASE ~(Active /\ ~MeantToStop) /\ ~Interrupted
    BY <2>1, <2>4 DEF Expected, OwedInv
  <2> QED BY <2>2, <2>3, <2>4
<1>2. CASE CloseReadsActive
  <2>1. /\ UNCHANGED <<rvars, op, pc, resume_after_operation, owed>>
        /\ main = "active" /\ main' = (IF Active THEN "world" ELSE "resume")
        /\ missed' = (missed \/ (~Active /\ op.kind = "restart"))
    BY <1>2 DEF CloseReadsActive, MainKeeps
  <2> QED BY <2>1, IdleFrame DEF OwedInv, Paused
<1>3. CASE CloseWritesNote
  BY <1>3 DEF CloseWritesNote, ResumeNote, OwedInv, Paused
<1>4. CASE CloseSeesUpdater \/ ClosePollsUpdater \/ CloseKillsUpdater \/ CloseShutsExecutor
           \/ CloseStopsGames
  BY <1>4 DEF CloseSeesUpdater, ClosePollsUpdater, CloseKillsUpdater, CloseShutsExecutor,
     CloseStopsGames, ghosts, OwedInv
<1>5. CASE Ends
  BY <1>5 DEF Ends, CloseReturns, CrashedExit, Kill, ProcessEnds, OwedInv
<1> QED BY <1>1, <1>2, <1>3, <1>4, <1>5 DEF CloseReads

LEMMA OwedStep ==
    RestInv /\ KindInv /\ PauseInv /\ OwedInv /\ [PanelNext]_vars => OwedInv'
<1> SUFFICES ASSUME RestInv, KindInv, PauseInv, OwedInv, [PanelNext]_vars PROVE OwedInv'
  OBVIOUS
<1>1. CASE Asks
  BY <1>1, AsksFrame, IdleFrame
  DEF OwedInv, Paused, MeantToStop, InProgress, Closing, Serving, Exited, jobvars, resumevars
<1>2. CASE WaiterStarts
  BY <1>2, WaiterFrame, IdleFrame
  DEF OwedInv, Paused, MeantToStop, InProgress, WaiterMayStart, Closing, Serving, Exited, jobvars
<1>3. CASE Boot
  BY <1>3, BootFrame DEF OwedInv
<1>4. CASE UNCHANGED vars
  BY <1>4, IdleFrame DEF vars, pvars, opvars, jobvars, resumevars, ghosts, OwedInv, Paused,
     MeantToStop, InProgress
<1> QED BY Cases, OwedOwn, OwedQuiet, OwedClose, <1>1, <1>2, <1>3, <1>4

\* The note written at a clean stop names the world that ran, or that a
\* backup or a restore had down, whatever is in progress and whatever fails,
\* leaks or hangs, unless close() missed it: `missed` marks each of the ways,
\* of which README lists the restart among the disagreements.
THEOREM RunningWorldNoted == PanelSpec => []CleanStopNotesWorld
<1>1. PanelInit => OwedInv /\ PauseInv
  BY DEF PanelInit, OwedInv, PauseInv, Pausing
<1>2. OwedInv => CleanStopNotesWorld
  BY DEF OwedInv, CleanStopNotesWorld
<1> QED BY <1>1, <1>2, OwedStep, PauseStep, KindInvariant, PTL DEF PanelSpec

-----------------------------------------------------------------------------
(* Imports.  Until somebody asks for a start, only an operation that found *)
(* its world running starts a world, and the imported world is not running. *)
Restarting == op.kind \in {"start", "restart"}
ImportInv ==
    imported # NoWorld =>
    /\ ~ActiveWorld(imported)
    /\ pc # "idle" => ~Restarting
    /\ op.kind \in Pausing /\ was /\ pc \in {"stop", "stopping", "work", "resume"} =>
          \/ op.world # imported
          \/ pc = "resume" /\ op.kind = "import" /\ completed
    /\ pc \in {"start", "starting"} => op.kind = "mods" \/ op.world # imported

\* The operation thread: what each step does with the world it may start.
LEMMA ImportOwn == ASSUME RestInv, KindInv, ImportInv, OwnStep PROVE ImportInv'
<1> USE DEF Pausing, Restarting
<1>f. UNCHANGED rvars => UNCHANGED <<world_id, call>> /\ Active' = Active
  BY DEF rvars, Active, Alive
<1>0. op' = op /\ pc # "idle"
  BY OwnFrame
<1>1. CASE Queue \/ Finish \/ Clear
  BY <1>0, <1>1, <1>f DEF Queue, Finish, Clear, OpKeeps, OpStays, ghosts, ImportInv, ActiveWorld
<1>2. CASE Begin
  BY <1>0, <1>2, <1>f DEF Begin, FirstStep, ghosts, ImportInv, ActiveWorld
<1>3. CASE Pause
  BY <1>0, <1>3, <1>f DEF Pause, OpKeeps, OpStays, ghosts, ImportInv, ActiveWorld
<1>4. CASE ServiceStop
  <2>1. UNCHANGED <<world_id, processes, imported>>
        /\ pc' \in {"stopping", AfterStop(op.kind), AfterStart(op.kind)}
        /\ (op.kind # "restart" => was' = was) /\ pc = "stop"
    BY <1>4 DEF ServiceStop, StopBegins, OpKeeps, OpStays, ghosts, rvars
  <2> QED BY <1>0, <2>1 DEF AfterStop, AfterStart, ImportInv, ActiveWorld, Active, Alive
<1>5. CASE StopEnds
  BY <1>0, <1>5, <1>f DEF StopEnds, AfterStop, AfterStart, OpKeeps, OpStays, ghosts, ImportInv, ActiveWorld
<1>6. CASE ServiceStart
  <2>1. Active' => Active /\ world_id' = world_id
    BY <1>6, NoProcessesFacts
    DEF ServiceStart, Start, StartRefused, StartAccepted, rvars, Active, Alive
  <2>2. pc = "start" /\ pc' \in {"starting", "clear", "finish"} /\ UNCHANGED <<was, imported>>
    BY <1>6 DEF ServiceStart, AfterStart, OpKeeps, OpStays, ghosts
  <2> QED BY <1>0, <2>1, <2>2 DEF ImportInv, ActiveWorld
<1>7. CASE StartEnds \/ Resume
  BY <1>0, <1>7, <1>f DEF StartEnds, Resume, MayResume, AfterStart, OpKeeps, OpStays, ghosts, KindInv,
     ImportInv, ActiveWorld
<1>8. CASE Check
  <2>1. UNCHANGED <<world_id, processes, imported>>
        /\ pc' \in {"starting", "work", "finish"} /\ (pc' = "starting" => op.kind = "mods")
        /\ pc = "check"
    BY <1>8 DEF Check, UpdateMods, OpKeeps, OpStays, ghosts, rvars
  <2>2. op.kind \notin Pausing
    BY <2>1 DEF KindInv
  <2> QED BY <1>0, <2>1, <2>2 DEF ImportInv, ActiveWorld, Active, Alive
<1>9. CASE Work
  BY <1>0, <1>9, <1>f DEF Work, RestInv, WorkInv, ImportInv, ActiveWorld
<1> QED BY <1>1, <1>2, <1>3, <1>4, <1>5, <1>6, <1>7, <1>8, <1>9 DEF OwnStep

LEMMA ImportStep ==
    RestInv /\ AccessInv /\ KindInv /\ ImportInv /\ [PanelNext]_vars => ImportInv'
<1> SUFFICES ASSUME RestInv, AccessInv, KindInv, ImportInv, [PanelNext]_vars PROVE ImportInv'
  OBVIOUS
<1>f. UNCHANGED rvars => UNCHANGED <<world_id, call>> /\ Active' = Active
  BY DEF rvars, Active, Alive
<1>1. CASE Quietly
  <2>1. RuntimeStep /\ UNCHANGED <<op, pc, was, completed, imported>>
    BY <1>1, QuietFrame DEF opvars
  <2>2. imported # NoWorld => ~ActiveWorld(imported)'
    <3> SUFFICES ASSUME imported # NoWorld, Active' PROVE imported # world_id'
      BY <2>1 DEF ActiveWorld
    <3>1. CASE Active /\ world_id' = world_id
      BY <3>1 DEF ImportInv, ActiveWorld
    <3>2. CASE call = "mods" /\ launching /\ world_id' = target
      BY <3>2 DEF ImportInv, KindInv, Preparing
    <3> QED BY <2>1, <3>1, <3>2, GamesAppear DEF RestInv
  <2> QED BY <2>1, <2>2 DEF ImportInv, Restarting
<1>2. CASE CloseReads \/ CloseStopsGames
  BY <1>2, CloseFrame DEF ImportInv, Restarting, ActiveWorld, Active, Alive
<1>3. CASE Ends
  BY <1>3, EndsFrame, NoProcessesFacts
  DEF ProcessEnds, ImportInv, Restarting, ActiveWorld, Active, Alive
<1>4. CASE Asks
  BY <1>4, AsksFrame, <1>f DEF ImportInv, Restarting, ActiveWorld
<1>6. CASE WaiterStarts
  BY <1>6, WaiterFrame, <1>f DEF ImportInv, Restarting, ActiveWorld
<1>7. CASE Boot
  BY <1>7, BootFrame DEF ImportInv
<1>8. CASE UNCHANGED vars
  BY <1>8, <1>f DEF vars, pvars, opvars, ghosts, ImportInv, Restarting, ActiveWorld
<1> QED BY Cases, ImportOwn, <1>1, <1>2, <1>3, <1>4, <1>6, <1>7, <1>8

\* A world whose save was imported is down until a user or the autostart
\* setting starts it, although the import may have found it running; provided
\* spawning is all or nothing.
THEOREM ImportedWorldsStayDown == ASSUME ~CanLeak PROVE PanelSpec => []ImportedWorldIsDown
<1>1. PanelInit => ImportInv
  BY DEF PanelInit, ImportInv
<1>2. RestInv /\ ImportInv => ImportedWorldIsDown
  BY TableSays DEF ImportInv, ImportedWorldIsDown
<1> QED BY <1>1, <1>2, ImportStep, KindInvariant, PTL DEF PanelSpec

-----------------------------------------------------------------------------
(* The exit.  Once runtime.shutdown has returned no game is alive, unless  *)
(* a killed one hangs, and none appears before the process ends.           *)
StoppedAtExit == main = "stop" /\ call = "idle" => outcome = "error" \/ ~Active

LEMMA StoppedStep ==
    RestInv /\ AloneInv /\ StoppedAtExit /\ [PanelNext]_vars => StoppedAtExit'
<1> SUFFICES ASSUME RestInv, AloneInv, StoppedAtExit, [PanelNext]_vars PROVE StoppedAtExit'
  OBVIOUS
<1>1. CASE Quietly
  <2>1. RuntimeStep /\ main' = main
    BY <1>1, QuietFrame
  <2>2. main = "stop" => call \in {"idle", "force"}
    BY DEF AloneInv
  <2>3. call = "idle" /\ Active' => Active
    BY <2>1, GamesAppear DEF RestInv
  <2> QED BY <2>1, <2>2, <2>3, CallMoves DEF StoppedAtExit
<1>2. CASE OwnStep
  <2>1. main = "stop" => UNCHANGED rvars
    BY <1>2 DEF RestInv, CallInv, OwnStep, Queue, Begin, Finish, Pause, ServiceStop, StopEnds,
       ServiceStart, StartEnds, Check, Work, Resume, Clear
  <2> QED BY <1>2, <2>1, OwnFrame, IdleFrame DEF StoppedAtExit
<1>3. CASE CloseReads \/ Ends \/ Boot
  BY <1>3, CloseFrame, EndsFrame, BootFrame DEF StoppedAtExit
<1>4. CASE CloseStopsGames
  BY <1>4 DEF CloseStopsGames, StopBegins, StoppedAtExit
<1>5. CASE Asks \/ WaiterStarts \/ UNCHANGED vars
  <2>1. UNCHANGED <<rvars, main>>
    BY <1>5, AsksFrame, WaiterFrame DEF vars, pvars
  <2> QED BY <2>1, IdleFrame DEF StoppedAtExit
<1> QED BY Cases, <1>1, <1>2, <1>3, <1>4, <1>5

\* The panel's own exit leaves no game for systemd to kill, whichever
\* operations, downloads and failing writes close() meets, unless close()
\* raises before it stops the games (README, disagreements) or a killed game
\* does not die; provided spawning is all or nothing.
THEOREM CompletedCloseLeavesNoGame == ASSUME ~CanLeak PROVE PanelSpec => ExitLeavesNoGame
<1>1. PanelInit => StoppedAtExit
  BY DEF PanelInit, StoppedAtExit
<1>2. RestInv /\ StoppedAtExit /\ [PanelNext]_vars
        => [main' = "down" => Exited \/ main = "crashed" \/ outcome = "error" \/ LiveGames = {}]_vars
  <2> SUFFICES ASSUME RestInv, StoppedAtExit, PanelNext, vars' # vars, main' = "down", ~Exited,
                      main # "crashed", outcome # "error"
               PROVE  LiveGames = {}
    OBVIOUS
  <2>1. main' # main
    BY DEF Exited
  <2>2. CloseReturns
    <3>1. ~CloseReads /\ ~CloseStopsGames /\ ~Boot
      BY DEF CloseReads, Signal, CloseReadsActive, CloseWritesNote, CloseSeesUpdater,
         ClosePollsUpdater, CloseKillsUpdater, CloseShutsExecutor, CloseStopsGames, Boot
    <3>2. ~OwnStep /\ ~Quietly /\ ~Asks /\ ~WaiterStarts /\ ~(UNCHANGED vars)
      BY <2>1, OwnFrame, QuietFrame, AsksFrame, WaiterFrame
    <3>3. ~CrashedExit /\ ~Kill
      BY DEF CrashedExit, Kill
    <3> QED BY <3>1, <3>2, <3>3, Cases DEF Ends
  <2>3. ~Active
    BY <2>2 DEF CloseReturns, StoppedAtExit
  <2> QED BY <2>3, TableSays DEF Abandoned, Active
<1> QED BY <1>1, <1>2, StoppedStep, AloneInvariant, PTL DEF PanelSpec, ExitLeavesNoGame

-----------------------------------------------------------------------------
(* Types, in parts: the operation, the jobs, the requests and the names of *)
(* worlds that are kept.                                                   *)
MainTyped ==
    main \in {"serve", "active", "world", "resume", "updater", "poll", "kill",
              "shut", "drain", "stop", "crashed", "down", "killed"}
OpTyped ==
    /\ op \in [kind : AllKinds, world : Worlds \cup {NoWorld}]
    /\ pc \in {"idle", "submit", "queued", "pause", "stop", "stopping", "start",
               "starting", "check", "work", "resume", "clear", "finish"}
    /\ was \in BOOLEAN /\ completed \in BOOLEAN /\ result \in {"ok", "error"}
JobTyped ==
    /\ busy \in BOOLEAN
    /\ {job, saved} \subseteq {"none", "queued", "running", "completed", "failed"}
WebTyped ==
    /\ {updating, told, stray, overlooked, missed} \subseteq BOOLEAN
    /\ lastUpdate \in {"none", "completed", "failed"}
    /\ waiter \in {"off", "polling", "ready"}
NamesTyped ==
    {resume_after_operation, resumeFile, exporting, uploading, owed, imported}
      \subseteq Worlds \cup {NoWorld}
PanelTyped == MainTyped /\ OpTyped /\ JobTyped /\ WebTyped /\ NamesTyped

LEMMA OwnTyped == ASSUME RestInv, PanelTyped, OwnStep PROVE PanelTyped'
<1> USE DEF PanelTyped
<1>1. MainTyped'
  BY OwnFrame DEF MainTyped
<1>2. OpTyped'
  <2>1. op' = op
    BY OwnFrame
  <2>2. was' \in BOOLEAN /\ completed' \in BOOLEAN
    <3>1. was' \in {was, FALSE, ActiveWorld(op.world)}
      BY DEF OwnStep, Queue, Begin, Finish, Pause, ServiceStop, StopEnds, ServiceStart,
         StartEnds, Check, Work, Resume, Clear
    <3>2. ActiveWorld(op.world) \in BOOLEAN
      BY Zenon DEF ActiveWorld
    <3>3. completed' \in {completed, FALSE, TRUE}
      BY DEF OwnStep, Queue, Begin, Finish, Pause, ServiceStop, StopEnds, ServiceStart,
         StartEnds, Check, Work, Resume, Clear
    <3> QED BY <3>1, <3>2, <3>3 DEF OpTyped
  <2>3. result' \in {"ok", "error"}
    BY DEF OpTyped, RestInv, RInv, TypeOK, OwnStep, Queue, Begin, Finish, Pause, ServiceStop,
       StopEnds, ServiceStart, StartEnds, Check, Work, Resume, Clear
  <2>4. pc' \in {"idle", "queued", "pause", "stop", "stopping", "start", "starting", "check",
                 "work", "resume", "clear", "finish"}
    BY DEF OwnStep, Queue, Begin, Finish, Pause, ServiceStop, StopEnds, ServiceStart,
       StartEnds, Check, Work, Resume, Clear, FirstStep, AfterStop, AfterStart
  <2> QED BY <2>1, <2>2, <2>3, <2>4 DEF OpTyped
<1>3. JobTyped'
  BY DEF JobTyped, OwnStep, Queue, Begin, Finish, Pause, ServiceStop, StopEnds, ServiceStart,
     StartEnds, Check, Work, Resume, Clear, OpKeeps, OpStays, jobvars
<1>4. /\ resume_after_operation' \in {resume_after_operation, op.world, NoWorld}
      /\ imported' \in {imported, op.world}
  BY DEF OwnStep, Queue, Begin, Finish, Pause, ServiceStop, StopEnds, ServiceStart, StartEnds,
     Check, Work, Resume, Clear, OpKeeps, OpStays, resumevars, ghosts
<1>5. op.world \in Worlds \cup {NoWorld}
  BY DEF OpTyped
<1>6. missed' \in BOOLEAN
  BY DEF WebTyped, OwnStep, Queue, Begin, Finish, Pause, ServiceStop, StopEnds, ServiceStart,
     StartEnds, Check, Work, Resume, Clear, OpKeeps, ghosts
<1> QED BY OwnFrame, <1>1, <1>2, <1>3, <1>4, <1>5, <1>6
        DEF WebTyped, NamesTyped, updatevars, answervars

LEMMA CloseTyped ==
    ASSUME RestInv, PanelTyped, CloseReads \/ CloseStopsGames PROVE PanelTyped'
<1> USE DEF PanelTyped
<1>1. MainTyped'
  BY DEF MainTyped, CloseReads, Signal, CloseReadsActive, CloseWritesNote, CloseSeesUpdater,
     ClosePollsUpdater, CloseKillsUpdater, CloseShutsExecutor, CloseStopsGames
<1>3. world_id \in Worlds \cup {NoWorld} /\ op.world \in Worlds \cup {NoWorld}
  BY DEF OpTyped, RestInv, RInv, TypeOK
<1>4. owed' \in Worlds \cup {NoWorld}
  BY <1>3 DEF Expected, NamesTyped, CloseReads, Signal, CloseReadsActive, CloseWritesNote,
     CloseSeesUpdater, ClosePollsUpdater, CloseKillsUpdater, CloseShutsExecutor,
     CloseStopsGames, ghosts
<1>5. resumeFile' \in Worlds \cup {NoWorld}
  BY <1>3 DEF ResumeNote, NamesTyped, CloseReads, Signal, CloseReadsActive, CloseWritesNote,
     CloseSeesUpdater, ClosePollsUpdater, CloseKillsUpdater, CloseShutsExecutor, CloseStopsGames
<1>6. missed' \in BOOLEAN
  BY DEF WebTyped, CloseReads, Signal, CloseReadsActive, CloseWritesNote, CloseSeesUpdater,
     ClosePollsUpdater, CloseKillsUpdater, CloseShutsExecutor, CloseStopsGames, ghosts
<1> QED BY CloseFrame, <1>1, <1>4, <1>5, <1>6
        DEF OpTyped, JobTyped, WebTyped, NamesTyped, jobvars, webvars, updatevars, answervars

\* What an answer of the helper leaves.
LEMMA StatusTyped == ASSUME PanelTyped, Status PROVE told' \in BOOLEAN
  BY DEF Status, AfterStatus, PanelTyped, WebTyped

LEMMA LetInTyped == ASSUME PanelTyped, LetIn PROVE {told', overlooked'} \subseteq BOOLEAN
  BY StatusTyped DEF LetIn, PanelTyped, WebTyped

LEMMA AsksTyped == ASSUME RestInv, PanelTyped, Asks PROVE PanelTyped'
<1> USE DEF PanelTyped
<1>k. "import" \in AllKinds /\ \A k \in Kinds : k \in AllKinds
  BY PanelAssumption DEF AllKinds
<1>w. \A w \in worlds : w \in Worlds
  BY DEF RestInv
<1>1. MainTyped' /\ JobTyped' /\ UNCHANGED <<resumevars, owed, missed>> /\ imported' \in {imported, NoWorld}
  BY AsksFrame DEF MainTyped, JobTyped, jobvars
<1>2. OpTyped'
  <2>1. CASE UserSubmits
    <3>1. PICK k \in Kinds, w \in worlds : Submit(k, w)
      BY <2>1 DEF UserSubmits
    <3>2. k \in AllKinds /\ w \in Worlds
      BY <1>k, <1>w
    <3> QED BY <3>1, <3>2 DEF Submit, OpTyped
  <2>2. CASE UploadSubmits
    BY <2>2, <1>k DEF UploadSubmits, Submit, OpTyped, NamesTyped
  <2>3. CASE Asks /\ ~UserSubmits /\ ~UploadSubmits
    <3>1. UNCHANGED opvars
      BY <2>3 DEF Asks, WebStep, ExportBegins, ExportEnds, UploadBegins, UploadFails,
         UpdateBegins, UpdateUnanswered, AsksStatus, StrayRead, UpdateEnds, WaiterSees
    <3> QED BY <3>1 DEF OpTyped, opvars
  <2> QED BY <2>1, <2>2, <2>3
<1>3. exporting' \in Worlds \cup {NoWorld} /\ uploading' \in Worlds \cup {NoWorld}
  <2>1. /\ exporting' \in worlds \cup {exporting, NoWorld}
        /\ uploading' \in worlds \cup {uploading, NoWorld}
    BY DEF Asks, WebStep, UserSubmits, UploadSubmits, ExportBegins, ExportEnds, UploadBegins,
       UploadFails, UpdateBegins, UpdateUnanswered, AsksStatus, StrayRead, UpdateEnds, WaiterSees
  <2> QED BY <2>1, <1>w DEF NamesTyped
<1>4. NamesTyped'
  BY <1>1, <1>3 DEF NamesTyped, resumevars
<1>5. {updating', stray'} \subseteq BOOLEAN /\ lastUpdate' \in {"none", "completed", "failed"}
      /\ waiter' \in {"off", "polling", "ready"}
  BY DEF WebTyped, Asks, WebStep, UserSubmits, UploadSubmits, ExportBegins, ExportEnds,
     UploadBegins, UploadFails, UpdateBegins, UpdateUnanswered, AsksStatus, StrayRead,
     UpdateEnds, WaiterSees, updatevars
<1>6. {told', overlooked'} \subseteq BOOLEAN
  <2>1. CASE LetIn
    BY <2>1, LetInTyped
  <2>2. CASE StrayRead
    <3>1. InUse \in BOOLEAN
      BY DEF InUse
    <3> QED BY <2>2, <3>1 DEF StrayRead, WebTyped
  <2>3. CASE AsksStatus
    BY <2>3, StatusTyped DEF AsksStatus, WebTyped
  <2>4. CASE Asks /\ ~LetIn /\ ~StrayRead /\ ~AsksStatus
    BY <2>4 DEF WebTyped, Asks, WebStep, UserSubmits, UploadSubmits, Submit, ExportBegins,
       ExportEnds, UploadBegins, UploadFails, UpdateBegins, UpdateUnanswered, UpdateEnds,
       WaiterSees, answervars
  <2> QED BY <2>1, <2>2, <2>3, <2>4
<1> QED BY <1>1, <1>2, <1>4, <1>5, <1>6 DEF WebTyped

LEMMA StartTyped ==
    ASSUME RestInv, PanelTyped, WaiterStarts \/ Boot PROVE PanelTyped'
<1> USE DEF PanelTyped
<1>1. /\ UNCHANGED <<was, completed, result, resume_after_operation, exporting, uploading,
                     updating, lastUpdate, stray>>
      /\ main' \in {main, "serve", "active"} /\ waiter' \in {waiter, "off", "polling"}
      /\ resumeFile' \in {resumeFile, NoWorld} /\ owed' \in {owed, NoWorld}
      /\ imported' \in {imported, NoWorld} /\ missed' \in {missed, FALSE}
  BY WaiterFrame, BootFrame DEF WaiterStarts, Boot, updatevars
<1>2. BootJob \in {"none", "queued", "running", "completed", "failed"}
  BY DEF BootJob, JobTyped
<1>3. \/ UNCHANGED <<op, pc, jobvars>> \/ NothingQueued
      \/ AutostartWorld \in worlds /\ Autostart(AutostartWorld)
  BY WaiterFrame, BootFrame
<1>4. JobTyped'
  BY <1>2, <1>3 DEF Autostart, NothingQueued, JobTyped, jobvars
<1>5. \A w \in worlds : [kind |-> "start", world |-> w] \in [kind : AllKinds, world : Worlds \cup {NoWorld}]
  BY DEF RestInv, AllKinds
<1>6. OpTyped'
  BY <1>1, <1>3, <1>5 DEF Autostart, NothingQueued, OpTyped
<1>7. told' \in BOOLEAN /\ overlooked' \in BOOLEAN
  BY StatusTyped, LetInTyped
  DEF WaiterStarts, Boot, BootWaits, BootStarts, BootFails, TurnedAway, WebTyped, answervars
<1>8. MainTyped' /\ WebTyped' /\ NamesTyped'
  BY <1>1, <1>7 DEF MainTyped, WebTyped, NamesTyped
<1> QED BY <1>4, <1>6, <1>8

LEMMA PanelTypedInit == PanelInit => PanelTyped
<1>1. [kind |-> "start", world |-> NoWorld] \in [kind : AllKinds, world : Worlds \cup {NoWorld}]
  BY DEF AllKinds
<1> QED BY <1>1 DEF PanelInit, PanelTyped, MainTyped, OpTyped, JobTyped, WebTyped, NamesTyped

LEMMA PanelTypedStep == RestInv /\ PanelTyped /\ [PanelNext]_vars => PanelTyped'
<1> SUFFICES ASSUME RestInv, PanelTyped, [PanelNext]_vars PROVE PanelTyped'
  OBVIOUS
<1> USE DEF PanelTyped
<1>1. CASE Quietly
  <2>1. owed' \in {owed, NoWorld}
    BY <1>1 DEF Quietly, RuntimeMoves
  <2>2. missed' \in BOOLEAN
    BY <1>1 DEF Quietly, RuntimeMoves, WebTyped
  <2> QED BY <1>1, <2>1, <2>2, QuietFrame
          DEF MainTyped, OpTyped, JobTyped, WebTyped, NamesTyped, opvars, jobvars, resumevars,
              webvars, updatevars, answervars
<1>2. CASE Ends
  <2>1. ProcessEnds /\ main' \in {"down", "killed"} /\ owed' \in {owed, NoWorld}
        /\ missed' \in {missed, FALSE}
    BY <1>2 DEF Ends, CloseReturns, CrashedExit, Kill
  <2>2. [kind |-> "start", world |-> NoWorld] \in [kind : AllKinds, world : Worlds \cup {NoWorld}]
    BY DEF AllKinds
  <2> QED BY <2>1, <2>2
          DEF ProcessEnds, MainTyped, OpTyped, JobTyped, WebTyped, NamesTyped, updatevars
<1>3. CASE UNCHANGED vars
  BY <1>3 DEF vars, pvars, opvars, jobvars, resumevars, webvars, updatevars, answervars, ghosts,
     MainTyped, OpTyped, JobTyped, WebTyped, NamesTyped
<1> QED BY Cases, OwnTyped, CloseTyped, AsksTyped, StartTyped, <1>1, <1>2, <1>3

\* The variables of the service layer keep their types, for any worlds,
\* operations, failures and deaths of the panel.
THEOREM PanelTypeCorrect == PanelSpec => []PanelTypeOK
<1>1. RestInv /\ PanelTyped => PanelTypeOK
  BY DEF RestInv, RInv, PanelTyped, MainTyped, OpTyped, JobTyped, WebTyped, NamesTyped, PanelTypeOK
<1> QED BY <1>1, PanelTypedInit, PanelTypedStep, RestInvariant, PTL DEF PanelSpec
=============================================================================
