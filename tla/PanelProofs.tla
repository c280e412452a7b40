---------------------------- MODULE PanelProofs ----------------------------
(***************************************************************************)
(* Proofs about the service layer: it implements ExclusiveAccess, and it   *)
(* touches the files of a world only when no game serves that world.       *)
(***************************************************************************)
EXTENDS Panel, GameRuntimeProofs

-----------------------------------------------------------------------------
(* Refinement.  The guards carry the argument, given two facts of the past:*)
(* a process that has ended holds nothing, and an update beside which      *)
(* nothing was let in has the data to itself, told of it or not.           *)
ExitInv == Exited => /\ pc = "idle" /\ ~busy /\ ~told
                     /\ exporting = NoWorld /\ uploading = NoWorld

UpdateInv == updating /\ ~overlooked =>
                /\ ~busy /\ pc # "submit"
                /\ exporting = NoWorld /\ uploading = NoWorld

Users == {"operation", "export", "upload", "update"}

LEMMA Leaving == users' \subseteq users => [Access!Next]_users
  BY DEF Access!Next, Access!Release

LEMMA UsersMembers ==
    /\ users \subseteq Users
    /\ "operation" \in users <=> (busy \/ pc = "submit")
    /\ "export" \in users <=> exporting # NoWorld
    /\ "upload" \in users <=> uploading # NoWorld
    /\ "update" \in users <=> (updating /\ told /\ ~overlooked)
  BY DEF users, Users

LEMMA UsersMembersNext ==
    /\ users' \subseteq Users
    /\ "operation" \in users' <=> (busy' \/ pc' = "submit")
    /\ "export" \in users' <=> exporting' # NoWorld
    /\ "upload" \in users' <=> uploading' # NoWorld
    /\ "update" \in users' <=> (updating' /\ told' /\ ~overlooked')
  BY DEF users, Users

(* A request is let in only when the panel knows of no update, and marks   *)
(* the update that it has not been told of.                                *)
LEMMA LetInFacts ==
    ASSUME LetIn
    PROVE  ~told' /\ ~(updating /\ told) /\ (~overlooked' <=> ~overlooked /\ ~updating)
<1>1. PICK answered \in Answers : told' = (IF answered THEN updating ELSE told)
  BY DEF LetIn, Status, AfterStatus
<1>2. ~told' /\ overlooked' = (overlooked \/ updating)
  BY DEF LetIn
<1>3. ~(updating /\ told)
  BY <1>1, <1>2
<1> QED BY <1>2, <1>3

(* All that changes is what the panel knows of the update.                 *)
LEMMA Learning ==
    ASSUME UpdateInv, UNCHANGED <<busy, pc, exporting, uploading, updating, overlooked>>
    PROVE  [Access!Next]_users
<1> USE UsersMembers, UsersMembersNext DEF Users
<1>1. CASE users' \subseteq users
  BY <1>1, Leaving
<1>2. CASE ~(users' \subseteq users)
  <2>1. users = {} /\ users' = {"update"}
    BY <1>2 DEF UpdateInv
  <2> QED BY <2>1 DEF Access!Next, Access!Acquire
<1> QED BY <1>1, <1>2

(* Operations leave the set of users alone until their last step.          *)
LEMMA OpAccess == ASSUME OpStep PROVE users' \subseteq users
<1> USE UsersMembers, UsersMembersNext DEF Users
<1>1. CASE Queue
  BY <1>1 DEF Queue, updatevars, answervars
<1>2. CASE Begin
  BY <1>2 DEF Begin, webvars, updatevars, answervars, FirstStep
<1>3. CASE Finish
  BY <1>3 DEF Finish, webvars, updatevars, answervars, LockFree
<1>4. CASE Pause \/ ServiceStop \/ StopEnds \/ ServiceStart \/ StartEnds \/ Check \/ Resume \/ Clear
  BY <1>4 DEF Pause, ServiceStop, StopEnds, ServiceStart, StartEnds, Check, Resume,
              Clear, OpKeeps, OpStays, webvars, updatevars, answervars, jobvars, AfterStop, AfterStart
<1>5. CASE Work
  BY <1>5 DEF Work, webvars, updatevars, answervars, jobvars
<1>6. CASE RuntimeMoves(CallStep)
  BY <1>6 DEF RuntimeMoves, webvars, updatevars, answervars, jobvars, opvars
<1> QED BY <1>1, <1>2, <1>3, <1>4, <1>5, <1>6 DEF OpStep

LEMMA CloseAccess == ASSUME CloseStep \/ Signal \/ Kill PROVE users' \subseteq users
<1> USE UsersMembers, UsersMembersNext DEF Users
<1>1. CASE CloseReadsActive \/ CloseWritesNote \/ CloseSeesUpdater \/ ClosePollsUpdater
           \/ CloseKillsUpdater \/ CloseShutsExecutor \/ CloseStopsGames \/ Signal
  BY <1>1 DEF CloseReadsActive, CloseWritesNote, CloseSeesUpdater, ClosePollsUpdater,
              CloseKillsUpdater, CloseShutsExecutor, CloseStopsGames, Signal,
              MainKeeps, webvars, updatevars, answervars, jobvars
<1>2. CASE CloseReturns \/ CrashedExit \/ Kill
  BY <1>2 DEF CloseReturns, CrashedExit, Kill, ProcessEnds, updatevars
<1> QED BY <1>1, <1>2 DEF CloseStep

LEMMA WebAccess == ASSUME WebStep, UpdateInv PROVE [Access!Next]_users
<1> USE UsersMembers, UsersMembersNext DEF Users
<1>1. CASE UserSubmits \/ UploadSubmits
  <2>1. /\ LockFree /\ LetIn /\ ~busy
        /\ pc' = "submit"
        /\ UNCHANGED <<exporting, uploading>>
    BY <1>1 DEF UserSubmits, UploadSubmits, Submit, CanSubmit
  <2>2. users' = users \cup {"operation"}
    BY <2>1, LetInFacts
  <2>3. "operation" \notin users /\ users \subseteq {"upload"}
    BY <2>1, LetInFacts DEF LockFree
  <2> QED BY <2>2, <2>3 DEF Access!Next, Access!Acquire
<1>2. CASE ExportBegins
  <2>1. PICK w \in worlds : /\ LockFree /\ LetIn /\ CanExport(w) /\ exporting' = w
                            /\ UNCHANGED <<busy, pc, uploading>>
    BY <1>2 DEF ExportBegins, jobvars, opvars
  <2>2. users' \subseteq users \cup {"export"} /\ users \subseteq users'
        /\ "export" \notin users /\ users \subseteq {"upload"}
    BY <2>1, LetInFacts DEF LockFree, CanExport
  <2>3. CASE users' \subseteq users
    BY <2>3, Leaving
  <2>4. CASE users' = users \cup {"export"}
    BY <2>2, <2>4 DEF Access!Next, Access!Acquire
  <2> QED BY <2>2, <2>3, <2>4
<1>3. CASE UploadBegins
  <2>1. PICK w \in worlds : /\ LetIn /\ uploading = NoWorld /\ uploading' = w
                            /\ UNCHANGED <<busy, pc, exporting>>
    BY <1>3 DEF UploadBegins, CanUpload, jobvars, opvars
  <2>2. users' \subseteq users \cup {"upload"} /\ users \subseteq users'
        /\ "upload" \notin users /\ "update" \notin users
    BY <2>1, LetInFacts
  <2>3. CASE users' \subseteq users
    BY <2>3, Leaving
  <2>4. CASE users' = users \cup {"upload"}
    BY <2>2, <2>4 DEF Access!Next, Access!Acquire
  <2> QED BY <2>2, <2>3, <2>4
<1>4. CASE UpdateBegins
  <2>1. /\ LockFree /\ ~busy /\ uploading = NoWorld
        /\ UNCHANGED <<busy, pc, exporting, uploading>>
    BY <1>4 DEF UpdateBegins, CanUpdate, jobvars, opvars
  <2>2. users \subseteq {"update"} /\ users' \subseteq {"update"}
    BY <2>1 DEF LockFree
  <2>3. users' \subseteq users \/ (users = {} /\ users' = {"update"})
    BY <2>2
  <2> QED BY <2>3, Leaving DEF Access!Next, Access!Acquire
<1>5. CASE ExportEnds \/ UploadFails
  <2>1. users' \subseteq users
    BY <1>5 DEF ExportEnds, UploadFails, jobvars, opvars, updatevars, answervars
  <2> QED BY <2>1, Leaving
<1>6. CASE UpdateUnanswered \/ AsksStatus
  BY <1>6, Learning
  DEF UpdateUnanswered, AsksStatus, jobvars, opvars, updatevars, answervars
<1> QED BY <1>1, <1>2, <1>3, <1>4, <1>5, <1>6 DEF WebStep

LEMMA OtherAccess ==
    ASSUME ExitInv, UpdateInv,
           \/ StrayRead \/ UpdateEnds \/ WaiterSees \/ WaiterStarts \/ Boot
           \/ RuntimeMoves(ProcessStep)
    PROVE  [Access!Next]_users
<1> USE UsersMembers, UsersMembersNext DEF Users
<1>1. CASE UpdateEnds \/ WaiterSees \/ RuntimeMoves(ProcessStep)
  <2>1. users' \subseteq users
    BY <1>1 DEF UpdateEnds, WaiterSees, RuntimeMoves, jobvars, opvars, webvars, updatevars,
       answervars
  <2> QED BY <2>1, Leaving
<1>2. CASE StrayRead
  <2>1. UNCHANGED <<busy, pc, exporting, uploading, told>>
    BY <1>2 DEF StrayRead, jobvars, opvars
  <2>2. CASE UNCHANGED <<updating, overlooked>>
    BY <2>1, <2>2, Learning
  <2>3. CASE ~updating /\ overlooked' = InUse
    <3>1. users' \subseteq users \/ (users = {} /\ users' = {"update"})
      BY <2>1, <2>3 DEF InUse
    <3> QED BY <3>1, Leaving DEF Access!Next, Access!Acquire
  <2> QED BY <1>2, <2>2, <2>3 DEF StrayRead
<1>3. CASE WaiterStarts
  <2>1. UNCHANGED <<exporting, uploading, updating>>
    BY <1>3 DEF WaiterStarts, updatevars
  <2>2. CASE UNCHANGED <<op, pc, jobvars, overlooked>>
    BY <2>1, <2>2, Learning DEF jobvars
  <2>3. CASE LetIn /\ Autostart(AutostartWorld) /\ WaiterMayStart
    <3>1. LockFree /\ ~busy /\ busy'
      BY <1>3, <2>3 DEF WaiterStarts, WaiterMayStart, Autostart
    <3>2. users' = users \cup {"operation"}
      BY <2>1, <3>1, <2>3, LetInFacts DEF LockFree
    <3>3. "operation" \notin users /\ users \subseteq {"upload"}
      BY <3>1, <2>3, LetInFacts DEF LockFree
    <3> QED BY <3>2, <3>3 DEF Access!Next, Access!Acquire
  <2> QED BY <1>3, <2>2, <2>3 DEF WaiterStarts, TurnedAway, answervars
<1>4. CASE Boot
  <2>1. UNCHANGED <<exporting, uploading, updating>> /\ pc = "idle" /\ ~busy /\ ~told
        /\ exporting = NoWorld /\ uploading = NoWorld
    BY <1>4 DEF Boot, ExitInv, updatevars
  <2>2. CASE NothingQueued /\ UNCHANGED overlooked
    BY <2>1, <2>2, Learning DEF NothingQueued
  <2>3. CASE LetIn /\ Autostart(AutostartWorld)
    <3>1. users = {} /\ users' = {"operation"}
      BY <2>1, <2>3, LetInFacts DEF Autostart
    <3> QED BY <3>1 DEF Access!Next, Access!Acquire
  <2> QED BY <1>4, <2>2, <2>3 DEF Boot, BootWaits, BootStarts, BootFails, TurnedAway
<1> QED BY <1>1, <1>2, <1>3, <1>4

(* What the refinement needs of the past.                                  *)
AccessInv == ExitInv /\ UpdateInv /\ worlds \subseteq Worlds

LEMMA AccessInvInit == PanelInit => AccessInv /\ users = {}
  BY DEF PanelInit, AccessInv, ExitInv, UpdateInv, Exited, users

LEMMA AccessInvStep == AccessInv /\ [PanelNext]_vars => AccessInv'
<1> SUFFICES ASSUME AccessInv, [PanelNext]_vars PROVE AccessInv'
  OBVIOUS
<1> USE DEF AccessInv, ExitInv, UpdateInv, Exited, webvars, updatevars, answervars, jobvars
<1>1. CASE OpStep
  <2>1. CASE Queue \/ Begin \/ Finish \/ Work
    BY <2>1 DEF Queue, Begin, Finish, Work, FirstStep
  <2>2. CASE Pause \/ ServiceStop \/ StopEnds \/ ServiceStart \/ StartEnds \/ Check \/ Resume \/ Clear
    BY <2>2 DEF Pause, ServiceStop, StopEnds, ServiceStart, StartEnds, Check, Resume,
                Clear, OpKeeps, OpStays, AfterStop, AfterStart
  <2>3. CASE RuntimeMoves(CallStep)
    BY <2>3 DEF RuntimeMoves, opvars
  <2> QED BY <1>1, <2>1, <2>2, <2>3 DEF OpStep
<1>2. CASE CloseStep
  <2>1. CASE CloseReadsActive \/ CloseWritesNote \/ CloseSeesUpdater \/ ClosePollsUpdater
             \/ CloseKillsUpdater \/ CloseShutsExecutor \/ CloseStopsGames
    BY <2>1 DEF CloseReadsActive, CloseWritesNote, CloseSeesUpdater, ClosePollsUpdater,
                CloseKillsUpdater, CloseShutsExecutor, CloseStopsGames, MainKeeps
  <2>2. CASE CloseReturns \/ CrashedExit
    BY <2>2 DEF CloseReturns, CrashedExit, ProcessEnds
  <2> QED BY <1>2, <2>1, <2>2 DEF CloseStep
<1>3. CASE WebStep
  <2>1. CASE UserSubmits \/ UploadSubmits
    BY <2>1, LetInFacts DEF UserSubmits, UploadSubmits, Submit
  <2>2. CASE ExportBegins \/ UploadBegins
    <3>1. LetIn /\ ~Exited /\ UNCHANGED <<main, busy, pc, updating, worlds>>
      BY <2>2 DEF ExportBegins, UploadBegins, opvars
    <3> QED BY <3>1, LetInFacts
  <2>3. CASE ExportEnds \/ UploadFails \/ UpdateUnanswered \/ AsksStatus
    BY <2>3 DEF ExportEnds, UploadFails, UpdateUnanswered, AsksStatus, opvars
  <2>4. CASE UpdateBegins
    BY <2>4 DEF UpdateBegins, LockFree, CanUpdate, opvars
  <2> QED BY <1>3, <2>1, <2>2, <2>3, <2>4 DEF WebStep
<1>4. CASE UpdateEnds
  BY <1>4 DEF UpdateEnds, opvars
<1>12. CASE WaiterSees
  <2>1. ~Exited /\ UNCHANGED <<main, pc, busy, exporting, uploading, updating, overlooked, worlds>>
    BY <1>12 DEF WaiterSees, opvars
  <2> QED BY <2>1
<1>5. CASE StrayRead
  <2>1. UNCHANGED <<main, pc, busy, exporting, uploading, told, worlds>>
    BY <1>5 DEF StrayRead, opvars
  <2>2. CASE UNCHANGED <<updating, overlooked>>
    BY <2>1, <2>2
  <2>3. CASE overlooked' = InUse
    BY <2>1, <2>3 DEF InUse
  <2> QED BY <1>5, <2>1, <2>2, <2>3 DEF StrayRead
<1>6. CASE WaiterStarts
  <2>1. ~Exited /\ UNCHANGED <<main, exporting, uploading, updating, worlds>>
    BY <1>6 DEF WaiterStarts
  <2>2. CASE UNCHANGED <<op, pc, jobvars, overlooked>>
    BY <2>1, <2>2
  <2>3. CASE LetIn
    BY <2>1, <2>3, LetInFacts
  <2> QED BY <1>6, <2>2, <2>3 DEF WaiterStarts, TurnedAway
<1>7. CASE RuntimeMoves(ProcessStep)
  BY <1>7 DEF RuntimeMoves, opvars
<1>8. CASE Signal
  BY <1>8 DEF Signal, Serving, MainKeeps
<1>9. CASE Kill
  BY <1>9 DEF Kill, ProcessEnds
<1>10. CASE Boot
  <2>1. main' \in {"serve", "active"} /\ UNCHANGED <<exporting, uploading, updating, worlds>>
    BY <1>10 DEF Boot, BootWaits, BootStarts, BootFails
  <2>2. CASE NothingQueued /\ UNCHANGED overlooked
    BY <2>1, <2>2 DEF NothingQueued
  <2>3. CASE LetIn
    BY <2>1, <2>3, LetInFacts
  <2> QED BY <1>10, <2>2, <2>3 DEF Boot, BootWaits, BootStarts, BootFails, TurnedAway
<1>11. CASE UNCHANGED vars
  BY <1>11 DEF vars, pvars, opvars
<1> QED BY <1>1, <1>2, <1>3, <1>4, <1>5, <1>6, <1>7, <1>8, <1>9, <1>10, <1>11,
       <1>12 DEF PanelNext

\* The service layer implements exclusive access to the panel's data, for
\* any worlds and operations, faults and lost answers of the helper: no
\* interleaving of requests, close(), kills and restarts lets conflicting
\* users in together.  An update is a user once the panel is told that it
\* runs, unless something was let in before: what an unanswered panel admits
\* beside an update is not excluded (MutationsBlocked of SoftwareUpdate).
THEOREM ServiceImplementsAccess == PanelSpec => AccessSpec
<1>1. PanelInit => Access!Init
  BY AccessInvInit DEF Access!Init
<1>2. AccessInv /\ [PanelNext]_vars => [Access!Next]_users
  <2> SUFFICES ASSUME AccessInv, [PanelNext]_vars PROVE [Access!Next]_users
    OBVIOUS
  <2>1. CASE UNCHANGED vars
    <3>1. users' \subseteq users
      BY <2>1, UsersMembers, UsersMembersNext
      DEF Users, vars, pvars, webvars, updatevars, answervars, jobvars, opvars
    <3> QED BY <3>1, Leaving
  <2> QED BY <2>1, OpAccess, CloseAccess, WebAccess, OtherAccess, Leaving
          DEF PanelNext, AccessInv
<1>3. PanelInit => AccessInv
  BY AccessInvInit
<1>4. AccessInv /\ [PanelNext]_vars => AccessInv'
  BY AccessInvStep
<1> QED BY <1>1, <1>2, <1>3, <1>4, PTL DEF PanelSpec, AccessSpec, Access!Spec

-----------------------------------------------------------------------------
(* Files at rest.  A call is in progress only while an operation waits for *)
(* it or close() stops the games; a stop that returned normally has left   *)
(* nothing alive; and while an operation works on files no call is made.   *)
CallInv == /\ call # "idle" => pc \in {"starting", "stopping"} \/ main = "stop"
           /\ main = "stop" => pc \in {"idle", "submit"}

StoppedInv == /\ pc = "stopping" => call \in {"idle", "stop"}
              /\ pc = "stopping" /\ call = "idle" /\ outcome = "ok" => ~Active

WorkInv == pc = "work" => ~ActiveWorld(op.world)

BusyInv == pc \notin {"idle", "submit"} => busy

RestInv == RInv /\ worlds \subseteq Worlds /\ CallInv /\ StoppedInv /\ WorkInv
           /\ BusyInv /\ (~CanLeak => orphans = {})

LEMMA RInvFrame == RInv /\ UNCHANGED rvars => RInv' /\ Active' = Active
  BY DEF RInv, rvars, TypeOK, TableInv, Active, Alive

LEMMA RestInvInit == PanelInit => RestInv
  BY RInvInit DEF PanelInit, RestInv, CallInv, StoppedInv, WorkInv, BusyInv, Init

\* A step that leaves the table alone.
LEMMA FrameStep ==
    ASSUME RestInv, UNCHANGED rvars, worlds' \subseteq Worlds,
           main' = "stop" => main = "stop" /\ pc' \in {"idle", "submit"},
           main = "stop" => main' = "stop" \/ call = "idle",
           call # "idle" => pc' = pc \/ main' = "stop",
           pc' = "stopping" => pc = "stopping",
           pc' = "work" => ~ActiveWorld(op'.world),
           pc' \notin {"idle", "submit"} => busy'
    PROVE  RestInv'
<1>1. RInv' /\ Active' = Active /\ UNCHANGED <<world_id, orphans, call, outcome>>
  BY RInvFrame DEF RestInv, rvars
<1>2. CallInv'
  BY <1>1 DEF RestInv, CallInv
<1>3. StoppedInv'
  BY <1>1 DEF RestInv, StoppedInv
<1>4. WorkInv'
  BY <1>1 DEF WorkInv, ActiveWorld
<1> QED BY <1>1, <1>2, <1>3, <1>4 DEF RestInv, BusyInv

(* What the steps of a call and of the processes do to the table.          *)
LEMMA MoveFacts ==
    ASSUME RestInv, RuntimeStep
    PROVE  /\ call = "idle" => call' = "idle" /\ UNCHANGED <<world_id, outcome>>
                               /\ (Active' => Active)
           /\ call = "stop" => \/ call' = "stop"
                               \/ call' = "idle" /\ (outcome' = "ok" => ~Active')
<1>1. CASE CallStep
  BY <1>1, NoProcessesFacts DEF CallStep, SpawnUpdater, PublishUpdater, DownloadTimesOut,
     UpdaterReaped, ModsUpdated, Launch, LaunchFails, Settle, StopReturns, StopTimesOut,
     ForceKill, KillHangs, Return, Active, Alive
<1>2. CASE ShardExits
  BY <1>2 DEF ShardExits, Active, Alive, RestInv, RInv, TypeOK
<1>3. CASE OrphanExits \/ DownloadEnds
  BY <1>3 DEF OrphanExits, DownloadEnds, Active, Alive
<1> QED BY <1>1, <1>2, <1>3 DEF RuntimeStep, ProcessStep

LEMMA MoveStep ==
    ASSUME RestInv, RuntimeMoves(CallStep) \/ RuntimeMoves(ProcessStep)
    PROVE  RestInv'
<1>1. RuntimeStep /\ UNCHANGED <<main, opvars, busy, worlds>>
  BY DEF RuntimeMoves, RuntimeStep, jobvars
<1>2. RInv' /\ (orphans' \subseteq orphans \/ Leaks)
  BY <1>1, RuntimeMoveStep DEF RestInv
<1>3. ~CanLeak => orphans' = {}
  BY <1>2 DEF RestInv, Leaks
<1>4. CallInv'
  BY <1>1, MoveFacts DEF RestInv, BusyInv, CallInv, opvars
<1>5. StoppedInv'
  BY <1>1, MoveFacts DEF RestInv, StoppedInv, opvars
<1>6. WorkInv'
  BY <1>1, MoveFacts DEF RestInv, WorkInv, CallInv, opvars, ActiveWorld
<1> QED BY <1>1, <1>2, <1>3, <1>4, <1>5, <1>6 DEF RestInv, BusyInv, opvars

LEMMA OpRest == ASSUME RestInv, OpStep PROVE RestInv'
<1>1. CASE Queue \/ Finish
  BY <1>1, FrameStep DEF Queue, Finish, jobvars, ExecutorShut, RestInv, BusyInv, CallInv
<1>9. CASE Begin
  <2>1. FirstStep(op.kind) \in {"start", "stop", "pause", "check"}
    BY DEF FirstStep
  <2> QED BY <1>9, <2>1, FrameStep DEF Begin, jobvars, RestInv, BusyInv, CallInv
<1>2. CASE Pause \/ StartEnds \/ Resume \/ Clear
  BY <1>2, FrameStep DEF Pause, StartEnds, Resume, Clear, OpKeeps, OpStays, jobvars, AfterStart,
     RestInv, BusyInv, CallInv
<1>3. CASE Work
  BY <1>3, FrameStep DEF Work, jobvars, RestInv, BusyInv, CallInv
<1>4. CASE StopEnds
  <2>1. outcome = "ok" => ~Active
    BY <1>4 DEF StopEnds, RestInv, StoppedInv
  <2> QED BY <1>4, <2>1, FrameStep
          DEF StopEnds, OpKeeps, OpStays, jobvars, AfterStop, AfterStart, ActiveWorld, RestInv, BusyInv, CallInv
<1>5. CASE ServiceStop
  <2>1. CASE op.world \in worlds /\ world_id = op.world
    <3>1. StopBegins("stop") /\ pc' = "stopping" /\ UNCHANGED <<main, busy, worlds>> /\ pc = "stop"
      BY <1>5, <2>1 DEF ServiceStop, OpKeeps, OpStays, jobvars
    <3>2. RInv' /\ orphans' = orphans
      BY <3>1, StopBeginsStep DEF RestInv
    <3> QED BY <3>1, <3>2 DEF StopBegins, RestInv, BusyInv, CallInv, StoppedInv, WorkInv
  <2>2. CASE ~(op.world \in worlds /\ world_id = op.world)
    BY <1>5, <2>2, FrameStep
    DEF ServiceStop, OpKeeps, OpStays, jobvars, AfterStop, AfterStart, ActiveWorld, RestInv, BusyInv, CallInv
  <2> QED BY <2>1, <2>2
<1>6. CASE ServiceStart
  <2>1. CASE ~(StartRefusedByClose \/ op.world \notin worlds)
    <3>1. Start(op.world) /\ pc' = "starting" /\ UNCHANGED <<main, busy, worlds>> /\ pc = "start"
      BY <1>6, <2>1 DEF ServiceStart, OpKeeps, OpStays, jobvars
    <3>2. op.world \in Worlds
      BY <2>1 DEF RestInv
    <3>3. RInv' /\ orphans' = orphans
      BY <3>1, <3>2, StartStep DEF RestInv
    <3> QED BY <3>1, <3>3 DEF RestInv, BusyInv, CallInv, StoppedInv, WorkInv
  <2>2. CASE StartRefusedByClose \/ op.world \notin worlds
    BY <1>6, <2>2, FrameStep DEF ServiceStart, OpKeeps, OpStays, jobvars, AfterStart, RestInv, BusyInv, CallInv
  <2> QED BY <2>1, <2>2
<1>7. CASE Check
  <2>1. CASE op.world \in worlds /\ MayEdit /\ op.kind = "mods"
    <3>1. UpdateMods(op.world) /\ pc' = "starting" /\ UNCHANGED <<main, busy, worlds>> /\ pc = "check"
      BY <1>7, <2>1 DEF Check, OpKeeps, OpStays, jobvars
    <3>2. op.world \in Worlds
      BY <2>1 DEF RestInv
    <3>3. RInv' /\ orphans' = orphans
      BY <3>1, <3>2, UpdateModsStep DEF RestInv
    <3> QED BY <3>1, <3>3 DEF RestInv, BusyInv, CallInv, StoppedInv, WorkInv
  <2>2. CASE ~(op.world \in worlds /\ MayEdit /\ op.kind = "mods")
    BY <1>7, <2>2, FrameStep DEF Check, OpKeeps, OpStays, jobvars, MayEdit, RestInv, BusyInv, CallInv
  <2> QED BY <2>1, <2>2
<1>8. CASE RuntimeMoves(CallStep)
  BY <1>8, MoveStep
<1> QED BY <1>1, <1>2, <1>3, <1>4, <1>5, <1>6, <1>7, <1>8, <1>9 DEF OpStep

(* close() and the end of the process.                                     *)
LEMMA CloseRest == ASSUME RestInv, CloseStep \/ Signal \/ Kill PROVE RestInv'
<1>1. CASE CloseReadsActive \/ CloseWritesNote \/ CloseSeesUpdater \/ ClosePollsUpdater
           \/ CloseShutsExecutor \/ Signal
  BY <1>1, FrameStep
  DEF CloseReadsActive, CloseWritesNote, CloseSeesUpdater, ClosePollsUpdater,
      CloseShutsExecutor, Signal, Serving, MainKeeps, jobvars, RestInv, BusyInv, CallInv, WorkInv
<1>2. CASE CloseKillsUpdater
  <2>1. /\ UNCHANGED <<world_id, processes, orphans, updater, pending, call, target,
                       launching, outcome, pc, busy, op, worlds>>
        /\ download' \in {download, "failed"} /\ (download = "none" => download' = "none")
        /\ main = "kill" /\ main' # "stop"
    BY <1>2 DEF CloseKillsUpdater, MainKeeps, jobvars
  <2>2. RInv'
    BY <2>1 DEF RestInv, RInv, TypeOK, TableInv, Active, Alive
  <2> QED BY <2>1, <2>2
          DEF RestInv, BusyInv, CallInv, StoppedInv, WorkInv, ActiveWorld, Active, Alive
<1>3. CASE CloseStopsGames
  <2>1. /\ StopBegins("force") /\ main' = "stop" /\ UNCHANGED <<pc, busy, worlds>>
        /\ pc \in {"idle", "submit"}
    BY <1>3 DEF CloseStopsGames, MainKeeps, jobvars, Drained
  <2>2. RInv' /\ orphans' = orphans
    BY <2>1, StopBeginsStep DEF RestInv
  <2> QED BY <2>1, <2>2 DEF RestInv, BusyInv, CallInv, StoppedInv, WorkInv
<1>4. CASE CloseReturns \/ CrashedExit \/ Kill
  <2>1. ProcessEnds /\ main' \in {"down", "killed"}
    BY <1>4 DEF CloseReturns, CrashedExit, Kill
  <2>2. RInv'
    BY <2>1, NoProcessesFacts DEF ProcessEnds, RInv, TypeOK, TableInv, Active, Alive
  <2> QED BY <2>1, <2>2 DEF ProcessEnds, RestInv, BusyInv, CallInv, StoppedInv, WorkInv
<1> QED BY <1>1, <1>2, <1>3, <1>4 DEF CloseStep

LEMMA OtherRest ==
    ASSUME RestInv, AccessInv, WebStep \/ StrayRead \/ UpdateEnds \/ WaiterSees
           \/ WaiterStarts \/ Boot
    PROVE  RestInv'
<1>1. CASE UserSubmits \/ UploadSubmits
  BY <1>1, FrameStep
  DEF UserSubmits, UploadSubmits, Submit, CanSubmit, Closing, Serving, Exited,
      jobvars, RestInv, BusyInv, CallInv
<1>2. CASE ExportBegins \/ ExportEnds \/ UploadBegins \/ UploadFails \/ UpdateBegins
           \/ UpdateUnanswered \/ AsksStatus \/ StrayRead \/ UpdateEnds \/ WaiterSees
  BY <1>2, FrameStep
  DEF ExportBegins, ExportEnds, UploadBegins, UploadFails, UpdateBegins, UpdateUnanswered,
      AsksStatus, StrayRead, UpdateEnds, WaiterSees, RestInv, BusyInv, CallInv, WorkInv, opvars, jobvars
<1>3. CASE WaiterStarts
  BY <1>3, FrameStep
  DEF WaiterStarts, WaiterMayStart, LockFree, Autostart, Closing, Serving, Exited,
      jobvars, RestInv, BusyInv, CallInv, WorkInv
<1>4. CASE Boot
  BY <1>4, FrameStep
  DEF Boot, BootWaits, BootStarts, BootFails, NothingQueued, Autostart, Exited, AccessInv,
      ExitInv, RestInv, BusyInv, CallInv, WorkInv
<1> QED BY <1>1, <1>2, <1>3, <1>4 DEF WebStep

LEMMA RestInvStep == RestInv /\ AccessInv /\ [PanelNext]_vars => RestInv'
<1> SUFFICES ASSUME RestInv, AccessInv, [PanelNext]_vars PROVE RestInv'
  OBVIOUS
<1>1. CASE UNCHANGED vars
  BY <1>1, FrameStep DEF vars, pvars, opvars, jobvars, RestInv, BusyInv, CallInv, WorkInv
<1> QED BY <1>1, OpRest, CloseRest, OtherRest, MoveStep DEF PanelNext

LEMMA RestInvariant == PanelSpec => []RestInv
<1>1. PanelInit => RestInv /\ AccessInv
  BY RestInvInit, AccessInvInit
<1>2. RestInv /\ AccessInv /\ [PanelNext]_vars => RestInv' /\ AccessInv'
  BY RestInvStep, AccessInvStep
<1> QED BY <1>1, <1>2, PTL DEF PanelSpec

\* Files are worked on at rest: while an operation copies, replaces or edits
\* the files of a world, no game serves it, for any worlds and operations,
\* provided spawning is all or nothing.
THEOREM WorkAtRest == ASSUME ~CanLeak PROVE PanelSpec => []FilesAtRest
<1>1. RestInv => FilesAtRest
  BY DEF RestInv, WorkInv, FilesAtRest, LiveWorlds, LiveGames, Abandoned, ActiveWorld, Active
<1> QED BY <1>1, RestInvariant, PTL

\* In the whole panel, as in the process table alone, one world runs at a
\* time, the table knows every game, and no downloader runs beside a game.
THEOREM PanelTableCorrect ==
    ASSUME ~CanLeak PROVE PanelSpec => [](TableIsTruth /\ OneWorldRuns /\ NoDownloadBesideGame)
<1>1. RestInv => TableIsTruth /\ OneWorldRuns /\ NoDownloadBesideGame
  BY DEF RestInv, RInv, TableInv, TableIsTruth, OneWorldRuns, NoDownloadBesideGame, LiveWorlds,
     LiveGames, Abandoned, Active
<1> QED BY <1>1, RestInvariant, PTL
=============================================================================
