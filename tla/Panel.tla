------------------------------- MODULE Panel -------------------------------
(***************************************************************************)
(* The panel's service layer (pera_panel/service.py with the routes of     *)
(* web.py that reach it) over the process table of GameRuntime.            *)
(*                                                                         *)
(* Four kinds of thread share the state: web requests, which submit        *)
(* operations, export and upload saves and start software updates; the     *)
(* single operation thread; the main thread, which serves and then closes; *)
(* and the thread that waits for a software update to end.  Service.lock   *)
(* covers a submission and an export; close() does not take it.            *)
(*                                                                         *)
(* Whether a software update runs is known to its helper only.  The panel  *)
(* asks, and goes by the last answer it was given when it gets none; the   *)
(* protocol behind the answers is in SoftwareUpdate.                       *)
(***************************************************************************)
EXTENDS GameRuntime

CONSTANTS Kinds,       \* the operations users ask for in this instance
          BootWorld,   \* the world with autostart, or NoWorld
          Requests,    \* the other requests users make in this instance
          CanFail,     \* may a write of jobs.json or resume.json raise?
          CanLose,     \* may the helper not answer, or not in time?
          CanKill      \* may the panel be killed at any time?

AllKinds == {"start", "stop", "restart", "backup", "import", "edit",
             "archive", "mods"}
\* The operations inside `with self.paused(...)`; restore behaves as backup.
Pausing == {"backup", "import"}

ASSUME PanelAssumption ==
    /\ Kinds \subseteq AllKinds
    /\ BootWorld \in Worlds \cup {NoWorld}
    /\ Requests \subseteq {"export", "upload", "update"}
    /\ {CanFail, CanLose, CanKill} \subseteq BOOLEAN

VARIABLES
    main,          \* the main thread: serving, or where it is in close()
    op,            \* the operation last accepted: its kind and its world
    pc,            \* where that operation is
    was,           \* paused(): was the world running when it began?  (for a
                   \* restart, which does not ask, the same as history)
    completed,     \* paused(): did the body complete?
    result,        \* how the operation ended
    busy,          \* is Service.busy set?
    job,           \* the state of the last job in Service.jobs
    saved,         \* the same in jobs.json
    resume_after_operation,
    resumeFile,    \* the world in resume.json, NoWorld when there is none
    exporting,     \* the world whose ZIP is built, holding Service.lock
    uploading,     \* the world a save is uploaded for, holding upload_lock
    updating,      \* is a software update running?
    lastUpdate,    \* how the last software update ended
    told,          \* Maintenance.last_job: does it say that an update runs?
    stray,         \* may the helper still read a start request that the panel
                   \* has given up on?
    overlooked,    \* history: has anything been let in beside this update?
    waiter,        \* the thread of _autostart_after_update
    worlds,        \* the worlds that exist
    owed,          \* history: the world a clean restart has to bring back
    missed,        \* history: has close() looked while that world was between
                   \* the places it looks at, or failed to write?
    imported       \* history: the world whose save was replaced last

opvars == <<op, pc, was, completed, result>>
jobvars == <<busy, job, saved>>
updatevars == <<updating, lastUpdate, stray>>
answervars == <<told, overlooked>>
webvars == <<exporting, uploading, waiter, updatevars, answervars>>
resumevars == <<resume_after_operation, resumeFile>>
ghosts == <<owed, missed, imported>>
pvars == <<main, opvars, jobvars, resumevars, webvars, worlds, ghosts>>
vars == <<rvars, pvars>>

Serving == main = "serve"
Exited == main \in {"down", "killed"}
Closing == ~Serving /\ ~Exited
\* executor.shutdown, or the interpreter's exit, refuses new work.
ExecutorShut == main \in {"drain", "stop", "crashed"}

\* Service.lock: held while a ZIP is built and while a job is submitted.
LockFree_NotByExport == pc # "submit"
LockFree == exporting = NoWorld /\ pc # "submit"

PanelInit ==
    /\ Init
    /\ main = "down"
    /\ op = [kind |-> "start", world |-> NoWorld]
    /\ pc = "idle" /\ was = FALSE /\ completed = FALSE /\ result = "ok"
    /\ busy = FALSE /\ job = "none" /\ saved = "none"
    /\ resume_after_operation = NoWorld /\ resumeFile = NoWorld
    /\ exporting = NoWorld /\ uploading = NoWorld
    /\ updating = FALSE /\ lastUpdate = "none" /\ stray = FALSE
    /\ told = FALSE /\ overlooked = FALSE /\ waiter = "off"
    /\ worlds = Worlds
    /\ owed = NoWorld /\ missed = FALSE /\ imported = NoWorld

-----------------------------------------------------------------------------
(* Asking the helper.  An answer is remembered; without one the last       *)
(* answer stands, of which a panel that has just started has none.  While  *)
(* a request the panel has given up on is queued, later ones go unanswered. *)
Answers == {a \in BOOLEAN : IF a THEN ~stray ELSE CanLose}
AfterStatus(answered) == IF answered THEN updating ELSE told

Status == \E answered \in Answers : told' = AfterStatus(answered)

\* require_idle lets a request in unless an update is believed to run.
LetIn == Status /\ ~told' /\ overlooked' = (overlooked \/ updating)
TurnedAway == Status /\ told' /\ UNCHANGED overlooked

\* The page shows the helper's job, or a request was turned away.
AsksStatus ==
    /\ ~Exited
    /\ Status
    /\ UNCHANGED <<rvars, main, opvars, jobvars, resumevars, exporting,
                   uploading, updatevars, overlooked, waiter, worlds, ghosts>>

-----------------------------------------------------------------------------
(* submit(): checks and queues under Service.lock.  close() may set        *)
(* closing, and even shut the executor, between the two.  A failed write   *)
(* of jobs.json, or a refusal by the executor, leaves busy set.            *)
CanSubmit == ~Closing /\ ~busy

Submit(k, w) ==
    /\ ~Exited /\ LockFree /\ LetIn /\ CanSubmit
    /\ op' = [kind |-> k, world |-> w]
    /\ pc' = "submit"
    /\ imported' = IF k \in {"start", "restart"} THEN NoWorld ELSE imported
    /\ UNCHANGED <<was, completed, result>>

UserSubmits ==
    \E k \in Kinds \ {"import"}, w \in worlds :
        /\ Submit(k, w)
        /\ UNCHANGED <<rvars, main, jobvars, resumevars, exporting, uploading,
                       waiter, updatevars, worlds, owed, missed>>

Queue ==
    /\ pc = "submit"
    /\ ~Exited
    /\ busy' = TRUE
    /\ job' = "queued"
    /\ \/ /\ saved' = "queued"
          /\ pc' = IF ExecutorShut THEN "idle" ELSE "queued"
       \/ /\ CanFail
          /\ saved' = saved
          /\ pc' = "idle"
    /\ uploading' = IF op.kind = "import" THEN NoWorld ELSE uploading
    /\ UNCHANGED <<rvars, main, op, was, completed, result, resumevars,
                   exporting, updatevars, answervars, waiter, worlds, ghosts>>

\* _run: the first write is outside its try; when it raises, busy stays set.
FirstStep(k) ==
    CASE k = "start" -> "start"
      [] k \in {"stop", "restart"} -> "stop"
      [] k \in Pausing -> "pause"
      [] OTHER -> "check"

Begin ==
    /\ pc = "queued"
    /\ LockFree
    /\ job' = "running"
    /\ \/ /\ saved' = "running"
          /\ pc' = FirstStep(op.kind)
       \/ /\ CanFail
          /\ saved' = saved
          /\ pc' = "idle"
    /\ was' = FALSE
    /\ completed' = FALSE
    /\ result' = "ok"
    /\ UNCHANGED <<rvars, main, op, busy, resumevars, webvars, worlds, ghosts>>

\* _run ends: busy is reset before the last write.
Finish ==
    /\ pc = "finish"
    /\ LockFree
    /\ pc' = "idle"
    /\ busy' = FALSE
    /\ job' = IF result = "ok" THEN "completed" ELSE "failed"
    /\ \/ saved' = job'
       \/ CanFail /\ saved' = saved
    /\ UNCHANGED <<rvars, main, op, was, completed, result, resumevars,
                   webvars, worlds, ghosts>>

-----------------------------------------------------------------------------
(* The operations.  Service.stop and Service.start are shared by stop,     *)
(* restart and paused().                                                   *)
AfterStop(k) == CASE k = "stop" -> "finish"
                  [] k = "restart" -> "start"
                  [] OTHER -> "work"
\* Where an operation goes when its stop failed or its start has ended.
AfterStart(k) == IF k \in Pausing THEN "clear" ELSE "finish"

OpStays == UNCHANGED <<main, op, jobvars, resumeFile, webvars, owed, imported>>
OpKeeps == OpStays /\ UNCHANGED missed

Pause ==
    /\ pc = "pause"
    /\ \/ /\ op.world \in worlds
          /\ was' = ActiveWorld(op.world)
          /\ resume_after_operation' = IF was' THEN op.world ELSE NoWorld
          /\ pc' = "stop"
          /\ UNCHANGED result
       \/ \* the world is gone, or the uploaded save is refused
          /\ op.world \notin worlds \/ op.kind = "import"
          /\ pc' = "finish"
          /\ result' = "error"
          /\ UNCHANGED <<was, resume_after_operation>>
    /\ UNCHANGED <<rvars, completed, worlds>> /\ OpKeeps

\* Service.stop: only the world the table names is stopped.
ServiceStop ==
    /\ pc = "stop"
    /\ IF op.world \notin worlds
       THEN /\ pc' = AfterStart(op.kind)
            /\ result' = "error"
            /\ UNCHANGED rvars
       ELSE /\ UNCHANGED result
            /\ IF world_id = op.world
               THEN StopBegins("stop") /\ pc' = "stopping"
               ELSE pc' = AfterStop(op.kind) /\ UNCHANGED rvars
    /\ was' = IF op.kind = "restart" THEN ActiveWorld(op.world) ELSE was
    /\ UNCHANGED <<completed, resume_after_operation, worlds>> /\ OpKeeps

StopEnds ==
    /\ pc = "stopping"
    /\ call = "idle"
    /\ pc' = IF outcome = "ok" THEN AfterStop(op.kind) ELSE AfterStart(op.kind)
    /\ result' = outcome
    /\ UNCHANGED <<rvars, was, completed, resume_after_operation, worlds>>
    /\ OpKeeps

\* Service.start: refused while closing, or when the world is gone.
StartRefusedByClose == Closing
ServiceStart ==
    /\ pc = "start"
    /\ IF StartRefusedByClose \/ op.world \notin worlds
       THEN /\ pc' = AfterStart(op.kind)
            /\ result' = "error"
            /\ UNCHANGED rvars
       ELSE Start(op.world) /\ pc' = "starting" /\ UNCHANGED result
    /\ UNCHANGED <<was, completed, resume_after_operation, worlds>> /\ OpKeeps

StartEnds ==
    /\ pc = "starting"
    /\ call = "idle"
    /\ pc' = AfterStart(op.kind)
    /\ result' = IF outcome = "ok" THEN result ELSE "error"
    /\ UNCHANGED <<rvars, was, completed, resume_after_operation, worlds>>
    /\ OpKeeps

\* require_stopped: settings, character recovery, archival; and update-mods.
MayEdit_IgnoresActive == TRUE
MayEdit == ~ActiveWorld(op.world)

Check ==
    /\ pc = "check"
    /\ IF op.world \in worlds /\ MayEdit
       THEN IF op.kind = "mods"
            THEN UpdateMods(op.world) /\ pc' = "starting" /\ UNCHANGED result
            ELSE pc' = "work" /\ UNCHANGED <<rvars, result>>
       ELSE pc' = "finish" /\ result' = "error" /\ UNCHANGED rvars
    /\ UNCHANGED <<was, completed, resume_after_operation, worlds>> /\ OpKeeps

\* The file work itself: WorldFiles has its steps.  Here it takes time, and
\* succeeds or fails.
Work ==
    /\ pc = "work"
    /\ \E ok \in BOOLEAN :
        /\ completed' = ok
        /\ result' = IF ok THEN "ok" ELSE "error"
        /\ worlds' = IF ok /\ op.kind = "archive" THEN worlds \ {op.world}
                                                  ELSE worlds
        /\ imported' = IF ok /\ op.kind = "import" THEN op.world ELSE imported
    /\ pc' = IF op.kind \in Pausing THEN "resume" ELSE "finish"
    /\ UNCHANGED <<rvars, main, op, was, jobvars, resumevars, webvars, owed, missed>>

\* The finally of paused(): a world that ran is started again, unless the
\* panel closes or a completed import keeps it stopped.
MayResume_AfterImport == was /\ ~Closing
MayResume == was /\ ~Closing /\ (op.kind # "import" \/ ~completed)

Resume ==
    /\ pc = "resume"
    /\ pc' = IF MayResume THEN "start" ELSE "clear"
    /\ UNCHANGED <<rvars, was, completed, result, resume_after_operation,
                   worlds>>
    /\ OpKeeps

Clear ==
    /\ pc = "clear"
    /\ resume_after_operation' = NoWorld
    /\ pc' = "finish"
    /\ missed' = (missed \/ main = "resume" \/ (main = "active" /\ ~Active))
    /\ UNCHANGED <<rvars, was, completed, result, worlds>> /\ OpStays

-----------------------------------------------------------------------------
(* The table's own steps.  A world that stops serving by itself is not     *)
(* owed to anybody; one that leaves the table between close()'s look at    *)
(* the processes and its look at their world is missed.                    *)
Collapses == \/ Active /\ ~Active' /\ call \notin {"stop", "force"}
             \/ call = "settle" /\ call' = "force"

RuntimeMoves(step) ==
    /\ step
    /\ owed' = IF Collapses THEN NoWorld ELSE owed
    /\ missed' = (missed \/ (main = "world" /\ world_id' # world_id))
    /\ UNCHANGED <<main, opvars, jobvars, resumevars, webvars, worlds, imported>>

-----------------------------------------------------------------------------
(* Web requests that are not operations.                                   *)
CanExport_IgnoresActive(w) == ~busy /\ ~Closing
CanExport(w) == ~busy /\ ~Closing /\ ~ActiveWorld(w)

ExportBegins ==
    \E w \in worlds :
        /\ "export" \in Requests
        /\ ~Exited /\ LockFree /\ LetIn /\ CanExport(w)
        /\ exporting' = w
        /\ UNCHANGED <<rvars, main, opvars, jobvars, resumevars, uploading,
                       updatevars, waiter, worlds, ghosts>>

ExportEnds ==
    /\ exporting # NoWorld
    /\ exporting' = NoWorld
    /\ UNCHANGED <<rvars, main, opvars, jobvars, resumevars, uploading,
                   updatevars, answervars, waiter, worlds, ghosts>>

CanUpload == ~busy /\ ~Closing /\ uploading = NoWorld

UploadBegins ==
    \E w \in worlds :
        /\ "upload" \in Requests
        /\ ~Exited /\ LockFree /\ LetIn /\ CanUpload
        /\ uploading' = w
        /\ UNCHANGED <<rvars, main, opvars, jobvars, resumevars, exporting,
                       updatevars, waiter, worlds, ghosts>>

\* The upload is complete: its import is submitted with upload_lock held.
UploadSubmits ==
    /\ uploading # NoWorld
    /\ Submit("import", uploading)
    /\ UNCHANGED <<rvars, main, jobvars, resumevars, exporting, uploading,
                   waiter, updatevars, worlds, owed, missed>>

\* The upload is refused, or its import is.
UploadFails ==
    /\ uploading # NoWorld
    /\ ~(pc = "submit" /\ op.kind = "import")
    /\ uploading' = NoWorld
    /\ UNCHANGED <<rvars, main, opvars, jobvars, resumevars, exporting,
                   updatevars, answervars, waiter, worlds, ghosts>>

CanUpdate_IgnoresUpload == ~Closing /\ ~busy /\ ~Active
CanUpdate == ~Closing /\ ~busy /\ uploading = NoWorld /\ ~Active

\* The helper accepts one update at a time.
UpdateBegins ==
    /\ "update" \in Requests
    /\ ~Exited /\ LockFree /\ CanUpdate
    /\ ~updating /\ ~stray
    /\ updating' = TRUE
    /\ told' = TRUE
    /\ UNCHANGED <<rvars, main, opvars, jobvars, resumevars, exporting,
                   uploading, lastUpdate, stray, overlooked, waiter, worlds,
                   ghosts>>

\* No answer comes within three seconds; the helper may still get the request.
UpdateUnanswered ==
    /\ CanLose
    /\ "update" \in Requests
    /\ ~Exited /\ LockFree /\ CanUpdate
    /\ stray' = TRUE
    /\ UNCHANGED <<rvars, main, opvars, jobvars, resumevars, exporting,
                   uploading, updating, lastUpdate, answervars, waiter, worlds,
                   ghosts>>

\* It reads it when it gets to it, and accepts it if it may, whatever the
\* panel has begun meanwhile.
InUse == busy \/ pc # "idle" \/ exporting # NoWorld \/ uploading # NoWorld \/ Active

StrayRead ==
    /\ stray
    /\ stray' = FALSE
    /\ \/ ~updating /\ updating' = TRUE /\ overlooked' = InUse
       \/ UNCHANGED <<updating, overlooked>>
    /\ UNCHANGED <<rvars, main, opvars, jobvars, resumevars, exporting,
                   uploading, lastUpdate, told, waiter, worlds, ghosts>>

\* The helper restarts the panel and checks its health before it reports
\* completion.
UpdateEnds ==
    /\ updating
    /\ updating' = FALSE
    /\ overlooked' = FALSE
    /\ \/ lastUpdate' = "completed" /\ Serving
       \/ lastUpdate' = "failed"
    /\ UNCHANGED <<rvars, main, opvars, jobvars, resumevars, exporting,
                   uploading, stray, told, waiter, worlds, ghosts>>

-----------------------------------------------------------------------------
(* The main thread.  A signal ends the server and runs close(), whose      *)
(* reads of the table and of resume_after_operation are separate steps.    *)

\* The world a user may expect back: it runs, and neither a stop, an import
\* nor the clean-up of a failed start is under way, or the operation that
\* has stopped it is to start it again.
InProgress == busy \/ pc = "submit"
MeantToStop == \/ InProgress /\ op.kind \in {"stop", "import"} /\ op.world = world_id
               \/ call = "force"
Interrupted == /\ busy /\ was /\ ~Active
               /\ op.kind \in {"restart", "backup"}
               /\ pc \in {"stopping", "work", "resume", "start", "starting"}
               /\ pc = "stopping" => ~(call = "idle" /\ outcome = "error")
Expected == IF Active /\ ~MeantToStop THEN world_id
            ELSE IF Interrupted THEN op.world ELSE NoWorld

MainKeeps == UNCHANGED <<jobvars, resume_after_operation, webvars, worlds,
                         was, completed, result, op>>

Signal ==
    /\ Serving
    /\ main' = "active"
    /\ owed' = Expected
    /\ missed' = FALSE
    /\ UNCHANGED <<rvars, pc, resumeFile, imported>> /\ MainKeeps

CloseReadsActive ==
    /\ main = "active"
    /\ main' = IF Active THEN "world" ELSE "resume"
    /\ missed' = (missed \/ (~Active /\ op.kind = "restart"))
    /\ UNCHANGED <<rvars, pc, resumeFile, owed, imported>> /\ MainKeeps

\* The note is written when there is a world to note; the write may raise.
ResumeNote_OnlyInterrupted == resume_after_operation
ResumeNote == IF main = "world" THEN world_id ELSE resume_after_operation

CloseWritesNote ==
    /\ main \in {"world", "resume"}
    /\ \/ /\ resumeFile' = IF ResumeNote = NoWorld THEN resumeFile ELSE ResumeNote
          /\ main' = "updater"
          /\ UNCHANGED missed
       \/ /\ CanFail /\ ResumeNote # NoWorld
          /\ main' = "crashed"
          /\ missed' = TRUE
          /\ UNCHANGED resumeFile
    /\ UNCHANGED <<rvars, pc, owed, imported>> /\ MainKeeps

\* `if self.runtime.updater and self.runtime.updater.poll() is None:
\* self.runtime.updater.kill()` reads the attribute three times, unlocked.
CloseSeesUpdater ==
    /\ main = "updater"
    /\ main' = IF updater THEN "poll" ELSE "shut"
    /\ UNCHANGED <<rvars, pc, resumeFile, ghosts>> /\ MainKeeps

ClosePollsUpdater ==
    /\ main = "poll"
    /\ main' = IF ~updater THEN "crashed"
               ELSE IF download = "running" THEN "kill" ELSE "shut"
    /\ UNCHANGED <<rvars, pc, resumeFile, ghosts>> /\ MainKeeps

CloseKillsUpdater ==
    /\ main = "kill"
    /\ IF updater
       THEN /\ main' = "shut"
            /\ download' = IF download = "running" THEN "failed" ELSE download
       ELSE main' = "crashed" /\ UNCHANGED download
    /\ UNCHANGED <<world_id, processes, orphans, updater, pending, call, target,
                   launching, outcome, pc, resumeFile, ghosts>>
    /\ MainKeeps

\* executor.shutdown(wait=True, cancel_futures=True): a queued operation is
\* dropped, a running one is waited for.
CloseShutsExecutor ==
    /\ main = "shut"
    /\ main' = "drain"
    /\ pc' = IF pc = "queued" THEN "idle" ELSE pc
    /\ UNCHANGED <<rvars, resumeFile, ghosts>> /\ MainKeeps

Drained == pc \in {"idle", "submit"}

\* runtime.shutdown: every game is stopped, by force after a minute.
CloseStopsGames ==
    /\ main = "drain"
    /\ Drained
    /\ StopBegins("force")
    /\ main' = "stop"
    /\ UNCHANGED <<pc, resumeFile, ghosts>> /\ MainKeeps

\* The process ends: its memory is gone, and systemd kills what is left of
\* its control group.
ProcessEnds ==
    /\ world_id' = NoWorld /\ processes' = NoProcesses /\ orphans' = {}
    /\ updater' = FALSE /\ download' = "none" /\ pending' = {}
    /\ call' = "idle" /\ target' = NoWorld /\ launching' = FALSE /\ outcome' = "ok"
    /\ pc' = "idle" /\ was' = FALSE /\ completed' = FALSE /\ result' = "ok"
    /\ op' = [kind |-> "start", world |-> NoWorld]
    /\ busy' = FALSE /\ job' = "none"
    /\ resume_after_operation' = NoWorld
    /\ exporting' = NoWorld /\ uploading' = NoWorld /\ waiter' = "off"
    /\ told' = FALSE
    /\ UNCHANGED <<saved, resumeFile, updatevars, overlooked, worlds, imported>>

CloseReturns ==
    /\ main = "stop"
    /\ call = "idle"
    /\ ProcessEnds
    /\ main' = "down"
    /\ UNCHANGED <<owed, missed>>

\* close() raised: nothing stops the games.  The interpreter still waits for
\* the operation thread, which finishes its queue, and then exits.
CrashedExit ==
    /\ main = "crashed"
    /\ Drained
    /\ ProcessEnds
    /\ main' = "down"
    /\ UNCHANGED <<owed, missed>>

\* A power loss, a crash, or systemd losing patience.
Kill ==
    /\ CanKill
    /\ ~Exited
    /\ ProcessEnds
    /\ main' = "killed"
    /\ owed' = NoWorld
    /\ missed' = FALSE

-----------------------------------------------------------------------------
(* Start-up: unfinished jobs are marked failed; then the noted world, or   *)
(* else the autostart world, is submitted, at once or after the update.    *)
BootJob_AsSaved == saved
BootJob_Interrupted == IF saved = "running" THEN "interrupted" ELSE saved
BootJob == IF saved \in {"queued", "running"} THEN "failed" ELSE saved

Autostart(w) ==
    /\ op' = [kind |-> "start", world |-> w]
    /\ pc' = "queued"
    /\ busy' = TRUE /\ job' = "queued" /\ saved' = "queued"

AutostartWorld == IF resumeFile \in worlds THEN resumeFile ELSE BootWorld
NoAutostart == AutostartWorld \notin worlds

NothingQueued == UNCHANGED <<op, pc, busy>> /\ job' = BootJob /\ saved' = BootJob

\* An update is known to run: a thread waits for its end.
BootWaits ==
    /\ TurnedAway
    /\ main' = "serve"
    /\ waiter' = "polling"
    /\ NothingQueued
    /\ UNCHANGED resumeFile

BootStarts ==
    /\ main' = "serve"
    /\ IF NoAutostart
       THEN Status /\ ~told' /\ UNCHANGED overlooked /\ NothingQueued
       ELSE LetIn /\ Autostart(AutostartWorld)
    /\ resumeFile' = NoWorld
    /\ UNCHANGED waiter

\* The helper's first answer was lost, its second, to submit, is that an
\* update runs: the exception ends the panel again, its note removed.
BootFails ==
    /\ FALSE \in Answers /\ TurnedAway
    /\ ~NoAutostart
    /\ main' = "active"
    /\ resumeFile' = NoWorld
    /\ NothingQueued
    /\ UNCHANGED waiter

Boot ==
    /\ Exited
    /\ BootWaits \/ BootStarts \/ BootFails
    /\ owed' = NoWorld
    /\ missed' = FALSE
    /\ imported' = NoWorld
    /\ UNCHANGED <<rvars, was, completed, result, resume_after_operation,
                   exporting, uploading, updatevars, worlds>>

\* _autostart_after_update polls the helper until it answers that no update
\* runs; the checks are made later, under Service.lock, when another update
\* may have begun: submit then raises, with resume.json already removed.
WaiterSees ==
    /\ waiter = "polling" /\ ~Exited
    /\ \/ /\ TRUE \in Answers /\ ~updating /\ told' = FALSE
          /\ waiter' = IF lastUpdate = "completed" THEN "ready" ELSE "off"
       \/ Closing /\ waiter' = "off" /\ UNCHANGED told
    /\ UNCHANGED <<rvars, main, opvars, jobvars, resumevars, exporting,
                   uploading, updatevars, overlooked, worlds, ghosts>>

WaiterMayStart == ~Closing /\ ~busy /\ ~Active

WaiterStarts ==
    /\ waiter = "ready" /\ ~Exited
    /\ LockFree
    /\ waiter' = "off"
    /\ resumeFile' = IF WaiterMayStart THEN NoWorld ELSE resumeFile
    /\ imported' = IF WaiterMayStart THEN NoWorld ELSE imported
    /\ \/ /\ WaiterMayStart /\ ~NoAutostart
          /\ LetIn /\ Autostart(AutostartWorld)
       \/ /\ WaiterMayStart /\ ~NoAutostart
          /\ TurnedAway /\ UNCHANGED <<op, pc, jobvars>>
       \/ /\ ~WaiterMayStart \/ NoAutostart
          /\ UNCHANGED <<op, pc, jobvars, answervars>>
    /\ UNCHANGED <<rvars, main, was, completed, result,
                   resume_after_operation, exporting, uploading, updatevars,
                   worlds, owed, missed>>

-----------------------------------------------------------------------------
OpStep == \/ Queue \/ Begin \/ Finish \/ Pause \/ ServiceStop \/ StopEnds
          \/ ServiceStart \/ StartEnds \/ Check \/ Work \/ Resume \/ Clear
          \/ RuntimeMoves(CallStep)

CloseStep == \/ CloseReadsActive \/ CloseWritesNote \/ CloseSeesUpdater
             \/ ClosePollsUpdater \/ CloseKillsUpdater \/ CloseShutsExecutor
             \/ CloseStopsGames \/ CloseReturns \/ CrashedExit

WebStep == \/ UserSubmits \/ ExportBegins \/ ExportEnds
           \/ UploadBegins \/ UploadSubmits \/ UploadFails
           \/ UpdateBegins \/ UpdateUnanswered \/ AsksStatus

PanelNext == \/ OpStep \/ CloseStep \/ WebStep
             \/ StrayRead \/ UpdateEnds \/ WaiterSees \/ WaiterStarts
             \/ RuntimeMoves(ProcessStep)
             \/ Signal \/ Kill \/ Boot

PanelSpec == PanelInit /\ [][PanelNext]_vars

\* Who uses the panel's data, for the abstract specification.  An update does
\* from the moment the panel is told of it, unless something was let in beside
\* it while the helper did not answer.
users == {u \in {"operation", "export", "upload", "update"} :
             \/ u = "operation" /\ (busy \/ pc = "submit")
             \/ u = "export" /\ exporting # NoWorld
             \/ u = "upload" /\ uploading # NoWorld
             \/ u = "update" /\ updating /\ told /\ ~overlooked}

Access == INSTANCE ExclusiveAccess
            WITH Users <- {"operation", "export", "upload", "update"},
                 Conflicts <- {{"operation", "export"}, {"operation", "update"},
                               {"export", "update"}, {"upload", "update"}},
                 users <- users

(* The operation thread and the main thread keep running and ZIP files get *)
(* written.  Nothing is assumed of users, games, updates or systemd.       *)
PanelFairness == WF_vars(OpStep) /\ WF_vars(CloseStep) /\ WF_vars(ExportEnds)
PanelFairSpec == PanelSpec /\ PanelFairness

-----------------------------------------------------------------------------
PanelTypeOK ==
    /\ TypeOK
    /\ main \in {"serve", "active", "world", "resume", "updater", "poll", "kill",
                 "shut", "drain", "stop", "crashed", "down", "killed"}
    /\ op \in [kind : AllKinds, world : Worlds \cup {NoWorld}]
    /\ pc \in {"idle", "submit", "queued", "pause", "stop", "stopping", "start",
               "starting", "check", "work", "resume", "clear", "finish"}
    /\ was \in BOOLEAN /\ completed \in BOOLEAN /\ result \in {"ok", "error"}
    /\ busy \in BOOLEAN
    /\ {job, saved} \subseteq {"none", "queued", "running", "completed", "failed"}
    /\ {resume_after_operation, resumeFile, exporting, uploading, owed, imported}
         \subseteq Worlds \cup {NoWorld}
    /\ {updating, told, stray, overlooked, missed} \subseteq BOOLEAN
    /\ lastUpdate \in {"none", "completed", "failed"}
    /\ waiter \in {"off", "polling", "ready"}
    /\ worlds \subseteq Worlds

\* "snapshot both shards only after they have stopped": while an operation
\* copies, replaces or rewrites the files of a world, no process on the
\* machine serves that world.
FilesAtRest == pc = "work" => op.world \notin LiveWorlds

\* The ZIP of an export is built from files no game writes, whatever is
\* submitted while it is built.
ExportAtRest == exporting # NoWorld => exporting \notin LiveWorlds

\* A software update runs beside no game, export or operation, and no upload
\* that will become one, except when the helper failed to answer: a request
\* was then let in although the update ran, or the update began late, when
\* something was in use (MutationsBlocked of SoftwareUpdate refutes the
\* comment that denies it).
UpdateAlone ==
    updating /\ ~overlooked =>
        LiveGames = {} /\ pc = "idle" /\ ~busy /\ uploading = NoWorld /\ exporting = NoWorld

\* The service layer implements exclusive access: operations, exports and
\* the updates the panel is told of never overlap, nor do an upload and such
\* an update, and nobody takes over from another in a single step.
AccessSpec == Access!Spec

\* When no operation is in progress, no job is shown as queued or running,
\* after any sequence of interruptions: history is never left claiming that
\* an operation still goes on.
NoGhostJob == main = "serve" /\ ~busy => job \notin {"queued", "running"}

\* A world that ran when the panel was told to stop, and did not fail on its
\* own, is noted for the next start ("a world that was running before a
\* clean panel restart resumes afterward").
CleanRestartResumes == main = "down" /\ owed # NoWorld => resumeFile = owed

\* The note names that world, a backup or a restore that has it stopped
\* included, unless close() missed it: Restart had it down, the operation
\* forgot it or emptied the table between close()'s looks, or the note could
\* not be written.
CleanStopNotesWorld == main = "down" /\ owed # NoWorld /\ ~missed => resumeFile = owed

\* While the panel runs, a world whose save was imported stays stopped until
\* a user or the autostart setting starts it, although the operation that
\* imported it had to stop it first.
ImportedWorldIsDown == imported # NoWorld => imported \notin LiveWorlds

\* A successful import keeps its world stopped: the next start of the panel
\* does not bring it up on the strength of a note.
ImportStaysStopped == main = "down" /\ imported # NoWorld => resumeFile # imported

\* close() kills the downloader before it waits for the operation thread.
NoDownloadWhileDraining == main = "drain" => download # "running"

\* close() ends with every game stopped by the panel, whatever operation or
\* download it met; games are left for systemd to kill only when close() has
\* raised before it stops them or a killed one does not die.
ExitLeavesNoGame ==
    [][main' = "down" => \/ Exited \/ main = "crashed" \/ outcome = "error"
                         \/ LiveGames = {}]_vars

\* An accepted operation ends and lets the next one in.
OperationsEnd == busy ~> ~busy

\* A signal leads to the end of the process.
CloseEnds == Closing ~> Exited
=============================================================================
