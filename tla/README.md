# Pera Panel in TLA+

Pera Panel is a web panel for one Don't Starve Together dedicated server: it
keeps a set of worlds on disk, runs at most one of them (a `Master` and
possibly a `Caves` process), makes and restores backups, imports and exports
saves, and has itself and the game updated by a privileged helper. This
directory holds TLA+ models of the parts of it that are hard to test, the TLC
configurations that check them and proofs of the properties that matter most.

Contents: [inventory](#inventory), [modules](#modules),
[how a model maps to the code](#how-a-model-maps-to-the-code),
[runs](#runs), [bounds](#bounds), [fairness](#fairness),
[disagreements with the documentation](#disagreements-with-the-documentation),
[proofs](#proofs), [what is not modelled](#what-is-not-modelled),
[plan](#plan), [running the checks](#running-the-checks).

## Inventory

| Component | Source | State | Operations | What is hard | Correct when |
|---|---|---|---|---|---|
| Process runtime | `pera_panel/runtime.py` | `world_id`, `processes`, `readers`, `updater`, pause states | `start`, `stop`, `update_mods`, `command`, `rollback`, `status`, `shutdown` | processes end, hang or ignore requests at any time; a spawn may fail half way; the lock is released while waiting | one world runs; the table names every game process; a timeout clears nothing; every call returns |
| Operation service | `pera_panel/service.py` | `busy`, `jobs` and `jobs.json`, `resume_after_operation`, `closing` | `submit`, `_run`, `start`, `stop`, `restart`, `paused`, `configure`, `delete`, ... | one operation thread against web threads and the closing main thread | files are touched only while their world is down; operations, exports and updates exclude each other; every operation ends |
| Panel life cycle | `__main__.py`, `service.py` (`autostart`, `close`) | `resume.json`, the server, the waiting thread | boot, signal, `close()` | `close()` runs beside the operation thread without its lock; kills and crashes | the world that ran comes back; an imported world does not; no game survives |
| Web application | `pera_panel/web.py` | `upload_lock`, sessions, login attempts | routes | an upload lasts long before it becomes an operation | refuses what conflicts |
| World files | `storage.py`, `archives.py`, file work of `service.py` | `clusters/`, `backups/`, `deleted/`, `logs/` | `write_world`, `_snapshot`, `restore`, `import_save`, `recover_character`, `delete`, `delete_archived` | a step of several fails; a crash between two renames; a late log reader | the old or the new world is complete; a failed step changes nothing |
| Update client | `pera_panel/maintenance.py` | `last_job` | `status`, `require_idle`, `start` | lost answers, an unreachable helper, a restarted panel | mutations stay disabled while an update runs |
| Update helper | `deploy/maintenance.py` | the job, its file, the maintenance lock | `dispatch`, `run`, `ensure_panel` | the helper exits when idle and restarts; saving its state may fail; the installer uses the same lock | one update at a time; the reported state is the real one |
| Player registry | `players.py` | `pera-players.json` of each world, one line parser per shard | `log_line`, `record_many`, `discover` | log readers, some of a process that has ended, write beside a refresh, an import or a restore | a character is linked only to an account the logs tie it to; no account is guessed from a folder's name |
| Save import and export | `save_import.py`, `save_export.py`, `Service.import_save` | the staged cluster | `inspect_archive`, `stage_save`, `create_save_zip` | archives with two worlds or part of one; files that change while they are packed; settings that come partly from the archive | one whole world is imported, with the settings it was exported with |
| Lua parser | `lua_settings.py`, the writer in `storage.py` | none | `parse_mods`, `lua`, `validate_mods` | nested tables, explicit keys, `nil`, the depth limit | what is written is read back |
| Workshop cache | `workshop.py` | a bounded cache | `details` | limits | bounded |
| Installer | `install.sh` | releases, symlinks, units | install, update, rollback | a failed step of an upgrade | the old release comes back |
| Front end | `static/`, `templates/` | none the server relies on | polling, rendering | | |

Components interact in four ways. Web threads call `Service`, which queues one
operation at a time for a thread pool of one worker. The operation thread
calls `Runtime`, whose process table is shared, under `Runtime.lock`, with
status requests, log readers and `close()`. The main thread serves until a
signal and then runs `close()`, which takes `Service.lock` nowhere. The panel
asks the update helper over a Unix socket and refuses operations while an
update runs; the helper stops and restarts the panel itself.

## Modules

| Module | Models | State |
|---|---|---|
| `GameRuntime` | `runtime.py`: the process table and the calls that change it | the table (`world_id`, `processes`, `updater`), the truth about the processes (`processes`, `orphans`, `download`), and where the call in progress is (`call`, `target`, `pending`, `launching`, `outcome`) |
| `ExclusiveAccess` | what the service layer promises about the panel's data | `users`: who holds it |
| `Panel` | `service.py`, the routes that reach it and `__main__.py`, over `GameRuntime` | the main thread, the operation in progress, `busy`, jobs, `resume_after_operation`, `resume.json`, exports, uploads, updates and what the panel was last told of them, the waiting thread, the worlds |
| `SoftwareUpdate` | `pera_panel/maintenance.py`, `deploy/maintenance.py` and the installer's part in an update | the helper's process, its job in memory and on disk, the position of `Updater.run`, the maintenance lock, a console command, the panel's service, `Maintenance.last_job`, the start request in flight or abandoned |
| `WorldFiles` | the file work of `service.py`, `storage.py`, `archives.py`, one step per file operation | `root`, `backups`, `leftovers`, `logs`, `archived`; the game and the late readers; the operation (`kind`, `world`, `step`, `aside`, `result`) |
| `AtomicStore` | what the operations promise about the worlds' directories | `store`, the promise of the operation at work (`pending`), the worlds nothing is promised of any more (`struck`) |
| `PauseControl` | pause and resume of `runtime.py`: the console pipes, the log readers, the confirmation | the table and its readings (`pause_states`, `loaded`), the processes (`up`, `native`, `console`, `output`), the request (`call`, `targets`) |
| `PlayerRegistry` | `players.py`, and the player rows an import brings | `registry`, `parsers`, the locals of `discover` (`rows`, `data`, `scanned`), the folders and lists on disk |
| `SaveArchive` | `save_export.py`, `save_import.py`, `Service.import_save`, `Service.configure` | `worlds` and `saves`; the download (`listed`, `packed`) and the upload (`upload`, `staged`) in progress |
| `LuaSettings` | `lua_settings.py` and the writer in `storage.py`, as operators on tokens | none |
| `MC...` | instances for TLC, one for each of `Panel` (and with it `GameRuntime`), `SoftwareUpdate`, `WorldFiles`, `PauseControl`, `PlayerRegistry`, `SaveArchive` | |
| `...Proofs` | theorems about each of these modules and `GameRuntime`; those about `Panel` are in `PanelProofs` and, built on it, `PanelOutcomeProofs` | |

`Panel` EXTENDS `GameRuntime` and uses its actions as the calls that the
operation thread and `close()` make; `Panel!Access` instantiates
`ExclusiveAccess` with the set `users` read off the panel's variables, and
`Access!Spec` is checked, and proved, as a property of `PanelSpec`.
`WorldFiles!Store` instantiates `AtomicStore` in the same way, and `Store!Spec` is
checked, and proved, as a property of `FilesSpec`. In `Panel`
an update is a user of the panel's data from the moment the panel is told of it.
The panel asks the helper whenever the code does (`Status`), and the answer may not
come (`CanLose`): then it goes by the last one (`told`), which a panel that has just
started does not have. `SoftwareUpdate` is the module that takes the protocol behind
the answers apart, with everything a world or an operation does reduced to `working`.

`WorldFiles`, `PauseControl` and `PlayerRegistry` take apart what `Panel` and
`GameRuntime` leave as one step: the `work` of an operation, the readings of a
running world, and what its log readers record. What they need of the others is
reduced to what those establish: that one operation runs at a time and that the
game of its world is down while it works (`AccessSpec`, `FilesAtRest`), and that
processes are those of one world (`OneWorldRuns`). `MCSaveArchive` instantiates
`LuaSettings`, so the mod lists that travel through an archive are written and
read by that module's operators.

## How a model maps to the code

`PROJECT.json` names the lines behind every definition. The choices that are
not obvious:

*Truth and belief.* `processes[s]` is both the table entry of shard `s`
(`"none"`: no entry) and the truth about its process (`"alive"`, `"exited"`).
A game process that is alive without an entry is in `orphans`. Every
assignment to `Runtime.processes` adds the live entries it overwrites to
`orphans`; that none ever does so is part of what `TableIsTruth` shows.

*Steps.* `Runtime.lock` is reentrant and `start` holds it over the launch and
its clean-up, so a launch is one step. `stop` and `update_mods` release it and
wait: a stop is `StopBegins`, then `StopReturns`, `StopTimesOut` or
`ForceKill`, and a process that outlives its kill makes it raise (`KillHangs`); a
download is `SpawnUpdater`, `PublishUpdater` (the process
exists before `Runtime.updater` names it) and `UpdaterReaped`. Between steps,
shards exit, downloads end and `close()` reads.

*Operations.* `op` and `pc` are the operation last accepted and its position
in the code: `submit` (inside `Service.submit`, which holds the lock),
`queued`, the steps of `paused()`, `Service.stop`, `Service.start` and
`require_stopped`, `work` (the file work), `finish`. `restore` has the shape
of `backup`; saving settings, recovering a character and archiving share
`edit` and `archive`; `update-mods` is `mods`.

*`close()`* runs read by read. `main = "active"` is the call of
`runtime.active()`, `"world"` and `"resume"` the read of `world_id` or of
`resume_after_operation`, `"updater"`, `"poll"` and `"kill"` the three reads
of `runtime.updater` in lines 404-405, `"shut"` the executor's shutdown,
`"drain"` the wait for the operation thread, `"stop"` `runtime.shutdown()`,
and `"crashed"` an exception that escapes from `close()`.

*The helper* is started by a connection and leaves after a minute without a
worker, so `memory` (`Updater.job`) and `disk` (`job.json`) come apart and
together again. `worker` is where `Updater.run` is. The socket's queue is
served in order by one thread: a start request that the client has given up on
(`queued`) is read before anything sent later, and what is sent later times
out until it is. `Takes(live)` is the read of the request the panel waits for,
or of an abandoned one. `AcceptFails` has the two ways in which `dispatch`
raises: the job cannot be saved (main swallows the `OSError`, the job in memory
is left running) or the thread cannot be started (the `RuntimeError` ends the
helper).

*The panel under an update.* `PanelEnds` is what a stop, a crash or a restart
of the panel loses: the client's memory and its patience, never a request that
is already in the queue.

*Process end.* systemd kills the control group when the main process has
ended (`KillMode=mixed`), so `ProcessEnds` empties the table and the orphans;
`saved`, `resumeFile`, `worlds` and the update survive.

*Asking the helper.* `submit`, an export, an upload and `autostart` ask it first
(`require_idle`). `LetIn` and `TurnedAway` are the two outcomes: without an answer,
`told` decides. A start request that is not answered in time may still be queued
(`stray`); until it is read the helper answers nothing that is sent later, and when it
is read an update may begin beside whatever the panel has begun (`StrayRead`).
`overlooked` records that an update and other work have met in one of these ways. A
boot whose first question is lost and whose second is answered "running" raises out
of `autostart` (`BootFails`).

*Faults* are constants of the instance: `CanLeak` (a spawn raises after the
process exists), `CanHang` (a killed process outlives the ten seconds the code waits
for it), `CanFail` (a write of `jobs.json` or `resume.json` raises), `CanLose` (the
helper does not answer) and `CanKill`. Properties that need a fault's absence say so
by their run.

`SoftwareUpdate` has its own: `CanLose` (an unreachable helper, a lost
answer), `CanDelay` (a request that outlives the client's three seconds),
`CanFail` (a write of `job.json`, a new thread) and `CanKill`.

*Directories.* In `WorldFiles` a world's directory is the save it holds, its
`pera.json` and whether the settings files agree with it. A step is one file
operation of the code: `Snapshot`, `Copy` (the copy beside the directory),
`Aside` and `Swap` (the two renames), `WriteFiles` and `WriteMetadata` (the two
parts of `write_world`), `Register` (the imported players), `Clean` (the removal
of what was moved aside), `Undo` and `PutBack` (the exception handlers). A step
that raises goes to the handler the code has there (`Handler`), whose own steps
may raise too; one that does not get through leaves what `CutShort` says, a torn copy or
a partly removed directory. A death of the panel stops the operation where it is, with or
without that effect. `leftovers` are the saves, whole or torn, in hidden directories nobody
refers to any more: what was moved aside is kept there whatever it holds. A late log reader (`late`) has looked its world up and then
writes `pera-players.json`, which makes the directory again if it is gone. A start writes the
settings files from `pera.json` before it launches (`Repaired`).

*The store.* `AtomicStore` sees of a directory its save and its `pera.json`. While
an operation works on a world, the refinement shows the directory it found
(`Base`), and as `pending` the one it will leave (`Promise`): the new one, or, once
something has failed, the old. The step from one to the other is `Resume`, the end
of the operation, whichever of the file steps before it were taken. A world is
`struck` by a second failure within an operation, by the death of the panel
during one, and by the restore of a backup that an earlier failure tore; of such
a world the store shows nothing, and that is where `PresentKept` takes over. A
backup in progress promises what was there. The store says nothing of whether the
settings files agree (a start makes them agree).

*Processes by name.* `PauseControl` gives each process an identity, because a
reading counts only if the process is the table's. `output[p]` are the lines of
`p` nobody has read, which survive it and, with `CanLag`, the stop of its game;
`console[p]` are commands it has not handled, and it may handle one without
obeying. A line is a pause state or the `PauseWhenEmpty` setting; the first line
of a process is the setting it was launched with. The wait for confirmation is
`call = "waiting"`: between two polls anything may happen, and it ends by
`Confirmed`, by a changed process or by its time limit.

*Log lines.* In `PlayerRegistry` a shard's processes share one parser, as
`log_parsers` is keyed by shard. `own` is the parser that reads the file of the
latest process from its start, which is what `discover` does with
`server_log.txt`. `discover` gathers its rows without the lock (`Gather`),
reads the registry under it, prunes the candidates and writes (`Prune`,
`Finish`); log readers, permission edits and saving games go on between them.
An id that ends in `_` and its trimmed form are two users related by `Trimmed`;
which of them a folder's name means is what the code has to decide. An id
whose trimmed form is too short to be one (`Suffixed`) is never taken from a folder's
name alone. `Records` is `record_many` with its limits: a thousand records
(`MaxPlayers`), 128 paths for each (`MaxPaths`), and the megabyte beyond which `_read`
takes the file for empty (`MaxFile`, counted in paths).

*Archives.* A ZIP is a set of members; names are reduced to the top folder, the
shard and the member's part in the import, contents to values with a size.
Packing goes file by file over what was `listed`, and others may change files in
between (`CanChange`): a file whose size differs from the listed one fails the
download. An upload is inspected whole, staged member by member, then
installed. A refused upload changes nothing and is no step.

*Text.* `LuaSettings` writes and reads sequences of tokens. Characters, quoting
and comments are the tokenizer's and are left out. It uses RECURSIVE operators
and is therefore instantiated by `MCSaveArchive` only, never by a module with
theorems: `SaveArchive` knows of it the functions `TextOf` and `ReadOf`.

*History.* `present` in `WorldFiles` is the save a world has to have, `before`
its directory when the operation began, `damaged` the worlds where more than one
thing went wrong or the panel died. In `PauseControl`, `behind` are the
shards that had unread lines when a request was made, `asked` those its command
reached, and `met` those that have really been in the state since. In `PlayerRegistry`,
`witnessed` are the links one process's lines contain and `broken` the shards
whose shared parser has missed a line or has read two processes. In `SaveArchive`
`origin` is what a download is of. In `SoftwareUpdate`, `told` says that this panel has seen the
running update and `finished` how the last accepted one ended. In `Panel`,
`owed` is the world a user may expect back when the signal arrives, `missed` says
that `close()` has looked for it where it was not, `imported` is the world whose
save was replaced last, `overlooked` is above. No action reads them except to update
them. `was`, which the code has for `paused()`, is set by a restart too.

## Runs

| Run | Module | Properties | What it shows |
|---|---|---|---|
| `panel_access` | `MCPanel` | `ExportAtRest`, `UpdateAlone`, `ImportedWorldIsDown`, `AccessSpec` | with a helper that may not answer, and across kills and restarts, operations, exports, uploads and the updates the panel knows of exclude each other as `ExclusiveAccess` says; an update meets other work only after a lost answer; an export never reads the files of a running game; an imported world stays down while the panel runs |
| `panel_operations` | `MCPanel` | `PanelTypeOK`, `FilesAtRest`, `NoGhostJob`, `OneWorldRuns`, `TableIsTruth`, `NoDownloadBesideGame`, `CleanStopNotesWorld`, `ExitLeavesNoGame` | with failing writes, hanging kills and deaths of the panel: file work only on worlds that are down; no job left in progress after a restart; the table tells the truth; a clean stop notes the world that ran unless `close()` misses it; and its end leaves no game |
| `panel_progress` | `MCPanel` | `FailedStartLeavesNothing`, `CallsReturn`, `OperationsEnd`, `CloseEnds` | under fair threads, with leaking spawns: calls return even when processes hang until killed, failed starts leave nothing in the table, operations end and `close()` ends |
| `update` | `MCSoftwareUpdate` | `OneMaintenance`, `CompletedMeansUp`, `NoFalseSuccess`, `KnownUpdateBlocks`, `PhantomEnds` | with every fault: helper and console never work at once, the panel is up when an update is reported complete, no update is reported complete that was not, an update the panel knows of keeps it idle, and a job that is only in memory ends |
| `files` | `MCWorldFiles` | `PresentKept`, `OneFaultAbsorbed`, `OneBootWorld`, `LaunchedAsConfigured`, `NothingOrphaned`, `StoreSpec` | with any two failures or deaths at any steps, and late log readers: a world's save is always whole somewhere; an operation takes place at once or, after one failure, not at all; games start from settings that agree; at most one world starts at boot |
| `pause` | `MCPauseControl` | `BadgeTellsTruth`, `LoadedAsSaved`, `ConfirmedTruly` | games that pause by themselves, ignore commands or exit, and lines of earlier processes: what the badge and a confirmation say is true once the lines are read |
| `players` | `MCPlayerRegistry` | `PlayersTypeOK`, `LinksWitnessed`, `NeverGuessed`, `StaleCandidatesGo`, `EvidenceStays` | log readers, a refresh step by step, imports and saving games on one registry: links come from neighbouring lines, accounts are not guessed, evidence is not lost while the file is one the panel reads |
| `saves` | `MCSaveArchive` | `SavesTypeOK`, `CavesMatch`, `DownloadsReturn`, `RoundTrip`, `ImportedWhole` | two worlds exchange downloads and import archives made by others: exactly one whole world is imported, with the settings it was exported with, caves are there exactly if configured, and what was downloaded can be uploaded again |
| `panel_import_started`, `panel_resume_lost`, `update_forgotten`, `pause_stale` | | one each | see [disagreements](#disagreements-with-the-documentation) |

The type invariants of `GameRuntime`, `SoftwareUpdate`, `WorldFiles` and
`PauseControl` are proved (`TypeCorrect`, `UpdateTypeCorrect`, `FilesTyped`,
`PauseTyped`) and take no room in a
run; the first is also a part of `PanelTypeOK`.

For each property of a passing run `PROJECT.json` names a mutant: an operator
of the module that changes one definition the way a slip in that code would,
and under which the run finds the property violated.

## Bounds

Two worlds: one with a `Caves` shard and mods, one without; the smallest
instance in which a second world can be started beside the first, a launch can
fail between two shards and two downloads follow each other. One user thread
of each kind is enough because the code admits one operation, one upload and
(under `Service.lock`) one export at a time. The kinds of operation and of
other requests are split between the runs (`Kinds`, `Requests`) so that each
run holds those its properties are about: together the runs have all of them.
`panel_access` and `panel_progress` have one world, with caves and mods, and no
second: who may use the panel's data, and whether threads come to an end, does not
depend on which world an operation is for, and the helper's answers (or the temporal
properties) multiply the states instead. `panel_access` leaves out leaks, hanging
kills and failing writes, none of which touches its guards; `panel_progress` leaves out failing writes, with which
`OperationsEnd` fails (below), and hanging kills, with which `FailedStartLeavesNothing`
does.
`MCSoftwareUpdate` has both kinds of update, one console command at a time
(the lock admits no more), one request in flight (the client holds its lock
while it waits) and any number of abandoned ones, of which it is enough to know
whether there is one, because all but the first accepted are refused. Updates
follow each other without bound; the state space is finite as it stands.

No counter grows in these: job history is reduced to the last job, whose state
is the one that can be left behind.

`MCWorldFiles` has one world with every operation and one with a boot
preference only, which is what `OneBootWorld` needs; two saves besides the
unborn world tell the old from the new; `MaxBackups = 1` lets a backup be
restored, replaced and deleted; `MaxTroubles = 2` is one more than any property
promises to absorb, so that a failure in an exception handler and a crash after
a failure happen. `MCPauseControl` has three processes (two of a world with
caves and one more, so that an old and a new run meet), two unread lines and one
unheard command for each; processes are interchangeable (`SYMMETRY`). Its
`GameStates` leave out `auto_paused`, which the code treats as `paused` when it
waits; the theorems cover all three. `MCPlayerRegistry` has an
account, one whose id is the first's with `_`, and a third; `MaxPlayers = 2`, `MaxPaths = 1` and `MaxFile = 1`, so that each limit is met and two
players with a path each outgrow the file; two runs of the game and four events, enough for a line of the
earlier process between two of the later. `MCSaveArchive` has two
interchangeable worlds, two choices of settings, thirteen archives made by others that
each break or stretch one rule, and three events (a played or changed file, a
configuration, an archive made by others); its depth limit is 4, and one of its
mod lists is just that deep.

Deadlock is checked in the runs of `Panel` and `SoftwareUpdate`:
a process that has ended can always be booted again. It is not in `files`,
`pause` (with `pause_stale`), `players` and `saves`, whose bounds on processes, events
and troubles bring a behaviour to an end that the code does not have.

## Fairness

`PanelFairness` is weak fairness of the steps of the operation thread (`OpStep`, which
contains those of the call in progress), of the main thread's steps in `close()` and
of the end of an export, whose ZIP is built from finite files. It is justified by the
code: each wait has a timeout (`process.wait(timeout=900)`, the 60 s of `stop`, the
10 s after a kill), so a thread is never blocked for good. Nothing is assumed of the
game or of the downloader, which may run for ever. `SoftwareUpdate` assumes weak fairness of
`HelperExits` alone: the helper's loop wakes every second and returns once it
is older than a minute and has no worker. It assumes nothing of the installer,
which has no time limit, and so claims nothing about updates ending. Nothing is assumed of users, of updates, of the
waiting thread, or of systemd. `WorldFiles`, `PauseControl`, `PlayerRegistry` and
`SaveArchive` claim safety only and assume no fairness: that file work ends is
part of `OperationsEnd`, and a log reader may lag for as long as it likes.

## Disagreements with the documentation

Four are runs:

* `panel_import_started`: a signal during an import notes the world, the
  import completes, and the next start of the panel launches it. README.md:217:
  "The imported world stays **stopped**".
* `panel_resume_lost`: a signal during Restart, after the world has stopped, leaves no
  resume note, and the start is refused. README.md:168: "A world that was running
  before a clean panel restart resumes afterward." `CleanStopNotesWorld` says how far
  the sentence is true: `missed` marks the ways out, of which the others are a backup
  that restarts its world and clears `resume_after_operation` between `close()`'s look at
  the table and its look there, a table emptied between the looks at `active()` and
  `world_id`, and a note that cannot be written.
* `update_forgotten`: when the helper cannot be reached, the client falls back
  on the last job it was told of. A panel that lost the answer to its start
  request, or has restarted since, was told of none and begins operations
  while the update runs. Comment (`maintenance.py:41`): "Losing the helper
  during an update must not enable mutations." That it holds for a panel that
  was told is `KnownUpdateBlocks`.
* `pause_stale`: a line that the asked process wrote before the request and that is
  read after it confirms a command the game ignored (`runtime.py:233`). README.md:250:
  an ignored command is "never treated as a confirmed pause". `ConfirmedTruly` says what
  a confirmation does rest on.

The others are a change of a configuration or of a property away:

* In `MCPanelOperations.cfg` with `CanLeak = TRUE`, `OneWorldRuns`, `TableIsTruth` and
  `NoDownloadBesideGame` fail: `_spawn` can raise after `Popen`
  (creating the log directory, starting the reader thread). `start` then stops
  the shards the table knows, the new process stays alive and unknown, and a
  second world, or a download, can be started beside it. README.md:7: "One world
  runs at a time".
* In `MCPanelOperations.cfg`, the invariant `NoDownloadWhileDraining` fails: a
  downloader that appears after `close()` has looked is waited for (up to 900 s
  per shard) and never killed. Comment (`service.py:403`): "Kill a long-running
  mod downloader before waiting for the operation thread."
* `close()` reads `runtime.updater` three times without the lock; if the
  operation thread clears it in between, `close()` raises before
  `runtime.shutdown()`, and the game that the operation starts next is killed by
  systemd instead of being stopped and saved. `ExitLeavesNoGame` excepts this exit
  (`main = "crashed"`); without the exception it fails in `MCPanelOperations.cfg`. No
  document promises the contrary.
* In `MCPanelProgress.cfg` with `CanFail = TRUE`, `OperationsEnd` fails:
  `busy` is set before `jobs.json` is written, and `_run`'s first write is
  outside its `try`, so a failed write leaves `busy` set until the panel
  restarts, while users are told to wait for the operation to finish.
* In `MCUpdateForgotten.cfg` with `CanDelay = TRUE` and `CanLose = FALSE`,
  `MutationsBlocked` fails in another way: the client gives up on a start
  request after three seconds, a world is started (its status request times
  out behind the first), and then the helper reads and accepts the request.
  The installer (`install.sh:572`) relies on the browser having checked that
  no world runs.
* In `MCPlayers.cfg`, `LinksWitnessed` without its proviso (`broken`) fails:
  `log_line` records a player before it feeds the parser (`players.py:187`), so
  a failed write loses a line for the parser, and the lines around it become
  neighbours; and the lines of an ending process and its successor meet in one
  parser. README.md:244: "Adjacent `Resuming user` and ownership
  lines".
* In `MCFiles.cfg`, the invariant `ArchiveDeletable` fails: a log reader that has
  passed the check of the world's directory writes `pera-players.json` after the world
  was archived, and the directory is back (`players.py:182`), without a `pera.json`.
  The world is not on the dashboard, so it cannot be archived; its archive cannot be
  deleted, because the directory exists (`archives.py:91`). README.md:306: "Worlds still
  present in the dashboard must be archived first", and Delete "permanently removes all
  archived copies"; comment (`players.py:153`): "Late output from an old process must
  not recreate an archived world." `NothingOrphaned` names the case.
* In `MCPlayers.cfg`, the property `JoinsPersist` fails: a registry of more than a
  megabyte, which a thousand records with their paths can exceed, is read as `{}`
  (`players.py:127`), and the next record replaces the file by its own rows.
  README.md:229: "New authenticated joins are persisted even when the dashboard is
  closed." Up to that size nothing is lost (`EvidenceStays`).
* In `MCSaves.cfg`, `DownloadsReturn` without its exception (`Collides`) fails: an
  archive with `id = 2` in `Master/server.ini` and `id = 1` in `Caves/server.ini`, but
  no caves, is imported as a surface world with master id 2; its download holds the
  master's id only, and as an upload it is refused, because the caves' default is 2
  (`service.py:265`). Comment (`save_export.py:110`): "every completed download can be
  uploaded again".
* In `PlayerRegistry`, `Admitted` counts stale candidates: at the limit
  of records a player who joins is dropped, although a refresh would free the
  room (`players.py:161`).
* In `SaveArchive`, a directory entry with a backslash becomes an
  empty file (`save_import.py:90` asks `is_dir` of the raw name), although the
  names are normalised (`save_import.py:53`).
* Mod options eleven or twelve levels deep pass `validate_mods`, which counts
  from the options, and are refused by `write_world`, which counts from the file,
  after it has replaced `cluster.ini`. This was found by reading
  (`Fits` of `LuaSettings` has the depth as a parameter); the model lets any
  step of `write_world` fail.

## Proofs

`GameRuntimeProofs` proves, for every set of worlds and every configuration of
caves, mods and tokens:

* `TypeCorrect`, with every fault;
* `FailedStartsLeaveNothing`, with leaking spawns, assuming `~CanHang`: a shard that
  outlives its kill stays in the table;
* `TableCorrect`, `OneWorldAtATime` and `DownloadsRunAlone`, with hanging kills,
  assuming `~CanLeak`; without that assumption they fail
  ([above](#disagreements-with-the-documentation)).

The argument is one inductive invariant, `RInv`. What has to be added to the
properties is the relation between the table and the position of the call in
progress: while a start or a download is under way no entry is alive (so the
assignment at the launch overwrites nothing), the target of a call that will
launch is a world, entries exist only under a world's name, and `download` is
something other than `"none"` exactly between a spawn and its reaping.

`PanelProofs` proves about `PanelSpec`:

* `ServiceImplementsAccess`: `PanelSpec => AccessSpec`, for every set of
  operations and requests and with every fault and lost answer allowed. Each action
  either leaves `users` alone, removes members, or adds one whose conflicts are absent.
  An update is in `users` once the panel is told of it and only if nothing was let in
  beside it before; what an unanswered panel lets in is outside the theorem, and
  `update_forgotten` shows that it does.
* `WorkAtRest`: `FilesAtRest`, assuming `~CanLeak`. The invariant relates the
  operation's position to the table: from the end of its stop until its file
  work ends, no call is in progress and the operation's world is not active.
* `PanelTableCorrect`: `TableIsTruth`, `OneWorldRuns` and `NoDownloadBesideGame` survive
  the composition, that is, `close()`'s interventions between the steps of the operation thread.

`PanelOutcomeProofs` builds on these two invariants, `RestInv` (the table and
where calls are made) and `AccessInv` (what the end of the process leaves), and
proves what users get, each time with an invariant of its own:

* `ExportsAtRest` and `UpdatesRunAlone` (`ExportAtRest`, `UpdateAlone`), assuming
  `~CanLeak`. `AloneInv`: while an export goes on, or an update that is not
  `overlooked`, no operation does, so no call is made but the stop of `close()`, and
  the exported world, for an update any world, is not active. `UpdateInv` says what
  the panel knows of such an update.
* `JobsTellTheTruth` (`NoGhostJob`), with every fault. `JobInv` extends the property
  from the serving panel to every state: a job is open only while `busy` is set.
* `ImportedWorldsStayDown` (`ImportedWorldIsDown`), assuming `~CanLeak`, for every
  kind of operation. `KindInv` says which operation is at a place and for which
  world a call is made, `ImportInv` that nobody starts the imported world before a
  start is asked for.
* `RunningWorldNoted` (`CleanStopNotesWorld`), for every kind of operation and with
  every fault. `OwedInv` follows the world that is owed from the signal to the note:
  at each place of `close()` it is where `close()` looks next, or `missed` is set.
* `CompletedCloseLeavesNoGame` (`ExitLeavesNoGame`), assuming `~CanLeak`: when the
  process exits by itself, no game is alive unless `close()` has raised or a killed
  game has not died. `StoppedAtExit` says that nothing is active once the stop of
  `close()` has returned.
* `PanelTypeCorrect` (`PanelTypeOK`), with every fault.

`~CanLeak` means that spawning is all or nothing. A leaked game, which the table
does not know, breaks each property that speaks of live processes.

`SoftwareUpdateProofs` proves `MaintenanceExclusive`, `CompletedPanelUp`,
`CompletionTrue`, `KnownUpdatesBlock` and `UpdateTypeCorrect` with every fault
allowed. The inductive invariant `UInv` adds to the properties: a helper that
is off has no job in memory and no worker, an update in progress is running in
memory and not finished, no completion is on disk that did not happen (the
disk is what the next helper believes), the panel is up from a successful
recovery until the report (only a holder of the lock could stop it), and a
client that was told of the update remembers a running job.

`WorldFilesProofs` proves `FilesTyped` and `DataKept` (`PresentKept`) for any
number of worlds, backups and troubles. `KeepInv` adds to the property, for each
position of the operation: which kinds can be there (`KindOfStep`); that past the
snapshot of a replacing operation or an archiving the save is in a copy that
operation will not touch (`Sealed`); that no game writes the directory from then on
(`Quiet`); and that a backup or an archive is deleted only while the save is
elsewhere or given up (`Deleting`, `Purging`).

The other theorems of `WorldFilesProofs` build on it one layer at a time, with
every fault allowed and no further assumption:

* `GamesLaunchedAsConfigured` (`LaunchedAsConfigured`), from `WorkInv`: `KeepInv`, that
  no game runs in the directory an operation works on (`QuietInv`), what a request
  is accepted with (`AskedInv`), and that a directory, a backup or a directory moved
  aside holds a save, the world's being the one found until the first rename
  (`ProperInv`).
* `FailuresChangeNothing` (the definition `FailureChangesNothing`), from `ShapeInv`: as
  long as at most one thing has gone wrong, the step an operation is at tells what
  its world's directory holds (`Stands`, one conjunct per group of steps).
* `FaultsAbsorbed` (`OneFaultAbsorbed`), `NothingLeftBehind` (`NothingOrphaned`, where
  a late reader's directory is the one thing that may stand beside an archive) and
  `OneWorldBoots` (`OneBootWorld`), from `FilesInv`, which adds `LedgerInv` and
  `BootInv`: seen past the operation at work, each undamaged world is whole, given
  up or archived, its backups and logs have a world or an archive, nothing exists
  of it before its first save, and at most one of them starts at boot. The step
  that carries the argument is `Resume`, where `ShapeInv` says that the directory
  the operation leaves may take the place of the one it found.
* `OperationsAreAtomic`: `FilesSpec => StoreSpec`. Each action is a stutter of the store,
  or its `Begin`, `Fail`, `End`, `Play`, `Appear` or `Strike`; that the end brings what
  was promised is again `ShapeInv`.

`PauseControlProofs` proves `PauseTyped`, `BadgeTruth`, `LoadedTruth` and
`ConfirmationTruth` for any number of processes and unread lines. `PauseInv`
says that live processes are the table's (`Table`), that the last unread line of
a process, or else its reading, is what it is (`LastWord`), and that no wanted line
is in the pipe of a shard that has not been in the state since the request, unless
its lines were unread then (`Fresh`).

`PlayerRegistryProofs` proves all five properties of the run, `PlayersTyped`,
`LinksTrue`, `LabelsJustified`, `RefreshPrunes` and `EvidenceKept`, for any
accounts, folders, lines, uploads and limits. `EvidenceKept` speaks of what `_read`
returns, so a registry that it passes over has nothing to keep. `PlayersInv` relates the shared parser to
the one that has read only the latest process (`ParserInv`), the rows about to be
recorded to what was witnessed (`RowsWitnessed`), and the locals of `discover` to
the registry it has locked (`DiscoverInv`).

`SaveArchiveProofs` proves all five properties of the run, `SavesTyped`,
`CavesTrue`, `ImportsWhole`, `DownloadsAccepted` (`DownloadsReturn`) and `DownloadsTrue`
(`RoundTrip`), for any worlds, files, archives and mod lists. `SavesInv` says what a download has packed so far and
that its world has kept its settings (`PackInv`), and that an upload has passed
the inspection and nothing else is staged (`StageInv`). `DownloadsTrue` rests on the assumption that
a mod list which is written and read back is itself up to what its text does not
tell (`ReadOf[TextOf[l]] = Plain[l]`). That is a statement about recursive
definitions, out of the prover's reach; for the lists of the run TLC
evaluates it with the writer and the parser of `LuaSettings`.

The assumptions are the named `ASSUME`s of the modules, which TLC evaluates on
every run.

Every safety property of a passing run is stated by a theorem. Only
model-checked are the liveness properties (`CallsReturn`, `OperationsEnd`,
`CloseEnds`, `PhantomEnds`), which are out of the prover's reach, and what
`LuaSettings` computes, which is recursive.

## What is not modelled

Formatting, translations, ZIP and JSON bytes, HTTP sessions and the front end
hold no state the properties are about. Of the installer only its lock and its
stops and starts of the panel are modelled, and the unit files only as far as
they restart and kill processes; an administrator who calls `systemctl`
directly, past the lock, is not. Of the settings files `WorldFiles` keeps only
whether they agree with `pera.json`; of archives `SaveArchive` leaves out sizes,
compression and links in the file system; of player logs, names, times beyond
their equality and the eviction of parsers beyond a hundred are left out. The
login throttle and sessions, the tokenizer of the Lua parser, the Workshop cache
and the release switch of the installer are not modelled. Memory and disk
exhaustion appear only as failing writes. Two panels on one data
directory are excluded by `panel.lock` (`__main__.py`), which is taken as given.

## Plan

Done, in the order of importance: `GameRuntime`; `ExclusiveAccess` and `Panel`;
`SoftwareUpdate`; `WorldFiles`; `PauseControl`; `PlayerRegistry`; `SaveArchive`
with `LuaSettings`; theorems for all of them; `AtomicStore`. Left:

1. `PauseControl` as an implementation of an abstract badge, and `PlayerRegistry`
   of an abstract register of evidence, by refinements like `StoreSpec`.
2. `SoftwareUpdate` composed with `Panel`, which has the helper's answers but not what
   becomes of its job when it is killed or cannot be written.
3. The login throttle, the Workshop cache, and the release switch of the
   installer with its rollback.

## Running the checks

    tlc -workers 2 -config MCPanelAccess.cfg MCPanel
    tlc -workers 2 -config MCFiles.cfg MCWorldFiles
    tlc -workers 2 -config MCPanelResumeLost.cfg MCPanel
    tlapm PanelOutcomeProofs.tla
    tlapm WorldFilesProofs.tla
