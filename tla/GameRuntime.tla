---------------------------- MODULE GameRuntime ----------------------------
(***************************************************************************)
(* The process table of the panel (pera_panel/runtime.py): one world at a  *)
(* time, one game process per shard, one Workshop downloader at a time.    *)
(*                                                                         *)
(* The table is what the panel believes; the operating system is what is   *)
(* true.  processes[s] holds the truth about the process the table keeps   *)
(* for shard s; orphans holds the processes that are alive although no     *)
(* table entry refers to them.                                             *)
(*                                                                         *)
(* All calls but status() and active() come from the single operation      *)
(* thread, or from the closing main thread once that thread has ended, so  *)
(* one call is in progress at a time.  Where a call releases Runtime.lock  *)
(* and waits, it is split into steps; the processes, and every reader of   *)
(* the table, may move in between.                                         *)
(***************************************************************************)
EXTENDS Naturals

CONSTANTS Worlds,      \* world identifiers
          NoWorld,     \* Python's None
          WithCaves,   \* worlds configured with a Caves shard
          WithMods,    \* worlds with at least one enabled Workshop mod
          WithToken,   \* worlds that have a Klei cluster token
          CanLeak,     \* may _spawn raise after Popen has created the process?
          CanHang      \* may a process outlive its kill by ten seconds?

ASSUME RuntimeAssumption ==
    /\ NoWorld \notin Worlds
    /\ WithCaves \subseteq Worlds
    /\ WithMods \subseteq Worlds
    /\ WithToken \subseteq Worlds
    /\ {CanLeak, CanHang} \subseteq BOOLEAN

VARIABLES world_id,    \* Runtime.world_id
          processes,   \* Runtime.processes: state of the process of each shard
          orphans,     \* <<world, shard>> of live processes in no table
          updater,     \* is Runtime.updater set?
          download,    \* the downloader process of the current update_mods
          pending,     \* shards whose mods update_mods has still to download
          call,        \* where the call in progress is
          target,      \* the world of the start or update_mods in progress
          launching,   \* is the update_mods in progress part of a start?
          outcome      \* how the last call ended: returned or raised

rvars == <<world_id, processes, orphans, updater, download, pending,
           call, target, launching, outcome>>

Shards == {"Master", "Caves"}
ShardsOf(w) == IF w \in WithCaves THEN Shards ELSE {"Master"}
NoProcesses == [s \in Shards |-> "none"]

Tracked == {s \in Shards : processes[s] # "none"}
Alive == {s \in Shards : processes[s] = "alive"}
Active == Alive # {}
ActiveWorld(w) == w = world_id /\ Active
\* The table entries that an assignment to Runtime.processes would lose.
Abandoned == {<<world_id, s>> : s \in Alive}

\* The game processes the machine really runs, and the worlds they serve.
LiveGames == Abandoned \cup {o \in orphans : o[2] \in Shards}
LiveWorlds == {g[1] : g \in LiveGames}

Init ==
    /\ world_id = NoWorld
    /\ processes = NoProcesses
    /\ orphans = {}
    /\ updater = FALSE
    /\ download = "none"
    /\ pending = {}
    /\ call = "idle"
    /\ target = NoWorld
    /\ launching = FALSE
    /\ outcome = "ok"

Return(how) == call' = "idle" /\ outcome' = how

-----------------------------------------------------------------------------
(* Runtime.start, up to the downloads: refused while a world is active or  *)
(* without a token; otherwise exited processes are reaped, and a missing   *)
(* game binary or a failed settings write still ends the call.             *)
MayStart_IgnoresActive(w) == w \in WithToken
MayStart(w) == ~Active /\ w \in WithToken

StartRefused(w) ==
    /\ ~MayStart(w)
    /\ Return("error")
    /\ UNCHANGED <<world_id, processes, orphans, updater, download, pending,
                   target, launching>>

StartAccepted(w) ==
    /\ MayStart(w)
    /\ processes' = NoProcesses
    /\ world_id' = IF Tracked = {} THEN world_id ELSE NoWorld
    /\ orphans' = orphans \cup Abandoned
    /\ \/ /\ Return("error")
          /\ UNCHANGED <<pending, target, launching>>
       \/ /\ call' = "mods"
          /\ target' = w
          /\ launching' = TRUE
          /\ pending' = IF w \in WithMods THEN ShardsOf(w) ELSE {}
          /\ UNCHANGED outcome
    /\ UNCHANGED <<updater, download>>

Start(w) == call = "idle" /\ (StartRefused(w) \/ StartAccepted(w))

(* The update-mods action of web.py: only while nothing runs; the mod list *)
(* is written first, which may fail.                                       *)
MayUpdateMods_IgnoresActive(w) == TRUE
MayUpdateMods(w) == ~ActiveWorld(w) /\ ~Active

UpdateMods(w) ==
    /\ call = "idle"
    /\ \/ /\ Return("error")
          /\ UNCHANGED <<pending, target, launching>>
       \/ /\ MayUpdateMods(w)
          /\ call' = "mods"
          /\ target' = w
          /\ launching' = FALSE
          /\ pending' = IF w \in WithMods THEN ShardsOf(w) ELSE {}
          /\ UNCHANGED outcome
    /\ UNCHANGED <<world_id, processes, orphans, updater, download>>

-----------------------------------------------------------------------------
(* update_mods: one downloader after the other.  The process exists before *)
(* Runtime.updater refers to it.                                           *)
NextShard == IF "Master" \in pending THEN "Master" ELSE "Caves"

SpawnUpdater ==
    /\ call = "mods"
    /\ pending # {}
    /\ \/ /\ download' = "running"
          /\ call' = "spawned"
          /\ UNCHANGED <<orphans, pending, outcome>>
       \/ /\ \/ UNCHANGED orphans
             \/ CanLeak /\ orphans' = orphans \cup {<<target, "Mods">>}
          /\ pending' = {}
          /\ Return("error")
          /\ UNCHANGED download
    /\ UNCHANGED <<world_id, processes, updater, target, launching>>

PublishUpdater ==
    /\ call = "spawned"
    /\ updater' = TRUE
    /\ call' = "download"
    /\ UNCHANGED <<world_id, processes, orphans, download, pending, target,
                   launching, outcome>>

\* process.wait(timeout=900) expired: the downloader is killed.
DownloadTimesOut_WaitsForever == FALSE
DownloadTimesOut ==
    /\ call = "download"
    /\ download = "running"
    /\ download' = "failed"
    /\ UNCHANGED <<world_id, processes, orphans, updater, pending, call,
                   target, launching, outcome>>

AfterDownload(ok) == IF ok THEN pending \ {NextShard} ELSE {}

UpdaterReaped ==
    /\ call = "download"
    /\ download \in {"ok", "failed"}
    /\ updater' = FALSE
    /\ download' = "none"
    /\ pending' = AfterDownload(download = "ok")
    /\ IF download = "ok" THEN call' = "mods" /\ UNCHANGED outcome
                          ELSE Return("error")
    /\ UNCHANGED <<world_id, processes, orphans, target, launching>>

ModsUpdated ==
    /\ call = "mods"
    /\ pending = {}
    /\ ~launching
    /\ Return("ok")
    /\ UNCHANGED <<world_id, processes, orphans, updater, download, pending,
                   target, launching>>

-----------------------------------------------------------------------------
(* The locked block of Runtime.start.  When a spawn fails, the shards that *)
(* were already created are stopped by force before the lock is released,  *)
(* so no reader sees a step in between; the table keeps them only if their *)
(* kill takes too long.                                                    *)
Launch ==
    /\ call = "mods"
    /\ pending = {}
    /\ launching
    /\ world_id' = target
    /\ processes' = [s \in Shards |->
                        IF s \in ShardsOf(target) THEN "alive" ELSE "none"]
    /\ orphans' = orphans \cup Abandoned
    /\ call' = "settle"
    /\ UNCHANGED <<updater, download, pending, target, launching, outcome>>

\* What the table may hold once the failed launch, which had created the
\* shards of done, has been cleaned up.
Created(done) == [s \in Shards |-> IF s \in done THEN "alive" ELSE "none"]
AfterAbort_KeepsShards(done) == {Created(done)}
AfterAbort(done) == {NoProcesses} \cup IF CanHang THEN {Created(done)} ELSE {}

LaunchFails ==
    /\ call = "mods"
    /\ pending = {}
    /\ launching
    /\ \E failing \in ShardsOf(target) :
          LET done == IF failing = "Caves" THEN {"Master"} ELSE {} IN
          /\ processes' \in AfterAbort(done)
          /\ world_id' = IF processes' = NoProcesses THEN NoWorld ELSE target
          /\ \/ orphans' = orphans \cup Abandoned
             \/ /\ CanLeak
                /\ orphans' = orphans \cup Abandoned \cup {<<target, failing>>}
    /\ Return("error")
    /\ UNCHANGED <<updater, download, pending, target, launching>>

\* One second later: a shard that has exited ends the start.
Settled == \A s \in Tracked : processes[s] = "alive"

Settle ==
    /\ call = "settle"
    /\ IF Settled THEN Return("ok") ELSE call' = "force" /\ outcome' = "error"
    /\ UNCHANGED <<world_id, processes, orphans, updater, download, pending,
                   target, launching>>

-----------------------------------------------------------------------------
(* Runtime.stop: ask every process to shut down and wait for all of them;  *)
(* the table is cleared only when they have all exited.  Without force a   *)
(* timeout raises and clears nothing; with force the process is killed,    *)
(* and only one that outlives its kill makes the call raise.               *)
StopBegins(how) ==
    /\ call = "idle"
    /\ call' = how
    /\ outcome' = "ok"
    /\ UNCHANGED <<world_id, processes, orphans, updater, download, pending,
                   target, launching>>

StopMayReturn_AnyExit == \E s \in Shards : processes[s] # "alive"
StopMayReturn == ~Active

StopReturns ==
    /\ call \in {"stop", "force"}
    /\ StopMayReturn
    /\ orphans' = orphans \cup Abandoned
    /\ world_id' = NoWorld
    /\ processes' = NoProcesses
    /\ call' = "idle"
    /\ UNCHANGED <<updater, download, pending, target, launching, outcome>>

StopTimesOut_WaitsForever == FALSE
StopTimesOut ==
    /\ call = "stop"
    /\ Active
    /\ Return("error")
    /\ UNCHANGED <<world_id, processes, orphans, updater, download, pending,
                   target, launching>>

ForceKill ==
    /\ call = "force"
    /\ Active
    /\ processes' = [s \in Shards |->
                        IF processes[s] = "alive" THEN "exited" ELSE processes[s]]
    /\ UNCHANGED <<world_id, orphans, updater, download, pending, call,
                   target, launching, outcome>>

\* process.wait(timeout=10) after the kill expires.
KillHangs ==
    /\ CanHang
    /\ call = "force"
    /\ Active
    /\ Return("error")
    /\ UNCHANGED <<world_id, processes, orphans, updater, download, pending,
                   target, launching>>

-----------------------------------------------------------------------------
(* What the processes do on their own: shards and downloaders end when     *)
(* they like, asked to or not.                                             *)
ShardExits ==
    \E s \in Alive :
        /\ processes' = [processes EXCEPT ![s] = "exited"]
        /\ UNCHANGED <<world_id, orphans, updater, download, pending, call,
                       target, launching, outcome>>

OrphanExits ==
    \E o \in orphans :
        /\ orphans' = orphans \ {o}
        /\ UNCHANGED <<world_id, processes, updater, download, pending, call,
                       target, launching, outcome>>

DownloadEnds ==
    /\ download = "running"
    /\ download' \in {"ok", "failed"}
    /\ UNCHANGED <<world_id, processes, orphans, updater, pending, call,
                   target, launching, outcome>>

\* The steps of the call in progress, and those of the processes.
CallStep ==
    \/ SpawnUpdater \/ PublishUpdater \/ DownloadTimesOut \/ UpdaterReaped
    \/ ModsUpdated \/ Launch \/ LaunchFails \/ Settle
    \/ StopReturns \/ StopTimesOut \/ ForceKill \/ KillHangs
ProcessStep == ShardExits \/ OrphanExits \/ DownloadEnds

RuntimeStep == CallStep \/ ProcessStep

Next ==
    \/ \E w \in Worlds : Start(w) \/ UpdateMods(w)
    \/ \E how \in {"stop", "force"} : StopBegins(how)
    \/ RuntimeStep

Spec == Init /\ [][Next]_rvars

-----------------------------------------------------------------------------
TypeOK ==
    /\ world_id \in Worlds \cup {NoWorld}
    /\ processes \in [Shards -> {"none", "alive", "exited"}]
    /\ orphans \subseteq Worlds \X (Shards \cup {"Mods"})
    /\ updater \in BOOLEAN
    /\ download \in {"none", "running", "ok", "failed"}
    /\ pending \subseteq Shards
    /\ call \in {"idle", "mods", "spawned", "download", "settle", "stop", "force"}
    /\ target \in Worlds \cup {NoWorld}
    /\ launching \in BOOLEAN
    /\ outcome \in {"ok", "error"}

\* README "One world runs at a time": whatever calls are made and however the
\* processes end, all game processes on the machine serve the same world.
OneWorldRuns == \A v, w \in LiveWorlds : v = w

\* Every running game process is in the table, and a table that names no
\* world has none: "stopped" means that the processes have exited, so a
\* backup taken then copies files nobody writes.
TableIsTruth ==
    /\ {o \in orphans : o[2] \in Shards} = {}
    /\ world_id = NoWorld => ~Active

\* A Workshop downloader never runs beside a game server, of whatever world
\* and known to the table or not: both would use the shared mods directory.
NoDownloadBesideGame == download = "running" => LiveGames = {}

\* A start that fails part way leaves no shard of the world in the table:
\* neither a failed spawn of the second shard nor an early exit strands the
\* first one, where killed processes end.
FailedStartLeavesNothing ==
    [][launching /\ call \in {"mods", "download", "settle", "force"}
         /\ call' = "idle" /\ outcome' = "error" => ~Active']_rvars

\* Every call returns: downloads, stops and forced stops end even when the
\* game or the downloader hangs.
CallsReturn == call # "idle" ~> call = "idle"
=============================================================================
