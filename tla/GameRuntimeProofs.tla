------------------------- MODULE GameRuntimeProofs -------------------------
(***************************************************************************)
(* Proofs about the process table, for any set of worlds.  The inductive   *)
(* invariant adds to the types what the properties rest on: a table that   *)
(* names no world holds no live process, and no game lives from the moment *)
(* a call is accepted to download or to launch until it launches.          *)
(***************************************************************************)
EXTENDS GameRuntime, TLAPS

TableInv ==
    /\ world_id = NoWorld => ~Active
    /\ call \in {"mods", "spawned", "download"} => ~Active /\ target \in Worlds
    /\ download # "none" => call \in {"spawned", "download"}

RInv == TypeOK /\ TableInv

-----------------------------------------------------------------------------
(* Overwriting the table loses no process when no shard is alive.          *)
LEMMA NothingAbandoned == ~Active => Abandoned = {}
  BY DEF Active, Abandoned

LEMMA NoProcessesFacts ==
    /\ NoProcesses \in [Shards -> {"none", "alive", "exited"}]
    /\ \A s \in Shards : NoProcesses[s] = "none"
  BY DEF NoProcesses

LEMMA AfterAbortType ==
    ASSUME NEW done PROVE AfterAbort(done) \subseteq [Shards -> {"none", "alive", "exited"}]
<1>1. Created(done) \in [Shards -> {"none", "alive", "exited"}]
  BY DEF Created
<1> QED BY <1>1, NoProcessesFacts DEF AfterAbort

LEMMA ShardsOfType == ASSUME NEW w PROVE ShardsOf(w) \subseteq Shards
  BY DEF ShardsOf, Shards

LEMMA RInvInit == Init => RInv
  BY RuntimeAssumption
  DEF Init, RInv, TypeOK, TableInv, NoProcesses, Active, Alive, Shards

(* The calls that begin.                                                   *)
LEMMA StartStep ==
    ASSUME RInv, NEW w \in Worlds, Start(w)
    PROVE  RInv' /\ orphans' = orphans
<1>1. CASE StartRefused(w)
  BY <1>1 DEF StartRefused, Start, Return, RInv, TypeOK, TableInv, Active, Alive
<1>2. CASE StartAccepted(w)
  <2>1. ~Active /\ orphans' = orphans
    BY <1>2, NothingAbandoned DEF StartAccepted, MayStart
  <2>2. TypeOK'
    BY <1>2, <2>1, NoProcessesFacts, ShardsOfType, RuntimeAssumption
    DEF StartAccepted, Return, RInv, TypeOK
  <2>3. ~Active'
    BY <1>2, NoProcessesFacts DEF StartAccepted, Active, Alive
  <2>4. TableInv'
    BY <1>2, <2>3 DEF StartAccepted, Start, Return, RInv, TableInv
  <2> QED BY <2>1, <2>2, <2>4 DEF RInv
<1> QED BY <1>1, <1>2 DEF Start

LEMMA UpdateModsStep ==
    ASSUME RInv, NEW w \in Worlds, UpdateMods(w)
    PROVE  RInv' /\ orphans' = orphans
<1>1. TypeOK'
  BY ShardsOfType DEF UpdateMods, Return, RInv, TypeOK
<1>2. TableInv'
  BY DEF UpdateMods, Return, RInv, TableInv, MayUpdateMods, Active, Alive
<1> QED BY <1>1, <1>2 DEF RInv, UpdateMods

LEMMA StopBeginsStep ==
    ASSUME RInv, NEW how \in {"stop", "force"}, StopBegins(how)
    PROVE  RInv' /\ orphans' = orphans
  BY DEF StopBegins, RInv, TypeOK, TableInv, Active, Alive

(* The steps of a call and of the processes.  Only a failed spawn makes an *)
(* orphan, and of a game only while a world is launched.                   *)
Leaks == CanLeak /\ \E s \in Shards \cup {"Mods"} :
                        orphans' = orphans \cup {<<target, s>>}

LEMMA RuntimeMoveStep ==
    ASSUME RInv, RuntimeStep
    PROVE  RInv' /\ (orphans' \subseteq orphans \/ Leaks)
<1> USE DEF RInv
<1>1. CASE SpawnUpdater
  <2>1. orphans' = orphans \/ (CanLeak /\ orphans' = orphans \cup {<<target, "Mods">>})
    BY <1>1 DEF SpawnUpdater
  <2>2. target \in Worlds
    BY <1>1 DEF SpawnUpdater, TableInv
  <2>3. orphans' \subseteq Worlds \X (Shards \cup {"Mods"})
    BY <2>1, <2>2 DEF TypeOK
  <2>4. TypeOK'
    BY <1>1, <2>3 DEF SpawnUpdater, TypeOK, Return
  <2>5. TableInv'
    BY <1>1 DEF SpawnUpdater, TableInv, Return, Active, Alive
  <2> QED BY <2>1, <2>4, <2>5 DEF Leaks
<1>2. CASE PublishUpdater
  BY <1>2 DEF PublishUpdater, TypeOK, TableInv, Active, Alive
<1>3. CASE DownloadTimesOut
  BY <1>3 DEF DownloadTimesOut, TypeOK, TableInv, Active, Alive
<1>4. CASE UpdaterReaped
  BY <1>4 DEF UpdaterReaped, AfterDownload, Return, TypeOK, TableInv, Active, Alive
<1>5. CASE ModsUpdated
  BY <1>5 DEF ModsUpdated, Return, TypeOK, TableInv, Active, Alive
<1>6. CASE Launch
  <2>1. orphans' = orphans /\ target \in Worlds
    BY <1>6, NothingAbandoned DEF Launch, TableInv
  <2>2. TypeOK'
    BY <1>6, <2>1 DEF Launch, TypeOK
  <2>3. TableInv'
    BY <1>6, <2>1, RuntimeAssumption DEF Launch, TableInv
  <2> QED BY <2>1, <2>2, <2>3
<1>7. CASE LaunchFails
  <2>1. ~Active /\ target \in Worlds
    BY <1>7 DEF LaunchFails, TableInv
  <2>2. PICK failing \in ShardsOf(target) :
          orphans' = orphans \/ (CanLeak /\ orphans' = orphans \cup {<<target, failing>>})
    BY <1>7, <2>1, NothingAbandoned DEF LaunchFails
  <2>3. failing \in Shards
    BY <2>2, ShardsOfType
  <2>4. orphans' \subseteq Worlds \X (Shards \cup {"Mods"})
    BY <2>1, <2>2, <2>3 DEF TypeOK
  <2>5. /\ processes' \in [Shards -> {"none", "alive", "exited"}]
        /\ world_id' = IF processes' = NoProcesses THEN NoWorld ELSE target
    BY <1>7, AfterAbortType DEF LaunchFails
  <2>6. TypeOK'
    BY <1>7, <2>1, <2>4, <2>5 DEF LaunchFails, TypeOK, Return
  <2>7. world_id' = NoWorld => ~Active'
    BY <2>1, <2>5, NoProcessesFacts, RuntimeAssumption DEF Active, Alive
  <2>8. TableInv'
    BY <1>7, <2>7 DEF LaunchFails, TableInv, Return
  <2> QED BY <2>2, <2>3, <2>6, <2>8 DEF Leaks
<1>8. CASE Settle
  BY <1>8 DEF Settle, Return, TypeOK, TableInv, Active, Alive
<1>9. CASE StopReturns
  <2>1. orphans' = orphans
    BY <1>9, NothingAbandoned DEF StopReturns, StopMayReturn
  <2>2. TypeOK' /\ TableInv'
    BY <1>9, <2>1, NoProcessesFacts
    DEF StopReturns, TypeOK, TableInv, Active, Alive
  <2> QED BY <2>1, <2>2
<1>10. CASE StopTimesOut
  BY <1>10 DEF StopTimesOut, Return, TypeOK, TableInv, Active, Alive
<1>11. CASE ForceKill
  BY <1>11 DEF ForceKill, TypeOK, TableInv, Active, Alive
<1>12. CASE ShardExits
  BY <1>12 DEF ShardExits, TypeOK, TableInv, Active, Alive
<1>13. CASE OrphanExits
  BY <1>13 DEF OrphanExits, TypeOK, TableInv, Active, Alive
<1>14. CASE DownloadEnds
  BY <1>14 DEF DownloadEnds, TypeOK, TableInv, Active, Alive
<1>15. CASE KillHangs
  BY <1>15 DEF KillHangs, Return, TypeOK, TableInv, Active, Alive
<1> QED
  BY <1>1, <1>2, <1>3, <1>4, <1>5, <1>6, <1>7, <1>8, <1>9, <1>10, <1>11, <1>12,
     <1>13, <1>14, <1>15
  DEF RuntimeStep, CallStep, ProcessStep

-----------------------------------------------------------------------------
LEMMA RInvStep == RInv /\ [Next]_rvars => RInv' /\ (orphans' \subseteq orphans \/ Leaks)
<1> SUFFICES ASSUME RInv, [Next]_rvars
             PROVE  RInv' /\ (orphans' \subseteq orphans \/ Leaks)
  OBVIOUS
<1>1. ASSUME NEW w \in Worlds, Start(w) \/ UpdateMods(w)
      PROVE  RInv' /\ orphans' \subseteq orphans
  BY <1>1, StartStep, UpdateModsStep
<1>2. ASSUME NEW how \in {"stop", "force"}, StopBegins(how)
      PROVE  RInv' /\ orphans' \subseteq orphans
  BY <1>2, StopBeginsStep
<1>3. CASE RuntimeStep
  BY <1>3, RuntimeMoveStep
<1>4. CASE UNCHANGED rvars
  BY <1>4 DEF rvars, RInv, TypeOK, TableInv, Active, Alive
<1> QED BY <1>1, <1>2, <1>3, <1>4 DEF Next

\* The invariant of the process table: types, no live process in a table
\* without a world, and no game alive while a call prepares a launch.
THEOREM TableInvariant == Spec => []RInv
<1>1. Init => RInv
  BY RInvInit
<1>2. RInv /\ [Next]_rvars => RInv'
  BY RInvStep
<1> QED BY <1>1, <1>2, PTL DEF Spec

\* Type correctness of the process table.
THEOREM TypeCorrect == Spec => []TypeOK
<1>1. RInv => TypeOK
  BY DEF RInv
<1> QED BY <1>1, TableInvariant, PTL

\* A start that fails part way leaves nothing alive in the table, even when
\* spawns leak processes, where a killed process ends.
THEOREM FailedStartsLeaveNothing == ASSUME ~CanHang PROVE Spec => FailedStartLeavesNothing
<1>1. RInv /\ [Next]_rvars
        => [launching /\ call \in {"mods", "download", "settle", "force"}
             /\ call' = "idle" /\ outcome' = "error" => ~Active']_rvars
  <2> SUFFICES ASSUME RInv, [Next]_rvars, launching,
                      call \in {"mods", "download", "settle", "force"},
                      call' = "idle", outcome' = "error"
               PROVE  ~Active'
    BY DEF RInv
  <2>1. CASE SpawnUpdater \/ UpdaterReaped \/ ModsUpdated
    BY <2>1 DEF SpawnUpdater, UpdaterReaped, ModsUpdated, RInv, TableInv, Active, Alive
  <2>2. CASE LaunchFails \/ StopReturns
    <3>1. processes' = NoProcesses
      BY <2>2 DEF LaunchFails, AfterAbort, StopReturns
    <3> QED BY <3>1, NoProcessesFacts DEF Active, Alive
  <2>3. CASE Settle
    BY <2>3 DEF Settle, Return
  <2>4. CASE PublishUpdater \/ DownloadTimesOut \/ Launch \/ StopTimesOut \/ ForceKill \/ KillHangs
    BY <2>4 DEF PublishUpdater, DownloadTimesOut, Launch, StopTimesOut, ForceKill, KillHangs
  <2>5. CASE ProcessStep
    BY <2>5 DEF ProcessStep, ShardExits, OrphanExits, DownloadEnds
  <2>6. CASE UNCHANGED rvars
    BY <2>6 DEF rvars
  <2>7. ASSUME NEW w \in Worlds, Start(w) \/ UpdateMods(w) PROVE FALSE
    BY <2>7 DEF Start, UpdateMods
  <2>8. ASSUME NEW how \in {"stop", "force"}, StopBegins(how) PROVE FALSE
    BY <2>8 DEF StopBegins
  <2> QED BY <2>1, <2>2, <2>3, <2>4, <2>5, <2>6, <2>7, <2>8
          DEF Next, RuntimeStep, CallStep
<1> QED BY <1>1, TableInvariant, PTL DEF Spec, FailedStartLeavesNothing

-----------------------------------------------------------------------------
(* When _spawn either creates a process that is kept or creates none.      *)
NoOrphans == orphans = {}

LEMMA NoOrphansStep == ~CanLeak /\ NoOrphans /\ RInv /\ [Next]_rvars => NoOrphans'
  BY RInvStep DEF NoOrphans, Leaks

\* The table is the truth about the games that run: provided spawning is all
\* or nothing, each of them is in the table, and a table that names no world
\* means that every game has exited.
THEOREM TableCorrect == ASSUME ~CanLeak PROVE Spec => []TableIsTruth
<1>1. Init => NoOrphans
  BY DEF Init, NoOrphans
<1>2. NoOrphans /\ RInv /\ [Next]_rvars => NoOrphans'
  BY NoOrphansStep
<1>3. NoOrphans /\ RInv => TableIsTruth
  BY DEF NoOrphans, RInv, TableInv, TableIsTruth
<1> QED BY <1>1, <1>2, <1>3, TableInvariant, PTL DEF Spec

\* No downloader runs beside a game, of whatever world, under the same
\* proviso: a leaked game is in no table, and the next start downloads
\* beside it.
THEOREM DownloadsRunAlone == ASSUME ~CanLeak PROVE Spec => []NoDownloadBesideGame
<1>1. Init => NoOrphans
  BY DEF Init, NoOrphans
<1>2. NoOrphans /\ RInv /\ [Next]_rvars => NoOrphans'
  BY NoOrphansStep
<1>3. NoOrphans /\ RInv => NoDownloadBesideGame
  BY NothingAbandoned
  DEF NoOrphans, RInv, TableInv, NoDownloadBesideGame, LiveGames
<1> QED BY <1>1, <1>2, <1>3, TableInvariant, PTL DEF Spec

\* One world runs at a time, under the same proviso.
THEOREM OneWorldAtATime == ASSUME ~CanLeak PROVE Spec => []OneWorldRuns
<1>1. TableIsTruth => OneWorldRuns
  BY DEF TableIsTruth, OneWorldRuns, LiveWorlds, LiveGames, Abandoned
<1> QED BY <1>1, TableCorrect, PTL
=============================================================================
