----------------------------- MODULE WorldFiles -----------------------------
(***************************************************************************)
(* The files of the worlds: the directory of a world, its backups, its     *)
(* logs and its archive, and the operations of service.py, storage.py and  *)
(* archives.py that move, copy, write and remove them, step by step in the *)
(* order of the code.                                                      *)
(*                                                                         *)
(* One operation runs at a time.  Beside it a game writes its save and log *)
(* readers, which may outlive their game, record players (players.py).     *)
(* Any file operation may fail, and the panel may die at any point.        *)
(***************************************************************************)
EXTENDS FiniteSets, Naturals

CONSTANTS Worlds,      \* world IDs
          NoWorld,
          Saves,       \* what the save folders of a world can hold
          Fresh,       \* the save of a world that was never generated
          Kinds,       \* for each world, what users ask for
          MaxBackups,  \* bound: backups a world has when one more is made
          MaxTroubles, \* bound: failures and deaths of the panel in a behaviour
          CanFail,     \* may a file operation raise?
          CanCrash,    \* may the panel die?
          CanLag       \* may a log reader outlive its game?

AllKinds == {"create", "edit", "start", "stop", "backup", "restore", "import",
             "recover", "archive", "delete", "purge"}
\* The operations that put other data in the place of a world's save.
Replacing == {"restore", "import", "recover"}
\* The operations inside `with self.paused(...)`.
Pausing == {"backup", "restore", "import"}

ASSUME WorldFilesAssumption ==
    /\ NoWorld \notin Worlds
    /\ Fresh \in Saves
    /\ Saves \cap {"none", "torn", "unborn", "lost"} = {}
    /\ Kinds \in [Worlds -> SUBSET AllKinds]
    /\ MaxBackups \in Nat /\ MaxTroubles \in Nat
    /\ {CanFail, CanCrash, CanLag} \subseteq BOOLEAN

(* A directory: its save folders, its pera.json with the boot preference,  *)
(* and whether the settings files written for the game agree with it.      *)
Boot == {"plain", "boot"}
Dirs == [save : Saves \cup {"none", "torn"},
         pera : Boot \cup {"none"},
         files : {"agree", "mixed", "none"}]
Absent == [save |-> "none", pera |-> "none", files |-> "none"]
\* A directory with neither save folders nor pera.json.
Bare == [save |-> Fresh, pera |-> "none", files |-> "mixed"]

\* What an rmtree that does not get through leaves of a directory.
PartlyRemoved(d) ==
    [save : {d.save, "torn"}, pera : {d.pera, "none"}, files : {"mixed"}]

VARIABLES
    root,       \* clusters/<id>
    backups,    \* backups/<id>: the listed copies
    leftovers,  \* what .previous-* directories nobody refers to hold
    logs,       \* the worlds with a logs/<id>
    archived,   \* deleted/<id>-*: the saves in them
    running,    \* the world whose game runs, or NoWorld
    late,       \* the worlds for which a log reader is about to write
    kind, world, source, target, was,  \* the operation and its locals
    step,       \* where it is
    aside,      \* its `previous`: what it moved out of the way
    result,     \* how it ends
    before,     \* history: root[world] when it began
    faults,     \* history: what went wrong during it
    troubles,   \* how many failures and deaths there have been
    present,    \* history: the save each world has to have
    damaged     \* history: worlds a crash or several faults have hit

disk == <<root, backups, leftovers, logs, archived>>
opvars == <<kind, world, source, target, was>>
game == <<running, late>>
ghosts == <<before, present, damaged>>
vars == <<disk, opvars, game, step, aside, result, ghosts, faults, troubles>>

Listed(w) == root[w].pera # "none"
Whole(d) == d.save \in Saves /\ d.pera # "none"

FilesInit ==
    /\ root = [w \in Worlds |-> Absent]
    /\ backups = [w \in Worlds |-> {}]
    /\ leftovers = [w \in Worlds |-> {}]
    /\ logs = {}
    /\ archived = [w \in Worlds |-> {}]
    /\ running = NoWorld
    /\ late = {}
    /\ kind = "stop" /\ world \in Worlds /\ source = Absent
    /\ target = "plain" /\ was = FALSE
    /\ step = "idle" /\ aside = Absent /\ result = "ok"
    /\ before = Absent /\ faults = 0 /\ troubles = 0
    /\ present = [w \in Worlds |-> "unborn"]
    /\ damaged = {}

-----------------------------------------------------------------------------
(* Asking for an operation: its refusals, and where its file work begins.  *)

\* _check_autostart
MayBoot(w, t) ==
    t = "boot" => \A other \in Worlds \ {w} : root[other].pera # "boot"

FirstStep(k) ==
    CASE k \in {"create", "edit"} -> "write"
      [] k \in Pausing \cup {"recover", "archive"} -> "snapshot"
      [] k = "delete" -> "delete"
      [] k = "purge" -> "purge"

\* create, configure: the new boot preference.
Targets(k, w) ==
    IF k \in {"create", "edit"} THEN {t \in Boot : MayBoot(w, t)}
                                ELSE {root[w].pera} \ {"none"}

\* restore, delete_backup: one of the listed backups, to restore one whose
\* pera.json can be read; import, recover: the uploaded save, the character.
Sources(k, w) ==
    CASE k = "restore" -> {b \in backups[w] : b.pera # "none"}
      [] k = "delete" -> backups[w]
      [] k \in {"import", "recover"} ->
            [save : Saves \ {Fresh}, pera : {"none"}, files : {"mixed"}]
      [] OTHER -> {Absent}

\* require_stopped, store.get and archives.delete; an ID is used once.
Allowed(k, w) ==
    CASE k = "create" -> root[w] = Absent /\ present[w] = "unborn"
      [] k \in {"edit", "recover", "archive"} -> Listed(w) /\ running # w
      [] k = "purge" -> archived[w] # {} /\ root[w] = Absent /\ running # w
      [] OTHER -> Listed(w)

\* What users give up: the backup or the archive they delete.
GivenUp(k, w, s) ==
    \/ k = "purge"
    \/ k = "delete" /\ s.save = present[w] /\ root[w].save # present[w]

\* The stop of paused() is part of it (Panel has its steps and failures).
Ask(k, w) ==
    /\ step = "idle"
    /\ k \in Kinds[w] \ {"start", "stop"}
    /\ Allowed(k, w)
    /\ FirstStep(k) = "snapshot" => Cardinality(backups[w]) <= MaxBackups
    /\ source' \in Sources(k, w)
    /\ target' \in IF k = "purge" THEN {"plain"} ELSE Targets(k, w)
    /\ kind' = k /\ world' = w
    /\ was' = (running = w)
    /\ running' = IF k \in Pausing /\ running = w THEN NoWorld ELSE running
    /\ step' = FirstStep(k)
    /\ aside' = Absent /\ result' = "ok" /\ faults' = 0
    /\ before' = root[w]
    /\ present' = IF GivenUp(k, w, source') THEN [present EXCEPT ![w] = "lost"]
                                            ELSE present
    /\ UNCHANGED <<disk, late, damaged, troubles>>

-----------------------------------------------------------------------------
(* The steps.  Each one succeeds, or fails after doing part of its work.   *)

\* stop() waits for the log readers, up to three seconds each.
Joined == CanLag \/ world \notin late

Goes(next) == step' = next /\ UNCHANGED <<result, faults, troubles>>

Keeps == UNCHANGED <<opvars, game, ghosts>>

\* _snapshot: a hidden copy, listed by its last rename.
AfterSnapshot ==
    CASE kind = "backup" -> "resume"
      [] kind \in {"restore", "recover"} -> "copy"
      [] kind = "import" -> "aside"
      [] OTHER -> "archive"

\* (The settings files in a copy are not told apart: a restore writes them.)
CopyOf(d) == [d EXCEPT !.files = "mixed"]
SnapshotTaken_NotForRecovery ==
    IF kind = "recover" THEN backups ELSE [backups EXCEPT ![world] = @ \cup {CopyOf(root[world])}]
SnapshotTaken == [backups EXCEPT ![world] = @ \cup {CopyOf(root[world])}]

Snapshot ==
    /\ step = "snapshot" /\ Joined
    /\ backups' = SnapshotTaken
    /\ Goes(AfterSnapshot)
    /\ UNCHANGED <<root, leftovers, logs, archived, aside>> /\ Keeps

\* The copy into a staging directory beside the world.
Copy ==
    /\ step = "copy"
    /\ Goes("aside")
    /\ UNCHANGED <<disk, aside>> /\ Keeps

\* root.rename(previous); for a character, target.rename(previous).
MovedAway == IF kind = "recover" THEN [root[world] EXCEPT !.save = "torn"] ELSE Absent
Aside ==
    /\ step = "aside"
    /\ root' = [root EXCEPT ![world] = MovedAway]
    /\ aside' = root[world]
    /\ Goes("swap")
    /\ UNCHANGED <<backups, leftovers, logs, archived>> /\ Keeps

\* staging.rename(root), which an existing directory refuses.
Swapped == IF kind = "recover" THEN [root[world] EXCEPT !.save = source.save] ELSE source
SwapRefused == kind # "recover" /\ root[world] # Absent
Swap ==
    /\ step = "swap"
    /\ ~SwapRefused
    /\ root' = [root EXCEPT ![world] = Swapped]
    /\ Goes(IF kind = "recover" THEN "clean" ELSE "write")
    /\ UNCHANGED <<backups, leftovers, logs, archived, aside>> /\ Keeps

\* write_world: the settings files one by one, then pera.json.
FilesWritten(d) == IF d = Absent THEN Bare ELSE [d EXCEPT !.files = "mixed"]
MetadataWritten_BackupsBoot(d) ==
    [d EXCEPT !.pera = IF kind = "restore" THEN source.pera ELSE target, !.files = "agree"]
MetadataWritten(d) == [d EXCEPT !.pera = target, !.files = "agree"]

WriteFiles ==
    /\ step = "write"
    /\ root' = [root EXCEPT ![world] = FilesWritten(@)]
    /\ Goes("metadata")
    /\ UNCHANGED <<backups, leftovers, logs, archived, aside>> /\ Keeps

AfterMetadata ==
    CASE kind = "import" -> "register"
      [] kind = "restore" -> "clean"
      [] OTHER -> "resume"

WriteMetadata ==
    /\ step = "metadata"
    /\ root' = [root EXCEPT ![world] = MetadataWritten(@)]
    /\ Goes(AfterMetadata)
    /\ UNCHANGED <<backups, leftovers, logs, archived, aside>> /\ Keeps

\* import_save: discover and record_many write pera-players.json.
Register ==
    /\ step = "register"
    /\ Goes("clean")
    /\ UNCHANGED <<disk, aside>> /\ Keeps

\* shutil.rmtree(previous)
Clean ==
    /\ step = "clean"
    /\ aside' = Absent
    /\ Goes("resume")
    /\ UNCHANGED disk /\ Keeps

\* The handler of a replacement: rmtree(root), then previous.rename(root).
Undo ==
    /\ step = "undo"
    /\ root' = [root EXCEPT ![world] = Absent]
    /\ Goes("restoring")
    /\ UNCHANGED <<backups, leftovers, logs, archived, aside>> /\ Keeps

Restored_NotTheCharacter == IF kind = "recover" THEN root[world] ELSE aside
Restored ==
    IF kind = "recover" THEN [root[world] EXCEPT !.save = aside.save] ELSE aside
PutBack ==
    /\ step = "restoring"
    /\ kind # "recover" => root[world] = Absent
    /\ root' = [root EXCEPT ![world] = Restored]
    /\ aside' = Absent
    /\ Goes("resume")
    /\ UNCHANGED <<backups, leftovers, logs, archived>> /\ Keeps

\* delete: the directory becomes an archive.
Archive ==
    /\ step = "archive"
    /\ archived' = [archived EXCEPT ![world] = @ \cup {root[world].save}]
    /\ root' = [root EXCEPT ![world] = Absent]
    /\ Goes("resume")
    /\ UNCHANGED <<backups, leftovers, logs, aside>> /\ Keeps

DeleteBackup ==
    /\ step = "delete"
    /\ backups' = [backups EXCEPT ![world] = @ \ {source}]
    /\ Goes("resume")
    /\ UNCHANGED <<root, leftovers, logs, archived, aside>> /\ Keeps

\* archives.delete: what exists of the backups, the logs and the archive, in
\* this order.
PurgeNext_ArchiveFirst ==
    CASE archived[world] # {} -> "archive"
      [] archived[world] = {} /\ backups[world] # {} -> "backups"
      [] OTHER -> "logs"
PurgeNext ==
    CASE backups[world] # {} -> "backups"
      [] backups[world] = {} /\ world \in logs -> "logs"
      [] OTHER -> "archive"

Purge ==
    /\ step = "purge"
    /\ backups' = IF PurgeNext = "backups" THEN [backups EXCEPT ![world] = {}] ELSE backups
    /\ logs' = IF PurgeNext = "logs" THEN logs \ {world} ELSE logs
    /\ archived' = IF PurgeNext = "archive" THEN [archived EXCEPT ![world] = {}]
                                            ELSE archived
    /\ Goes(IF backups'[world] = {} /\ world \notin logs' /\ archived'[world] = {}
            THEN "resume" ELSE "purge")
    /\ UNCHANGED <<root, leftovers, aside>> /\ Keeps

-----------------------------------------------------------------------------
(* What goes wrong.                                                        *)

\* The previous directory exists and only the operation knows of it.
Exposed == {"swap", "write", "metadata", "register", "clean", "undo", "restoring"}
MovedOut == kind \in {"restore", "import"} /\ step \in Exposed
\* It stays, whatever it holds: no handler looks at it.
AsideKept == [leftovers EXCEPT ![world] = @ \cup {aside.save}]

\* What a step has done to the disk when it is cut short.
CutShort ==
    /\ root' \in CASE step = "write" ->
                        {root, [root EXCEPT ![world] = FilesWritten(@)]}
                   [] step = "undo" /\ root[world] # Absent ->
                        {[root EXCEPT ![world] = d] : d \in PartlyRemoved(root[world])}
                   [] OTHER -> {root}
    /\ backups' \in CASE step = "delete" ->
                           {[backups EXCEPT ![world] = (@ \ {source}) \cup left] :
                               left \in {{}, {source}, {[source EXCEPT !.save = "torn"]}}}
                      [] step = "purge" /\ PurgeNext = "backups" ->
                           {[backups EXCEPT ![world] = left] : left \in SUBSET backups[world]}
                      [] OTHER -> {backups}
    /\ archived' \in IF step = "purge" /\ PurgeNext = "archive"
                     THEN {archived, [archived EXCEPT ![world] = {"torn"}]} ELSE {archived}
    /\ UNCHANGED logs

\* Where an exception is handled.
Handler_OfSwapOnly ==
    CASE step = "swap" /\ kind = "recover" -> "restoring"
      [] step = "swap" /\ kind # "recover" -> "undo"
      [] OTHER -> "resume"
Handler ==
    CASE step = "swap" /\ kind = "recover" -> "restoring"
      [] kind \in {"restore", "import"}
            /\ step \in {"swap", "write", "metadata", "register"} -> "undo"
      [] OTHER -> "resume"

Escapes == Handler = "resume"
Worse == IF faults = 0 THEN 1 ELSE 2

Trouble == troubles < MaxTroubles /\ troubles' = troubles + 1

\* A file operation raises.
StepFails ==
    /\ CanFail
    /\ step \notin {"idle", "resume"}
    /\ step = "undo" => root[world] # Absent
    /\ CutShort
    /\ leftovers' \in IF ~MovedOut \/ ~Escapes THEN {leftovers}
                      ELSE {AsideKept} \cup (IF step = "clean" THEN {leftovers} ELSE {})
    /\ step' = Handler
    /\ aside' = IF Escapes THEN Absent ELSE aside
    /\ result' = IF step = "clean" THEN "unclean" ELSE "failed"
    /\ faults' = Worse
    /\ Trouble
    /\ Keeps

\* rename onto a directory that a late log reader has made.
RenameRefused ==
    /\ step \in {"swap", "restoring"}
    /\ kind # "recover" /\ root[world] # Absent
    /\ leftovers' = IF step = "swap" THEN leftovers ELSE AsideKept
    /\ step' = Handler
    /\ aside' = IF Escapes THEN Absent ELSE aside
    /\ result' = "failed"
    /\ UNCHANGED <<root, backups, logs, archived, faults, troubles>> /\ Keeps

\* The panel dies, in the middle of a step or between two, and with it the
\* games and their readers.  (An idle panel's death only stops the game.)
OperationForgotten ==
    /\ kind' = "stop" /\ source' = Absent /\ target' = "plain" /\ was' = FALSE
    /\ step' = "idle" /\ aside' = Absent /\ result' = "ok"
    /\ before' = Absent /\ faults' = 0
    /\ UNCHANGED world

PanelDies ==
    /\ CanCrash /\ step # "idle"
    /\ CutShort
    /\ leftovers' \in IF ~MovedOut THEN {leftovers}
                      ELSE {AsideKept} \cup (IF step = "clean" THEN {leftovers} ELSE {})
    /\ running' = NoWorld
    /\ late' = {}
    /\ damaged' = damaged \cup {world}
    /\ Trouble
    /\ OperationForgotten
    /\ UNCHANGED present

-----------------------------------------------------------------------------
(* Starting games, and the end of an operation.                            *)

\* Runtime.start writes the settings from pera.json before it launches.
Repaired_Not(d) == d
Repaired(d) == [d EXCEPT !.files = "agree"]
Launch(w) ==
    /\ root' = [root EXCEPT ![w] = Repaired(@)]
    /\ running' = w
    /\ logs' = logs \cup {w}

Start(w) ==
    /\ step = "idle" /\ "start" \in Kinds[w]
    /\ Listed(w) /\ running = NoWorld
    /\ Launch(w)
    /\ present' = IF root[w].save \in Saves THEN [present EXCEPT ![w] = root[w].save]
                                            ELSE present
    /\ UNCHANGED <<backups, leftovers, archived, opvars, step, aside, result,
                   late, before, damaged, faults, troubles>>

\* Stop, or the game ends by itself.
Stop(w) ==
    /\ running = w
    /\ running' = NoWorld
    /\ UNCHANGED <<disk, opvars, late, step, aside, result, ghosts, faults, troubles>>

\* paused(): a world that ran is started again, except after an import that
\* went well.
Restarts ==
    /\ kind \in Pausing /\ was /\ Listed(world)
    /\ kind = "import" => result # "ok"

\* History: the data users have to find again, and the worlds past promise.
NewPresent ==
    IF result = "ok" /\ kind \in Replacing \cup {"create"} /\ root[world].save \in Saves
    THEN [present EXCEPT ![world] = root[world].save] ELSE present
NewDamaged ==
    IF faults = 2 \/ (kind = "restore" /\ source.save = "torn") THEN damaged \cup {world}
    ELSE damaged

Resume ==
    /\ step = "resume"
    /\ \/ Restarts /\ Launch(world)
       \/ (~Restarts \/ CanFail) /\ UNCHANGED <<root, running, logs>>
    /\ present' = NewPresent
    /\ damaged' = NewDamaged
    /\ OperationForgotten
    /\ UNCHANGED <<backups, leftovers, archived, late, troubles>>

-----------------------------------------------------------------------------
(* The game and the log readers.                                           *)

GameWrites(w, s) ==
    /\ running = w
    /\ root' = [root EXCEPT ![w].save = s]
    /\ present' = IF root[w].save = present[w] THEN [present EXCEPT ![w] = s] ELSE present
    /\ UNCHANGED <<backups, leftovers, logs, archived, opvars, game, step, aside,
                   result, before, damaged, faults, troubles>>

\* record_many: the world is looked up, then its players are written, perhaps
\* after its game has ended.  (A look-up by a reader that lags already is no
\* different from one made while the game ran.)
ReaderChecks(w) ==
    /\ running = w /\ Listed(w)
    /\ late' = late \cup {w}
    /\ UNCHANGED <<disk, opvars, running, step, aside, result, ghosts, faults, troubles>>

ReaderWrites(w) ==
    /\ w \in late
    /\ late' = late \ {w}
    /\ root' = IF root[w] = Absent THEN [root EXCEPT ![w] = Bare] ELSE root
    /\ faults' = IF root[w] = Absent /\ step # "idle" /\ world = w THEN Worse ELSE faults
    /\ UNCHANGED <<backups, leftovers, logs, archived, opvars, running, step, aside,
                   result, ghosts, troubles>>

-----------------------------------------------------------------------------
Steps ==
    \/ Snapshot \/ Copy \/ Aside \/ Swap \/ WriteFiles \/ WriteMetadata \/ Register
    \/ Clean \/ Undo \/ PutBack \/ Archive \/ DeleteBackup \/ Purge \/ Resume
Troubles == StepFails \/ RenameRefused \/ PanelDies
FilesNext ==
    \/ \E w \in Worlds :
          \/ \E k \in Kinds[w] : Ask(k, w)
          \/ Start(w) \/ Stop(w) \/ \E s \in Saves \ {Fresh} : GameWrites(w, s)
          \/ ReaderChecks(w) \/ ReaderWrites(w)
    \/ Steps \/ Troubles

FilesSpec == FilesInit /\ [][FilesNext]_vars

-----------------------------------------------------------------------------
(* The store the operations promise.  While one works on a directory, what  *)
(* counts is the directory it found (Base) and what it is going to leave    *)
(* (Promise).                                                               *)
InWork == step # "idle" /\ kind \notin {"delete", "purge"}
Base(w) == IF InWork /\ w = world THEN before ELSE root[w]

Seen(d) == [save |-> d.save, pera |-> d.pera]
Promise ==
    CASE result = "failed" \/ kind = "backup" -> Seen(before)
      [] result # "failed" /\ kind = "archive" -> Seen(Absent)
      [] OTHER ->
            [save |-> CASE kind = "create" -> Fresh
                        [] kind = "edit" -> before.save
                        [] OTHER -> source.save,
             pera |-> target]

\* The worlds nothing is promised of: a second fault, or a torn backup chosen.
struck == damaged \cup {w \in {world} :
                           /\ InWork
                           /\ faults = 2 \/ (kind = "restore" /\ source.save = "torn")}
store == [w \in Worlds |-> IF w \in struck THEN Seen(Absent) ELSE Seen(Base(w))]
pending == {p \in {<<world, Promise>>} : InWork /\ world \notin struck}

Store == INSTANCE AtomicStore WITH Boots <- Boot

-----------------------------------------------------------------------------
(* Properties.                                                             *)

StepNames == Exposed \cup {"idle", "snapshot", "copy", "aside", "archive", "delete",
                           "purge", "resume"}

\* The variables have their types.
FilesTypeOK ==
    /\ root \in [Worlds -> Dirs]
    /\ backups \in [Worlds -> SUBSET Dirs]
    /\ leftovers \in [Worlds -> SUBSET (Saves \cup {"none", "torn"})]
    /\ logs \subseteq Worlds
    /\ archived \in [Worlds -> SUBSET (Saves \cup {"none", "torn"})]
    /\ running \in Worlds \cup {NoWorld}
    /\ late \subseteq Worlds
    /\ kind \in AllKinds /\ world \in Worlds /\ source \in Dirs
    /\ target \in Boot /\ was \in BOOLEAN
    /\ step \in StepNames /\ aside \in Dirs
    /\ result \in {"ok", "failed", "unclean"}
    /\ before \in Dirs /\ faults \in 0..2 /\ troubles \in Nat
    /\ present \in [Worlds -> Saves \cup {"unborn", "lost"}]
    /\ damaged \subseteq Worlds

\* Where a world's data can be found outside its directory.
SafeCopies(w) == {b.save : b \in backups[w]} \cup leftovers[w] \cup archived[w]

\* Whatever fails, and wherever the panel dies, the save a world had before
\* an operation is still whole in its directory, in a backup, in the archive
\* or in a directory set aside, until its user deletes that copy.
PresentKept ==
    \A w \in Worlds : present[w] \in Saves =>
        \/ root[w].save = present[w]
        \/ present[w] \in SafeCopies(w)

\* A single failure during an operation, a late log reader included, leaves a
\* complete directory: saves in one piece and a pera.json.
OneFaultAbsorbed ==
    \A w \in Worlds \ damaged :
        step = "idle" /\ present[w] # "unborn" /\ archived[w] = {} =>
        Whole(root[w]) \/ present[w] = "lost"

\* Each operation takes place at once or, after one failure, not at all.
StoreSpec == Store!Spec

\* When an operation fails before its clean-up, by one failure, the world's
\* save and metadata are the ones it had.
FailureChangesNothing ==
    step = "resume" /\ result = "failed" /\ faults = 1
        /\ kind \in Replacing \cup {"backup", "edit", "archive"} =>
    root[world].save = before.save /\ root[world].pera = before.pera

\* At most one world starts at boot, restored boot preferences and failed
\* writes included.
OneBootWorld ==
    step = "idle" /\ damaged = {} =>
    Cardinality({w \in Worlds : root[w].pera = "boot"}) <= 1

\* The world of a game that runs is on the dashboard, and the game runs with
\* settings files that agree with its pera.json, although a failed or interrupted
\* write_world leaves others.
LaunchedAsConfigured ==
    running # NoWorld => root[running].pera # "none" /\ root[running].files = "agree"

\* archives.delete goes through: there is an archive, and no directory beside it.
Deletable(w) == archived[w] # {} /\ root[w] = Absent
\* What a late log reader makes of a world that is gone.
Revived(w) == Seen(root[w]) = Seen(Bare)

\* However far Archive world, Delete archive and their retries get, backups and
\* logs of a world always have a world on the dashboard or a deletable archive
\* through which they can be removed.  The exception is one: a late log reader
\* has made a directory for the archived world, and while it is there the
\* deletion is refused (ArchiveDeletable).
NothingOrphaned ==
    \A w \in Worlds \ damaged :
        step = "idle" /\ (backups[w] # {} \/ w \in logs) =>
        Listed(w) \/ Deletable(w) \/ (archived[w] # {} /\ Revived(w))

\* What README.md says of archives: only a world that is still on the dashboard
\* has to be archived before its data can be deleted, so an archived world that
\* is not can be deleted for good.  (A late log reader brings back its directory.)
ArchiveDeletable ==
    \A w \in Worlds : step = "idle" /\ archived[w] # {} => Listed(w) \/ Deletable(w)
=============================================================================
