-------------------------- MODULE WorldFilesProofs --------------------------
(* What holds of the worlds' files for every set of worlds and every mix of *)
(* operations, failures, late readers and deaths of the panel.              *)
EXTENDS WorldFiles, FiniteSetTheorems, TLAPS

\* The directories the steps build are directories.
LEMMA Empty == Absent \in Dirs /\ Bare \in Dirs
  BY WorldFilesAssumption DEF Dirs, Absent, Bare, Boot

LEMMA Idle == "stop" \in AllKinds /\ "plain" \in Boot /\ "idle" \in StepNames
  BY DEF AllKinds, Boot, StepNames

LEMMA DirsClosed ==
    ASSUME NEW d \in Dirs
    PROVE  /\ d.save \in Saves \cup {"none", "torn"}
           /\ PartlyRemoved(d) \subseteq Dirs
           /\ CopyOf(d) \in Dirs /\ FilesWritten(d) \in Dirs
           /\ Repaired(d) \in Dirs
           /\ target \in Boot => MetadataWritten(d) \in Dirs
           /\ \A s \in Saves \cup {"none", "torn"} : [d EXCEPT !.save = s] \in Dirs
  BY Empty DEF Dirs, PartlyRemoved, CopyOf, FilesWritten, Repaired, MetadataWritten, Boot

\* Sources and preferences an operation is asked with.
LEMMA AskTyped ==
    ASSUME FilesTypeOK, NEW k \in AllKinds, NEW w \in Worlds
    PROVE  Targets(k, w) \subseteq Boot /\ Sources(k, w) \subseteq Dirs
<1>1. root[w] \in Dirs /\ backups[w] \subseteq Dirs
  BY DEF FilesTypeOK
<1>2. Targets(k, w) \subseteq Boot
  BY <1>1 DEF Targets, Dirs, Boot
<1>3. [save : Saves \ {Fresh}, pera : {"none"}, files : {"mixed"}] \subseteq Dirs
  BY DEF Dirs
<1>4. Sources(k, w) \subseteq Dirs
  BY <1>1, <1>3, Empty DEF Sources
<1> QED BY <1>2, <1>4

\* Every step keeps the types.
LEMMA TypeStep == FilesTypeOK /\ [FilesNext]_vars => FilesTypeOK'
<1> SUFFICES ASSUME FilesTypeOK, [FilesNext]_vars PROVE FilesTypeOK'
  OBVIOUS
<1> USE DEF FilesTypeOK, Keeps, opvars, game, ghosts
<1>t. /\ root[world] \in Dirs /\ aside \in Dirs /\ source \in Dirs
      /\ world \in Worlds /\ target \in Boot
  OBVIOUS
<1>d. \A d \in Dirs : d.save \in Saves \cup {"none", "torn"}
  BY DirsClosed
<1>1. ASSUME NEW w \in Worlds, NEW k \in Kinds[w], Ask(k, w) PROVE FilesTypeOK'
  <2>1. k \in AllKinds
    BY WorldFilesAssumption
  <2>2. target' \in Boot /\ source' \in Dirs
    BY <1>1, <2>1, AskTyped DEF Ask, Boot
  <2>3. step' \in StepNames
    BY <1>1, <2>1 DEF Ask, Allowed, FirstStep, StepNames, Exposed, AllKinds, Pausing
  <2>4. present' \in [Worlds -> Saves \cup {"unborn", "lost"}]
    BY <1>1 DEF Ask
  <2>5. UNCHANGED <<disk, late, damaged, troubles>> /\ before' = root[w]
        /\ kind' = k /\ world' = w /\ was' \in BOOLEAN /\ running' \in Worlds \cup {NoWorld}
        /\ aside' = Absent /\ result' = "ok" /\ faults' = 0
    BY <1>1 DEF Ask
  <2> QED BY <2>1, <2>2, <2>3, <2>4, <2>5, Empty DEF disk
<1>2. CASE Snapshot
  <2>1. CopyOf(root[world]) \in Dirs
    BY <1>t, DirsClosed
  <2>2. step' \in StepNames
    BY <1>2 DEF Snapshot, Goes, AfterSnapshot, StepNames, Exposed
  <2> QED BY <1>2, <1>t, <2>1, <2>2 DEF Snapshot, Goes, SnapshotTaken
<1>3. CASE Copy \/ Register
  BY <1>3 DEF Copy, Register, Goes, disk, StepNames, Exposed
<1>4. CASE Aside
  <2>1. MovedAway \in Dirs
    BY <1>t, DirsClosed, Empty DEF MovedAway
  <2> QED BY <1>4, <1>t, <2>1 DEF Aside, Goes, StepNames, Exposed
<1>5. CASE Swap
  <2>1. Swapped \in Dirs
    BY <1>t, <1>d, DirsClosed DEF Swapped
  <2> QED BY <1>5, <1>t, <2>1 DEF Swap, Goes, StepNames, Exposed
<1>6. CASE WriteFiles
  <2>1. FilesWritten(root[world]) \in Dirs
    BY <1>t, DirsClosed
  <2> QED BY <1>6, <1>t, <2>1 DEF WriteFiles, Goes, StepNames, Exposed
<1>7. CASE WriteMetadata
  <2>1. MetadataWritten(root[world]) \in Dirs
    BY <1>t, DirsClosed
  <2> QED BY <1>7, <1>t, <2>1 DEF WriteMetadata, Goes, AfterMetadata, StepNames, Exposed
<1>8. CASE Clean
  BY <1>8, Empty DEF Clean, Goes, disk, StepNames
<1>9. CASE Undo
  BY <1>9, <1>t, Empty DEF Undo, Goes, StepNames, Exposed
<1>10. CASE PutBack
  <2>1. Restored \in Dirs
    BY <1>t, <1>d, DirsClosed DEF Restored
  <2> QED BY <1>10, <1>t, <2>1, Empty DEF PutBack, Goes, StepNames
<1>11. CASE Archive
  BY <1>11, <1>t, <1>d, Empty DEF Archive, Goes, StepNames
<1>12. CASE DeleteBackup
  BY <1>12, <1>t DEF DeleteBackup, Goes, StepNames
<1>13. CASE Purge
  BY <1>13, <1>t DEF Purge, Goes, StepNames
<1>o. ASSUME OperationForgotten
      PROVE  /\ kind' \in AllKinds /\ source' \in Dirs /\ target' \in Boot /\ was' \in BOOLEAN
             /\ step' \in StepNames /\ aside' \in Dirs /\ before' \in Dirs /\ faults' \in 0..2
             /\ result' \in {"ok", "failed", "unclean"} /\ world' = world
  <2>1. was' \in BOOLEAN
    BY <1>o, Zenon DEF OperationForgotten
  <2> QED BY <1>o, <2>1, Empty, Idle DEF OperationForgotten
<1>14. CASE Resume
  <2>1. root' \in [Worlds -> Dirs] /\ running' \in Worlds \cup {NoWorld} /\ logs' \subseteq Worlds
    BY <1>14, <1>t, DirsClosed DEF Resume, Launch
  <2>2. present' \in [Worlds -> Saves \cup {"unborn", "lost"}] /\ damaged' \subseteq Worlds
    BY <1>14, <1>t DEF Resume, NewPresent, NewDamaged
  <2>3. OperationForgotten /\ UNCHANGED <<backups, leftovers, archived, late, troubles>>
    BY <1>14 DEF Resume
  <2> QED BY <2>1, <2>2, <2>3, <1>o
<1>15. ASSUME CutShort
       PROVE  /\ root' \in [Worlds -> Dirs] /\ backups' \in [Worlds -> SUBSET Dirs]
              /\ archived' \in [Worlds -> SUBSET (Saves \cup {"none", "torn"})]
              /\ logs' = logs
  <2>1. FilesWritten(root[world]) \in Dirs /\ PartlyRemoved(root[world]) \subseteq Dirs
    BY <1>t, DirsClosed
  <2>2. [source EXCEPT !.save = "torn"] \in Dirs
    BY <1>t, DirsClosed
  <2>3. root' \in [Worlds -> Dirs]
    BY <1>15, <1>t, <2>1 DEF CutShort
  <2>4. backups' \in [Worlds -> SUBSET Dirs]
    BY <1>15, <1>t, <2>2 DEF CutShort
  <2>5. archived' \in [Worlds -> SUBSET (Saves \cup {"none", "torn"})]
    BY <1>15, <1>t DEF CutShort
  <2> QED BY <1>15, <2>3, <2>4, <2>5 DEF CutShort
<1>16. AsideKept \in [Worlds -> SUBSET (Saves \cup {"none", "torn"})]
  BY <1>t, <1>d DEF AsideKept
<1>17. CASE StepFails
  <2>1. leftovers' \in [Worlds -> SUBSET (Saves \cup {"none", "torn"})]
    BY <1>17, <1>16 DEF StepFails
  <2>2. step' \in StepNames
    BY <1>17 DEF StepFails, Handler, StepNames, Exposed
  <2> QED BY <1>17, <1>15, <2>1, <2>2, Empty DEF StepFails, Trouble, Worse
<1>18. CASE RenameRefused
  <2>1. step' \in StepNames
    BY <1>18 DEF RenameRefused, Handler, StepNames, Exposed
  <2> QED BY <1>18, <1>16, <2>1, Empty DEF RenameRefused
<1>19. CASE PanelDies
  <2>1. leftovers' \in [Worlds -> SUBSET (Saves \cup {"none", "torn"})]
    BY <1>19, <1>16 DEF PanelDies
  <2>2. OperationForgotten
    BY <1>19 DEF PanelDies
  <2> QED BY <1>19, <1>15, <1>t, <2>1, <2>2, <1>o DEF PanelDies, Trouble
<1>20. ASSUME NEW w \in Worlds, Start(w) \/ Stop(w) PROVE FilesTypeOK'
  <2>1. root[w] \in Dirs /\ Repaired(root[w]) \in Dirs
    BY DirsClosed
  <2> QED BY <1>20, <2>1 DEF Start, Stop, Launch, disk
<1>21. ASSUME NEW w \in Worlds, NEW s \in Saves \ {Fresh}, GameWrites(w, s) PROVE FilesTypeOK'
  <2>1. [root[w] EXCEPT !.save = s] \in Dirs
    BY DirsClosed
  <2> QED BY <1>21, <2>1 DEF GameWrites
<1>22. ASSUME NEW w \in Worlds, ReaderChecks(w) \/ ReaderWrites(w) PROVE FilesTypeOK'
  BY <1>22, Empty DEF ReaderChecks, ReaderWrites, disk, Worse
<1>23. CASE UNCHANGED vars
  BY <1>23 DEF vars, disk
<1> QED
  BY <1>1, <1>2, <1>3, <1>4, <1>5, <1>6, <1>7, <1>8, <1>9, <1>10, <1>11, <1>12, <1>13,
     <1>14, <1>17, <1>18, <1>19, <1>20, <1>21, <1>22, <1>23 DEF FilesNext, Steps, Troubles

\* The initial state has the types.
LEMMA FilesInitTyped == FilesInit => FilesTypeOK
<1> SUFFICES ASSUME FilesInit PROVE FilesTypeOK
  OBVIOUS
<1>1. was \in BOOLEAN
  BY Zenon DEF FilesInit
<1>2. present \in [Worlds -> Saves \cup {"unborn", "lost"}] /\ faults \in 0..2
  BY DEF FilesInit
<1>3. root \in [Worlds -> Dirs] /\ backups \in [Worlds -> SUBSET Dirs]
  BY Empty DEF FilesInit
<1>4. leftovers \in [Worlds -> SUBSET (Saves \cup {"none", "torn"})]
      /\ archived \in [Worlds -> SUBSET (Saves \cup {"none", "torn"})]
  BY DEF FilesInit
<1> QED BY <1>1, <1>2, <1>3, <1>4, Empty, Idle DEF FilesInit, FilesTypeOK

\* The variables keep their types, for every set of worlds, failures and deaths
\* of the panel included.
THEOREM FilesTyped == FilesSpec => []FilesTypeOK
<1> QED BY FilesInitTyped, TypeStep, PTL DEF FilesSpec
-----------------------------------------------------------------------------
(* No data is lost.  A step that takes a world's save away comes after a    *)
(* snapshot, so a copy is safe elsewhere (Sealed); no game writes then      *)
(* (Quiet); and what a deletion removes is held elsewhere or given up.      *)
Sealing == {"copy", "aside", "archive"} \cup Exposed
KindOfStep ==
    /\ step = "snapshot" => kind \in Pausing \cup {"recover", "archive"}
    /\ step \in {"copy", "aside", "swap", "clean", "restoring"} => kind \in Replacing
    /\ step \in {"undo", "register"} => kind \in {"restore", "import"}
    /\ step \in {"write", "metadata"} => kind \in {"create", "edit", "restore", "import"}
    /\ step = "archive" => kind = "archive"
    /\ step = "delete" => kind = "delete"
    /\ step = "purge" => kind = "purge"
Sealed ==
    step \in Sealing /\ kind \in Replacing \cup {"archive"} =>
    (present[world] \in Saves => present[world] \in SafeCopies(world))
Quiet ==
    step \in Sealing \cup {"snapshot"} /\ kind \notin {"create", "edit"} => running # world
Deleting ==
    step = "delete" /\ present[world] \in Saves =>
    root[world].save = present[world] \/ source.save # present[world]
Purging == step = "purge" => present[world] \notin Saves
KeepInv ==
    FilesTypeOK /\ PresentKept /\ KindOfStep /\ Sealed /\ Quiet /\ Deleting /\ Purging

\* A step of the operation that writes nothing but root[world], and only while
\* the save is sealed or unchanged, keeps the data.
LEMMA RootOnly ==
    ASSUME KeepInv, UNCHANGED <<backups, leftovers, archived, present, world>>,
           NEW d \in Dirs, root' = [root EXCEPT ![world] = d],
           d.save = root[world].save \/ present[world] \notin Saves
             \/ present[world] \in SafeCopies(world)
    PROVE  PresentKept'
<1> SUFFICES ASSUME NEW w \in Worlds, present'[w] \in Saves
             PROVE  root'[w].save = present'[w] \/ present'[w] \in SafeCopies(w)'
  BY DEF PresentKept
<1>1. SafeCopies(w)' = SafeCopies(w)
  BY DEF SafeCopies
<1>2. root[w].save = present[w] \/ present[w] \in SafeCopies(w)
  BY DEF KeepInv, PresentKept
<1> QED BY <1>1, <1>2 DEF KeepInv, FilesTypeOK

\* Steps that change the directory, or nothing, between a snapshot and the end.
ReplaceStep == \/ Copy \/ Aside \/ Swap \/ WriteFiles \/ WriteMetadata \/ Register
               \/ Clean \/ Undo \/ PutBack
LEMMA ReplaceKeeps == KeepInv /\ ReplaceStep => KeepInv'
<1> SUFFICES ASSUME KeepInv, ReplaceStep PROVE KeepInv'
  OBVIOUS
<1> USE DEF ReplaceStep, Goes, Keeps, opvars, game, ghosts, disk
<1>t. FilesTypeOK /\ root[world] \in Dirs /\ aside \in Dirs /\ source \in Dirs /\ world \in Worlds
  BY DEF KeepInv, FilesTypeOK
<1>1. /\ UNCHANGED <<backups, leftovers, archived, present, world, kind, source, running>>
      /\ step \in Sealing
      /\ step' \in Sealing \cup {"resume"}
  BY DEF Copy, Aside, Swap, WriteFiles, WriteMetadata, Register, Clean, Undo, PutBack,
         AfterMetadata, Sealing, Exposed
<1>2. FilesTypeOK'
  BY <1>t, TypeStep DEF FilesNext, Steps
<1>3. PresentKept'
  <2>1. CASE Copy \/ Register \/ Clean
    <3>1. root' = root
      BY <2>1 DEF Copy, Register, Clean
    <3> QED BY <3>1, <1>1 DEF KeepInv, PresentKept, SafeCopies
  <2>2. CASE WriteFiles
    <3>1. FilesWritten(root[world]) \in Dirs
      BY <1>t, DirsClosed
    <3>2. FilesWritten(root[world]).save = root[world].save \/ root[world].save = "none"
      BY <1>t DEF FilesWritten, Absent, Dirs
    <3>3. present[world] \in Saves /\ root[world].save = "none" => present[world] \in SafeCopies(world)
      BY <1>t, WorldFilesAssumption DEF KeepInv, PresentKept
    <3>4. root' = [root EXCEPT ![world] = FilesWritten(root[world])]
      BY <2>2 DEF WriteFiles
    <3> QED BY <1>1, <3>1, <3>2, <3>3, <3>4, RootOnly
  <2>3. CASE WriteMetadata
    <3>1. MetadataWritten(root[world]) \in Dirs /\ MetadataWritten(root[world]).save = root[world].save
      <4>1. target \in Boot
        BY <1>t DEF FilesTypeOK
      <4> QED BY <1>t, <4>1 DEF MetadataWritten, Dirs
    <3>2. root' = [root EXCEPT ![world] = MetadataWritten(root[world])]
      BY <2>3 DEF WriteMetadata
    <3> QED BY <1>1, <3>1, <3>2, RootOnly
  <2>4. CASE Aside \/ Swap \/ Undo \/ PutBack
    <3>1. present[world] \in Saves => present[world] \in SafeCopies(world)
      BY <2>4, <1>1 DEF KeepInv, Sealed, KindOfStep, Aside, Swap, Undo, PutBack, Replacing
    <3>2. MovedAway \in Dirs /\ Swapped \in Dirs /\ Restored \in Dirs /\ Absent \in Dirs
      BY <1>t, DirsClosed, Empty DEF MovedAway, Swapped, Restored
    <3>3. PICK d \in {MovedAway, Swapped, Restored, Absent} : root' = [root EXCEPT ![world] = d]
      BY <2>4 DEF Aside, Swap, Undo, PutBack
    <3> QED BY <1>1, <3>1, <3>2, <3>3, RootOnly
  <2> QED BY <2>1, <2>2, <2>3, <2>4
<1>4. KindOfStep'
  BY <1>1 DEF KeepInv, KindOfStep, Copy, Aside, Swap, WriteFiles, WriteMetadata, Register,
     Clean, Undo, PutBack, AfterMetadata, Replacing
<1>5. Sealed' /\ Quiet'
  BY <1>1 DEF KeepInv, Sealed, Quiet, SafeCopies, Sealing, Exposed
<1>6. Deleting' /\ Purging'
  BY <1>1 DEF Deleting, Purging, Sealing, Exposed
<1> QED BY <1>2, <1>3, <1>4, <1>5, <1>6 DEF KeepInv

\* A snapshot, and the steps of Archive world, Delete backup and Delete archive.
LEMMA OtherKeeps ==
    KeepInv /\ (Snapshot \/ Archive \/ DeleteBackup \/ Purge \/ Resume) => KeepInv'
<1> SUFFICES ASSUME KeepInv, Snapshot \/ Archive \/ DeleteBackup \/ Purge \/ Resume PROVE KeepInv'
  OBVIOUS
<1> USE DEF Goes, Keeps, opvars, game, ghosts
<1>t. FilesTypeOK /\ root[world] \in Dirs /\ source \in Dirs /\ world \in Worlds
  BY DEF KeepInv, FilesTypeOK
<1>2. FilesTypeOK'
  BY <1>t, TypeStep DEF FilesNext, Steps
<1>k. \A w \in Worlds : present[w] \in Saves => root[w].save = present[w] \/ present[w] \in SafeCopies(w)
  BY DEF KeepInv, PresentKept
<1>3. CASE Snapshot
  <2>1. CopyOf(root[world]).save = root[world].save
    BY <1>t DEF CopyOf, Dirs
  <2>2. \A w \in Worlds : SafeCopies(w) \subseteq SafeCopies(w)'
    BY <1>3, <1>t DEF Snapshot, SnapshotTaken, SafeCopies, FilesTypeOK
  <2>3. root[world].save \in SafeCopies(world)'
    BY <1>3, <1>t, <2>1 DEF Snapshot, SnapshotTaken, SafeCopies, FilesTypeOK
  <2>4. PresentKept'
    BY <1>3, <1>k, <2>2 DEF PresentKept, Snapshot
  <2>5. Sealed'
    BY <1>3, <1>k, <1>t, <2>2, <2>3 DEF Sealed, Snapshot
  <2>6. step' \in {"resume", "copy", "aside", "archive"} /\ KindOfStep' /\ Quiet'
    BY <1>3 DEF KeepInv, KindOfStep, Quiet, Snapshot, AfterSnapshot, Pausing, Replacing, Sealing, Exposed
  <2> QED BY <1>2, <2>4, <2>5, <2>6 DEF KeepInv, Deleting, Purging
<1>4. CASE Archive
  <2>1. \A w \in Worlds : SafeCopies(w) \subseteq SafeCopies(w)'
    BY <1>4, <1>t DEF Archive, SafeCopies, FilesTypeOK
  <2>2. root[world].save \in SafeCopies(world)' /\ \A w \in Worlds \ {world} : root'[w] = root[w]
    BY <1>4, <1>t DEF Archive, SafeCopies, FilesTypeOK
  <2>3. PresentKept'
    BY <1>4, <1>k, <2>1, <2>2 DEF PresentKept, Archive
  <2> QED BY <1>4, <1>2, <2>3
          DEF KeepInv, KindOfStep, Sealed, Quiet, Deleting, Purging, Archive, Sealing, Exposed
<1>5. CASE DeleteBackup
  <2>1. \A w \in Worlds \ {world} : SafeCopies(w)' = SafeCopies(w)
    BY <1>5, <1>t DEF DeleteBackup, SafeCopies, FilesTypeOK
  <2>2. \A s : s \in SafeCopies(world) /\ s # source.save => s \in SafeCopies(world)'
    BY <1>5, <1>t DEF DeleteBackup, SafeCopies, FilesTypeOK
  <2>3. PresentKept'
    BY <1>5, <1>k, <2>1, <2>2 DEF PresentKept, DeleteBackup, KeepInv, Deleting
  <2> QED BY <1>5, <1>2, <2>3
          DEF KeepInv, KindOfStep, Sealed, Quiet, Deleting, Purging, DeleteBackup, Sealing, Exposed
<1>6. CASE Purge
  <2>1. present[world] \notin Saves
    BY <1>6 DEF KeepInv, Purging, Purge
  <2>2. \A w \in Worlds \ {world} : SafeCopies(w)' = SafeCopies(w)
    BY <1>6, <1>t DEF Purge, SafeCopies, FilesTypeOK
  <2>3. PresentKept'
    BY <1>6, <1>k, <2>1, <2>2 DEF PresentKept, Purge
  <2>4. step' \in {"resume", "purge"} /\ UNCHANGED <<kind, world, present>> /\ step = "purge"
    BY <1>6 DEF Purge
  <2> QED BY <1>2, <2>1, <2>3, <2>4
          DEF KeepInv, KindOfStep, Sealed, Quiet, Deleting, Purging, Sealing, Exposed
<1>7. CASE Resume
  <2>1. \A w \in Worlds : root'[w].save = root[w].save
    BY <1>7, <1>t DEF Resume, Launch, Repaired, FilesTypeOK, Dirs
  <2>2. \A w \in Worlds : present'[w] = present[w] \/ present'[w] = root[w].save
    BY <1>7, <1>t DEF Resume, NewPresent, FilesTypeOK
  <2>3. \A w \in Worlds : SafeCopies(w)' = SafeCopies(w)
    BY <1>7 DEF Resume, SafeCopies
  <2>4. PresentKept'
    BY <1>k, <2>1, <2>2, <2>3 DEF PresentKept
  <2>5. step' = "idle"
    BY <1>7 DEF Resume, OperationForgotten
  <2> QED BY <1>2, <2>4, <2>5
          DEF KeepInv, KindOfStep, Sealed, Quiet, Deleting, Purging, Sealing, Exposed
<1> QED BY <1>3, <1>4, <1>5, <1>6, <1>7

\* What an interrupted step can have done.
LEMMA CutShortKeeps ==
    ASSUME KeepInv, CutShort, \A w \in Worlds : leftovers[w] \subseteq leftovers'[w],
           UNCHANGED <<present, world>>
    PROVE  /\ PresentKept'
           /\ step \in Sealing /\ kind \in Replacing \cup {"archive"} =>
              (present[world] \in Saves => present[world] \in SafeCopies(world)')
<1>t. FilesTypeOK /\ root[world] \in Dirs /\ source \in Dirs /\ world \in Worlds
  BY DEF KeepInv, FilesTypeOK
<1>k. \A w \in Worlds : present[w] \in Saves => root[w].save = present[w] \/ present[w] \in SafeCopies(w)
  BY DEF KeepInv, PresentKept
<1>1. \A w \in Worlds \ {world} : SafeCopies(w) \subseteq SafeCopies(w)' /\ root'[w] = root[w]
  BY <1>t DEF CutShort, SafeCopies, FilesTypeOK
<1>2. step \notin {"delete", "purge"} => SafeCopies(world) \subseteq SafeCopies(world)'
  <2>1. step \notin {"delete", "purge"} => backups' = backups /\ archived' = archived
    BY DEF CutShort
  <2> QED BY <1>t, <2>1 DEF SafeCopies
<1>3. step # "undo" => root'[world].save = root[world].save \/ root[world].save = "none"
  BY <1>t DEF CutShort, FilesWritten, Absent, FilesTypeOK, Dirs
<1>4. present[world] \in Saves => root'[world].save = present[world] \/ present[world] \in SafeCopies(world)'
  <2> SUFFICES ASSUME present[world] \in Saves
               PROVE  root'[world].save = present[world] \/ present[world] \in SafeCopies(world)'
    OBVIOUS
  <2>1. CASE step = "undo"
    BY <2>1, <1>2 DEF KeepInv, Sealed, KindOfStep, Sealing, Exposed, Replacing
  <2>2. CASE step = "delete"
    <3>1. root'[world].save = root[world].save
      BY <2>2, <1>t DEF CutShort
    <3>2. \A s : s \in SafeCopies(world) /\ s # source.save => s \in SafeCopies(world)'
      <4>1. archived' = archived /\ backups \in [Worlds -> SUBSET Dirs]
        BY <2>2, <1>t DEF CutShort, FilesTypeOK
      <4>2. \A b \in backups[world] \ {source} : b \in backups'[world]
        <5>1. PICK left : backups' = [backups EXCEPT ![world] = (@ \ {source}) \cup left]
          BY <2>2 DEF CutShort
        <5> QED BY <1>t, <4>1, <5>1
      <4> QED BY <1>t, <4>1, <4>2 DEF SafeCopies
    <3> QED BY <2>2, <3>1, <3>2, <1>k, <1>t DEF KeepInv, Deleting
  <2>3. CASE step = "purge"
    BY <2>3 DEF KeepInv, Purging
  <2>4. CASE step \notin {"undo", "delete", "purge"}
    BY <2>4, <1>2, <1>3, <1>k, <1>t, WorldFilesAssumption
  <2> QED BY <2>1, <2>2, <2>3, <2>4
<1>5. PresentKept'
  <2> SUFFICES ASSUME NEW w \in Worlds, present[w] \in Saves
               PROVE  root'[w].save = present[w] \/ present[w] \in SafeCopies(w)'
    BY DEF PresentKept
  <2> QED BY <1>1, <1>4, <1>k
<1>6. step \in Sealing => step \notin {"delete", "purge"}
  BY DEF Sealing, Exposed
<1> QED BY <1>2, <1>5, <1>6 DEF KeepInv, Sealed

LEMMA TroublesKeep == KeepInv /\ Troubles => KeepInv'
<1> SUFFICES ASSUME KeepInv, Troubles PROVE KeepInv'
  OBVIOUS
<1> USE DEF Keeps, opvars, game, ghosts
<1>t. FilesTypeOK /\ world \in Worlds
  BY DEF KeepInv, FilesTypeOK
<1>2. FilesTypeOK'
  BY <1>t, TypeStep DEF FilesNext
<1>3. \A w \in Worlds : leftovers[w] \subseteq AsideKept[w]
  BY <1>t DEF AsideKept, FilesTypeOK
<1>4. CASE StepFails
  <2>1. /\ CutShort /\ UNCHANGED <<kind, world, source, running, present>>
        /\ \A w \in Worlds : leftovers[w] \subseteq leftovers'[w]
    BY <1>4, <1>3 DEF StepFails
  <2>2. /\ step' = "resume" \/ (step' \in {"undo", "restoring"} /\ step \in Sealing)
        /\ step' = "restoring" => kind = "recover"
        /\ step' = "undo" => kind \in {"restore", "import"}
    BY <1>4 DEF StepFails, Handler, Sealing, Exposed
  <2>3. PresentKept' /\ Sealed'
    BY <2>1, <2>2, CutShortKeeps DEF Sealed, Sealing, Exposed
  <2>4. KindOfStep' /\ Quiet' /\ Deleting' /\ Purging'
    BY <2>1, <2>2 DEF KeepInv, KindOfStep, Quiet, Deleting, Purging, Sealing, Exposed, Replacing
  <2> QED BY <1>2, <2>3, <2>4 DEF KeepInv
<1>5. CASE RenameRefused
  <2>1. /\ UNCHANGED <<kind, world, source, running, present, root, backups, archived>>
        /\ \A w \in Worlds : leftovers[w] \subseteq leftovers'[w]
    BY <1>5, <1>3 DEF RenameRefused
  <2>2. step \in Sealing /\ step' \in {"undo", "resume"} /\ (step' = "undo" => kind \in {"restore", "import"})
    BY <1>5 DEF RenameRefused, Handler, Sealing, Exposed
  <2>3. \A w \in Worlds : SafeCopies(w) \subseteq SafeCopies(w)'
    BY <2>1 DEF SafeCopies
  <2>4. PresentKept' /\ Sealed'
    BY <1>t, <2>1, <2>2, <2>3 DEF KeepInv, PresentKept, Sealed, Sealing, Exposed
  <2> QED BY <1>2, <2>1, <2>2, <2>4
          DEF KeepInv, KindOfStep, Quiet, Deleting, Purging, Sealing, Exposed, Replacing
<1>6. CASE PanelDies
  <2>1. /\ CutShort /\ UNCHANGED <<present, world>> /\ step' = "idle"
        /\ \A w \in Worlds : leftovers[w] \subseteq leftovers'[w]
    BY <1>6, <1>3 DEF PanelDies, OperationForgotten
  <2>2. PresentKept'
    BY <2>1, CutShortKeeps
  <2> QED BY <1>2, <2>1, <2>2
          DEF KeepInv, KindOfStep, Sealed, Quiet, Deleting, Purging, Sealing, Exposed
<1> QED BY <1>4, <1>5, <1>6 DEF Troubles

LEMMA RequestKeeps ==
    ASSUME KeepInv, NEW w \in Worlds,
           \/ \E k \in Kinds[w] : Ask(k, w)
           \/ Start(w) \/ Stop(w) \/ \E s \in Saves \ {Fresh} : GameWrites(w, s)
           \/ ReaderChecks(w) \/ ReaderWrites(w)
    PROVE  KeepInv'
<1> USE DEF opvars, game, ghosts
<1>t. FilesTypeOK /\ world \in Worlds
  BY DEF KeepInv, FilesTypeOK
<1>2. FilesTypeOK'
  BY <1>t, TypeStep DEF FilesNext
<1>k. \A v \in Worlds : present[v] \in Saves => root[v].save = present[v] \/ present[v] \in SafeCopies(v)
  BY DEF KeepInv, PresentKept
<1>3. ASSUME NEW k \in Kinds[w], Ask(k, w) PROVE KeepInv'
  <2>0. k \in AllKinds
    BY WorldFilesAssumption
  <2>1. /\ UNCHANGED <<root, backups, leftovers, archived>>
        /\ kind' = k /\ world' = w /\ step' = FirstStep(k) /\ running' \in {running, NoWorld}
    BY <1>3 DEF Ask, disk
  <2>2. \A v \in Worlds : present'[v] = present[v] \/ present'[v] = "lost"
    BY <1>3, <1>t DEF Ask, FilesTypeOK
  <2>3. PresentKept'
    BY <2>1, <2>2, <1>k, WorldFilesAssumption DEF PresentKept, SafeCopies
  <2>4. step' \in {"write", "snapshot", "delete", "purge"} /\ KindOfStep'
    BY <1>3, <2>0, <2>1 DEF Ask, Allowed, FirstStep, KindOfStep, Pausing, Replacing, AllKinds
  <2>5. Sealed'
    <3>1. step' \in Sealing => step' = "write" /\ kind' \in {"create", "edit"}
      <4>1. k \in Pausing => FirstStep(k) = "snapshot"
        BY DEF FirstStep, Pausing
      <4> QED BY <2>1, <2>4, <4>1 DEF KindOfStep, Sealing, Exposed, Pausing
    <3> QED BY <3>1 DEF Sealed, Replacing
  <2>6. Quiet'
    BY <1>3, <2>1, <2>4, WorldFilesAssumption
       DEF Quiet, KindOfStep, Ask, Allowed, Sealing, Exposed, Pausing
  <2>7. Deleting' /\ Purging'
    <3>1. step' = k \/ step' \notin {"delete", "purge"}
      BY <2>1, <2>4 DEF KindOfStep
    <3>2. present' = IF GivenUp(k, w, source') THEN [present EXCEPT ![w] = "lost"] ELSE present
      BY <1>3 DEF Ask
    <3>3. present \in [Worlds -> Saves \cup {"unborn", "lost"}] /\ "lost" \notin Saves
      BY <1>t, WorldFilesAssumption DEF FilesTypeOK
    <3>4. Purging'
      BY <2>1, <2>4, <3>1, <3>2, <3>3 DEF Purging, GivenUp
    <3>5. ASSUME k = "delete" PROVE Deleting'
      <4>1. CASE GivenUp(k, w, source')
        BY <2>1, <3>2, <3>3, <4>1 DEF Deleting
      <4>2. CASE ~GivenUp(k, w, source')
        BY <2>1, <3>2, <3>5, <4>2 DEF Deleting, GivenUp
      <4> QED BY <4>1, <4>2
    <3> QED BY <2>4, <3>1, <3>4, <3>5 DEF Deleting
  <2> QED BY <1>2, <2>3, <2>4, <2>5, <2>6, <2>7 DEF KeepInv
<1>4. CASE Start(w)
  <2>1. /\ \A v \in Worlds : root'[v].save = root[v].save
        /\ \A v \in Worlds : present'[v] = present[v] \/ present'[v] = root[v].save
        /\ UNCHANGED <<backups, leftovers, archived>> /\ step' = "idle"
    BY <1>4, <1>t DEF Start, Launch, Repaired, FilesTypeOK, Dirs
  <2>2. PresentKept'
    BY <2>1, <1>k DEF PresentKept, SafeCopies
  <2> QED BY <1>2, <2>1, <2>2
          DEF KeepInv, KindOfStep, Sealed, Quiet, Deleting, Purging, Sealing, Exposed
<1>5. CASE Stop(w)
  BY <1>5, <1>2, <1>t, WorldFilesAssumption
     DEF Stop, disk, KeepInv, PresentKept, SafeCopies, KindOfStep, Sealed, Quiet, Deleting, Purging
<1>6. ASSUME NEW s \in Saves, GameWrites(w, s) PROVE KeepInv'
  <2>1. /\ \A v \in Worlds \ {w} : root'[v] = root[v] /\ present'[v] = present[v]
        /\ root'[w].save = s
        /\ present'[w] = IF root[w].save = present[w] THEN s ELSE present[w]
        /\ running = w
        /\ UNCHANGED <<backups, leftovers, archived, kind, world, source, step, running>>
    BY <1>6, <1>t DEF GameWrites, FilesTypeOK, Dirs
  <2>2. \A v \in Worlds : SafeCopies(v)' = SafeCopies(v)
    BY <2>1 DEF SafeCopies
  <2>3. PresentKept'
    BY <2>1, <2>2, <1>k DEF PresentKept
  <2>4. Sealed'
    BY <2>1, <2>2, <1>t DEF KeepInv, Sealed, Quiet, Replacing
  <2>5. Deleting' /\ Purging'
    <3>1. step = "purge" => present'[world] \notin Saves
      BY <2>1, <1>t, WorldFilesAssumption DEF KeepInv, Purging, FilesTypeOK, Dirs
    <3>2. ASSUME step = "delete", present'[world] \in Saves
          PROVE  root'[world].save = present'[world] \/ source.save # present'[world]
      <4>1. CASE world # w
        BY <2>1, <1>t, <3>2, <4>1 DEF KeepInv, Deleting
      <4>2. CASE world = w
        BY <2>1, <3>2, <4>2 DEF KeepInv, Deleting
      <4> QED BY <4>1, <4>2
    <3> QED BY <2>1, <3>1, <3>2 DEF Deleting, Purging
  <2> QED BY <1>2, <2>1, <2>3, <2>4, <2>5 DEF KeepInv, KindOfStep, Quiet
<1>7. CASE ReaderChecks(w) \/ ReaderWrites(w)
  <2>1. /\ \A v \in Worlds : root'[v].save = root[v].save \/ root[v].save = "none"
        /\ UNCHANGED <<backups, leftovers, archived, kind, world, source, step, running, present>>
    BY <1>7, <1>t DEF ReaderChecks, ReaderWrites, disk, FilesTypeOK, Absent
  <2>2. \A v \in Worlds : SafeCopies(v)' = SafeCopies(v)
    BY <2>1 DEF SafeCopies
  <2>3. PresentKept'
    BY <2>1, <2>2, <1>k, WorldFilesAssumption DEF PresentKept
  <2>4. Sealed' /\ Deleting'
    BY <2>1, <2>2, <1>t, WorldFilesAssumption DEF KeepInv, Sealed, Deleting
  <2> QED BY <1>2, <2>1, <2>3, <2>4 DEF KeepInv, KindOfStep, Quiet, Purging
<1> QED BY <1>3, <1>4, <1>5, <1>6, <1>7

\* Whatever fails and wherever the panel dies, every world's data is whole in
\* its directory, a backup, the archive or a directory set aside, until its
\* user deletes that copy.
THEOREM DataKept == FilesSpec => []PresentKept
<1>1. FilesInit => KeepInv
  <2> SUFFICES ASSUME FilesInit PROVE KeepInv
    OBVIOUS
  <2>1. FilesTypeOK
    BY FilesInitTyped
  <2>2. step = "idle" /\ \A w \in Worlds : present[w] \notin Saves
    BY WorldFilesAssumption DEF FilesInit
  <2> QED BY <2>1, <2>2 DEF KeepInv, PresentKept, KindOfStep, Sealed, Quiet, Deleting, Purging,
             Sealing, Exposed
<1>2. KeepInv /\ [FilesNext]_vars => KeepInv'
  <2> SUFFICES ASSUME KeepInv, [FilesNext]_vars PROVE KeepInv'
    OBVIOUS
  <2>1. CASE UNCHANGED vars
    <3>1. FilesTypeOK'
      BY <2>1, TypeStep DEF KeepInv
    <3> QED BY <2>1, <3>1 DEF vars, disk, opvars, game, ghosts, KeepInv, PresentKept, SafeCopies,
               KindOfStep, Sealed, Quiet, Deleting, Purging
  <2>2. CASE Steps \/ Troubles
    BY <2>2, ReplaceKeeps, OtherKeeps, TroublesKeep DEF Steps, ReplaceStep
  <2> QED BY <2>1, <2>2, RequestKeeps DEF FilesNext
<1>3. KeepInv => PresentKept
  BY DEF KeepInv
<1> QED BY <1>1, <1>2, <1>3, PTL DEF FilesSpec
-----------------------------------------------------------------------------
(* An operation at work.  While one works on a world's directory no game   *)
(* runs there, and what matters of the directory is what it was before:    *)
(* Base.  AskedInv is what a request was accepted with.                    *)
Dir == root[world]

QuietInv == InWork => running # world

AskedInv ==
    InWork =>
    /\ kind \in {"create", "edit", "backup", "restore", "import", "recover", "archive"}
    /\ kind = "create" => before = Absent /\ present[world] = "unborn"
    /\ kind # "create" => before.pera # "none"
    /\ kind \notin {"create", "edit"} => target = before.pera
    /\ kind \in Replacing => source.save # "none"
    /\ kind \in {"import", "recover"} => source.save \in Saves

\* A directory without save folders is no directory.
ProperInv ==
    /\ \A w \in Worlds : root[w].save = "none" => root[w] = Absent
    /\ \A w \in Worlds : \A b \in backups[w] : b.save # "none"
    /\ before.save = "none" => before = Absent
    /\ step = "metadata" => Dir.save # "none"
    /\ step = "delete" => source.save # "none"
    /\ step \in Exposed /\ kind \in Replacing => aside.save # "none"
    /\ step \in {"snapshot", "copy", "aside", "archive"} => Dir = before

WorkInv == KeepInv /\ LaunchedAsConfigured /\ QuietInv /\ AskedInv /\ ProperInv

LEMMA DirectoryFacts ==
    ASSUME NEW d \in Dirs
    PROVE  /\ d.save \in Saves \cup {"none", "torn"} /\ d.pera \in Boot \cup {"none"}
           /\ d = Absent => d.save = "none" /\ d.pera = "none" /\ d.files = "none"
           /\ CopyOf(d).save = d.save /\ CopyOf(d).pera = d.pera
           /\ d # Absent => FilesWritten(d).save = d.save /\ FilesWritten(d).pera = d.pera
           /\ FilesWritten(Absent) = Bare /\ FilesWritten(Bare) = Bare
           /\ MetadataWritten(d).save = d.save /\ MetadataWritten(d).pera = target
           /\ Repaired(d).save = d.save /\ Repaired(d).pera = d.pera /\ Repaired(d).files = "agree"
           /\ \A e \in PartlyRemoved(d) : e.save \in {d.save, "torn"} /\ e.pera \in {d.pera, "none"}
           /\ \A s : [d EXCEPT !.save = s].save = s /\ [d EXCEPT !.save = s].pera = d.pera
  BY DEF Dirs, Absent, Bare, CopyOf, FilesWritten, MetadataWritten, Repaired, PartlyRemoved

LEMMA Constants ==
    /\ Fresh \in Saves /\ "none" \notin Saves /\ "torn" \notin Saves
    /\ "unborn" \notin Saves /\ "lost" \notin Saves
    /\ Bare.save = Fresh /\ Bare.pera = "none" /\ Bare # Absent
    /\ Absent.save = "none" /\ Absent.pera = "none" /\ Absent.files = "none"
  BY WorldFilesAssumption DEF Bare, Absent

\* The steps of a replacement, of a settings change and of a new world.
LEMMA ReplaceWork == WorkInv /\ ReplaceStep => WorkInv' /\ InWork /\ InWork'
<1> SUFFICES ASSUME WorkInv, ReplaceStep PROVE WorkInv' /\ InWork /\ InWork'
  OBVIOUS
<1> USE Constants DEF Goes, Keeps, opvars, game, ghosts, disk
<1>t. /\ FilesTypeOK /\ KindOfStep
      /\ Dir \in Dirs /\ aside \in Dirs /\ source \in Dirs /\ before \in Dirs /\ world \in Worlds
  BY DEF WorkInv, KeepInv, FilesTypeOK, Dir
<1>1. KeepInv'
  BY ReplaceKeeps DEF WorkInv
<1>2. /\ UNCHANGED <<backups, archived, logs, present, damaged, world, kind, source, target, before, running>>
      /\ step \in Exposed \cup {"copy", "aside"} /\ step' \in Exposed \cup {"aside", "resume"}
      /\ \A w \in Worlds \ {world} : root'[w] = root[w]
  BY <1>t DEF ReplaceStep, Copy, Aside, Swap, WriteFiles, WriteMetadata, Register, Clean, Undo,
     PutBack, AfterMetadata, Exposed, FilesTypeOK
<1>3. InWork /\ InWork'
  BY <1>t, <1>2 DEF InWork, KindOfStep, Exposed, Replacing
<1>4. QuietInv' /\ AskedInv'
  BY <1>2, <1>3 DEF WorkInv, QuietInv, AskedInv
<1>5. LaunchedAsConfigured'
  BY <1>2, <1>3, <1>t DEF WorkInv, QuietInv, LaunchedAsConfigured, FilesTypeOK
<1>6. ProperInv'
  <2>0. Dir.save = "none" => Dir = Absent
    BY <1>t DEF WorkInv, ProperInv, Dir
  <2>1. /\ Dir'.save = "none" => Dir' = Absent
        /\ step' = "metadata" => Dir'.save # "none"
        /\ step' = "aside" => Dir' = before
    <3>1. CASE Copy \/ Register \/ Clean
      BY <2>0, <3>1 DEF Copy, Register, Clean, Dir, WorkInv, ProperInv
    <3>2. CASE Aside
      <4>1. Dir' = MovedAway /\ step' = "swap"
        BY <3>2, <1>t DEF Aside, FilesTypeOK, Dir
      <4> QED BY <4>1, <1>t, DirectoryFacts DEF MovedAway, Dir
    <3>3. CASE Swap
      <4>1. Dir' = Swapped /\ step' \in {"write", "clean"} /\ kind \in Replacing
        BY <3>3, <1>t DEF Swap, FilesTypeOK, Dir, KindOfStep
      <4>2. source.save # "none"
        BY <4>1, <1>3 DEF WorkInv, AskedInv
      <4> QED BY <4>1, <4>2, <1>t, DirectoryFacts DEF Swapped, Dir
    <3>4. CASE WriteFiles
      <4>1. Dir' = FilesWritten(Dir) /\ step' = "metadata"
        BY <3>4, <1>t DEF WriteFiles, FilesTypeOK, Dir
      <4>2. CASE Dir = Absent
        BY <4>1, <4>2, <1>t, DirectoryFacts
      <4>3. CASE Dir # Absent
        BY <4>1, <4>3, <1>t, <2>0, DirectoryFacts
      <4> QED BY <4>2, <4>3
    <3>5. CASE WriteMetadata
      <4>1. Dir.save # "none"
        BY <3>5 DEF WorkInv, ProperInv, WriteMetadata
      <4>2. Dir' = MetadataWritten(Dir) /\ step' \in {"register", "clean", "resume"}
        BY <3>5, <1>t DEF WriteMetadata, AfterMetadata, FilesTypeOK, Dir
      <4> QED BY <4>1, <4>2, <1>t, DirectoryFacts
    <3>6. CASE Undo
      BY <3>6, <1>t DEF Undo, FilesTypeOK, Dir
    <3>7. CASE PutBack
      <4>1. aside.save # "none"
        BY <3>7, <1>t DEF WorkInv, ProperInv, PutBack, Exposed, KindOfStep
      <4>2. Dir' = Restored /\ step' = "resume"
        BY <3>7, <1>t DEF PutBack, FilesTypeOK, Dir
      <4> QED BY <4>1, <4>2, <1>t, DirectoryFacts DEF Restored, Dir
    <3> QED BY <3>1, <3>2, <3>3, <3>4, <3>5, <3>6, <3>7 DEF ReplaceStep
  <2>2. step' \in Exposed /\ kind' \in Replacing => aside'.save # "none"
    <3>1. CASE Aside
      <4>1. kind \in Replacing => Dir.save # "none"
        BY <3>1, <1>t, <1>3 DEF Aside, WorkInv, ProperInv, AskedInv, Replacing
      <4> QED BY <3>1, <4>1, <1>2 DEF Aside, Dir
    <3>2. CASE ~Aside
      BY <3>2, <1>2 DEF ReplaceStep, Copy, Swap, WriteFiles, WriteMetadata, Register, Clean,
         Undo, PutBack, WorkInv, ProperInv, Exposed
    <3> QED BY <3>1, <3>2
  <2>3. \A w \in Worlds : root'[w].save = "none" => root'[w] = Absent
    BY <1>2, <2>1 DEF WorkInv, ProperInv, Dir
  <2>4. /\ step' \in {"snapshot", "copy", "aside", "archive"} => step' = "aside"
        /\ step' # "delete"
    BY <1>2 DEF Exposed
  <2> QED BY <1>2, <2>1, <2>2, <2>3, <2>4 DEF WorkInv, ProperInv
<1> QED BY <1>1, <1>3, <1>4, <1>5, <1>6 DEF WorkInv

\* A world with a pera.json has save folders.
LEMMA ListedIsProper ==
    ASSUME FilesTypeOK, ProperInv, NEW w \in Worlds, Listed(w) PROVE root[w].save # "none"
  BY Constants DEF ProperInv, Listed

\* A snapshot, the end of an operation, and the steps of Archive world, Delete
\* backup and Delete archive.
LEMMA OtherWork ==
    WorkInv /\ (Snapshot \/ Archive \/ DeleteBackup \/ Purge \/ Resume) => WorkInv'
<1> SUFFICES ASSUME WorkInv, Snapshot \/ Archive \/ DeleteBackup \/ Purge \/ Resume PROVE WorkInv'
  OBVIOUS
<1> USE Constants DEF Goes, Keeps, opvars, game, ghosts, disk
<1>t. /\ FilesTypeOK /\ KindOfStep /\ ProperInv
      /\ Dir \in Dirs /\ source \in Dirs /\ before \in Dirs /\ world \in Worlds
  BY DEF WorkInv, KeepInv, FilesTypeOK, Dir
<1>1. KeepInv'
  BY OtherKeeps DEF WorkInv
<1>2. CASE Snapshot
  <2>1. /\ UNCHANGED <<root, kind, world, source, target, before, running, present, aside>>
        /\ backups' = SnapshotTaken
        /\ step = "snapshot" /\ step' \in {"resume", "copy", "aside", "archive"}
    BY <1>2 DEF Snapshot, AfterSnapshot
  <2>2. InWork /\ Dir = before /\ before.save # "none"
    <3>1. InWork /\ Dir = before
      BY <1>t, <2>1 DEF InWork, KindOfStep, Pausing, ProperInv
    <3>2. before.pera # "none"
      BY <1>t, <2>1, <3>1 DEF WorkInv, AskedInv, KindOfStep, Pausing
    <3> QED BY <1>t, <3>1, <3>2 DEF ProperInv
  <2>3. \A w \in Worlds : \A b \in backups'[w] : b.save # "none"
    <3>1. CopyOf(Dir).save # "none"
      BY <1>t, <2>2, DirectoryFacts
    <3> QED BY <1>t, <2>1, <3>1 DEF SnapshotTaken, FilesTypeOK, ProperInv, Dir
  <2>4. ProperInv'
    BY <1>t, <2>1, <2>2, <2>3 DEF ProperInv, Dir, Exposed
  <2> QED BY <1>1, <2>1, <2>2, <2>4 DEF WorkInv, LaunchedAsConfigured, QuietInv, AskedInv, InWork
<1>3. CASE Archive
  <2>1. /\ UNCHANGED <<backups, kind, world, source, target, before, running, present>>
        /\ step = "archive" /\ step' = "resume" /\ kind = "archive"
        /\ root' = [root EXCEPT ![world] = Absent]
    BY <1>3, <1>t DEF Archive, KindOfStep
  <2>2. InWork
    BY <2>1 DEF InWork
  <2>3. \A w \in Worlds : root'[w] = Absent \/ (w # world /\ root'[w] = root[w])
    BY <1>t, <2>1 DEF FilesTypeOK
  <2>4. ProperInv'
    BY <1>t, <2>1, <2>3 DEF ProperInv, Exposed
  <2>5. LaunchedAsConfigured'
    BY <1>t, <2>1, <2>2, <2>3 DEF WorkInv, QuietInv, LaunchedAsConfigured, FilesTypeOK
  <2> QED BY <1>1, <2>1, <2>2, <2>4, <2>5 DEF WorkInv, QuietInv, AskedInv, InWork
<1>4. CASE DeleteBackup \/ Purge
  <2>1. /\ UNCHANGED <<root, kind, world, before, running>>
        /\ step' \in {"purge", "resume"} /\ kind \in {"delete", "purge"}
        /\ \A w \in Worlds : backups'[w] \subseteq backups[w]
    BY <1>4, <1>t DEF DeleteBackup, Purge, KindOfStep, FilesTypeOK
  <2>2. ProperInv'
    BY <1>t, <2>1 DEF ProperInv, Exposed
  <2> QED BY <1>1, <2>1, <2>2 DEF WorkInv, LaunchedAsConfigured, QuietInv, AskedInv, InWork
<1>5. CASE Resume
  <2>1. /\ UNCHANGED <<backups>> /\ step' = "idle" /\ before' = Absent
        /\ \/ Listed(world) /\ running' = world /\ root' = [root EXCEPT ![world] = Repaired(@)]
           \/ UNCHANGED <<root, running>>
    BY <1>5 DEF Resume, OperationForgotten, Launch, Restarts
  <2>2. ~InWork'
    BY <2>1 DEF InWork
  <2>3. \A w \in Worlds : \/ root'[w] = root[w]
                          \/ root'[w].save = root[w].save /\ root[w].save # "none"
    <3>1. CASE Listed(world) /\ root' = [root EXCEPT ![world] = Repaired(@)]
      <4>1. Dir.save # "none" /\ Repaired(Dir).save = Dir.save
        BY <1>t, <3>1, ListedIsProper, DirectoryFacts DEF Dir
      <4> QED BY <1>t, <3>1, <4>1 DEF FilesTypeOK, Dir
    <3> QED BY <2>1, <3>1
  <2>4. ProperInv'
    BY <1>t, <2>1, <2>3 DEF ProperInv, Exposed
  <2>5. LaunchedAsConfigured'
    <3>1. CASE Listed(world) /\ running' = world /\ root' = [root EXCEPT ![world] = Repaired(@)]
      <4>1. root'[world] = Repaired(Dir) /\ Dir.pera # "none"
        BY <1>t, <3>1 DEF FilesTypeOK, Dir, Listed
      <4> QED BY <1>t, <3>1, <4>1, DirectoryFacts DEF LaunchedAsConfigured
    <3> QED BY <2>1, <3>1 DEF WorkInv, LaunchedAsConfigured
  <2> QED BY <1>1, <2>2, <2>4, <2>5 DEF WorkInv, QuietInv, AskedInv
<1> QED BY <1>2, <1>3, <1>4, <1>5
\* What an interrupted step does to the directories.
LEMMA CutShortProper ==
    ASSUME WorkInv, CutShort
    PROVE  /\ \A w \in Worlds \ {world} : root'[w] = root[w]
           /\ step \notin {"write", "undo"} => root'[world] = Dir
           /\ step = "write" => root'[world] \in {Dir, FilesWritten(Dir)}
           /\ step = "undo" => \/ root'[world] = Dir
                               \/ Dir # Absent /\ root'[world] \in PartlyRemoved(Dir)
           /\ \A w \in Worlds : root'[w].save = "none" => root'[w] = Absent
           /\ \A w \in Worlds : \A b \in backups'[w] : b.save # "none"
<1> USE Constants
<1>t. /\ FilesTypeOK /\ ProperInv
      /\ Dir \in Dirs /\ source \in Dirs /\ world \in Worlds
  BY DEF WorkInv, KeepInv, FilesTypeOK, Dir
<1>1. /\ \A w \in Worlds \ {world} : root'[w] = root[w]
      /\ step \notin {"write", "undo"} => root'[world] = Dir
      /\ step = "write" => root'[world] \in {Dir, FilesWritten(Dir)}
  BY <1>t DEF CutShort, FilesTypeOK, Dir
<1>2. step = "undo" => \/ root'[world] = Dir
                       \/ Dir # Absent /\ root'[world] \in PartlyRemoved(Dir)
  BY <1>t DEF CutShort, FilesTypeOK, Dir
<1>3. Dir.save = "none" => Dir = Absent
  BY <1>t DEF ProperInv, Dir
<1>4. root'[world].save = "none" => root'[world] = Absent
  <2>1. CASE root'[world] = Dir
    BY <1>3, <2>1
  <2>2. CASE root'[world] = FilesWritten(Dir)
    BY <1>t, <1>3, <2>2, DirectoryFacts
  <2>3. CASE Dir # Absent /\ root'[world] \in PartlyRemoved(Dir)
    BY <1>t, <1>3, <2>3, DirectoryFacts
  <2> QED BY <1>1, <1>2, <2>1, <2>2, <2>3
<1>5. \A w \in Worlds : \A b \in backups'[w] : b.save # "none"
  <2>1. CASE step = "delete"
    <3>1. PICK left \in {{}, {source}, {[source EXCEPT !.save = "torn"]}} :
             backups' = [backups EXCEPT ![world] = (@ \ {source}) \cup left]
      BY <2>1 DEF CutShort
    <3>2. \A b \in left : b.save # "none"
      <4>1. source.save # "none" /\ [source EXCEPT !.save = "torn"].save = "torn"
        BY <1>t, <2>1 DEF ProperInv, Dirs
      <4> QED BY <4>1
    <3>3. /\ backups'[world] = (backups[world] \ {source}) \cup left
          /\ \A w \in Worlds \ {world} : backups'[w] = backups[w]
      BY <1>t, <3>1 DEF FilesTypeOK
    <3>4. \A w \in Worlds : \A b \in backups[w] : b.save # "none"
      BY <1>t DEF ProperInv
    <3> QED BY <3>2, <3>3, <3>4
  <2>2. CASE step # "delete"
    <3>1. \A w \in Worlds : backups'[w] \subseteq backups[w]
      BY <1>t, <2>2 DEF CutShort, FilesTypeOK
    <3> QED BY <1>t, <3>1 DEF ProperInv
  <2> QED BY <2>1, <2>2
<1>6. \A w \in Worlds : root'[w].save = "none" => root'[w] = Absent
  BY <1>t, <1>1, <1>4 DEF ProperInv
<1> QED BY <1>1, <1>2, <1>5, <1>6

\* Failures, refused renames and deaths of the panel.
LEMMA TroublesWork == WorkInv /\ Troubles => WorkInv'
<1> SUFFICES ASSUME WorkInv, Troubles PROVE WorkInv'
  OBVIOUS
<1> USE DEF Keeps, opvars, game, ghosts
<1>t. FilesTypeOK /\ KindOfStep /\ ProperInv /\ world \in Worlds
  BY DEF WorkInv, KeepInv, FilesTypeOK
<1>1. KeepInv'
  BY TroublesKeep DEF WorkInv
<1>2. CASE StepFails
  <2>1. /\ CutShort /\ UNCHANGED <<kind, world, source, target, before, running, present>>
        /\ step # "idle"
        /\ step' \in {"undo", "restoring"} =>
             aside' = aside /\ step \in Exposed /\ kind \in Replacing
        /\ step' \in {"undo", "restoring", "resume"}
    BY <1>2 DEF StepFails, Handler, Escapes, Exposed, Replacing
  <2>2. ProperInv'
    BY <1>t, <2>1, CutShortProper DEF ProperInv, Exposed
  <2>3. QuietInv' /\ AskedInv'
    BY <2>1 DEF WorkInv, QuietInv, AskedInv, InWork
  <2>4. LaunchedAsConfigured'
    <3>1. CASE running = world /\ running # NoWorld
      <4>1. step \notin {"write", "undo"}
        BY <1>t, <2>1, <3>1 DEF WorkInv, QuietInv, InWork, KindOfStep
      <4> QED BY <2>1, <3>1, <4>1, CutShortProper DEF WorkInv, LaunchedAsConfigured, Dir
    <3>2. CASE running # world
      BY <1>t, <2>1, <3>2, CutShortProper DEF WorkInv, LaunchedAsConfigured, FilesTypeOK
    <3> QED BY <2>1, <3>1, <3>2 DEF LaunchedAsConfigured
  <2> QED BY <1>1, <2>2, <2>3, <2>4 DEF WorkInv
<1>3. CASE RenameRefused
  <2>1. /\ UNCHANGED <<root, backups, kind, world, source, target, before, running, present>>
        /\ step \in Exposed /\ kind \in Replacing
        /\ step' = "undo" => aside' = aside
        /\ step' \in {"undo", "resume"}
    BY <1>3, <1>t DEF RenameRefused, Handler, Escapes, Exposed, KindOfStep
  <2>2. ProperInv'
    BY <1>t, <2>1 DEF ProperInv, Exposed, Dir
  <2>3. step # "idle"
    BY <2>1 DEF Exposed
  <2> QED BY <1>1, <2>1, <2>2, <2>3 DEF WorkInv, QuietInv, AskedInv, InWork, LaunchedAsConfigured
<1>4. CASE PanelDies
  <2>1. CutShort /\ running' = NoWorld /\ step' = "idle" /\ before' = Absent
    BY <1>4 DEF PanelDies, OperationForgotten
  <2>2. ProperInv'
    BY <2>1, CutShortProper, Constants DEF ProperInv, Exposed
  <2> QED BY <1>1, <2>1, <2>2 DEF WorkInv, QuietInv, AskedInv, InWork, LaunchedAsConfigured
<1> QED BY <1>2, <1>3, <1>4 DEF Troubles

\* What users ask for, the game, and the log readers.
LEMMA RequestWork ==
    ASSUME WorkInv, NEW w \in Worlds,
           \/ \E k \in Kinds[w] : Ask(k, w)
           \/ Start(w) \/ Stop(w) \/ \E s \in Saves \ {Fresh} : GameWrites(w, s)
           \/ ReaderChecks(w) \/ ReaderWrites(w)
    PROVE  WorkInv'
<1> USE Constants DEF opvars, game, ghosts, disk
<1>t. /\ FilesTypeOK /\ KindOfStep /\ ProperInv
      /\ Dir \in Dirs /\ root[w] \in Dirs /\ before \in Dirs /\ world \in Worlds
  BY DEF WorkInv, KeepInv, FilesTypeOK, Dir
<1>1. KeepInv'
  BY RequestKeeps DEF WorkInv
<1>2. ASSUME NEW k \in Kinds[w], Ask(k, w) PROVE WorkInv'
  <2>0. /\ k \in AllKinds \ {"start", "stop"}
        /\ FirstStep(k) \in {"write", "snapshot", "delete", "purge"}
        /\ FirstStep(k) = "write" => k \in {"create", "edit"}
        /\ FirstStep(k) = "delete" => k = "delete"
    BY <1>2, WorldFilesAssumption DEF Ask, AllKinds, FirstStep, Pausing
  <2>1. /\ UNCHANGED <<root, backups>> /\ Allowed(k, w)
        /\ kind' = k /\ world' = w /\ step' = FirstStep(k) /\ before' = root[w]
        /\ source' \in Sources(k, w)
        /\ target' \in IF k = "purge" THEN {"plain"} ELSE Targets(k, w)
        /\ running' = IF k \in Pausing /\ running = w THEN NoWorld ELSE running
    BY <1>2 DEF Ask
  <2>2. InWork' <=> k \notin {"delete", "purge"}
    BY <2>0, <2>1 DEF InWork
  <2>3. k \notin {"delete", "purge"} => running' # w
    BY <1>t, <2>0, <2>1, WorldFilesAssumption DEF Allowed, Pausing, AllKinds, Listed, WorkInv,
       LaunchedAsConfigured
  <2>4. LaunchedAsConfigured'
    BY <2>1 DEF WorkInv, LaunchedAsConfigured
  <2>5. AskedInv'
    <3> SUFFICES ASSUME k \notin {"delete", "purge"} PROVE AskedInv'
      BY <2>2 DEF AskedInv
    <3>1. kind' \in {"create", "edit", "backup", "restore", "import", "recover", "archive"}
      BY <2>0, <2>1 DEF AllKinds
    <3>2. k = "create" => before' = Absent /\ present'[w] = "unborn"
      BY <1>2, <2>1 DEF Allowed, GivenUp, Ask
    <3>3. k # "create" => before'.pera # "none"
      BY <2>0, <2>1 DEF Allowed, Listed
    <3>4. k \notin {"create", "edit"} => target' = before'.pera
      BY <2>1 DEF Targets
    <3>5. k \in Replacing => source'.save # "none"
      <4>1. CASE k = "restore"
        BY <1>t, <2>1, <4>1 DEF Sources, ProperInv
      <4>2. CASE k \in {"import", "recover"}
        BY <2>1, <4>2 DEF Sources
      <4> QED BY <4>1, <4>2 DEF Replacing
    <3>6. k \in {"import", "recover"} => source'.save \in Saves
      BY <2>1 DEF Sources
    <3> QED BY <2>1, <3>1, <3>2, <3>3, <3>4, <3>5, <3>6 DEF AskedInv
  <2>6. ProperInv'
    <3>1. step' \in Exposed => step' = "write" /\ k \in {"create", "edit"}
      BY <2>0, <2>1 DEF Exposed
    <3>2. step' = "delete" => source'.save # "none"
      <4>1. ASSUME k = "delete" PROVE source' \in backups[w]
        BY <2>1, <4>1 DEF Sources
      <4> QED BY <1>t, <2>0, <2>1, <4>1 DEF ProperInv
    <3>3. Dir' = root[w]
      BY <2>1 DEF Dir
    <3>4. step' # "metadata"
      BY <2>0, <2>1
    <3> QED BY <1>t, <2>1, <3>1, <3>2, <3>3, <3>4 DEF ProperInv, Replacing
  <2> QED BY <1>1, <2>1, <2>2, <2>3, <2>4, <2>5, <2>6 DEF WorkInv, QuietInv
<1>3. CASE Start(w)
  <2>1. /\ UNCHANGED <<backups, before, kind, source, world>> /\ step = "idle" /\ step' = "idle"
        /\ root' = [root EXCEPT ![w] = Repaired(@)] /\ running' = w /\ Listed(w)
    BY <1>3 DEF Start, Launch
  <2>2. /\ root'[w] = Repaired(root[w]) /\ root[w].save # "none"
        /\ \A v \in Worlds \ {w} : root'[v] = root[v]
    BY <1>t, <2>1, ListedIsProper DEF FilesTypeOK
  <2>3. /\ Repaired(root[w]).save = root[w].save /\ Repaired(root[w]).files = "agree"
        /\ Repaired(root[w]).pera # "none"
    BY <1>t, <2>1, DirectoryFacts DEF Listed
  <2>4. ProperInv'
    BY <1>t, <2>1, <2>2, <2>3 DEF ProperInv, Exposed
  <2> QED BY <1>1, <2>1, <2>2, <2>3, <2>4 DEF WorkInv, LaunchedAsConfigured, QuietInv, AskedInv, InWork
<1>4. CASE Stop(w)
  <2>1. /\ UNCHANGED <<root, backups, before, kind, world, source, target, step, aside, present>>
        /\ running' = NoWorld
    BY <1>4 DEF Stop
  <2>2. ProperInv'
    BY <1>t, <2>1 DEF ProperInv, Dir
  <2> QED BY <1>1, <1>t, <2>1, <2>2, WorldFilesAssumption
          DEF WorkInv, LaunchedAsConfigured, QuietInv, AskedInv, InWork
<1>5. ASSUME NEW s \in Saves, GameWrites(w, s) PROVE WorkInv'
  <2>1. /\ UNCHANGED <<backups, before, kind, world, source, target, step, aside, running>>
        /\ running = w /\ root' = [root EXCEPT ![w].save = s]
        /\ \A v \in Worlds \ {w} : present'[v] = present[v]
    BY <1>5, <1>t DEF GameWrites, FilesTypeOK
  <2>2. /\ root'[w].save = s /\ root'[w].files = root[w].files
        /\ \A v \in Worlds \ {w} : root'[v] = root[v]
    BY <1>t, <2>1 DEF FilesTypeOK, Dirs
  <2>3. InWork => world # w
    BY <2>1 DEF WorkInv, QuietInv
  <2>4. step \in {"snapshot", "copy", "aside", "archive", "metadata"} => InWork
    BY <1>t DEF InWork, KindOfStep, Pausing, Replacing
  <2>5. ProperInv'
    BY <1>t, <2>1, <2>2, <2>3, <2>4 DEF ProperInv, Dir
  <2>6. AskedInv'
    BY <1>t, <2>1, <2>3 DEF WorkInv, AskedInv, InWork
  <2> QED BY <1>1, <1>t, <2>1, <2>2, <2>5, <2>6
          DEF WorkInv, LaunchedAsConfigured, QuietInv, InWork, FilesTypeOK
<1>6. CASE ReaderChecks(w) \/ ReaderWrites(w)
  <2>1. /\ UNCHANGED <<backups, before, kind, world, source, target, step, aside, running, present>>
        /\ \A v \in Worlds : root'[v] = root[v] \/ (root[v] = Absent /\ root'[v] = Bare)
    BY <1>6, <1>t DEF ReaderChecks, ReaderWrites, FilesTypeOK
  <2>2. step \in {"snapshot", "copy", "aside", "archive"} => Dir # Absent
    <3> SUFFICES ASSUME step \in {"snapshot", "copy", "aside", "archive"} PROVE Dir # Absent
      OBVIOUS
    <3>1. InWork /\ kind # "create" /\ Dir = before
      BY <1>t DEF InWork, KindOfStep, Pausing, Replacing, ProperInv
    <3> QED BY <3>1 DEF WorkInv, AskedInv
  <2>3. ProperInv'
    BY <1>t, <2>1, <2>2 DEF ProperInv, Dir
  <2>4. LaunchedAsConfigured'
    BY <1>t, <2>1 DEF WorkInv, LaunchedAsConfigured, FilesTypeOK
  <2> QED BY <1>1, <2>1, <2>3, <2>4 DEF WorkInv, QuietInv, AskedInv, InWork
<1> QED BY <1>2, <1>3, <1>4, <1>5, <1>6

LEMMA WorkInitial == FilesInit => WorkInv
<1> SUFFICES ASSUME FilesInit PROVE WorkInv
  OBVIOUS
<1>1. FilesTypeOK
  BY FilesInitTyped
<1>2. step = "idle" /\ \A w \in Worlds : present[w] \notin Saves
  BY WorldFilesAssumption DEF FilesInit
<1>3. KeepInv
  BY <1>1, <1>2 DEF KeepInv, PresentKept, KindOfStep, Sealed, Quiet, Deleting, Purging, Sealing, Exposed
<1>4. ProperInv
  BY <1>2, Constants DEF FilesInit, ProperInv, Exposed
<1> QED BY <1>2, <1>3, <1>4 DEF FilesInit, WorkInv, LaunchedAsConfigured, QuietInv, AskedInv, InWork

LEMMA WorkStep == WorkInv /\ [FilesNext]_vars => WorkInv'
<1> SUFFICES ASSUME WorkInv, [FilesNext]_vars PROVE WorkInv'
  OBVIOUS
<1>1. CASE UNCHANGED vars
  <2>1. UNCHANGED <<root, backups, leftovers, archived, kind, world, source, target, before,
                    running, present, step, aside>>
    BY <1>1 DEF vars, disk, opvars, game, ghosts
  <2>2. FilesTypeOK'
    BY <1>1, TypeStep DEF WorkInv, KeepInv
  <2>3. KeepInv'
    BY <2>1, <2>2 DEF WorkInv, KeepInv, PresentKept, SafeCopies, KindOfStep, Sealed, Quiet,
       Deleting, Purging
  <2>4. ProperInv' /\ LaunchedAsConfigured'
    BY <2>1 DEF WorkInv, ProperInv, Dir, LaunchedAsConfigured
  <2> QED BY <2>1, <2>3, <2>4 DEF WorkInv, QuietInv, AskedInv, InWork
<1>2. CASE Steps \/ Troubles
  BY <1>2, ReplaceWork, OtherWork, TroublesWork DEF Steps, ReplaceStep
<1> QED BY <1>1, <1>2, RequestWork DEF FilesNext

\* A game runs with settings files that agree with its pera.json, whatever a
\* failed or interrupted write_world has left.
THEOREM GamesLaunchedAsConfigured == FilesSpec => []LaunchedAsConfigured
<1>1. WorkInv => LaunchedAsConfigured
  BY DEF WorkInv
<1> QED BY WorkInitial, WorkStep, <1>1, PTL DEF FilesSpec
-----------------------------------------------------------------------------
(* Where an operation stands.  As long as at most one thing has gone wrong  *)
(* during it, the step it is at tells what its world's directory holds: the *)
(* save and pera.json from before it, the new ones, or a known mixture.     *)
SameAs(d, save, pera) == d.save = save /\ d.pera = pera

Preparing == step \in {"snapshot", "copy", "aside", "archive"} => faults = 0
Moved == step \in Exposed /\ kind \in Replacing => aside = before
Swapping ==
    step = "swap" =>
    /\ kind = "recover" => faults = 0 /\ Dir = [before EXCEPT !.save = "torn"]
    /\ kind # "recover" => Dir = IF faults = 0 THEN Absent ELSE Bare
Writing ==
    step \in {"write", "metadata"} =>
    /\ kind \in Replacing => faults = 0 /\ SameAs(Dir, source.save, source.pera)
    /\ kind = "edit" => faults = 0 /\ SameAs(Dir, before.save, before.pera)
    /\ kind = "create" => Dir \in {Absent, Bare}
Replaced == step \in {"register", "clean"} => faults = 0 /\ SameAs(Dir, source.save, target)
Undoing == step \in {"undo", "restoring"} => faults = 1 /\ result = "failed"
PuttingBack ==
    step = "restoring" => Dir = IF kind = "recover" THEN [before EXCEPT !.save = "torn"] ELSE Absent
Unfailed == step \notin {"undo", "restoring", "resume"} => result = "ok"
Undone ==
    step = "resume" /\ result = "failed" =>
    /\ faults = 1
    /\ kind # "create" => SameAs(Dir, before.save, before.pera)
    /\ kind = "create" => Dir \in {Absent, Bare}
Done ==
    step = "resume" /\ result # "failed" =>
    /\ kind \in Replacing => SameAs(Dir, source.save, target)
    /\ kind = "backup" => SameAs(Dir, before.save, before.pera)
    /\ kind = "edit" => SameAs(Dir, before.save, target)
    /\ kind = "create" => result = "ok" /\ SameAs(Dir, Fresh, target)
    /\ kind = "archive" => archived[world] # {} /\ Dir \in {Absent, Bare}
Stands ==
    /\ Preparing /\ Moved /\ Swapping /\ Writing /\ Replaced /\ Undoing
    /\ PuttingBack /\ Unfailed /\ Undone /\ Done
ShapeInv == InWork /\ faults <= 1 => Stands

LEMMA NewWorldIsEmpty == WorkInv /\ InWork /\ kind # "create" => before # Absent
  BY Constants DEF WorkInv, AskedInv

\* The steps of an operation that go through.
LEMMA StepsStand == WorkInv /\ ShapeInv /\ Steps => ShapeInv'
<1> SUFFICES ASSUME WorkInv, ShapeInv, Steps, InWork', faults' <= 1 PROVE Stands'
  BY DEF ShapeInv
<1> USE Constants DEF Goes, Keeps, opvars, game, ghosts, disk
<1>t. /\ FilesTypeOK /\ KindOfStep /\ ProperInv
      /\ Dir \in Dirs /\ source \in Dirs /\ before \in Dirs /\ aside \in Dirs /\ world \in Worlds
  BY DEF WorkInv, KeepInv, FilesTypeOK, Dir
<1>1. ~Resume /\ ~DeleteBackup /\ ~Purge
  BY <1>t DEF Resume, OperationForgotten, DeleteBackup, Purge, InWork, KindOfStep
<1>3. /\ UNCHANGED <<kind, world, source, target, before, faults, result>>
      /\ step # "idle"
  BY <1>1 DEF Steps, Snapshot, Copy, Aside, Swap, WriteFiles, WriteMetadata, Register, Clean,
     Undo, PutBack, Archive
<1>4. InWork /\ Stands
  BY <1>3 DEF InWork, ShapeInv
<1>5. kind # "create" => before.pera # "none" /\ before # Absent
  BY <1>4, NewWorldIsEmpty DEF WorkInv, AskedInv
<1>6. CASE Snapshot
  <2>1. /\ step = "snapshot" /\ step' = AfterSnapshot /\ root' = root
        /\ kind \in Pausing \cup {"recover", "archive"}
    BY <1>t, <1>6 DEF Snapshot, KindOfStep
  <2>2. /\ step' \in {"resume", "copy", "aside", "archive"}
        /\ step' = "resume" => kind = "backup"
    BY <2>1 DEF AfterSnapshot, Pausing
  <2>3. Dir' = before /\ result = "ok" /\ faults = 0
    BY <1>3, <1>4, <1>t, <2>1 DEF Stands, Unfailed, Preparing, ProperInv, Dir
  <2> QED BY <1>3, <2>2, <2>3 DEF Stands, Preparing, Moved, Swapping, Writing, Replaced,
          Undoing, PuttingBack, Unfailed, Undone, Done, SameAs, Exposed, Replacing
<1>7. CASE Copy
  <2>1. step = "copy" /\ step' = "aside" /\ root' = root
    BY <1>7 DEF Copy
  <2> QED BY <1>3, <1>4, <2>1 DEF Stands, Preparing, Moved, Swapping, Writing, Replaced,
          Undoing, PuttingBack, Unfailed, Undone, Done, Exposed
<1>8. CASE Aside
  <2>1. step = "aside" /\ step' = "swap" /\ kind \in Replacing
    BY <1>8, <1>t DEF Aside, KindOfStep
  <2>2. Dir = before /\ faults = 0 /\ result = "ok"
    BY <1>4, <1>t, <2>1 DEF Stands, Preparing, Unfailed, ProperInv
  <2>3. aside' = before /\ Dir' = MovedAway
    BY <1>8, <1>t, <2>2 DEF Aside, FilesTypeOK, Dir
  <2>4. Moved' /\ Swapping'
    BY <1>3, <2>1, <2>2, <2>3 DEF Moved, Swapping, MovedAway, Dir
  <2> QED BY <1>3, <2>1, <2>2, <2>4 DEF Stands, Preparing, Writing, Replaced,
          Undoing, PuttingBack, Unfailed, Undone, Done
<1>9. CASE Swap
  <2>1. step = "swap" /\ ~SwapRefused /\ kind \in Replacing /\ UNCHANGED aside /\ result = "ok"
        /\ step' = IF kind = "recover" THEN "clean" ELSE "write"
    BY <1>9, <1>4, <1>t DEF Swap, KindOfStep, Stands, Unfailed
  <2>2. Dir' = Swapped
    BY <1>9, <1>t DEF Swap, FilesTypeOK, Dir
  <2>3. faults = 0
    BY <1>4, <2>1 DEF Stands, Swapping, SwapRefused, Dir
  <2>4. Writing'
    BY <1>3, <2>1, <2>2, <2>3 DEF Writing, Swapped, SameAs, Replacing
  <2>5. Replaced'
    <3> SUFFICES ASSUME kind = "recover" PROVE SameAs(Dir', source.save, target)
      BY <1>3, <2>1, <2>3 DEF Replaced, SameAs
    <3>1. Dir = [before EXCEPT !.save = "torn"]
      BY <1>4, <2>1 DEF Stands, Swapping
    <3>2. target = before.pera
      BY <1>4 DEF WorkInv, AskedInv
    <3> QED BY <1>t, <2>2, <3>1, <3>2 DEF Swapped, SameAs, Dir, Dirs
  <2>6. Moved'
    BY <1>3, <1>4, <2>1 DEF Stands, Moved, Exposed
  <2> QED BY <1>3, <2>1, <2>4, <2>5, <2>6 DEF Stands, Preparing, Swapping, Undoing, PuttingBack, Unfailed,
          Undone, Done
<1>10. CASE WriteFiles
  <2>1. step = "write" /\ step' = "metadata" /\ UNCHANGED aside /\ result = "ok"
        /\ kind \in {"create", "edit", "restore", "import"}
    BY <1>10, <1>4, <1>t DEF WriteFiles, KindOfStep, Stands, Unfailed
  <2>2. Dir' = FilesWritten(Dir)
    BY <1>10, <1>t DEF WriteFiles, FilesTypeOK, Dir
  <2>3. kind # "create" => Dir # Absent
    BY <1>4, <1>5, <2>1 DEF Stands, Writing, SameAs, WorkInv, AskedInv, Replacing
  <2>4. Writing'
    <3>1. CASE kind = "create"
      BY <1>3, <1>4, <2>1, <2>2, <3>1, DirectoryFacts, Empty DEF Stands, Writing, Replacing
    <3>2. CASE kind # "create"
      <4>1. Dir'.save = Dir.save /\ Dir'.pera = Dir.pera
        BY <1>t, <2>2, <2>3, <3>2, DirectoryFacts
      <4> QED BY <1>3, <1>4, <2>1, <3>2, <4>1 DEF Stands, Writing, SameAs
    <3> QED BY <3>1, <3>2
  <2>6. Moved'
    BY <1>3, <1>4, <2>1 DEF Stands, Moved, Exposed
  <2> QED BY <1>3, <2>1, <2>4, <2>6 DEF Stands, Preparing, Swapping, Replaced, Undoing, PuttingBack, Unfailed,
          Undone, Done
<1>11. CASE WriteMetadata
  <2>1. step = "metadata" /\ step' = AfterMetadata /\ UNCHANGED aside /\ result = "ok"
        /\ kind \in {"create", "edit", "restore", "import"}
    BY <1>11, <1>4, <1>t DEF WriteMetadata, KindOfStep, Stands, Unfailed
  <2>2. Dir' = MetadataWritten(Dir)
    BY <1>11, <1>t DEF WriteMetadata, FilesTypeOK, Dir
  <2>3. Dir'.save = Dir.save /\ Dir'.pera = target
    BY <1>t, <2>2, DirectoryFacts
  <2>4. Replaced'
    BY <1>3, <1>4, <2>1, <2>3 DEF Stands, Writing, Replaced, SameAs, AfterMetadata, Replacing
  <2>5. Done'
    <3> SUFFICES ASSUME step' = "resume" PROVE Done'
      BY DEF Done
    <3>1. kind \in {"create", "edit"}
      BY <2>1 DEF AfterMetadata
    <3>2. kind = "create" => Dir = Bare
      BY <1>4, <1>t, <2>1 DEF Stands, Writing, ProperInv
    <3> QED BY <1>3, <1>4, <2>1, <2>3, <3>1, <3>2 DEF Stands, Writing, Done, SameAs, Replacing
  <2>6. Moved'
    BY <1>3, <1>4, <2>1 DEF Stands, Moved, Exposed
  <2>7. step' \in {"register", "clean", "resume"}
    BY <2>1 DEF AfterMetadata
  <2> QED BY <1>3, <2>1, <2>4, <2>5, <2>6, <2>7 DEF Stands, Preparing, Swapping, Writing, Undoing,
          PuttingBack, Unfailed, Undone
<1>12. CASE Register
  <2>1. step = "register" /\ step' = "clean" /\ UNCHANGED <<root, aside>>
    BY <1>12 DEF Register
  <2> QED BY <1>3, <1>4, <2>1 DEF Stands, Preparing, Moved, Swapping, Writing, Replaced,
          Undoing, PuttingBack, Unfailed, Undone, Done, Exposed, Dir, SameAs
<1>13. CASE Clean
  <2>1. step = "clean" /\ step' = "resume" /\ UNCHANGED root /\ kind \in Replacing
    BY <1>13, <1>t DEF Clean, KindOfStep
  <2> QED BY <1>3, <1>4, <2>1 DEF Stands, Preparing, Moved, Swapping, Writing, Replaced,
          Undoing, PuttingBack, Unfailed, Undone, Done, Exposed, Dir, SameAs, Replacing
<1>14. CASE Undo
  <2>1. step = "undo" /\ step' = "restoring" /\ UNCHANGED aside /\ kind \in {"restore", "import"}
    BY <1>14, <1>t DEF Undo, KindOfStep
  <2>2. Dir' = Absent
    BY <1>14, <1>t DEF Undo, FilesTypeOK, Dir
  <2> QED BY <1>3, <1>4, <2>1, <2>2 DEF Stands, Preparing, Moved, Swapping, Writing, Replaced,
          Undoing, PuttingBack, Unfailed, Undone, Done, Exposed, Replacing
<1>15. CASE PutBack
  <2>1. step = "restoring" /\ step' = "resume" /\ kind \in Replacing
    BY <1>15, <1>t DEF PutBack, KindOfStep
  <2>2. Dir' = Restored
    BY <1>15, <1>t DEF PutBack, FilesTypeOK, Dir
  <2>3. /\ aside = before /\ result = "failed" /\ faults = 1
        /\ kind = "recover" => Dir = [before EXCEPT !.save = "torn"]
    BY <1>4, <2>1 DEF Stands, Moved, Undoing, PuttingBack, Exposed
  <2>4. SameAs(Dir', before.save, before.pera)
    BY <1>t, <2>2, <2>3 DEF Restored, SameAs, Dir, Dirs
  <2> QED BY <1>3, <2>1, <2>3, <2>4 DEF Stands, Preparing, Moved, Swapping, Writing, Replaced,
          Undoing, PuttingBack, Unfailed, Undone, Done, Exposed, Replacing, SameAs
<1>16. CASE Archive
  <2>1. step = "archive" /\ step' = "resume" /\ kind = "archive" /\ result = "ok"
    BY <1>16, <1>4, <1>t DEF Archive, KindOfStep, Stands, Unfailed
  <2>2. Dir' = Absent /\ archived'[world] # {}
    BY <1>16, <1>t DEF Archive, FilesTypeOK, Dir
  <2> QED BY <1>3, <2>1, <2>2 DEF Stands, Preparing, Moved, Swapping, Writing, Replaced,
          Undoing, PuttingBack, Unfailed, Undone, Done, Exposed, Replacing, SameAs
<1> QED BY <1>1, <1>6, <1>7, <1>8, <1>9, <1>10, <1>11, <1>12, <1>13, <1>14, <1>15, <1>16 DEF Steps
\* A failure, a refused rename or the death of the panel.
LEMMA TroublesStand == WorkInv /\ ShapeInv /\ Troubles => ShapeInv'
<1> SUFFICES ASSUME WorkInv, ShapeInv, Troubles, InWork', faults' <= 1 PROVE Stands'
  BY DEF ShapeInv
<1> USE Constants DEF Keeps, opvars, game, ghosts, disk
<1>t. /\ FilesTypeOK /\ KindOfStep /\ ProperInv
      /\ Dir \in Dirs /\ source \in Dirs /\ before \in Dirs /\ aside \in Dirs /\ world \in Worlds
      /\ faults \in 0..2
  BY DEF WorkInv, KeepInv, FilesTypeOK, Dir
<1>1. ~PanelDies
  BY DEF PanelDies, OperationForgotten, InWork
<1>2. CASE StepFails
  <2>1. /\ CutShort /\ UNCHANGED <<kind, world, source, target, before>>
        /\ step' = Handler /\ aside' = (IF Escapes THEN Absent ELSE aside)
        /\ result' = (IF step = "clean" THEN "unclean" ELSE "failed")
        /\ faults = 0 /\ faults' = 1 /\ step \notin {"idle", "resume"}
    BY <1>2, <1>t DEF StepFails, Worse
  <2>2. Stands /\ InWork
    BY <2>1 DEF ShapeInv, InWork
  <2>3. step \notin {"undo", "restoring"}
    <3>1. Undoing
      BY <2>2 DEF Stands
    <3>2. faults = 0
      BY <2>1
    <3> QED BY <3>1, <3>2 DEF Undoing
  <2>4. kind # "create" => before # Absent
    BY <2>2, NewWorldIsEmpty
  <2>5. step # "write" => Dir' = Dir
    BY <1>t, <2>1, <2>3, CutShortProper DEF Dir
  <2>6. CASE Handler = "restoring"
    <3>1. step = "swap" /\ kind = "recover" /\ ~Escapes
      BY <2>6 DEF Handler, Escapes
    <3>2. Dir' = [before EXCEPT !.save = "torn"] /\ aside' = before /\ kind \in Replacing
      BY <2>1, <2>2, <2>5, <3>1 DEF Stands, Swapping, Moved, Exposed, Replacing
    <3> QED BY <2>1, <2>6, <3>1, <3>2 DEF Stands, Preparing, Moved, Swapping, Writing, Replaced,
            Undoing, PuttingBack, Unfailed, Undone, Done
  <2>7. CASE Handler = "undo"
    <3>1. step \in Exposed \ {"clean"} /\ kind \in Replacing /\ ~Escapes
      BY <2>7 DEF Handler, Escapes, Exposed, Replacing
    <3>2. aside' = before
      BY <2>1, <2>2, <3>1 DEF Stands, Moved
    <3> QED BY <2>1, <2>7, <3>1, <3>2 DEF Stands, Preparing, Moved, Swapping, Writing, Replaced,
            Undoing, PuttingBack, Unfailed, Undone, Done
  <2>8. CASE Handler = "resume"
    <3>1. /\ step \in {"write", "metadata"} => kind \in {"create", "edit"}
          /\ step \notin {"swap", "register"}
      BY <1>t, <2>8 DEF Handler, KindOfStep, Replacing
    <3>2. CASE step = "clean"
      BY <1>t, <2>1, <2>2, <2>5, <2>8, <3>2 DEF Stands, Preparing, Moved, Swapping, Writing, Replaced,
         Undoing, PuttingBack, Unfailed, Undone, Done, SameAs, KindOfStep, Exposed, Replacing
    <3>3. CASE step # "clean"
      <4>1. ASSUME kind # "create" PROVE SameAs(Dir', before.save, before.pera)
        <5>1. CASE step \in {"write", "metadata"}
          <6>1. SameAs(Dir, before.save, before.pera)
            BY <2>2, <3>1, <4>1, <5>1 DEF Stands, Writing
          <6>2. Dir # Absent
            BY <2>4, <4>1, <6>1, <2>2 DEF SameAs, WorkInv, AskedInv
          <6>3. Dir' \in {Dir, FilesWritten(Dir)}
            BY <2>1, <2>5, CutShortProper DEF Dir
          <6> QED BY <1>t, <6>1, <6>2, <6>3, DirectoryFacts DEF SameAs
        <5>2. CASE step \notin {"write", "metadata"}
          <6>1. step \in {"snapshot", "copy", "aside", "archive"}
            BY <1>t, <2>1, <2>2, <2>3, <3>1, <3>3, <5>2
               DEF FilesTypeOK, StepNames, Exposed, KindOfStep, InWork
          <6> QED BY <1>t, <2>5, <5>2, <6>1 DEF ProperInv, SameAs
        <5> QED BY <5>1, <5>2
      <4>2. ASSUME kind = "create" PROVE Dir' \in {Absent, Bare}
        <5>1. step \in {"write", "metadata"}
          BY <1>t, <2>1, <2>2, <2>3, <3>1, <3>3, <4>2
             DEF FilesTypeOK, StepNames, Exposed, KindOfStep, InWork, Pausing, Replacing
        <5>2. Dir \in {Absent, Bare}
          BY <2>2, <4>2, <5>1 DEF Stands, Writing
        <5>3. Dir' \in {Dir, FilesWritten(Dir)}
          BY <2>1, <2>5, <5>1, CutShortProper DEF Dir
        <5> QED BY <5>2, <5>3, Empty, DirectoryFacts
      <4> QED BY <2>1, <2>8, <3>3, <4>1, <4>2 DEF Stands, Preparing, Moved, Swapping, Writing,
              Replaced, Undoing, PuttingBack, Unfailed, Undone, Done, Exposed
    <3> QED BY <3>2, <3>3
  <2> QED BY <2>6, <2>7, <2>8 DEF Handler
<1>3. CASE RenameRefused
  <2>1. /\ UNCHANGED <<root, kind, world, source, target, before, faults>>
        /\ step \in {"swap", "restoring"} /\ kind # "recover" /\ Dir # Absent
        /\ step' = Handler /\ aside' = (IF Escapes THEN Absent ELSE aside) /\ result' = "failed"
    BY <1>3 DEF RenameRefused, Dir
  <2>2. Stands /\ InWork
    BY <2>1 DEF ShapeInv, InWork
  <2>3. step = "swap" /\ faults = 1 /\ kind \in {"restore", "import"}
    <3>1. step # "restoring"
      BY <2>1, <2>2 DEF Stands, PuttingBack
    <3>2. step = "swap" /\ kind \in {"restore", "import"}
      BY <1>t, <2>1, <3>1 DEF KindOfStep, Replacing
    <3>3. faults # 0
      BY <2>1, <2>2, <3>2 DEF Stands, Swapping
    <3> QED BY <1>t, <2>1, <3>2, <3>3
  <2>4. step' = "undo" /\ aside' = before
    BY <2>1, <2>2, <2>3 DEF Handler, Escapes, Stands, Moved, Exposed, Replacing
  <2> QED BY <2>1, <2>3, <2>4 DEF Stands, Preparing, Moved, Swapping, Writing, Replaced,
          Undoing, PuttingBack, Unfailed, Undone, Done, Replacing
<1> QED BY <1>1, <1>2, <1>3 DEF Troubles

\* A request starts an operation; a late reader may make a directory under it.
LEMMA RequestStands ==
    ASSUME WorkInv, ShapeInv, NEW w \in Worlds,
           \/ \E k \in Kinds[w] : Ask(k, w)
           \/ Start(w) \/ Stop(w) \/ \E s \in Saves \ {Fresh} : GameWrites(w, s)
           \/ ReaderChecks(w) \/ ReaderWrites(w)
    PROVE  ShapeInv'
<1> SUFFICES ASSUME InWork', faults' <= 1 PROVE Stands'
  BY DEF ShapeInv
<1> USE Constants DEF opvars, game, ghosts, disk
<1>t. /\ FilesTypeOK /\ KindOfStep /\ ProperInv
      /\ Dir \in Dirs /\ source \in Dirs /\ before \in Dirs /\ aside \in Dirs /\ world \in Worlds
      /\ faults \in 0..2
  BY DEF WorkInv, KeepInv, FilesTypeOK, Dir
<1>1. ASSUME NEW k \in Kinds[w], Ask(k, w) PROVE Stands'
  <2>1. k \in AllKinds \ {"start", "stop", "delete", "purge"}
    BY <1>1, WorldFilesAssumption DEF Ask, InWork, AllKinds, FirstStep, Pausing
  <2>2. /\ kind' = k /\ world' = w /\ root' = root /\ before' = root[w]
        /\ step' = (IF k \in {"create", "edit"} THEN "write" ELSE "snapshot")
        /\ result' = "ok" /\ faults' = 0
        /\ k = "create" => root[w] = Absent
    BY <1>1, <2>1 DEF Ask, FirstStep, AllKinds, Pausing, Allowed
  <2>3. Dir' = before'
    BY <2>2 DEF Dir
  <2>4. Writing'
    BY <2>2, <2>3 DEF Writing, SameAs, Replacing
  <2>5. step' \in Exposed => kind' \notin Replacing
    BY <2>2 DEF Exposed, Replacing
  <2> QED BY <2>2, <2>4, <2>5 DEF Stands, Preparing, Moved, Swapping, Replaced,
          Undoing, PuttingBack, Unfailed, Undone, Done
<1>2. CASE Start(w)
  BY <1>2 DEF Start, InWork
<1>s. ASSUME UNCHANGED <<kind, world, source, target, before, aside, step, result, faults, archived>>,
             Dir' = Dir
      PROVE  Stands'
  <2>1. Stands
    BY <1>s DEF ShapeInv, InWork
  <2> QED BY <1>s, <2>1 DEF Stands, Preparing, Moved, Swapping, Writing, Replaced,
          Undoing, PuttingBack, Unfailed, Undone, Done
<1>3. CASE Stop(w) \/ ReaderChecks(w)
  BY <1>3, <1>s DEF Stop, ReaderChecks, Dir
<1>4. ASSUME NEW s \in Saves, GameWrites(w, s) PROVE Stands'
  <2>1. world # w
    BY <1>4 DEF GameWrites, WorkInv, QuietInv, InWork
  <2>2. Dir' = Dir
    BY <1>4, <1>t, <2>1 DEF GameWrites, Dir, FilesTypeOK
  <2> QED BY <1>4, <1>s, <2>2 DEF GameWrites
<1>5. CASE ReaderWrites(w)
  <2>1. UNCHANGED <<kind, world, source, target, before, aside, step, result, archived>>
    BY <1>5 DEF ReaderWrites
  <2>2. CASE Dir' = Dir /\ faults' = faults
    BY <1>s, <2>1, <2>2
  <2>3. CASE ~(Dir' = Dir /\ faults' = faults)
    <3>1. step # "idle"
      BY <2>1 DEF InWork
    <3>2. w = world /\ Dir = Absent /\ Dir' = Bare /\ faults = 0 /\ faults' = 1
      BY <1>5, <1>t, <2>3, <3>1 DEF ReaderWrites, Worse, Dir, FilesTypeOK
    <3>3. Stands /\ InWork
      BY <2>1, <3>2 DEF ShapeInv, InWork
    <3>4. kind # "create" => before.save # "none"
      BY <1>t, <3>3, NewWorldIsEmpty DEF ProperInv
    <3>5. kind \in Replacing => source.save # "none"
      BY <3>3 DEF WorkInv, AskedInv
    <3>6. step \notin {"snapshot", "copy", "aside", "archive"}
      BY <1>t, <3>2, <3>3, <3>4 DEF ProperInv, KindOfStep, Pausing, Replacing
    <3>7. step \notin {"undo", "restoring"}
      <4>1. Undoing
        BY <3>3 DEF Stands
      <4> QED BY <3>2, <4>1 DEF Undoing
    <3>8. step \notin {"register", "clean"}
      BY <1>t, <3>2, <3>3, <3>5 DEF Stands, Replaced, SameAs, KindOfStep, Replacing
    <3>9. step \in {"write", "metadata"} => kind = "create"
      BY <1>t, <3>2, <3>3, <3>4, <3>5 DEF Stands, Writing, SameAs, KindOfStep, Replacing
    <3>10. step = "resume" => result # "failed" /\ kind = "archive"
      BY <3>2, <3>3, <3>4, <3>5 DEF Stands, Undone, Done, SameAs, WorkInv, AskedInv, Replacing
    <3>11. kind # "recover" \/ step # "swap"
      <4>1. [before EXCEPT !.save = "torn"].save = "torn" /\ Dir.save = "none"
        BY <1>t, <3>2 DEF Dirs
      <4> QED BY <3>3, <4>1 DEF Stands, Swapping
    <3> QED BY <1>t, <2>1, <3>2, <3>3, <3>6, <3>7, <3>8, <3>9, <3>10, <3>11
            DEF Stands, Preparing, Moved, Swapping, Writing, Replaced, Undoing, PuttingBack, Unfailed, Undone, Done,
                Replacing
  <2> QED BY <2>2, <2>3
<1> QED BY <1>1, <1>2, <1>3, <1>4, <1>5

LEMMA ShapeStep == WorkInv /\ ShapeInv /\ [FilesNext]_vars => ShapeInv'
<1> SUFFICES ASSUME WorkInv, ShapeInv, [FilesNext]_vars PROVE ShapeInv'
  OBVIOUS
<1>1. CASE UNCHANGED vars
  <2>1. UNCHANGED <<kind, world, source, target, before, aside, step, result, faults, archived, root>>
    BY <1>1 DEF vars, disk, opvars, ghosts
  <2>2. UNCHANGED <<Dir, InWork>>
    BY <2>1 DEF Dir, InWork
  <2> QED BY <2>1, <2>2 DEF ShapeInv, Stands, Preparing, Moved, Swapping, Writing, Replaced,
          Undoing, PuttingBack, Unfailed, Undone, Done
<1> QED BY <1>1, StepsStand, TroublesStand, RequestStands DEF FilesNext

LEMMA ShapeInitial == FilesInit => ShapeInv
  BY DEF FilesInit, ShapeInv, InWork

\* An operation that fails before its clean-up, by one failure or one late log
\* reader, leaves the world the save and the pera.json it had.
THEOREM FailuresChangeNothing == FilesSpec => []FailureChangesNothing
<1>1. ShapeInv => FailureChangesNothing
  <2> SUFFICES ASSUME ShapeInv, step = "resume", result = "failed", faults = 1,
                      kind \in Replacing \cup {"backup", "edit", "archive"}
               PROVE  root[world].save = before.save /\ root[world].pera = before.pera
    BY DEF FailureChangesNothing
  <2>1. InWork /\ kind # "create"
    BY DEF InWork, Replacing
  <2> QED BY <2>1 DEF ShapeInv, Stands, Undone, SameAs, Dir
<1>2. FilesInit => WorkInv /\ ShapeInv
  BY WorkInitial, ShapeInitial
<1>3. WorkInv /\ ShapeInv /\ [FilesNext]_vars => (WorkInv /\ ShapeInv)'
  BY WorkStep, ShapeStep
<1> QED BY <1>1, <1>2, <1>3, PTL DEF FilesSpec
-----------------------------------------------------------------------------
(* The worlds nothing bad has hit.  Seen past the operation at work (Base), *)
(* each of them is whole, or given up, or archived; its backups and logs    *)
(* have a world or an archive; and nothing of it exists before its first    *)
(* save.  The step relation of Resume is where the directory the operation  *)
(* leaves (ShapeInv) takes the place of the one it found.                   *)

Good(w) == present[w] \in {"unborn", "lost"} \/ archived[w] # {} \/ Whole(Base(w))
Home(w) ==
    \/ backups[w] = {} /\ w \notin logs
    \/ Base(w).pera # "none"
    \/ archived[w] # {} /\ Base(w).save \in {"none", Fresh}
Unborn(w) ==
    present[w] = "unborn" =>
    backups[w] = {} /\ w \notin logs /\ archived[w] = {} /\ Base(w).pera = "none"
Sound(w) == Good(w) /\ Home(w) /\ Unborn(w)
LedgerInv ==
    /\ \A w \in Worlds \ damaged : Sound(w)
    /\ step = "purge" => archived[world] # {} /\ present[world] = "lost"
    /\ step = "delete" => source \in backups[world]

\* One world starts at boot, and an operation that is going to make its world
\* that one has no rival.
BootInv ==
    damaged = {} =>
    /\ \A v, w \in Worlds : Base(v).pera = "boot" /\ Base(w).pera = "boot" => v = w
    /\ InWork /\ target = "boot" => \A w \in Worlds \ {world} : root[w].pera # "boot"

FilesInv == WorkInv /\ ShapeInv /\ LedgerInv /\ BootInv

\* A world that a step leaves alone stays sound.
LEMMA SoundFrame ==
    ASSUME NEW w \in Worlds \ damaged, LedgerInv,
           SameAs(Base(w)', Base(w).save, Base(w).pera), present'[w] = present[w],
           backups'[w] \subseteq backups[w], archived'[w] = archived[w], w \in logs' => w \in logs
    PROVE  Sound(w)'
<1>1. Sound(w)
  BY DEF LedgerInv
<1> QED BY <1>1 DEF Sound, Good, Home, Unborn, Whole, SameAs

LEMMA BootFrame ==
    ASSUME BootInv, damaged \subseteq damaged', \A w \in Worlds : Base(w)'.pera = Base(w).pera,
           InWork' => /\ InWork /\ target' = target /\ world' = world
                      /\ \A w \in Worlds \ {world} : root'[w].pera = root[w].pera
    PROVE  BootInv'
  BY DEF BootInv

\* A step of the operation that leaves the other worlds, the backups, the logs
\* and the archive as they are.
LEMMA OperationFrame ==
    ASSUME FilesTypeOK, LedgerInv, BootInv, InWork, InWork',
           UNCHANGED <<backups, logs, archived, present, damaged, world, target, before>>,
           step' \notin {"purge", "delete"}, \A w \in Worlds \ {world} : root'[w] = root[w]
    PROVE  LedgerInv' /\ BootInv'
<1>1. \A w \in Worlds : Base(w)' = Base(w)
  BY DEF Base
<1>2. \A w \in Worlds \ damaged : Sound(w)'
  BY <1>1, SoundFrame DEF SameAs
<1>3. BootInv'
  BY <1>1, BootFrame
<1> QED BY <1>2, <1>3 DEF LedgerInv

\* The steps between a request and its end.
LEMMA ReplaceSound == FilesInv /\ ReplaceStep => LedgerInv' /\ BootInv'
<1> SUFFICES ASSUME FilesInv, ReplaceStep PROVE LedgerInv' /\ BootInv'
  OBVIOUS
<1>t. FilesTypeOK /\ KindOfStep
  BY DEF FilesInv, WorkInv, KeepInv
<1>1. InWork /\ InWork'
  BY ReplaceWork DEF FilesInv
<1>2. /\ UNCHANGED <<backups, logs, archived, present, damaged, world, target, before>>
      /\ step' \notin {"purge", "delete"}
      /\ \A w \in Worlds \ {world} : root'[w] = root[w]
  BY <1>t DEF ReplaceStep, Copy, Aside, Swap, WriteFiles, WriteMetadata, Register, Clean, Undo,
     PutBack, AfterMetadata, FilesTypeOK, Goes, Keeps, opvars, game, ghosts, disk
<1> QED BY <1>t, <1>1, <1>2, OperationFrame DEF FilesInv

LEMMA OtherSound ==
    FilesInv /\ (Snapshot \/ Archive \/ DeleteBackup \/ Purge) => LedgerInv' /\ BootInv'
<1> SUFFICES ASSUME FilesInv, Snapshot \/ Archive \/ DeleteBackup \/ Purge
             PROVE  LedgerInv' /\ BootInv'
  OBVIOUS
<1> USE Constants DEF Goes, Keeps, opvars, game, ghosts, disk
<1>t. FilesTypeOK /\ KindOfStep /\ world \in Worlds /\ LedgerInv /\ BootInv
  BY DEF FilesInv, WorkInv, KeepInv, FilesTypeOK
<1>1. CASE Snapshot \/ Archive
  <2>1. /\ UNCHANGED <<logs, present, damaged, world, target, before, kind>>
        /\ step \in {"snapshot", "archive"} /\ step' \notin {"idle", "purge", "delete"}
        /\ \A w \in Worlds \ {world} :
              root'[w] = root[w] /\ backups'[w] = backups[w] /\ archived'[w] = archived[w]
        /\ archived[world] \subseteq archived'[world]
        /\ UNCHANGED archived \/ archived'[world] # {}
        /\ UNCHANGED backups \/ UNCHANGED archived
    BY <1>1, <1>t DEF Snapshot, Archive, SnapshotTaken, AfterSnapshot, FilesTypeOK
  <2>2. InWork /\ InWork' /\ kind # "create"
    BY <1>t, <2>1 DEF InWork, KindOfStep, Pausing
  <2>3. \A w \in Worlds : Base(w)' = Base(w)
    BY <2>1, <2>2 DEF Base
  <2>4. Base(world).pera # "none"
    BY <2>2 DEF Base, FilesInv, WorkInv, AskedInv
  <2>5. world \notin damaged => Sound(world)'
    <3> SUFFICES ASSUME world \notin damaged PROVE Sound(world)'
      OBVIOUS
    <3>1. Sound(world)
      BY <1>t DEF LedgerInv
    <3>2. Base(world)' = Base(world) /\ present'[world] = present[world]
      BY <1>t, <2>1, <2>3
    <3>3. archived'[world] = archived[world] \/ archived'[world] # {}
      BY <2>1
    <3>4. Good(world)'
      BY <2>1, <3>1, <3>2, <3>3 DEF Sound, Good, Whole
    <3>5. Home(world)' /\ Unborn(world)'
      BY <2>1, <2>4, <3>1, <3>2 DEF Sound, Home, Unborn
    <3> QED BY <3>4, <3>5 DEF Sound
  <2>6. \A w \in Worlds \ damaged : w # world => Sound(w)'
    BY <1>t, <2>1, <2>3, SoundFrame DEF SameAs
  <2>7. BootInv'
    BY <1>t, <2>1, <2>2, <2>3, BootFrame
  <2> QED BY <2>1, <2>5, <2>6, <2>7 DEF LedgerInv
<1>2. CASE DeleteBackup
  <2>1. /\ UNCHANGED <<root, logs, archived, present, damaged, world, kind>>
        /\ kind = "delete" /\ step' = "resume" /\ \A w \in Worlds : backups'[w] \subseteq backups[w]
    BY <1>2, <1>t DEF DeleteBackup, KindOfStep, FilesTypeOK
  <2>2. ~InWork /\ ~InWork' /\ \A w \in Worlds : Base(w)' = Base(w)
    BY <2>1 DEF InWork, Base
  <2>3. \A w \in Worlds \ damaged : Sound(w)'
    BY <1>t, <2>1, <2>2, SoundFrame DEF SameAs
  <2> QED BY <1>t, <2>1, <2>2, <2>3, BootFrame DEF LedgerInv
<1>3. CASE Purge
  <2>1. /\ UNCHANGED <<root, present, damaged, world, kind>> /\ kind = "purge"
        /\ step' \in {"resume", "purge"}
        /\ archived[world] # {} /\ present[world] = "lost"
        /\ \A w \in Worlds \ {world} :
              backups'[w] = backups[w] /\ archived'[w] = archived[w] /\ (w \in logs' => w \in logs)
    BY <1>3, <1>t DEF Purge, KindOfStep, FilesTypeOK, LedgerInv
  <2>2. ~InWork /\ ~InWork' /\ \A w \in Worlds : Base(w)' = Base(w)
    BY <2>1 DEF InWork, Base
  <2>3. \/ archived' = archived
        \/ backups'[world] = {} /\ world \notin logs' /\ archived'[world] = {}
    BY <1>3, <1>t DEF Purge, PurgeNext, FilesTypeOK
  <2>4. step' = "purge" => archived'[world] # {}
    BY <1>3, <2>1, <2>3 DEF Purge
  <2>5. world \notin damaged => Sound(world)'
    <3>1. backups'[world] \subseteq backups[world] /\ (world \in logs' => world \in logs)
      BY <1>3, <1>t DEF Purge, FilesTypeOK
    <3> QED BY <1>t, <2>1, <2>2, <2>3, <3>1 DEF LedgerInv, Sound, Good, Home, Unborn
  <2>6. \A w \in Worlds \ damaged : w # world => Sound(w)'
    BY <1>t, <2>1, <2>2, SoundFrame DEF SameAs
  <2> QED BY <1>t, <2>1, <2>2, <2>4, <2>5, <2>6, BootFrame DEF LedgerInv
<1> QED BY <1>1, <1>2, <1>3
\* What an operation that ends has made of its world.
LEMMA EndOfWork ==
    ASSUME FilesInv, InWork, step = "resume", faults # 2, ~(kind = "restore" /\ source.save = "torn")
    PROVE  /\ Dir.pera \in {before.pera, target, "none"}
           /\ kind = "create" => \/ result = "failed" /\ Dir.pera = "none"
                                 \/ result = "ok" /\ Whole(Dir)
           /\ kind = "archive" => \/ archived[world] # {} /\ Dir.save \in {"none", Fresh}
                                  \/ SameAs(Dir, before.save, before.pera)
           /\ kind \notin {"create", "archive"} =>
                 Dir.pera # "none" /\ (Whole(before) => Whole(Dir))
<1> USE Constants
<1>t. /\ Dir \in Dirs /\ source \in Dirs /\ before \in Dirs /\ target \in Boot
      /\ faults \in 0..2
  BY DEF FilesInv, WorkInv, KeepInv, FilesTypeOK, Dir
<1>1. Stands
  BY <1>t DEF FilesInv, ShapeInv
<1>2. /\ kind \in {"create", "edit", "backup", "restore", "import", "recover", "archive"}
      /\ kind # "create" => before.pera # "none"
      /\ kind \notin {"create", "edit"} => target = before.pera
      /\ kind \in Replacing => source.save # "none"
      /\ kind \in {"import", "recover"} => source.save \in Saves
  BY DEF FilesInv, WorkInv, AskedInv
<1>3. target # "none"
  BY <1>t DEF Boot
<1>4. CASE result = "failed"
  <2>1. /\ kind # "create" => SameAs(Dir, before.save, before.pera)
        /\ kind = "create" => Dir \in {Absent, Bare}
    BY <1>1, <1>4 DEF Stands, Undone
  <2> QED BY <1>2, <1>4, <2>1 DEF SameAs, Whole
<1>5. CASE result # "failed"
  <2>1. /\ kind \in Replacing => SameAs(Dir, source.save, target)
        /\ kind = "backup" => SameAs(Dir, before.save, before.pera)
        /\ kind = "edit" => SameAs(Dir, before.save, target)
        /\ kind = "create" => result = "ok" /\ SameAs(Dir, Fresh, target)
        /\ kind = "archive" => archived[world] # {} /\ Dir \in {Absent, Bare}
    BY <1>1, <1>5 DEF Stands, Done
  <2>2. kind = "restore" => source.save \in Saves
    BY <1>t, <1>2 DEF Replacing, Dirs
  <2>3. CASE kind \in Replacing
    BY <1>2, <1>3, <2>1, <2>2, <2>3 DEF SameAs, Whole, Replacing
  <2>4. CASE kind \notin Replacing
    BY <1>2, <1>3, <2>1, <2>4 DEF SameAs, Whole, Replacing
  <2> QED BY <2>3, <2>4
<1> QED BY <1>4, <1>5

LEMMA ResumeSound == FilesInv /\ Resume => LedgerInv' /\ BootInv'
<1> SUFFICES ASSUME FilesInv, Resume PROVE LedgerInv' /\ BootInv'
  OBVIOUS
<1> USE Constants
<1>t. /\ FilesTypeOK /\ KindOfStep /\ world \in Worlds /\ LedgerInv /\ BootInv
      /\ Dir \in Dirs /\ before \in Dirs /\ target \in Boot
  BY DEF FilesInv, WorkInv, KeepInv, FilesTypeOK, Dir
<1>1. /\ UNCHANGED <<backups, archived, world>> /\ step = "resume" /\ step' = "idle"
      /\ present' = NewPresent /\ damaged' = NewDamaged /\ damaged \subseteq damaged'
      /\ \/ Restarts /\ Launch(world)
         \/ UNCHANGED <<root, logs>>
  BY DEF Resume, OperationForgotten, NewDamaged
<1>2. ~InWork'
  BY <1>1 DEF InWork
<1>3. /\ \A w \in Worlds \ {world} : root'[w] = root[w] /\ (w \in logs' => w \in logs)
                                     /\ present'[w] = present[w]
      /\ Dir'.save = Dir.save /\ Dir'.pera = Dir.pera
      /\ world \in logs' => \/ world \in logs
                            \/ Dir.pera # "none" /\ kind \in Pausing
  <2>1. CASE Restarts /\ Launch(world)
    <3>1. root' = [root EXCEPT ![world] = Repaired(@)] /\ logs' = logs \cup {world}
          /\ Dir.pera # "none" /\ kind \in Pausing
      BY <2>1 DEF Launch, Restarts, Listed, Dir
    <3>2. Dir' = Repaired(Dir)
      BY <1>t, <1>1, <3>1 DEF FilesTypeOK, Dir
    <3> QED BY <1>t, <1>1, <3>1, <3>2, DirectoryFacts DEF FilesTypeOK, NewPresent
  <2>2. CASE UNCHANGED <<root, logs>>
    BY <1>t, <1>1, <2>2 DEF FilesTypeOK, NewPresent, Dir
  <2> QED BY <1>1, <2>1, <2>2
<1>4. \A w \in Worlds \ {world} : Base(w) = root[w] /\ Base(w)' = root'[w]
  BY <1>1, <1>2 DEF Base
<1>5. \A w \in Worlds \ damaged' : w # world => Sound(w)'
  BY <1>t, <1>1, <1>3, <1>4, SoundFrame DEF SameAs
<1>6. CASE ~InWork
  <2>1. kind \in {"delete", "purge"} /\ present' = present
    BY <1>1, <1>6 DEF InWork, NewPresent, Replacing
  <2>2. Base(world) = Dir /\ Base(world)' = Dir' /\ (world \in logs' => world \in logs)
    BY <1>1, <1>2, <1>3, <1>6, <2>1 DEF Base, Dir, Pausing
  <2>3. \A w \in Worlds : Base(w)'.pera = Base(w).pera
    BY <1>1, <1>3, <1>4, <2>2
  <2>4. world \notin damaged' => Sound(world)'
    <3> SUFFICES ASSUME world \notin damaged' PROVE Sound(world)'
      OBVIOUS
    <3>1. Sound(world)
      BY <1>t, <1>1 DEF LedgerInv
    <3>2. /\ Base(world)'.save = Base(world).save /\ Base(world)'.pera = Base(world).pera
          /\ world' = world
      BY <1>1, <1>3, <2>2
    <3> QED BY <1>1, <2>1, <2>2, <3>1, <3>2 DEF Sound, Good, Home, Unborn, Whole
  <2> QED BY <1>t, <1>1, <1>2, <1>5, <2>3, <2>4, BootFrame DEF LedgerInv
<1>7. CASE InWork
  <2>0. Base(world) = before /\ Base(world)' = Dir' /\ world' = world
    BY <1>1, <1>2, <1>7 DEF Base, Dir
  <2>1. kind # "create" => before.pera # "none"
    BY <1>7 DEF FilesInv, WorkInv, AskedInv
  <2>e. ASSUME world \notin damaged'
        PROVE  faults # 2 /\ ~(kind = "restore" /\ source.save = "torn")
    BY <1>1, <2>e DEF NewDamaged
  <2>2. world \notin damaged' => Sound(world)'
    <3> SUFFICES ASSUME world \notin damaged' PROVE Sound(world)'
      OBVIOUS
    <3>1. Sound(world)
      BY <1>t, <1>1 DEF LedgerInv
    <3>2. /\ kind = "create" => \/ result = "failed" /\ Dir.pera = "none"
                                \/ result = "ok" /\ Whole(Dir)
          /\ kind = "archive" => \/ archived[world] # {} /\ Dir.save \in {"none", Fresh}
                                 \/ SameAs(Dir, before.save, before.pera)
          /\ kind \notin {"create", "archive"} =>
                Dir.pera # "none" /\ (Whole(before) => Whole(Dir))
      BY <1>1, <1>7, <2>e, EndOfWork
    <3>3. /\ present'[world] = (IF result = "ok" /\ kind \in Replacing \cup {"create"} /\ Dir.save \in Saves
                                THEN Dir.save ELSE present[world])
      BY <1>t, <1>1 DEF NewPresent, FilesTypeOK, Dir
    <3>4. Whole(Dir') <=> Whole(Dir)
      BY <1>3 DEF Whole
    <3>5. CASE kind = "create"
      <4>1. present[world] = "unborn"
        BY <1>7, <3>5 DEF FilesInv, WorkInv, AskedInv
      <4>2. backups[world] = {} /\ world \notin logs /\ archived[world] = {}
        BY <3>1, <4>1 DEF Sound, Unborn
      <4>3. world \notin logs'
        BY <1>3, <3>5, <4>2 DEF Pausing
      <4>4. CASE result = "failed" /\ Dir.pera = "none"
        BY <1>1, <1>3, <2>0, <3>3, <4>1, <4>2, <4>3, <4>4 DEF Sound, Good, Home, Unborn
      <4>5. CASE result = "ok" /\ Whole(Dir)
        <5>1. present'[world] \in Saves
          BY <3>3, <3>5, <4>5 DEF Whole
        <5> QED BY <1>1, <1>3, <2>0, <3>4, <4>2, <4>3, <4>5, <5>1 DEF Sound, Good, Home, Unborn
      <4> QED BY <3>2, <3>5, <4>4, <4>5
    <3>6. CASE kind # "create"
      <4>1. present[world] # "unborn" /\ present'[world] # "unborn"
        BY <2>0, <2>1, <3>1, <3>3, <3>6 DEF Sound, Unborn
      <4>2. CASE archived[world] # {}
        <5>1. Dir.pera # "none" \/ Dir.save \in {"none", Fresh}
          BY <2>1, <3>2, <3>6 DEF SameAs
        <5> QED BY <1>1, <1>3, <2>0, <4>1, <4>2, <5>1 DEF Sound, Good, Home, Unborn
      <4>3. CASE archived[world] = {}
        <5>1. Dir.pera # "none" /\ (Whole(before) => Whole(Dir))
          BY <2>1, <3>2, <3>6, <4>3 DEF SameAs, Whole
        <5>2. present[world] = "lost" \/ Whole(before)
          BY <2>0, <3>1, <4>1, <4>3 DEF Sound, Good
        <5>3. present'[world] = "lost" \/ Whole(Dir')
          BY <3>3, <3>4, <5>1, <5>2 DEF Whole
        <5> QED BY <1>1, <1>3, <2>0, <4>1, <5>1, <5>3 DEF Sound, Good, Home, Unborn
      <4> QED BY <4>2, <4>3
    <3> QED BY <3>5, <3>6
  <2>3. BootInv'
    <3> SUFFICES ASSUME damaged' = {}, NEW v \in Worlds, NEW w \in Worlds,
                        root'[v].pera = "boot", root'[w].pera = "boot"
                 PROVE  v = w
      BY <1>2 DEF BootInv, Base
    <3>1. Dir.pera \in {before.pera, target, "none"}
      BY <1>1, <1>7, <2>e, EndOfWork
    <3>2. damaged = {}
      BY <1>1
    <3>3. root'[world].pera = "boot" =>
          Base(world).pera = "boot" \/ \A u \in Worlds \ {world} : root[u].pera # "boot"
      BY <1>1, <1>3, <1>7, <1>t, <2>0, <3>1, <3>2 DEF BootInv, Dir
    <3>4. CASE v = world \/ w = world
      BY <1>t, <1>3, <1>4, <3>2, <3>3, <3>4 DEF BootInv
    <3>5. CASE v # world /\ w # world
      BY <1>t, <1>3, <1>4, <3>2, <3>5 DEF BootInv
    <3> QED BY <3>4, <3>5
  <2> QED BY <1>1, <1>5, <2>2, <2>3 DEF LedgerInv
<1> QED BY <1>6, <1>7
LEMMA TroublesSound == FilesInv /\ Troubles => LedgerInv' /\ BootInv'
<1> SUFFICES ASSUME FilesInv, Troubles PROVE LedgerInv' /\ BootInv'
  OBVIOUS
<1> USE DEF Keeps, opvars, game, ghosts
<1>t. FilesTypeOK /\ KindOfStep /\ world \in Worlds /\ LedgerInv /\ BootInv /\ WorkInv
  BY DEF FilesInv, WorkInv, KeepInv, FilesTypeOK
<1>c. CutShort => /\ \A w \in Worlds \ {world} :
                        /\ root'[w] = root[w] /\ backups'[w] = backups[w]
                        /\ archived'[w] = archived[w]
                  /\ logs' = logs
                  /\ step \notin {"delete", "purge"} => UNCHANGED <<backups, archived>>
  BY <1>t DEF CutShort, FilesTypeOK
<1>1. CASE StepFails
  <2>1. /\ CutShort /\ UNCHANGED <<kind, world, target, before, present, damaged>>
        /\ step \notin {"idle", "resume"} /\ step' \notin {"idle", "purge", "delete"}
    BY <1>1 DEF StepFails, Handler
  <2>2. CASE step \notin {"delete", "purge"}
    <3>1. InWork /\ InWork'
      BY <1>t, <2>1, <2>2
         DEF InWork, KindOfStep, FilesTypeOK, StepNames, Exposed, Pausing, Replacing
    <3> QED BY <1>t, <1>c, <2>1, <2>2, <3>1, OperationFrame
  <2>3. CASE step \in {"delete", "purge"}
    <3>1. ~InWork /\ ~InWork'
      BY <1>t, <2>1, <2>3 DEF InWork, KindOfStep
    <3>2. root' = root
      BY <2>1, <2>3 DEF CutShort
    <3>3. \A w \in Worlds : Base(w)' = Base(w)
      BY <3>1, <3>2 DEF Base
    <3>4. \A w \in Worlds \ damaged : w # world => Sound(w)'
      BY <1>t, <1>c, <2>1, <3>3, SoundFrame DEF SameAs
    <3>5. world \notin damaged => Sound(world)'
      <4> SUFFICES ASSUME world \notin damaged PROVE Sound(world)'
        OBVIOUS
      <4>1. Sound(world)
        BY <1>t DEF LedgerInv
      <4>2. Base(world)' = Base(world) /\ world' = world /\ present' = present
        BY <1>t, <2>1, <3>3
      <4>3. CASE step = "delete"
        <5>1. backups[world] # {} /\ archived' = archived
          BY <1>t, <2>1, <4>3 DEF LedgerInv, CutShort
        <5> QED BY <1>c, <2>1, <4>1, <4>2, <5>1 DEF Sound, Good, Home, Unborn, Whole
      <4>4. CASE step = "purge"
        <5>1. archived[world] # {} /\ present[world] = "lost"
          BY <1>t, <4>4 DEF LedgerInv
        <5>2. archived'[world] # {}
          BY <1>t, <2>1, <4>4, <5>1 DEF CutShort, FilesTypeOK
        <5>3. backups'[world] \subseteq backups[world] /\ logs' = logs
          BY <1>t, <2>1, <4>4 DEF CutShort, FilesTypeOK
        <5> QED BY <4>1, <4>2, <5>1, <5>2, <5>3 DEF Sound, Good, Home, Unborn
      <4> QED BY <2>3, <4>3, <4>4
    <3> QED BY <1>t, <2>1, <3>1, <3>3, <3>4, <3>5, BootFrame DEF LedgerInv
  <2> QED BY <2>2, <2>3
<1>2. CASE RenameRefused
  <2>1. /\ UNCHANGED <<root, backups, logs, archived, kind, world, target, before, present, damaged>>
        /\ step \in {"swap", "restoring"} /\ step' \notin {"idle", "purge", "delete"}
    BY <1>2 DEF RenameRefused, Handler
  <2>2. InWork /\ InWork'
    BY <1>t, <2>1 DEF InWork, KindOfStep, Replacing
  <2> QED BY <1>t, <2>1, <2>2, OperationFrame
<1>3. CASE PanelDies
  <2>1. CutShort /\ damaged' = damaged \cup {world} /\ step' = "idle" /\ UNCHANGED present
    BY <1>3 DEF PanelDies, OperationForgotten
  <2>2. ~InWork'
    BY <2>1 DEF InWork
  <2>3. \A w \in Worlds \ {world} : Base(w)' = Base(w)
    BY <1>c, <2>1, <2>2 DEF Base
  <2>4. \A w \in Worlds \ damaged' : Sound(w)'
    BY <1>t, <1>c, <2>1, <2>3, SoundFrame DEF SameAs
  <2>5. damaged' # {}
    BY <2>1
  <2> QED BY <2>1, <2>4, <2>5 DEF LedgerInv, BootInv
<1> QED BY <1>1, <1>2, <1>3 DEF Troubles

LEMMA RequestSound ==
    ASSUME FilesInv, NEW w \in Worlds,
           \/ \E k \in Kinds[w] : Ask(k, w)
           \/ Start(w) \/ Stop(w) \/ \E s \in Saves \ {Fresh} : GameWrites(w, s)
           \/ ReaderChecks(w) \/ ReaderWrites(w)
    PROVE  LedgerInv' /\ BootInv'
<1> USE Constants DEF opvars, game, ghosts, disk
<1>t. /\ FilesTypeOK /\ KindOfStep /\ ProperInv /\ world \in Worlds /\ root[w] \in Dirs
      /\ LedgerInv /\ BootInv /\ WorkInv
  BY DEF FilesInv, WorkInv, KeepInv, FilesTypeOK
<1>1. ASSUME NEW k \in Kinds[w], Ask(k, w) PROVE LedgerInv' /\ BootInv'
  <2>0. /\ k \in AllKinds \ {"start", "stop"}
        /\ FirstStep(k) = "delete" => k = "delete"
        /\ FirstStep(k) = "purge" => k = "purge"
    BY <1>1, WorldFilesAssumption DEF Ask, AllKinds, FirstStep, Pausing
  <2>1. /\ UNCHANGED <<root, backups, logs, archived, damaged>> /\ Allowed(k, w)
        /\ kind' = k /\ world' = w /\ step = "idle" /\ step' = FirstStep(k) /\ before' = root[w]
        /\ source' \in Sources(k, w)
        /\ target' \in IF k = "purge" THEN {"plain"} ELSE Targets(k, w)
        /\ present' = IF GivenUp(k, w, source') THEN [present EXCEPT ![w] = "lost"] ELSE present
    BY <1>1 DEF Ask
  <2>2. ~InWork /\ \A v \in Worlds : Base(v) = root[v] /\ Base(v)' = root[v]
    BY <2>1 DEF InWork, Base
  <2>3. \A v \in Worlds : present'[v] = present[v] \/ present'[v] = "lost"
    BY <1>t, <2>1 DEF FilesTypeOK
  <2>4. \A v \in Worlds \ damaged : Sound(v)'
    BY <1>t, <2>1, <2>2, <2>3 DEF LedgerInv, Sound, Good, Home, Unborn
  <2>5. step' = "purge" => archived'[w] # {} /\ present'[w] = "lost"
    BY <1>t, <2>0, <2>1 DEF Allowed, GivenUp, FilesTypeOK
  <2>6. step' = "delete" => source' \in backups'[w]
    BY <2>0, <2>1 DEF Sources
  <2>7. InWork' /\ target' = "boot" => \A v \in Worlds \ {w} : root[v].pera # "boot" \/ damaged # {}
    <3>1. CASE k \in {"create", "edit"}
      BY <2>1, <3>1 DEF Targets, MayBoot
    <3>2. CASE k \notin {"create", "edit"} /\ k # "purge"
      <4>1. target' = root[w].pera
        BY <2>1, <3>2 DEF Targets
      <4> QED BY <1>t, <2>2, <4>1 DEF BootInv
    <3>3. CASE k = "purge"
      BY <2>1, <3>3
    <3> QED BY <3>1, <3>2, <3>3
  <2>8. BootInv'
    BY <1>t, <2>1, <2>2, <2>7 DEF BootInv
  <2> QED BY <2>1, <2>4, <2>5, <2>6, <2>8 DEF LedgerInv
\* What is left keeps the operation as it is.
<1>f. ASSUME UNCHANGED <<kind, world, target, before, step, source, damaged, backups, archived>>,
             \A v \in Worlds : Base(v)'.pera = Base(v).pera /\ root'[v].pera = root[v].pera,
             \A v \in Worlds \ damaged : Sound(v)',
             present[world] = "lost" => present'[world] = "lost"
      PROVE  LedgerInv' /\ BootInv'
  <2>1. InWork' = InWork
    BY <1>f DEF InWork
  <2>2. BootInv'
    BY <1>t, <1>f, <2>1, BootFrame
  <2> QED BY <1>t, <1>f, <2>2 DEF LedgerInv
<1>2. CASE Start(w)
  <2>1. /\ UNCHANGED <<kind, world, target, before, step, source, damaged, backups, archived>>
        /\ step = "idle" /\ root' = [root EXCEPT ![w] = Repaired(@)] /\ logs' = logs \cup {w}
        /\ Listed(w)
        /\ present' = IF root[w].save \in Saves THEN [present EXCEPT ![w] = root[w].save] ELSE present
    BY <1>2 DEF Start, Launch
  <2>2. /\ root'[w].save = root[w].save /\ root'[w].pera = root[w].pera
        /\ \A v \in Worlds \ {w} : root'[v] = root[v] /\ present'[v] = present[v]
        /\ present'[w] = IF root[w].save \in Saves THEN root[w].save ELSE present[w]
    BY <1>t, <2>1, DirectoryFacts DEF FilesTypeOK
  <2>3. \A v \in Worlds : Base(v) = root[v] /\ Base(v)' = root'[v]
    BY <2>1 DEF Base, InWork
  <2>4. \A v \in Worlds \ damaged : v # w => Sound(v)'
    BY <1>t, <2>1, <2>2, <2>3, SoundFrame DEF SameAs
  <2>5. w \notin damaged => Sound(w)'
    <3> SUFFICES ASSUME w \notin damaged PROVE Sound(w)'
      OBVIOUS
    <3>1. Sound(w) /\ root[w].pera # "none"
      BY <1>t, <2>1 DEF LedgerInv, Listed
    <3>2. present[w] # "unborn"
      BY <2>3, <3>1 DEF Sound, Unborn
    <3>3. present'[w] # "unborn"
      BY <2>2, <3>2
    <3>4. Good(w)'
      BY <2>1, <2>2, <2>3, <3>1, <3>2 DEF Sound, Good, Whole
    <3> QED BY <2>1, <2>2, <2>3, <3>1, <3>3, <3>4 DEF Sound, Home, Unborn
  <2>6. /\ \A v \in Worlds : Base(v)'.pera = Base(v).pera /\ root'[v].pera = root[v].pera
        /\ \A v \in Worlds \ damaged : Sound(v)'
    BY <2>2, <2>3, <2>4, <2>5
  <2>7. BootInv'
    BY <1>t, <2>1, <2>6, BootFrame DEF InWork
  <2> QED BY <2>1, <2>6, <2>7 DEF LedgerInv
<1>3. CASE Stop(w) \/ ReaderChecks(w)
  <2>1. UNCHANGED <<kind, world, target, before, step, source, damaged, backups, archived, root,
                    logs, present>>
    BY <1>3 DEF Stop, ReaderChecks
  <2>2. \A v \in Worlds : Base(v)' = Base(v)
    BY <2>1 DEF Base, InWork
  <2>3. \A v \in Worlds \ damaged : Sound(v)'
    BY <1>t, <2>1, <2>2, SoundFrame DEF SameAs
  <2> QED BY <1>f, <2>1, <2>2, <2>3
<1>4. ASSUME NEW s \in Saves, GameWrites(w, s) PROVE LedgerInv' /\ BootInv'
  <2>1. /\ UNCHANGED <<kind, world, target, before, step, source, damaged, backups, archived, logs>>
        /\ running = w
        /\ root'[w].save = s /\ root'[w].pera = root[w].pera
        /\ \A v \in Worlds \ {w} : root'[v] = root[v] /\ present'[v] = present[v]
        /\ present'[w] = IF root[w].save = present[w] THEN s ELSE present[w]
    BY <1>4, <1>t DEF GameWrites, FilesTypeOK, Dirs
  <2>2. Base(w) = root[w] /\ Base(w)' = root'[w]
    BY <1>t, <2>1 DEF Base, InWork, WorkInv, QuietInv
  <2>3. \A v \in Worlds \ {w} : Base(v)' = Base(v)
    BY <2>1 DEF Base, InWork
  <2>4. root[w].save \notin {"unborn", "lost"} /\ root[w].pera # "none"
    BY <1>t, <2>1, WorldFilesAssumption DEF Dirs, WorkInv, LaunchedAsConfigured
  <2>5. w \notin damaged => Sound(w)'
    <3> SUFFICES ASSUME w \notin damaged PROVE Sound(w)'
      OBVIOUS
    <3>1. Sound(w)
      BY <1>t DEF LedgerInv
    <3>2. Good(w)'
      BY <2>1, <2>2, <2>4, <3>1 DEF Sound, Good, Whole
    <3>3. Home(w)' /\ Unborn(w)'
      BY <2>1, <2>2, <2>4, <3>1 DEF Sound, Home, Unborn
    <3> QED BY <3>2, <3>3 DEF Sound
  <2>6. \A v \in Worlds \ damaged : v # w => Sound(v)'
    BY <1>t, <2>1, <2>3, SoundFrame DEF SameAs
  <2>7. \A v \in Worlds : Base(v)'.pera = Base(v).pera /\ root'[v].pera = root[v].pera
    BY <2>1, <2>2, <2>3
  <2>8. present[world] = "lost" => present'[world] = "lost"
    BY <1>t, <2>1, <2>4
  <2> QED BY <1>f, <2>1, <2>5, <2>6, <2>7, <2>8
<1>5. CASE ReaderWrites(w)
  <2>1. /\ UNCHANGED <<kind, world, target, before, step, source, damaged, backups, archived, logs, present>>
        /\ \A v \in Worlds : root'[v] = root[v] \/ (root[v] = Absent /\ root'[v] = Bare)
    BY <1>5, <1>t DEF ReaderWrites, FilesTypeOK
  <2>2. \A v \in Worlds : Base(v)' = Base(v) \/ (Base(v) = Absent /\ Base(v)' = Bare)
    BY <2>1 DEF Base, InWork
  <2>3. \A v \in Worlds \ damaged : Sound(v)'
    <3> SUFFICES ASSUME NEW v \in Worlds \ damaged PROVE Sound(v)'
      OBVIOUS
    <3>1. Sound(v)
      BY <1>t DEF LedgerInv
    <3>2. CASE Base(v)' = Base(v)
      BY <1>t, <2>1, <3>2, SoundFrame DEF SameAs
    <3>3. CASE Base(v) = Absent /\ Base(v)' = Bare
      BY <2>1, <3>1, <3>3 DEF Sound, Good, Home, Unborn, Whole
    <3> QED BY <2>2, <3>2, <3>3
  <2>4. \A v \in Worlds : Base(v)'.pera = Base(v).pera /\ root'[v].pera = root[v].pera
    BY <2>1, <2>2
  <2> QED BY <1>f, <2>1, <2>3, <2>4
<1> QED BY <1>1, <1>2, <1>3, <1>4, <1>5

LEMMA FilesInitial == FilesInit => FilesInv
<1> SUFFICES ASSUME FilesInit PROVE FilesInv
  OBVIOUS
<1>1. step = "idle" /\ ~InWork
  BY DEF FilesInit, InWork
<1>2. \A w \in Worlds : Base(w) = Absent
  BY <1>1 DEF FilesInit, Base
<1>3. LedgerInv
  BY <1>1, <1>2, Constants DEF FilesInit, LedgerInv, Sound, Good, Home, Unborn
<1>4. BootInv
  BY <1>1, <1>2, Constants DEF BootInv
<1> QED BY <1>3, <1>4, WorkInitial, ShapeInitial DEF FilesInv

LEMMA FilesStep == FilesInv /\ [FilesNext]_vars => FilesInv'
<1> SUFFICES ASSUME FilesInv, [FilesNext]_vars PROVE FilesInv'
  OBVIOUS
<1>1. WorkInv' /\ ShapeInv'
  BY WorkStep, ShapeStep DEF FilesInv
<1>2. CASE UNCHANGED vars
  <2>1. UNCHANGED <<root, backups, logs, archived, kind, world, source, target, before, present,
                    damaged, step>>
    BY <1>2 DEF vars, disk, opvars, ghosts
  <2>2. UNCHANGED InWork /\ \A w : Base(w)' = Base(w)
    BY <2>1 DEF InWork, Base
  <2>3. LedgerInv' /\ BootInv'
    BY <2>1, <2>2 DEF FilesInv, LedgerInv, BootInv, Sound, Good, Home, Unborn
  <2> QED BY <1>1, <2>3 DEF FilesInv
<1>3. CASE Steps \/ Troubles
  BY <1>1, <1>3, ReplaceSound, OtherSound, ResumeSound, TroublesSound DEF Steps, ReplaceStep, FilesInv
<1>4. CASE ~UNCHANGED vars /\ ~Steps /\ ~Troubles
  BY <1>1, <1>4, RequestSound DEF FilesNext, FilesInv
<1> QED BY <1>2, <1>3, <1>4

\* One failure during an operation, a late log reader included, leaves every
\* world that lives a complete directory.
THEOREM FaultsAbsorbed == FilesSpec => []OneFaultAbsorbed
<1>1. FilesInv => OneFaultAbsorbed
  BY DEF FilesInv, LedgerInv, Sound, Good, OneFaultAbsorbed, Base, InWork
<1> QED BY FilesInitial, FilesStep, <1>1, PTL DEF FilesSpec

\* The backups and the logs of a world always have a world on the dashboard or a
\* deletable archive through which they can be removed, unless a late log reader
\* has made a directory for the archived world, which keeps the archive from
\* being deleted.
THEOREM NothingLeftBehind == FilesSpec => []NothingOrphaned
<1>1. FilesInv => NothingOrphaned
  <2> SUFFICES ASSUME FilesInv, step = "idle", NEW w \in Worlds \ damaged,
                      backups[w] # {} \/ w \in logs
               PROVE  Listed(w) \/ Deletable(w) \/ (archived[w] # {} /\ Revived(w))
    BY DEF NothingOrphaned
  <2>1. Home(w) /\ Base(w) = root[w]
    BY DEF FilesInv, LedgerInv, Sound, Base, InWork
  <2>2. root[w].save = "none" => root[w] = Absent
    BY DEF FilesInv, WorkInv, ProperInv
  <2> QED BY <2>1, <2>2 DEF Home, Listed, Deletable, Revived, Seen, Bare
<1> QED BY FilesInitial, FilesStep, <1>1, PTL DEF FilesSpec

\* At most one world starts at boot, whatever is restored, imported or edited and
\* whichever single step of it fails.
THEOREM OneWorldBoots == FilesSpec => []OneBootWorld
<1>1. FilesInv => OneBootWorld
  <2> SUFFICES ASSUME FilesInv, step = "idle", damaged = {}
               PROVE  Cardinality({w \in Worlds : root[w].pera = "boot"}) <= 1
    BY DEF OneBootWorld
  <2> DEFINE B == {w \in Worlds : root[w].pera = "boot"}
  <2>1. \A v, w \in B : v = w
    BY DEF FilesInv, BootInv, Base, InWork
  <2>2. CASE B = {}
    BY <2>2, FS_EmptySet
  <2>3. CASE B # {}
    <3>1. PICK w \in B : B = {w}
      BY <2>1, <2>3
    <3>2. Cardinality(B) = 1
      BY <3>1, FS_Singleton
    <3> QED BY <3>2
  <2> QED BY <2>2, <2>3
<1> QED BY FilesInitial, FilesStep, <1>1, PTL DEF FilesSpec
-----------------------------------------------------------------------------
(* The operations implement the atomic store.  Only the end of an operation *)
(* shows its world the new directory; a failure before it changes what is   *)
(* promised, and a second fault or the death of the panel strikes the world.*)
LEMMA SeenFacts ==
    /\ Seen(Absent) = Store!Nothing /\ Seen(Bare) = Store!Stray
    /\ \A d, e : Seen(d) = Seen(e) <=> SameAs(d, e.save, e.pera)
    /\ \A d : Seen(d).save = d.save /\ Seen(d).pera = d.pera
  BY DEF Seen, Absent, Bare, SameAs, Store!Nothing, Store!Stray

LEMMA StruckIs ==
    /\ \A w : w # world => (w \in struck <=> w \in damaged)
    /\ ~InWork => struck = damaged
    /\ world \in struck <=>
         \/ world \in damaged
         \/ InWork /\ (faults = 2 \/ (kind = "restore" /\ source.save = "torn"))
  BY DEF struck

LEMMA PendingIs ==
    pending = IF InWork /\ world \notin struck THEN {<<world, Promise>>} ELSE {}
  BY DEF pending

\* The store changes at one world.
LEMMA StoreMoves ==
    ASSUME NEW w \in Worlds, NEW c,
           w \in struck' => c = Seen(Absent), w \notin struck' => Seen(Base(w)') = c,
           \A v \in Worlds \ {w} : v \in struck' <=> v \in struck,
           \A v \in Worlds \ {w} : v \notin struck => Seen(Base(v)') = Seen(Base(v))
    PROVE  store' = [store EXCEPT ![w] = c]
<1>1. store' = [v \in Worlds |-> IF v \in struck' THEN Seen(Absent) ELSE Seen(Base(v)')]
  BY DEF store, Seen, Absent
<1>2. store = [v \in Worlds |-> IF v \in struck THEN Seen(Absent) ELSE Seen(Base(v))]
  BY DEF store
<1> QED BY <1>1, <1>2

\* A step that changes nothing users count on.
LEMMA StoreStutters ==
    ASSUME InWork' <=> InWork, damaged' = damaged,
           \A w \in Worlds : Seen(Base(w)') = Seen(Base(w)),
           InWork => /\ UNCHANGED <<kind, world, source, target, before>>
                     /\ faults' = 2 <=> faults = 2
                     /\ result' = "failed" <=> result = "failed"
    PROVE  UNCHANGED <<store, pending, struck>>
<1>1. struck' = struck
  BY DEF struck
<1>2. pending' = pending
  <2>1. InWork => Promise' = Promise
    BY SeenFacts DEF Promise, Seen, Absent
  <2> QED BY <1>1, <2>1 DEF pending
<1>3. store' = store
  BY <1>1 DEF store, Seen, Absent
<1> QED BY <1>1, <1>2, <1>3

\* The world of the operation is struck.
LEMMA WorldStruck ==
    ASSUME world \in Worlds, world' = world, world \in struck',
           \A v : v # world => (v \in damaged' <=> v \in damaged),
           damaged \subseteq damaged',
           \A v \in Worlds \ {world} : Base(v)' = Base(v)
    PROVE  Store!Strike(world)
<1>1. struck' = struck \cup {world}
  BY DEF struck
<1>2. pending' = {p \in pending : p[1] # world}
  BY DEF pending
<1>3. store' = [store EXCEPT ![world] = Seen(Absent)]
  <2>1. \A v \in Worlds \ {world} : v \in struck' <=> v \in struck
    BY <1>1
  <2> QED BY <2>1, StoreMoves
<1> QED BY <1>1, <1>2, <1>3, SeenFacts DEF Store!Strike
\* An operation that goes on, perhaps after a failure.
LEMMA WorkGoesOn ==
    ASSUME FilesInv, InWork, InWork',
           UNCHANGED <<kind, world, source, target, before, damaged>>,
           \A w \in Worlds \ {world} : root'[w] = root[w],
           faults' \in {faults, Worse},
           result' = "failed" \/ (result' # "failed" /\ result # "failed")
    PROVE  [Store!Next]_(Store!svars)
<1>t. world \in Worlds /\ faults \in 0..2
  BY DEF FilesInv, WorkInv, KeepInv, FilesTypeOK
<1>1. /\ Base(world) = before /\ Base(world)' = before /\ world' = world
      /\ \A w \in Worlds \ {world} : Base(w)' = Base(w)
  BY DEF Base
<1>2. CASE world \in struck'
  <2>1. Store!Strike(world)
    BY <1>t, <1>1, <1>2, WorldStruck
  <2> QED BY <1>t, <2>1 DEF Store!Next
<1>3. CASE world \notin struck'
  <2>1. faults # 2 /\ faults' # 2 /\ world \notin struck
    <3>1. world \notin damaged /\ faults' # 2 /\ ~(kind = "restore" /\ source.save = "torn")
      BY <1>3 DEF struck
    <3>2. faults # 2
      BY <1>t, <3>1 DEF Worse
    <3> QED BY <3>1, <3>2, StruckIs
  <2>2. CASE result' = "failed" <=> result = "failed"
    <3>1. \A w \in Worlds : Seen(Base(w)') = Seen(Base(w))
      BY <1>1 DEF Seen
    <3> QED BY <2>1, <2>2, <3>1, StoreStutters DEF Store!svars
  <2>3. CASE result' = "failed" /\ result # "failed"
    <3>1. store[world] = Seen(before)
      BY <1>t, <1>1, <2>1 DEF store
    <3>2. pending = {<<world, Promise>>}
      BY <2>1, PendingIs
    <3>3. pending' = {<<world, Seen(before)>>}
      <4>1. Promise' = Seen(before)
        BY <2>3 DEF Promise, Seen
      <4> QED BY <1>3, <4>1 DEF pending
    <3>4. struck' = struck
      BY <2>1 DEF struck
    <3>5. store' = store
      BY <1>1, <3>4 DEF store, Seen, Absent
    <3>6. pending' = {<<p[1], store[p[1]]>> : p \in pending}
      BY <3>1, <3>2, <3>3
    <3> QED BY <3>4, <3>5, <3>6 DEF Store!Next, Store!Fail
  <2> QED BY <2>2, <2>3
<1> QED BY <1>2, <1>3

\* What an operation leaves at its end is what it promised.
LEMMA PromiseKept ==
    ASSUME FilesInv, InWork, step = "resume", world \notin struck
    PROVE  Seen(Dir) \in Store!OrStray(Promise)
<1> USE Constants
<1>t. faults \in 0..2 /\ faults # 2
  BY StruckIs DEF FilesInv, WorkInv, KeepInv, FilesTypeOK
<1>1. Stands
  BY <1>t DEF FilesInv, ShapeInv
<1>2. /\ kind \in {"create", "edit", "backup", "restore", "import", "recover", "archive"}
      /\ kind = "create" => before = Absent
  BY DEF FilesInv, WorkInv, AskedInv
<1>3. \A c : c \in Store!OrStray(c)
  BY DEF Store!OrStray
<1>4. CASE result = "failed"
  <2>1. Promise = Seen(before)
    BY <1>4 DEF Promise
  <2>2. /\ kind # "create" => SameAs(Dir, before.save, before.pera)
        /\ kind = "create" => Dir \in {Absent, Bare}
    BY <1>1, <1>4 DEF Stands, Undone
  <2> QED BY <1>2, <1>3, <2>1, <2>2, SeenFacts DEF Store!OrStray
<1>5. CASE result # "failed"
  <2>1. /\ kind \in Replacing => SameAs(Dir, source.save, target)
        /\ kind = "backup" => SameAs(Dir, before.save, before.pera)
        /\ kind = "edit" => SameAs(Dir, before.save, target)
        /\ kind = "create" => SameAs(Dir, Fresh, target)
        /\ kind = "archive" => Dir \in {Absent, Bare}
    BY <1>1, <1>5 DEF Stands, Done
  <2>2. CASE kind = "archive"
    <3>1. Promise = Seen(Absent)
      BY <1>5, <2>2 DEF Promise
    <3> QED BY <2>1, <2>2, <3>1, SeenFacts DEF Store!OrStray
  <2>3. CASE kind = "backup"
    <3>1. Promise = Seen(before)
      BY <2>3 DEF Promise
    <3> QED BY <1>3, <2>1, <2>3, <3>1, SeenFacts
  <2>4. CASE kind \notin {"archive", "backup"}
    <3>1. Promise = Seen(Dir)
      BY <1>2, <1>5, <2>1, <2>4 DEF Promise, Seen, SameAs, Replacing
    <3> QED BY <1>3, <3>1
  <2> QED BY <2>2, <2>3, <2>4
<1> QED BY <1>4, <1>5

LEMMA ResumeStored == FilesInv /\ Resume => [Store!Next]_(Store!svars)
<1> SUFFICES ASSUME FilesInv, Resume PROVE [Store!Next]_(Store!svars)
  OBVIOUS
<1>t. /\ FilesTypeOK /\ world \in Worlds /\ Dir \in Dirs
  BY DEF FilesInv, WorkInv, KeepInv, FilesTypeOK, Dir
<1>1. /\ UNCHANGED world /\ step = "resume" /\ step' = "idle"
      /\ damaged' = NewDamaged /\ damaged \subseteq damaged'
      /\ \/ kind \in Pausing /\ root' = [root EXCEPT ![world] = Repaired(@)]
         \/ root' = root
  BY DEF Resume, OperationForgotten, NewDamaged, Launch, Restarts
<1>2. ~InWork' /\ struck' = damaged' /\ pending' = {}
  BY <1>1 DEF InWork, struck, pending
<1>3. /\ \A w \in Worlds \ {world} : Base(w)' = Base(w)
      /\ Base(world)' = Dir'
      /\ SameAs(Dir', Dir.save, Dir.pera)
  <2>1. \A w \in Worlds \ {world} : root'[w] = root[w]
    BY <1>t, <1>1 DEF FilesTypeOK
  <2>2. Dir' \in {Dir, Repaired(Dir)}
    BY <1>t, <1>1 DEF FilesTypeOK, Dir
  <2>3. SameAs(Dir', Dir.save, Dir.pera)
    BY <1>t, <2>2, DirectoryFacts DEF SameAs
  <2> QED BY <1>1, <1>2, <2>1, <2>3 DEF Base, Dir
<1>4. CASE world \in damaged'
  <2>1. Store!Strike(world)
    BY <1>t, <1>1, <1>2, <1>3, <1>4, WorldStruck DEF NewDamaged
  <2> QED BY <1>t, <2>1 DEF Store!Next
<1>5. CASE world \notin damaged'
  <2>1. /\ faults # 2 /\ ~(kind = "restore" /\ source.save = "torn") /\ damaged' = damaged
    BY <1>1, <1>5 DEF NewDamaged
  <2>2. struck' = struck /\ world \notin struck
    BY <1>1, <1>2, <1>5, <2>1, StruckIs DEF struck
  <2>3. CASE InWork
    <3>1. PICK c : c = Seen(Dir) /\ c \in Store!OrStray(Promise)
      BY <1>1, <2>2, <2>3, PromiseKept
    <3>2. pending = {<<world, Promise>>}
      BY <2>2, <2>3, PendingIs
    <3>3. Seen(Base(world)') = c
      BY <1>3, <3>1, SeenFacts
    <3>4. store' = [store EXCEPT ![world] = c]
      <4>1. \A v \in Worlds \ {world} : Seen(Base(v)') = Seen(Base(v))
        BY <1>3 DEF Seen
      <4> QED BY <1>t, <1>1, <2>2, <3>3, <4>1, StoreMoves
    <3> QED BY <1>2, <2>2, <3>1, <3>2, <3>4 DEF Store!Next, Store!End
  <2>4. CASE ~InWork
    <3>1. \A w \in Worlds : Seen(Base(w)') = Seen(Base(w))
      BY <1>1, <1>3, <2>4, SeenFacts DEF Base, Dir
    <3> QED BY <1>2, <2>1, <2>4, <3>1, StoreStutters DEF Store!svars
  <2> QED BY <2>3, <2>4
<1> QED BY <1>4, <1>5

LEMMA TroublesStored == FilesInv /\ Troubles => [Store!Next]_(Store!svars)
<1> SUFFICES ASSUME FilesInv, Troubles PROVE [Store!Next]_(Store!svars)
  OBVIOUS
<1> USE DEF Keeps, opvars, game, ghosts
<1>t. FilesTypeOK /\ KindOfStep /\ world \in Worlds /\ WorkInv
  BY DEF FilesInv, WorkInv, KeepInv, FilesTypeOK
<1>1. CASE StepFails
  <2>1. /\ CutShort /\ UNCHANGED <<kind, world, source, target, before, damaged>>
        /\ step \notin {"idle", "resume"} /\ step' # "idle" /\ faults' = Worse
        /\ result' = (IF step = "clean" THEN "unclean" ELSE "failed")
    BY <1>1 DEF StepFails, Handler
  <2>2. InWork' = InWork
    BY <2>1 DEF InWork
  <2>3. CASE InWork /\ step = "clean" /\ result = "failed"
    <3>1. faults = 2
      BY <1>t, <2>3 DEF FilesInv, ShapeInv, Stands, Unfailed, FilesTypeOK
    <3>2. world \in struck'
      BY <2>1, <2>2, <2>3, <3>1 DEF struck, Worse
    <3>3. Store!Strike(world)
      <4>1. \A w \in Worlds \ {world} : Base(w)' = Base(w)
        BY <1>t, <2>1, <2>2, CutShortProper DEF Base
      <4> QED BY <1>t, <2>1, <3>2, <4>1, WorldStruck
    <3> QED BY <1>t, <3>3 DEF Store!Next
  <2>4. CASE InWork /\ ~(step = "clean" /\ result = "failed")
    BY <1>t, <2>1, <2>2, <2>4, CutShortProper, WorkGoesOn
  <2>5. CASE ~InWork
    <3>1. step \notin {"write", "undo"}
      BY <1>t, <2>1, <2>5 DEF InWork, KindOfStep
    <3>2. root' = root
      BY <2>1, <3>1 DEF CutShort
    <3>3. \A w \in Worlds : Seen(Base(w)') = Seen(Base(w))
      BY <2>2, <2>5, <3>2 DEF Base, Seen
    <3> QED BY <2>1, <2>2, <2>5, <3>3, StoreStutters DEF Store!svars
  <2> QED BY <2>3, <2>4, <2>5
<1>2. CASE RenameRefused
  <2>1. /\ UNCHANGED <<root, kind, world, source, target, before, damaged, faults>>
        /\ step \in {"swap", "restoring"} /\ step' # "idle" /\ result' = "failed"
    BY <1>2 DEF RenameRefused, Handler
  <2>2. InWork /\ InWork'
    BY <1>t, <2>1 DEF InWork, KindOfStep, Replacing
  <2> QED BY <2>1, <2>2, WorkGoesOn
<1>3. CASE PanelDies
  <2>1. CutShort /\ damaged' = damaged \cup {world} /\ step' = "idle" /\ world' = world
    BY <1>3 DEF PanelDies, OperationForgotten
  <2>2. \A w \in Worlds \ {world} : Base(w)' = Base(w)
    BY <1>t, <2>1, CutShortProper DEF Base, InWork
  <2>3. world \in struck'
    BY <2>1 DEF struck
  <2>4. Store!Strike(world)
    BY <1>t, <2>1, <2>2, <2>3, WorldStruck
  <2> QED BY <1>t, <2>4 DEF Store!Next
<1> QED BY <1>1, <1>2, <1>3 DEF Troubles

\* A request is accepted: the operation begins.
LEMMA AskStored ==
    ASSUME FilesInv, FilesInv', NEW w \in Worlds, NEW k \in Kinds[w], Ask(k, w)
    PROVE  [Store!Next]_(Store!svars)
<1> USE Constants
<1>t. FilesTypeOK /\ root[w] \in Dirs /\ k \in AllKinds /\ target' \in Boot /\ source' \in Dirs
  BY WorldFilesAssumption DEF FilesInv, WorkInv, KeepInv, FilesTypeOK
<1>1. /\ UNCHANGED <<root, damaged>> /\ step = "idle" /\ step' # "idle"
      /\ kind' = k /\ world' = w /\ before' = root[w] /\ result' = "ok" /\ faults' = 0
  <2>1. FirstStep(k) # "idle"
    BY <1>t DEF Ask, AllKinds, FirstStep, Pausing
  <2> QED BY <2>1 DEF Ask, disk
<1>2. ~InWork /\ pending = {} /\ struck = damaged
  BY <1>1 DEF InWork, pending, struck
<1>3. \A v \in Worlds : Base(v)' = root[v] /\ Base(v) = root[v]
  BY <1>1, <1>2 DEF Base
<1>4. CASE k \in {"delete", "purge"}
  <2>1. ~InWork'
    BY <1>1, <1>4 DEF InWork
  <2>2. \A v \in Worlds : Seen(Base(v)') = Seen(Base(v))
    BY <1>3 DEF Seen
  <2> QED BY <1>1, <1>2, <2>1, <2>2, StoreStutters DEF Store!svars
<1>5. CASE k \notin {"delete", "purge"}
  <2>1. InWork'
    BY <1>1, <1>5 DEF InWork
  <2>2. struck' = damaged \cup {v \in {w} : k = "restore" /\ source'.save = "torn"}
    BY <1>1, <2>1 DEF struck
  <2>3. \A v \in Worlds \ {w} : v \in struck' <=> v \in struck
    BY <1>2, <2>2
  <2>4. CASE w \in struck'
    <3>1. pending' = {} /\ struck' = struck \cup {w}
      BY <1>1, <1>2, <2>2, <2>4 DEF pending
    <3>2. store' = [store EXCEPT ![w] = Seen(Absent)]
      BY <1>3, <2>3, <2>4, StoreMoves
    <3>3. Store!Strike(w)
      BY <1>2, <3>1, <3>2, SeenFacts DEF Store!Strike
    <3> QED BY <3>3 DEF Store!Next
  <2>5. CASE w \notin struck'
    <3>1. struck' = struck /\ store' = store
      <4>1. struck' = struck
        BY <1>2, <2>2, <2>5
      <4> QED BY <1>3, <4>1 DEF store, Seen, Absent
    <3>2. pending' = {<<w, Promise'>>}
      BY <1>1, <2>1, <2>5 DEF pending
    <3>3. store[w] = Seen(root[w])
      BY <1>3, <2>5, <3>1 DEF store
    <3>4. /\ k # "create" => root[w].pera # "none"
          /\ k \in Replacing => source'.save # "none"
          /\ k \notin {"create", "edit"} => target' = root[w].pera
      BY <1>1, <2>1 DEF FilesInv, WorkInv, AskedInv
    <3>5. Promise' \in Store!Whole \cup {Store!Nothing} \cup Store!Reconfigured(w)
      <4>1. CASE k = "archive"
        BY <1>1, <4>1, SeenFacts DEF Promise
      <4>2. CASE k = "create"
        BY <1>t, <1>1, <4>2 DEF Promise, Store!Whole
      <4>3. CASE k \in Replacing
        <5>1. source'.save \in Saves
          <6>1. source'.save # "torn"
            <7>1. CASE k = "restore"
              BY <2>2, <2>5, <7>1
            <7>2. CASE k \in {"import", "recover"}
              BY <1>1, <2>1, <7>2 DEF FilesInv, WorkInv, AskedInv
            <7> QED BY <4>3, <7>1, <7>2 DEF Replacing
          <6> QED BY <1>t, <3>4, <4>3, <6>1 DEF Dirs
        <5>2. Promise' = [save |-> source'.save, pera |-> target']
          BY <1>1, <4>3 DEF Promise, Replacing
        <5> QED BY <1>t, <5>1, <5>2 DEF Store!Whole
      <4>4. CASE k \in {"edit", "backup"}
        <5>1. Promise' = [save |-> root[w].save, pera |-> target']
          BY <1>1, <3>4, <4>4 DEF Promise, Seen
        <5>2. store[w] # Store!Nothing /\ store[w].save = root[w].save
          BY <3>3, <3>4, <4>4, SeenFacts DEF SameAs
        <5> QED BY <1>t, <5>1, <5>2 DEF Store!Reconfigured
      <4> QED BY <1>t, <1>5, <1>1, <4>1, <4>2, <4>3, <4>4, <2>1
          DEF Replacing, FilesInv, WorkInv, AskedInv
    <3>6. Store!Begin(w, Promise')
      BY <1>2, <2>5, <3>1, <3>2, <3>5 DEF Store!Begin
    <3> QED BY <3>5, <3>6 DEF Store!Next
  <2> QED BY <2>4, <2>5
<1> QED BY <1>4, <1>5
\* Games and log readers.
LEMMA OutsideStored ==
    ASSUME FilesInv, NEW w \in Worlds,
           \/ Start(w) \/ Stop(w) \/ \E s \in Saves \ {Fresh} : GameWrites(w, s)
           \/ ReaderChecks(w) \/ ReaderWrites(w)
    PROVE  [Store!Next]_(Store!svars)
<1> USE Constants DEF opvars, game, ghosts, disk
<1>t. /\ FilesTypeOK /\ ProperInv /\ WorkInv /\ root[w] \in Dirs /\ world \in Worlds
      /\ faults \in 0..2
  BY DEF FilesInv, WorkInv, KeepInv, FilesTypeOK
<1>0. /\ UNCHANGED <<kind, world, source, target, before, damaged, step, result>>
      /\ InWork' = InWork
  <2>1. UNCHANGED <<kind, world, source, target, before, damaged, step, result>>
    BY DEF Start, Stop, GameWrites, ReaderChecks, ReaderWrites
  <2> QED BY <2>1 DEF InWork
<1>1. CASE Start(w)
  <2>1. step = "idle" /\ root' = [root EXCEPT ![w] = Repaired(@)]
    BY <1>1 DEF Start, Launch
  <2>2. \A v \in Worlds : SameAs(root'[v], root[v].save, root[v].pera)
    BY <1>t, <2>1, DirectoryFacts DEF FilesTypeOK, SameAs
  <2>3. ~InWork /\ \A v \in Worlds : Seen(Base(v)') = Seen(Base(v))
    BY <1>0, <2>1, <2>2, SeenFacts DEF InWork, Base
  <2> QED BY <1>0, <2>3, StoreStutters DEF Store!svars
<1>2. CASE Stop(w) \/ ReaderChecks(w)
  <2>1. root' = root /\ faults' = faults
    BY <1>2 DEF Stop, ReaderChecks
  <2>2. \A v \in Worlds : Seen(Base(v)') = Seen(Base(v))
    BY <1>0, <2>1 DEF Base, Seen
  <2> QED BY <1>0, <2>1, <2>2, StoreStutters DEF Store!svars
<1>3. ASSUME NEW s \in Saves, GameWrites(w, s) PROVE [Store!Next]_(Store!svars)
  <2>1. /\ running = w /\ faults' = faults
        /\ root'[w].save = s /\ root'[w].pera = root[w].pera
        /\ \A v \in Worlds \ {w} : root'[v] = root[v]
    BY <1>3, <1>t DEF GameWrites, FilesTypeOK, Dirs
  <2>2. (InWork => world # w) /\ root[w] # Absent
    BY <1>t, <2>1, WorldFilesAssumption DEF WorkInv, QuietInv, LaunchedAsConfigured, FilesTypeOK
  <2>3. /\ Base(w) = root[w] /\ Base(w)' = root'[w]
        /\ \A v \in Worlds \ {w} : Base(v)' = Base(v)
    BY <1>0, <2>1, <2>2 DEF Base
  <2>4. UNCHANGED <<struck, pending>>
    <3>1. struck' = struck
      BY <1>0, <2>1 DEF struck
    <3>2. Promise' = Promise
      BY <1>0 DEF Promise, Seen, Absent
    <3> QED BY <1>0, <3>1, <3>2 DEF pending
  <2>5. CASE w \in struck
    <3>1. store' = store
      BY <2>3, <2>4, <2>5 DEF store, Seen, Absent
    <3> QED BY <2>4, <3>1 DEF Store!svars
  <2>6. CASE w \notin struck
    <3>1. store[w] = Seen(root[w])
      BY <2>3, <2>6 DEF store
    <3>2. store[w] # Store!Nothing
      BY <1>t, <2>2, <3>1, SeenFacts DEF ProperInv, SameAs
    <3>3. Seen(root'[w]) = [store[w] EXCEPT !.save = s]
      BY <2>1, <3>1 DEF Seen
    <3>4. store' = [store EXCEPT ![w] = [store[w] EXCEPT !.save = s]]
      <4>1. \A v \in Worlds \ {w} : Seen(Base(v)') = Seen(Base(v))
        BY <2>3 DEF Seen
      <4>2. PICK c : c = [store[w] EXCEPT !.save = s]
        OBVIOUS
      <4>3. store' = [store EXCEPT ![w] = c]
        BY <2>3, <2>4, <2>6, <3>3, <4>1, <4>2, StoreMoves
      <4> QED BY <4>2, <4>3
    <3>5. Store!Free(w)
      BY <2>2, <2>6 DEF Store!Free, pending
    <3>6. Store!Play(w, s)
      BY <2>4, <3>2, <3>4, <3>5 DEF Store!Play
    <3> QED BY <3>6 DEF Store!Next
  <2> QED BY <2>5, <2>6
<1>4. CASE ReaderWrites(w)
  <2>1. /\ root' = IF root[w] = Absent THEN [root EXCEPT ![w] = Bare] ELSE root
        /\ faults' = IF root[w] = Absent /\ step # "idle" /\ world = w THEN Worse ELSE faults
    BY <1>4 DEF ReaderWrites
  <2>2. CASE root[w] # Absent \/ (InWork /\ world = w)
    <3>1. \A v \in Worlds : Base(v)' = Base(v)
      BY <1>t, <1>0, <2>1, <2>2 DEF Base, FilesTypeOK
    <3>2. CASE InWork /\ faults' = 2 /\ world = w
      <4>1. world \in struck'
        BY <1>0, <3>2 DEF struck
      <4>2. Store!Strike(world)
        BY <1>t, <1>0, <3>1, <4>1, WorldStruck
      <4> QED BY <1>t, <4>2 DEF Store!Next
    <3>3. CASE ~(InWork /\ faults' = 2 /\ world = w)
      <4>1. InWork => (faults' = 2 <=> faults = 2)
        BY <1>t, <2>1, <3>3 DEF Worse
      <4>2. \A v \in Worlds : Seen(Base(v)') = Seen(Base(v))
        BY <3>1 DEF Seen
      <4> QED BY <1>0, <4>1, <4>2, StoreStutters DEF Store!svars
    <3> QED BY <3>2, <3>3
  <2>3. CASE root[w] = Absent /\ ~(InWork /\ world = w)
    <3>1. /\ Base(w) = Absent /\ Base(w)' = Bare
          /\ \A v \in Worlds \ {w} : Base(v)' = Base(v)
      BY <1>t, <1>0, <2>1, <2>3 DEF Base, FilesTypeOK
    <3>2. UNCHANGED <<struck, pending>>
      <4>1. InWork => faults' = faults
        BY <2>1, <2>3
      <4>2. struck' = struck
        BY <1>0, <4>1 DEF struck
      <4>3. Promise' = Promise
        BY <1>0 DEF Promise, Seen, Absent
      <4> QED BY <1>0, <4>2, <4>3 DEF pending
    <3>3. CASE w \in struck
      <4>1. store' = store
        BY <3>1, <3>2, <3>3 DEF store, Seen, Absent
      <4> QED BY <3>2, <4>1 DEF Store!svars
    <3>4. CASE w \notin struck
      <4>1. store[w] = Store!Nothing
        BY <3>1, <3>4, SeenFacts DEF store
      <4>2. store' = [store EXCEPT ![w] = Store!Stray]
        <5>1. \A v \in Worlds \ {w} : Seen(Base(v)') = Seen(Base(v))
          BY <3>1 DEF Seen
        <5>2. Seen(Base(w)') = Store!Stray
          BY <3>1, SeenFacts
        <5> QED BY <3>2, <3>4, <5>1, <5>2, StoreMoves
      <4>3. Store!Free(w)
        BY <2>3, <3>4 DEF Store!Free, pending
      <4>4. Store!Appear(w)
        BY <3>2, <4>1, <4>2, <4>3 DEF Store!Appear
      <4> QED BY <4>4 DEF Store!Next
    <3> QED BY <3>3, <3>4
  <2> QED BY <2>2, <2>3
<1> QED BY <1>1, <1>2, <1>3, <1>4

\* The other steps of an operation: users see nothing of them.
LEMMA StepsStored == FilesInv /\ Steps /\ ~Resume => [Store!Next]_(Store!svars)
<1> SUFFICES ASSUME FilesInv, Steps, ~Resume PROVE [Store!Next]_(Store!svars)
  OBVIOUS
<1> USE DEF Goes, Keeps, opvars, game, ghosts, disk
<1>t. FilesTypeOK /\ KindOfStep /\ world \in Worlds
  BY DEF FilesInv, WorkInv, KeepInv, FilesTypeOK
<1>1. /\ UNCHANGED <<kind, world, source, target, before, damaged, result, faults>>
      /\ step # "idle" /\ step' # "idle"
      /\ \A w \in Worlds \ {world} : root'[w] = root[w]
      /\ DeleteBackup \/ Purge => root' = root
  BY <1>t DEF Steps, Snapshot, Copy, Aside, Swap, WriteFiles, WriteMetadata, Register, Clean,
     Undo, PutBack, Archive, DeleteBackup, Purge, AfterSnapshot, AfterMetadata, FilesTypeOK
<1>2. InWork' = InWork /\ (InWork \/ root' = root)
  BY <1>t, <1>1 DEF InWork, KindOfStep, Steps, Snapshot, Copy, Aside, Swap, WriteFiles,
     WriteMetadata, Register, Clean, Undo, PutBack, Archive, Pausing, Replacing
<1>3. \A w \in Worlds : Seen(Base(w)') = Seen(Base(w))
  <2>1. \A w \in Worlds : Base(w)' = Base(w)
    BY <1>1, <1>2 DEF Base
  <2> QED BY <2>1 DEF Seen
<1> QED BY <1>1, <1>2, <1>3, StoreStutters DEF Store!svars

\* The operations on the worlds' files implement the atomic store: each of them
\* takes place at its end or, after a failure, not at all, until a second fault,
\* the death of the panel or a torn backup strikes the world.
THEOREM OperationsAreAtomic == FilesSpec => StoreSpec
<1>1. FilesInit => Store!Init
  <2> SUFFICES ASSUME FilesInit PROVE Store!Init
    OBVIOUS
  <2>1. step = "idle" /\ damaged = {} /\ \A w \in Worlds : root[w] = Absent
    BY DEF FilesInit
  <2>2. struck = {} /\ pending = {} /\ ~InWork
    BY <2>1 DEF struck, pending, InWork
  <2>3. store = [w \in Worlds |-> Store!Nothing]
    BY <2>1, <2>2, SeenFacts DEF store, Base
  <2> QED BY <2>2, <2>3 DEF Store!Init
<1>2. FilesInv /\ FilesInv' /\ [FilesNext]_vars => [Store!Next]_(Store!svars)
  <2> SUFFICES ASSUME FilesInv, FilesInv', [FilesNext]_vars PROVE [Store!Next]_(Store!svars)
    OBVIOUS
  <2>1. CASE UNCHANGED vars
    <3>1. UNCHANGED <<root, kind, world, source, target, before, damaged, step, result, faults>>
      BY <2>1 DEF vars, disk, opvars, ghosts
    <3>2. InWork' = InWork /\ \A w \in Worlds : Base(w)' = Base(w)
      BY <3>1 DEF InWork, Base
    <3>3. \A w \in Worlds : Seen(Base(w)') = Seen(Base(w))
      BY <3>2 DEF Seen
    <3> QED BY <3>1, <3>2, <3>3, StoreStutters DEF Store!svars
  <2>2. CASE Steps \/ Troubles
    BY <2>2, StepsStored, ResumeStored, TroublesStored
  <2> QED BY <2>1, <2>2, AskStored, OutsideStored DEF FilesNext
<1> QED BY <1>1, <1>2, FilesInitial, FilesStep, PTL DEF FilesSpec, StoreSpec, Store!Spec
=============================================================================
