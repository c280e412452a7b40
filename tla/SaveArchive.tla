----------------------------- MODULE SaveArchive -----------------------------
(***************************************************************************)
(* Save ZIPs: what a download packs (pera_panel/save_export.py), what an   *)
(* upload accepts and stages (pera_panel/save_import.py), and what the     *)
(* import makes of it (Service.import_save).                               *)
(*                                                                         *)
(* An archive is a set of members.  A member is under a top folder, in a   *)
(* shard's folder: a file or a directory of its save folder, its           *)
(* server.ini, its modoverrides.lua, or something that is refused.         *)
(***************************************************************************)
EXTENDS Naturals, FiniteSets

CONSTANTS Worlds,
          Tops,         \* top folders of archives; a download's is its world's
          Resources,    \* the top folder "__MACOSX"
          Files,        \* bound: paths below a save folder
          Session,      \* those of a session: at least session/<id>/<name>
          Meta,         \* those that end in ".meta"
          Raw, Encoded, \* character snapshots, in the two folder layouts
          Dirs, Below,  \* bound: directories there, and the files below each
          Contents, Empty, Torn,  \* bound: contents of files; Torn unpacks to
                                  \* something of another size
          Size,
          Settings,     \* bound: mod lists ...
          NoMods,       \* ... the empty one ...
          Documents, TextOf, ReadOf, Unsupported,
                        \* ... and modoverrides.lua, as written and as read
          Plain,        \* a mod list up to what its text does not tell
          Ids, NoId, DefaultIds,
          Choices,      \* bound: settings a world is given
          Played,       \* bound: what games write into the save folders
          Zips,         \* bound: archives made by others
          NoOrigin, NoDownload, NoUpload,   \* none yet
          MaxEvents,    \* bound: changes by users, games and others
          CanFail,      \* may unpacking fail half-way?
          CanChange     \* may others change a stopped world's files?

Shards == {"Master", "Caves"}
Formats == {"raw", "encoded", "unset"}

Saves == [shard : Shards, file : Files \cup Dirs, content : Contents]
Members ==
    [kind : {"save"}, top : Tops, shard : Shards \cup {"other"}, file : Files \cup Dirs,
     content : Contents \cup {Torn}]
    \cup [kind : {"folder"}, top : Tops, shard : Shards, file : Dirs, slash : {"/", "\\"}]
    \cup [kind : {"ini"}, top : Tops, shard : Shards, id : Ids \cup {NoId}, format : Formats,
          valid : BOOLEAN]
    \cup [kind : {"mods"}, top : Tops, shard : Shards, text : Documents]
    \cup [kind : {"shard_zip"}, top : Tops]
    \cup [kind : {"unsafe"}]
WorldSettings == [caves : BOOLEAN, mods : Settings, ids : [Shards -> Ids],
                  formats : [Shards -> Formats]]

\* validate_world: the game tells the shards apart by their ids.
Valid(settings) == settings.ids["Master"] # settings.ids["Caves"]

ASSUME SavesAssumption ==
    /\ Worlds \subseteq Tops /\ Resources \in Tops \ Worlds /\ IsFiniteSet(Tops)
    /\ Session \subseteq Files /\ Meta \subseteq Files /\ Raw \cup Encoded \subseteq Session
    /\ Files \cap Dirs = {} /\ Below \in [Dirs -> SUBSET Files]
    /\ Empty \in Contents /\ Torn \notin Contents /\ Size \in [Contents -> Nat]
    /\ \A c \in Contents : Size[c] = 0 <=> c = Empty
    /\ NoMods \in Settings /\ Unsupported \notin Settings /\ Plain \in [Settings -> Settings]
    /\ TextOf \in [Settings -> Documents] /\ ReadOf \in [Documents -> Settings \cup {Unsupported}]
    /\ \A l \in Settings : ReadOf[TextOf[l]] = Plain[l]
    /\ DefaultIds \in [Shards -> Ids] /\ NoId \notin Ids
    /\ Choices \subseteq {c \in WorldSettings : Valid(c)}
    /\ Played \subseteq Saves
    /\ Zips \subseteq SUBSET Members
    /\ MaxEvents \in Nat /\ CanFail \in BOOLEAN /\ CanChange \in BOOLEAN

VARIABLES
    worlds,    \* the settings of each world
    saves,     \* its save folders
    pc,        \* "idle", "packing" (a download), "staging" (an upload)
    listed,    \* the files a download has yet to pack ...
    packed,    \* ... the members it has packed ...
    origin,    \* ... and, history, what it is of
    download,  \* the last completed download, with its origin
    upload,    \* the upload in progress
    staged,    \* what it has unpacked
    events

exporting == <<listed, packed, origin>>
importing == <<upload, staged>>
vars == <<worlds, saves, pc, exporting, download, importing, events>>

ShardsOf(settings) == IF settings.caves THEN Shards ELSE {"Master"}
SavesInit ==
    /\ worlds \in [Worlds -> Choices]
    /\ saves = [w \in Worlds |-> {}]
    /\ pc = "idle"
    /\ listed = {} /\ packed = {} /\ origin = NoOrigin
    /\ download = NoDownload
    /\ upload = NoUpload /\ staged = {}
    /\ events = 0

Happens == events < MaxEvents /\ events' = events + 1

-----------------------------------------------------------------------------
(* Settings and games.                                                     *)

\* Service.configure: caves stay as they are once there is a save folder.
MayConfigure_IgnoresSaves(w, settings) == Valid(settings)
MayConfigure(w, settings) ==
    /\ Valid(settings)
    /\ settings.caves = worlds[w].caves \/ saves[w] = {}

Configure(w, settings) ==
    /\ pc = "idle"
    /\ MayConfigure(w, settings)
    /\ Happens
    /\ worlds' = [worlds EXCEPT ![w] = settings]
    /\ UNCHANGED <<saves, pc, exporting, download, importing>>

At(x, folder) == {y \in folder : y.shard = x.shard /\ y.file = x.file}
Written(folder, x) == (folder \ At(x, folder)) \cup {x}

\* The game of a world writes its shards' saves, never while they are packed.
Play(w, x) ==
    /\ pc = "packing" => origin.world # w
    /\ x.shard \in ShardsOf(worlds[w])
    /\ Happens
    /\ saves' = [saves EXCEPT ![w] = Written(@, x)]
    /\ UNCHANGED <<worlds, pc, exporting, download, importing>>

-----------------------------------------------------------------------------
(* inspect_archive.                                                        *)

\* What the importer takes for a file: a directory whose name ends in a
\* backslash is one, as ZipInfo.is_dir() looks for a slash.
IsFile(m) == m.kind = "save" \/ (m.kind = "folder" /\ m.slash = "\\")
InSave(zip) == {m \in zip : m.kind \in {"save", "folder"}}

Sound(zip) ==
    /\ \A m \in zip : m.kind # "unsafe"
    /\ \A m, n \in InSave(zip) :
          m.top = n.top /\ m.shard = n.shard /\ m.file = n.file => m = n
    /\ \A m, n \in InSave(zip) :
          ~ (/\ m.kind = "folder" /\ IsFile(m) /\ n.kind = "save"
             /\ m.top = n.top /\ m.shard = n.shard /\ n.file \in Below[m.file])

\* The top folders that hold a world.
Candidates(zip) ==
    {t \in Tops \ {Resources} :
        \E m \in zip : /\ m.kind = "save" /\ m.top = t /\ m.shard = "Master"
                       /\ m.file \in Session /\ m.content # Empty}

Under(zip, top) == {m \in zip : m.top = top}
ShardsIn(members) == {m.shard : m \in InSave(members)}
Selected(members) == {m \in InSave(members) : IsFile(m)}
Progress(x) == x.file \in Session \ Meta /\ x.content # Empty
ModsOf(members, shard) == {ReadOf[m.text] : m \in {n \in members : n.kind = "mods" /\ n.shard = shard}}
InisOf(members, shard) == {m \in members : m.kind = "ini" /\ m.shard = shard}

Accepts(members, inherit) ==
    /\ \A m \in members : m.kind # "shard_zip"
    /\ ShardsIn(members) \subseteq Shards /\ "Master" \in ShardsIn(members)
    /\ \A s \in ShardsIn(members) :
          \E m \in Selected(members) : m.kind = "save" /\ m.shard = s /\ Progress(m)
    /\ \A m \in members : m.kind = "ini" => m.valid
    /\ inherit => /\ \A s \in Shards : Unsupported \notin ModsOf(members, s)
                  /\ Cardinality(UNION {ModsOf(members, s) : s \in ShardsIn(members)}) <= 1

\* Metadata: an id or a format that a server.ini tells, else a layout that
\* all snapshots of characters share.
IdIn_OfAnyShard(members, s) ==
    LET told == {m \in members : m.kind = "ini" /\ m.id # NoId} IN
    IF told # {} THEN (CHOOSE m \in told : TRUE).id ELSE DefaultIds[s]
IdIn(members, s) ==
    IF \E m \in InisOf(members, s) : m.id # NoId
    THEN (CHOOSE m \in InisOf(members, s) : m.id # NoId).id ELSE DefaultIds[s]
Inferred(members, s) ==
    LET files == {m.file : m \in {n \in members : n.kind = "save" /\ n.shard = s}} IN
    CASE files \cap Raw # {} /\ files \cap Encoded = {} -> "raw"
      [] files \cap Raw = {} /\ files \cap Encoded # {} -> "encoded"
      [] OTHER -> "unset"
FormatIn(members, s) ==
    IF \E m \in InisOf(members, s) : m.format # "unset"
    THEN (CHOOSE m \in InisOf(members, s) : m.format # "unset").format
    ELSE Inferred(members, s)
ModsIn(members) ==
    LET told == UNION {ModsOf(members, s) : s \in ShardsIn(members)} IN
    IF told = {} THEN NoMods ELSE CHOOSE l \in Settings : l \in told

\* The world of an archive; inspection.
WorldIn(zip) == UNION {Under(zip, t) : t \in Candidates(zip)}
Inspected_TakesAll(zip, inherit) ==
    Sound(zip) /\ Candidates(zip) # {} /\ Accepts(WorldIn(zip), inherit)
Inspected(zip, inherit) ==
    Sound(zip) /\ Cardinality(Candidates(zip)) = 1 /\ Accepts(WorldIn(zip), inherit)

Imported(settings, members, inherit) ==
    [caves |-> "Caves" \in ShardsIn(members),
     mods |-> IF inherit THEN ModsIn(members) ELSE settings.mods,
     ids |-> [s \in Shards |-> IdIn(members, s)],
     formats |-> [s \in Shards |-> FormatIn(members, s)]]

-----------------------------------------------------------------------------
(* A download.  The operation lock is held and the world is stopped.       *)

InisFor(w, shards) ==
    {[kind |-> "ini", top |-> w, shard |-> s, id |-> worlds[w].ids[s],
      format |-> worlds[w].formats[s], valid |-> TRUE] : s \in shards}
ModsFor(w, shards) ==
    {[kind |-> "mods", top |-> w, shard |-> s, text |-> TextOf[worlds[w].mods]] : s \in shards}

\* The files of the world's shards, each of which has a saved game.
BeginDownload(w) ==
    LET shards == ShardsOf(worlds[w])
        files == {x \in saves[w] : x.shard \in shards}
    IN
    /\ pc = "idle"
    /\ \A s \in shards : \E x \in files : x.shard = s /\ Progress(x)
    /\ pc' = "packing"
    /\ listed' = files
    /\ packed' = InisFor(w, shards) \cup ModsFor(w, shards)
    /\ origin' = [world |-> w, settings |-> worlds[w], listed |-> {<<x.shard, x.file>> : x \in files},
                  seen |-> files]
    /\ UNCHANGED <<worlds, saves, download, importing, events>>

\* A file is packed as it is now, if it has the size it had.
Packs_SkipsMissing(x) ==
    packed' = packed \cup {[kind |-> "save", top |-> origin.world, shard |-> y.shard,
                            file |-> y.file, content |-> y.content] : y \in At(x, saves[origin.world])}
Packs(x) ==
    \E y \in At(x, saves[origin.world]) :
        /\ Size[y.content] = Size[x.content]
        /\ packed' = packed \cup {[kind |-> "save", top |-> origin.world, shard |-> y.shard,
                                   file |-> y.file, content |-> y.content]}

PackFile(x) ==
    /\ pc = "packing"
    /\ x \in listed
    /\ Packs(x)
    /\ listed' = listed \ {x}
    /\ UNCHANGED <<worlds, saves, pc, origin, download, importing, events>>

\* The archive passes the importer's inspection before it is handed out.
FinishDownload ==
    /\ pc = "packing" /\ listed = {}
    /\ Inspected(packed, TRUE)
    /\ pc' = "idle"
    /\ download' = [members |-> packed, origin |-> origin]
    /\ packed' = {} /\ origin' = NoOrigin
    /\ UNCHANGED <<worlds, saves, listed, importing, events>>

\* A file has another size, is gone, or cannot be read, or the archive would
\* not be accepted.
DownloadFails ==
    /\ pc = "packing"
    /\ \/ CanFail
       \/ listed = {} /\ ~Inspected(packed, TRUE)
       \/ \E x \in listed : ~ \E y \in At(x, saves[origin.world]) : Size[y.content] = Size[x.content]
    /\ pc' = "idle"
    /\ listed' = {} /\ packed' = {} /\ origin' = NoOrigin
    /\ UNCHANGED <<worlds, saves, download, importing, events>>

\* Somebody else changes or removes a file meanwhile.
Outside(x) ==
    /\ CanChange /\ pc = "packing"
    /\ Happens
    /\ LET w == origin.world IN
       /\ At(x, saves[w]) # {}
       /\ \/ /\ saves' = [saves EXCEPT ![w] = Written(@, x)]
             /\ origin' = [origin EXCEPT !.seen = @ \cup {x}]
          \/ /\ saves' = [saves EXCEPT ![w] = @ \ At(x, @)]
             /\ origin' = origin
    /\ UNCHANGED <<worlds, pc, listed, packed, download, importing>>

-----------------------------------------------------------------------------
(* An upload.                                                              *)

Offered == {[members |-> zip, origin |-> NoOrigin] : zip \in Zips}
           \cup ({download} \ {NoDownload})

\* The whole directory of the archive is inspected first; what does not pass
\* changes nothing.
BeginUpload(w, inherit, offer) ==
    /\ pc = "idle" /\ Happens
    /\ Inspected(offer.members, inherit)
    /\ pc' = "staging"
    /\ upload' = [to |-> w, inherit |-> inherit, members |-> WorldIn(offer.members), offer |-> offer]
    /\ UNCHANGED <<worlds, saves, exporting, download, staged>>

\* A member as it is unpacked.
Unpacked(m) == [shard |-> m.shard, file |-> m.file,
                content |-> IF m.kind = "save" THEN m.content ELSE Empty]
ToStage == {m \in Selected(upload.members) : Unpacked(m) \notin staged}

StageMember(m) ==
    /\ Unpacked(m).content # Torn
    /\ staged' = staged \cup {Unpacked(m)}
    /\ UNCHANGED <<worlds, saves, pc, exporting, download, upload, events>>

UploadEnds == pc' = "idle" /\ upload' = NoUpload /\ staged' = {}

\* A member does not unpack to its size, or the disk is full.
StagingFails ==
    /\ pc = "staging"
    /\ CanFail \/ \E m \in ToStage : Unpacked(m).content = Torn
    /\ UploadEnds
    /\ UNCHANGED <<worlds, saves, exporting, download, events>>

\* The new settings are validated before the world is touched; then its
\* directory is replaced.
Merged == Imported(worlds[upload.to], upload.members, upload.inherit)

Install_Unchecked ==
    /\ pc = "staging" /\ ToStage = {}
    /\ worlds' = [worlds EXCEPT ![upload.to] = Merged]
    /\ saves' = [saves EXCEPT ![upload.to] = staged]
    /\ UploadEnds
    /\ UNCHANGED <<exporting, download, events>>
Install ==
    /\ pc = "staging" /\ ToStage = {}
    /\ Valid(Merged)
    /\ worlds' = [worlds EXCEPT ![upload.to] = Merged]
    /\ saves' = [saves EXCEPT ![upload.to] = staged]
    /\ UploadEnds
    /\ UNCHANGED <<exporting, download, events>>

InstallRefused ==
    /\ pc = "staging" /\ ToStage = {}
    /\ ~Valid(Merged)
    /\ UploadEnds
    /\ UNCHANGED <<worlds, saves, exporting, download, events>>

-----------------------------------------------------------------------------
Downloads == \/ \E w \in Worlds : BeginDownload(w)
             \/ \E x \in listed : PackFile(x)
             \/ FinishDownload \/ DownloadFails
             \/ \E x \in Played : Outside(x)
Imports == \/ \E w \in Worlds, inherit \in BOOLEAN : \E offer \in Offered : BeginUpload(w, inherit, offer)
           \/ pc = "staging" /\ \E m \in ToStage : StageMember(m)
           \/ StagingFails \/ Install \/ InstallRefused
SavesNext ==
    \/ \E w \in Worlds : \/ \E settings \in Choices : Configure(w, settings)
                         \/ \E x \in Played : Play(w, x)
    \/ Downloads
    \/ Imports

SavesSpec == SavesInit /\ [][SavesNext]_vars

-----------------------------------------------------------------------------
(* Properties.                                                             *)

IsOrigin(o) ==
    /\ o.world \in Worlds /\ o.settings \in WorldSettings /\ Valid(o.settings)
    /\ o.listed \subseteq Shards \X (Files \cup Dirs)
    /\ o.seen \subseteq Saves
Archived(d) ==
    d.members \subseteq Members /\ (d.origin = NoOrigin \/ IsOrigin(d.origin))

SavesTypeOK ==
    /\ worlds \in [Worlds -> WorldSettings] /\ \A w \in Worlds : Valid(worlds[w])
    /\ saves \in [Worlds -> SUBSET Saves]
    /\ \A w \in Worlds : \A x, y \in saves[w] : x.shard = y.shard /\ x.file = y.file => x = y
    /\ pc \in {"idle", "packing", "staging"}
    /\ listed \subseteq Saves
    /\ packed \subseteq Members
    /\ origin = NoOrigin \/ IsOrigin(origin)
    /\ download = NoDownload \/ Archived(download)
    /\ upload = NoUpload \/ ( /\ upload.to \in Worlds /\ upload.inherit \in BOOLEAN
                              /\ upload.members \subseteq Members /\ Archived(upload.offer) )
    /\ staged \subseteq Saves
    /\ events \in 0 .. MaxEvents

\* A surface world has no caves in its files, whatever is configured, played
\* and imported in whatever order: its game would not load them, and a
\* download would leave them out.
CavesMatch == \A w \in Worlds : \A x \in saves[w] : x.shard \in ShardsOf(worlds[w])

\* What one world's download holds another world gets: every file that was
\* listed, with a content it had while it was packed; caves, shard ids and
\* folder layouts; and, if they are wanted, the mods.
RoundTrip ==
    [][Install /\ upload.offer.origin # NoOrigin =>
         LET w == upload.to
             from == upload.offer.origin
             then == from.settings
         IN /\ {<<x.shard, x.file>> : x \in saves'[w]} = from.listed
            /\ saves'[w] \subseteq from.seen
            /\ worlds'[w].caves = then.caves
            /\ worlds'[w].mods = IF upload.inherit THEN Plain[then.mods] ELSE worlds[w].mods
            /\ \A s \in ShardsOf(then) :
                  /\ worlds'[w].ids[s] = then.ids[s]
                  /\ then.formats[s] # "unset" => worlds'[w].formats[s] = then.formats[s]]_vars

\* An import brings the save files of exactly one world of the archive, all of
\* them, each as it was packed, and a saved game for each of its shards; of
\* an archive with two worlds, or one with part of a world, nothing.
ImportedWhole ==
    [][Install =>
         LET w == upload.to
             zip == upload.offer.members
             InShards(t) == {m \in zip : m.kind = "save" /\ m.top = t /\ m.shard \in Shards /\ m.file \in Files}
         IN /\ \E t \in Tops \ {Resources} :
                  /\ {x \in saves'[w] : x.file \in Files}
                        = {[shard |-> m.shard, file |-> m.file, content |-> m.content] : m \in InShards(t)}
                  /\ \A u \in Tops \ {t, Resources} :
                        ~ \E m \in InShards(u) : m.shard = "Master" /\ Progress(m)
            /\ \A s \in ShardsOf(worlds'[w]) : \E x \in saves'[w] : x.shard = s /\ Progress(x)]_vars

\* Every completed download can be uploaded again, for any world and with or
\* without its mods (save_export.py:110).  The exception is one: the import
\* gives a surface world the default id of the caves it does not have, which
\* may be the id of its master.
Collides(settings) == ~settings.caves /\ settings.ids["Master"] = DefaultIds["Caves"]
DownloadsReturn ==
    [][download' # download /\ ~Collides(origin.settings) =>
         \A inherit \in BOOLEAN :
             /\ Inspected(packed, inherit)
             /\ LET members == WorldIn(packed) IN
                \A w \in Worlds : Valid(Imported(worlds[w], members, inherit))]_vars
=============================================================================
