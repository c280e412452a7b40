------------------------- MODULE SaveArchiveProofs -------------------------
(* What an archive brings to a world, for any worlds, archives and files.  *)
EXTENDS SaveArchive, FiniteSetTheorems, TLAPS

-----------------------------------------------------------------------------
(* Members and settings.                                                   *)

\* What a member's kind tells of it.
LEMMA MemberTypes ==
    ASSUME NEW m \in Members
    PROVE  /\ m.kind \in {"save", "folder"} => m.file \in Files \cup Dirs
           /\ m.kind = "save" => m.content \in Contents \cup {Torn}
           /\ m.kind = "folder" => m.file \in Dirs
           /\ m.kind = "ini" => m.id \in Ids \cup {NoId} /\ m.format \in Formats
           /\ m.kind = "mods" => m.text \in Documents
  BY DEF Members

\* Two shards at most, the surface always.
LEMMA ShardsTyped ==
    ASSUME NEW settings
    PROVE  /\ ShardsOf(settings) \subseteq Shards /\ "Master" \in ShardsOf(settings)
           /\ "Caves" \in ShardsOf(settings) <=> settings.caves
  BY DEF ShardsOf, Shards

\* The one directory of an archive that inspection accepts.
LEMMA OneWorld ==
    ASSUME NEW zip, NEW inherit, Inspected(zip, inherit)
    PROVE  \E t \in Tops \ {Resources} :
               Candidates(zip) = {t} /\ WorldIn(zip) = Under(zip, t)
<1>1. IsFiniteSet(Candidates(zip)) /\ Cardinality(Candidates(zip)) = 1
  <2>1. Candidates(zip) \subseteq Tops
    BY DEF Candidates
  <2> QED BY <2>1, FS_Subset, SavesAssumption DEF Inspected
<1>2. PICK t : Candidates(zip) = {t}
  BY <1>1, FS_Singleton
<1>3. t \in Tops \ {Resources}
  BY <1>2 DEF Candidates
<1>4. WorldIn(zip) = Under(zip, t)
  BY <1>2 DEF WorldIn
<1> QED BY <1>2, <1>3, <1>4

\* The settings of an accepted archive are settings.
LEMMA ImportedType ==
    ASSUME NEW members \in SUBSET Members, NEW inherit \in BOOLEAN, Accepts(members, inherit),
           NEW settings \in WorldSettings
    PROVE  Imported(settings, members, inherit) \in WorldSettings
<1>1. ASSUME NEW s \in Shards PROVE IdIn(members, s) \in Ids
  <2>1. CASE \E m \in InisOf(members, s) : m.id # NoId
    <3>1. PICK m \in InisOf(members, s) : m.id # NoId /\ IdIn(members, s) = m.id
      BY <2>1 DEF IdIn
    <3> QED BY <3>1, MemberTypes DEF InisOf
  <2>2. CASE ~ \E m \in InisOf(members, s) : m.id # NoId
    BY <2>2, SavesAssumption DEF IdIn
  <2> QED BY <2>1, <2>2
<1>2. ASSUME NEW s \in Shards PROVE FormatIn(members, s) \in Formats
  <2>1. CASE \E m \in InisOf(members, s) : m.format # "unset"
    <3>1. PICK m \in InisOf(members, s) : m.format # "unset" /\ FormatIn(members, s) = m.format
      BY <2>1 DEF FormatIn
    <3> QED BY <3>1, MemberTypes DEF InisOf
  <2>2. CASE ~ \E m \in InisOf(members, s) : m.format # "unset"
    BY <2>2 DEF FormatIn, Inferred, Formats
  <2> QED BY <2>1, <2>2
<1>3. inherit => ModsIn(members) \in Settings
  <2> DEFINE told == UNION {ModsOf(members, s) : s \in ShardsIn(members)}
  <2> SUFFICES ASSUME inherit, told # {} PROVE ModsIn(members) \in Settings
    BY SavesAssumption DEF ModsIn
  <2>1. PICK l \in told : TRUE
    OBVIOUS
  <2>2. PICK s \in Shards : l \in ModsOf(members, s)
    BY <2>1 DEF Accepts
  <2>3. l \in Settings
    <3>1. PICK m \in members : m.kind = "mods" /\ l = ReadOf[m.text]
      BY <2>2 DEF ModsOf
    <3>2. l \in Settings \cup {Unsupported}
      BY <3>1, MemberTypes, SavesAssumption
    <3> QED BY <2>2, <3>2 DEF Accepts
  <2> QED BY <2>1, <2>3 DEF ModsIn
<1> QED BY <1>1, <1>2, <1>3 DEF Imported, WorldSettings

-----------------------------------------------------------------------------
(* The inductive invariant.                                                *)

\* What a download has packed: files it has listed, as they were while it
\* packed, and the settings of its world.
PackedFrom(zip, o) ==
    /\ \A m \in zip : m.top = o.world /\ m.kind \in {"save", "ini", "mods"}
    /\ \A m \in zip : m.kind = "save" =>
          /\ m.shard \in ShardsOf(o.settings)
          /\ <<m.shard, m.file>> \in o.listed
          /\ [shard |-> m.shard, file |-> m.file, content |-> m.content] \in o.seen
    /\ \A s \in ShardsOf(o.settings) :
          /\ InisOf(zip, s) = {[kind |-> "ini", top |-> o.world, shard |-> s,
                                id |-> o.settings.ids[s], format |-> o.settings.formats[s],
                                valid |-> TRUE]}
          /\ {m \in zip : m.kind = "mods" /\ m.shard = s}
                = {[kind |-> "mods", top |-> o.world, shard |-> s, text |-> TextOf[o.settings.mods]]}
          /\ \E f \in Files \cup Dirs : <<s, f>> \in o.listed
    /\ \A m \in zip : m.kind \in {"ini", "mods"} => m.shard \in ShardsOf(o.settings)
Has(zip, place) == \E m \in zip : m.kind = "save" /\ <<m.shard, m.file>> = place
\* The origin of a whole download.
Faithful(d) ==
    d.origin # NoOrigin =>
        IsOrigin(d.origin) /\ PackedFrom(d.members, d.origin) /\ \A l \in d.origin.listed : Has(d.members, l)

\* A download under way: what is listed is packed or left to pack, and the
\* world is as it was when it began.
PackInv ==
    /\ pc = "packing" =>
          /\ IsOrigin(origin) /\ PackedFrom(packed, origin)
          /\ origin.settings = worlds[origin.world]
          /\ \A y \in saves[origin.world] : y.shard \in ShardsOf(origin.settings) => y \in origin.seen
          /\ \A x \in listed : /\ x.shard \in ShardsOf(origin.settings)
                               /\ <<x.shard, x.file>> \in origin.listed
          /\ \A l \in origin.listed : Has(packed, l) \/ \E x \in listed : <<x.shard, x.file>> = l
    /\ download # NoDownload => Faithful(download)

\* An upload under way has passed the inspection, and nothing is staged that
\* is not in it.
StageInv ==
    IF pc # "staging" THEN staged = {} ELSE
        /\ upload.to \in Worlds /\ upload.inherit \in BOOLEAN
        /\ Archived(upload.offer) /\ Faithful(upload.offer)
        /\ Inspected(upload.offer.members, upload.inherit)
        /\ upload.members = WorldIn(upload.offer.members)
        /\ \A x \in staged : \E m \in Selected(upload.members) : x = Unpacked(m) /\ x.content # Torn

SavesInv == SavesTypeOK /\ CavesMatch /\ PackInv /\ StageInv

-----------------------------------------------------------------------------
(* Every step keeps it.                                                    *)

\* What is known of an upload under way.
LEMMA UploadKnown ==
    ASSUME StageInv, pc = "staging"
    PROVE  \E t \in Tops \ {Resources} :
             /\ Candidates(upload.offer.members) = {t}
             /\ upload.members = Under(upload.offer.members, t)
             /\ upload.members \in SUBSET Members
             /\ Accepts(upload.members, upload.inherit)
             /\ \A m \in Selected(upload.members) :
                   /\ m.shard \in Shards /\ m.kind \in {"save", "folder"}
                   /\ m.file \in Files \cup Dirs
                   /\ m.kind = "save" => m.content \in Contents \cup {Torn}
             /\ \A m, n \in Selected(upload.members) :
                   m.shard = n.shard /\ m.file = n.file => m = n
<1> DEFINE zip == upload.offer.members
<1>1. zip \in SUBSET Members /\ Inspected(zip, upload.inherit) /\ upload.members = WorldIn(zip)
  BY DEF StageInv, Archived
<1>2. PICK t \in Tops \ {Resources} : Candidates(zip) = {t} /\ WorldIn(zip) = Under(zip, t)
  BY <1>1, OneWorld
<1>3. Accepts(upload.members, upload.inherit) /\ Sound(zip)
  BY <1>1 DEF Inspected
<1>4. upload.members \in SUBSET zip /\ \A m \in upload.members : m.top = t
  BY <1>1, <1>2 DEF Under
<1>5. ASSUME NEW m \in Selected(upload.members)
      PROVE  m \in InSave(zip) /\ m \in Members /\ m.shard \in Shards /\ m.top = t
  BY <1>5, <1>1, <1>3, <1>4 DEF Selected, InSave, Accepts, ShardsIn
<1>6. \A m, n \in Selected(upload.members) : m.shard = n.shard /\ m.file = n.file => m = n
  BY <1>3, <1>5 DEF Sound
<1>7. ASSUME NEW m \in Selected(upload.members)
      PROVE  /\ m.kind \in {"save", "folder"} /\ m.file \in Files \cup Dirs
             /\ m.kind = "save" => m.content \in Contents \cup {Torn}
  <2>1. m \in Members /\ m.kind \in {"save", "folder"}
    BY <1>5 DEF InSave
  <2> QED BY <2>1, MemberTypes
<1> QED BY <1>1, <1>2, <1>3, <1>4, <1>5, <1>6, <1>7

\* A member's place and content are a save file's.
LEMMA UnpackedType ==
    ASSUME StageInv, pc = "staging", NEW m \in Selected(upload.members)
    PROVE  /\ Unpacked(m).shard = m.shard /\ Unpacked(m).file = m.file
           /\ Unpacked(m).content # Torn => Unpacked(m) \in Saves
           /\ m.kind = "save" => Unpacked(m).content = m.content
<1>1. m.shard \in Shards /\ m.file \in Files \cup Dirs
      /\ (m.kind = "save" => m.content \in Contents \cup {Torn})
  BY UploadKnown
<1> QED BY <1>1, SavesAssumption DEF Unpacked, Saves

\* When all is staged, what is staged is what was selected.
LEMMA AllStaged ==
    ASSUME StageInv, pc = "staging", ToStage = {}
    PROVE  staged = {Unpacked(m) : m \in Selected(upload.members)} /\ staged \subseteq Saves
<1>1. \A m \in Selected(upload.members) : Unpacked(m) \in staged
  BY DEF ToStage
<1>2. \A x \in staged : \E m \in Selected(upload.members) : x = Unpacked(m) /\ x.content # Torn
  BY DEF StageInv
<1> QED BY <1>1, <1>2, UnpackedType

\* A written file takes the place of the one that was there.
LEMMA WrittenKnown ==
    ASSUME NEW folder \in SUBSET Saves, NEW x \in Saves,
           \A y, z \in folder : y.shard = z.shard /\ y.file = z.file => y = z
    PROVE  /\ Written(folder, x) \in SUBSET Saves
           /\ \A y, z \in Written(folder, x) : y.shard = z.shard /\ y.file = z.file => y = z
           /\ folder \ At(x, folder) \in SUBSET Saves
           /\ \A y, z \in folder \ At(x, folder) : y.shard = z.shard /\ y.file = z.file => y = z
  BY DEF Written, At

\* No step changes a type.
LEMMA TypeStep == SavesInv /\ [SavesNext]_vars => SavesTypeOK'
<1> SUFFICES ASSUME SavesInv, [SavesNext]_vars PROVE SavesTypeOK'
  OBVIOUS
<1> USE DEF SavesTypeOK, exporting, importing, Happens
<1>t. SavesTypeOK /\ MaxEvents \in Nat
  BY SavesAssumption DEF SavesInv
<1>1. CASE UNCHANGED vars
  BY <1>1, <1>t DEF vars, Archived, IsOrigin
<1>2. ASSUME NEW w \in Worlds, NEW settings \in Choices, Configure(w, settings) PROVE SavesTypeOK'
  <2>1. settings \in WorldSettings /\ Valid(settings)
    BY SavesAssumption
  <2>2. worlds' \in [Worlds -> WorldSettings] /\ \A v \in Worlds : Valid(worlds'[v])
    BY <1>2, <1>t, <2>1 DEF Configure
  <2> QED BY <1>2, <1>t, <2>2 DEF Configure
<1>3. ASSUME NEW w \in Worlds, NEW x \in Played, Play(w, x) PROVE SavesTypeOK'
  <2>1. x \in Saves /\ saves[w] \in SUBSET Saves
    BY <1>t, SavesAssumption
  <2>2. /\ saves' \in [Worlds -> SUBSET Saves]
        /\ \A v \in Worlds : \A y, z \in saves'[v] : y.shard = z.shard /\ y.file = z.file => y = z
    BY <1>3, <1>t, <2>1, WrittenKnown DEF Play
  <2> QED BY <1>3, <1>t, <2>2 DEF Play
<1>4. ASSUME NEW w \in Worlds, BeginDownload(w) PROVE SavesTypeOK'
  <2> DEFINE files == {x \in saves[w] : x.shard \in ShardsOf(worlds[w])}
  <2>1. files \subseteq Saves
    BY <1>t
  <2>2. packed' \subseteq Members
    <3>1. worlds[w] \in WorldSettings /\ w \in Tops /\ ShardsOf(worlds[w]) \subseteq Shards
      BY <1>t, SavesAssumption, ShardsTyped
    <3>2. InisFor(w, ShardsOf(worlds[w])) \subseteq Members
      <4>1. \A s \in ShardsOf(worlds[w]) :
               s \in Shards /\ worlds[w].ids[s] \in Ids /\ worlds[w].formats[s] \in Formats
        BY <3>1 DEF WorldSettings
      <4>2. ASSUME NEW m \in InisFor(w, ShardsOf(worlds[w])) PROVE m \in Members
        <5>1. PICK s \in ShardsOf(worlds[w]) :
                m = [kind |-> "ini", top |-> w, shard |-> s, id |-> worlds[w].ids[s],
                     format |-> worlds[w].formats[s], valid |-> TRUE]
          BY DEF InisFor
        <5>2. m \in [kind : {"ini"}, top : Tops, shard : Shards, id : Ids \cup {NoId},
                     format : Formats, valid : BOOLEAN]
          BY <3>1, <4>1, <5>1
        <5> QED BY <5>2 DEF Members
      <4> QED BY <4>2
    <3>3. ModsFor(w, ShardsOf(worlds[w])) \subseteq Members
      BY <3>1, SavesAssumption DEF ModsFor, Members, WorldSettings
    <3> QED BY <1>4, <3>2, <3>3 DEF BeginDownload
  <2>3. IsOrigin(origin')
    <3>1. \A x \in files : <<x.shard, x.file>> \in Shards \X (Files \cup Dirs)
      BY <2>1 DEF Saves
    <3>2. origin' = [world |-> w, settings |-> worlds[w],
                     listed |-> {<<x.shard, x.file>> : x \in files}, seen |-> files]
      BY <1>4 DEF BeginDownload
    <3> QED BY <3>1, <3>2, <2>1, <1>t DEF IsOrigin
  <2> QED BY <1>4, <1>t, <2>1, <2>2, <2>3 DEF BeginDownload
<1>5. ASSUME NEW x \in listed, PackFile(x) PROVE SavesTypeOK'
  <2>1. IsOrigin(origin) /\ pc = "packing"
    BY <1>5 DEF PackFile, SavesInv, PackInv
  <2>2. packed' \subseteq Members
    <3>1. PICK y \in At(x, saves[origin.world]) :
             packed' = packed \cup {[kind |-> "save", top |-> origin.world, shard |-> y.shard,
                                     file |-> y.file, content |-> y.content]}
      BY <1>5 DEF PackFile, Packs
    <3>2. y \in Saves /\ origin.world \in Tops
      BY <2>1, <1>t, SavesAssumption DEF At, IsOrigin
    <3> QED BY <3>1, <3>2, <1>t DEF Members, Saves
  <2> QED BY <1>5, <1>t, <2>2 DEF PackFile
<1>6. CASE FinishDownload
  <2>1. Archived(download')
    BY <1>6, <1>t DEF FinishDownload, Archived
  <2> QED BY <1>6, <1>t, <2>1 DEF FinishDownload
<1>7. CASE DownloadFails
  BY <1>7, <1>t DEF DownloadFails
<1>8. ASSUME NEW x \in Played, Outside(x) PROVE SavesTypeOK'
  <2> DEFINE w == origin.world
  <2>1. IsOrigin(origin) /\ pc = "packing" /\ w \in Worlds
    BY <1>8 DEF Outside, SavesInv, PackInv, IsOrigin
  <2>2. x \in Saves /\ saves[w] \in SUBSET Saves
    BY <1>t, <2>1, SavesAssumption
  <2>3. saves' = [saves EXCEPT ![w] = Written(@, x)] \/ saves' = [saves EXCEPT ![w] = @ \ At(x, @)]
    BY <1>8 DEF Outside
  <2>4. /\ saves' \in [Worlds -> SUBSET Saves]
        /\ \A v \in Worlds : \A y, z \in saves'[v] : y.shard = z.shard /\ y.file = z.file => y = z
    <3>1. CASE saves' = [saves EXCEPT ![w] = Written(@, x)]
      <4>1. saves' = [saves EXCEPT ![w] = Written(saves[w], x)]
        BY <3>1
      <4> QED BY <1>t, <2>1, <2>2, <4>1, WrittenKnown
    <3>2. CASE saves' = [saves EXCEPT ![w] = @ \ At(x, @)]
      <4>1. saves' = [saves EXCEPT ![w] = saves[w] \ At(x, saves[w])]
        BY <3>2
      <4> QED BY <1>t, <2>1, <2>2, <4>1, WrittenKnown
    <3> QED BY <2>3, <3>1, <3>2
  <2>5. IsOrigin(origin')
    <3>1. CASE origin' = origin
      BY <3>1, <2>1
    <3>2. CASE origin' = [origin EXCEPT !.seen = @ \cup {x}]
      BY <3>2, <2>1, <2>2 DEF IsOrigin
    <3> QED BY <3>1, <3>2, <1>8 DEF Outside
  <2> QED BY <1>8, <1>t, <2>4, <2>5 DEF Outside
<1>9. ASSUME NEW w \in Worlds, NEW inherit \in BOOLEAN, NEW offer \in Offered, BeginUpload(w, inherit, offer)
      PROVE  SavesTypeOK'
  <2>1. Archived(offer)
    BY <1>t, SavesAssumption DEF Offered, Archived
  <2>2. WorldIn(offer.members) \subseteq Members
    BY <2>1 DEF Archived, WorldIn, Under
  <2> QED BY <1>9, <1>t, <2>1, <2>2 DEF BeginUpload
<1>10. ASSUME pc = "staging", NEW m \in ToStage, StageMember(m) PROVE SavesTypeOK'
  <2>1. m \in Selected(upload.members)
    BY DEF ToStage
  <2>2. Unpacked(m) \in Saves
    BY <1>10, <2>1, UnpackedType DEF StageMember, SavesInv
  <2> QED BY <1>10, <1>t, <2>2 DEF StageMember
<1>11. CASE StagingFails \/ InstallRefused
  BY <1>11, <1>t DEF StagingFails, InstallRefused, UploadEnds
<1>12. CASE Install
  <2>1. StageInv /\ pc = "staging" /\ ToStage = {}
    BY <1>12 DEF Install, SavesInv
  <2>2. upload.to \in Worlds /\ upload.inherit \in BOOLEAN
    BY <2>1 DEF StageInv
  <2>3. Merged \in WorldSettings /\ Valid(Merged)
    <3>1. upload.members \in SUBSET Members /\ Accepts(upload.members, upload.inherit)
      BY <2>1, UploadKnown
    <3> QED BY <3>1, <2>2, <1>t, <1>12, ImportedType DEF Merged, Install
  <2>4. worlds' \in [Worlds -> WorldSettings] /\ \A v \in Worlds : Valid(worlds'[v])
    BY <1>12, <1>t, <2>2, <2>3 DEF Install
  <2>5. staged \subseteq Saves /\ \A y, z \in staged : y.shard = z.shard /\ y.file = z.file => y = z
    <3>1. staged = {Unpacked(m) : m \in Selected(upload.members)} /\ staged \subseteq Saves
      BY <2>1, AllStaged
    <3>2. \A m, n \in Selected(upload.members) : m.shard = n.shard /\ m.file = n.file => m = n
      BY <2>1, UploadKnown
    <3> QED BY <2>1, <3>1, <3>2, UnpackedType
  <2>6. /\ saves' \in [Worlds -> SUBSET Saves]
        /\ \A v \in Worlds : \A y, z \in saves'[v] : y.shard = z.shard /\ y.file = z.file => y = z
    BY <1>12, <1>t, <2>2, <2>5 DEF Install
  <2> QED BY <1>12, <1>t, <2>4, <2>6 DEF Install, UploadEnds
<1> QED BY <1>1, <1>2, <1>3, <1>4, <1>5, <1>6, <1>7, <1>8, <1>9, <1>10, <1>11, <1>12
        DEF SavesNext, Downloads, Imports

\* Only a game of the world and an import change its save folders, and only
\* while these are empty does a change of settings change the caves.
LEMMA CavesStep == SavesInv /\ [SavesNext]_vars => CavesMatch'
<1> SUFFICES ASSUME SavesInv, [SavesNext]_vars PROVE CavesMatch'
  OBVIOUS
<1>t. SavesTypeOK /\ \A w \in Worlds : \A x \in saves[w] : x.shard \in ShardsOf(worlds[w])
  BY DEF SavesInv, CavesMatch
<1>w. /\ DOMAIN worlds = Worlds /\ DOMAIN saves = Worlds
      /\ worlds = [w \in Worlds |-> worlds[w]] /\ saves = [w \in Worlds |-> saves[w]]
  BY <1>t DEF SavesTypeOK
<1>1. CASE UNCHANGED <<worlds, saves>>
  BY <1>1, <1>t DEF CavesMatch
<1>2. ASSUME NEW w \in Worlds, NEW settings \in Choices, Configure(w, settings) PROVE CavesMatch'
  <2>1. settings.caves = worlds[w].caves \/ saves[w] = {}
    BY <1>2 DEF Configure, MayConfigure
  <2>2. saves[w] # {} => ShardsOf(settings) = ShardsOf(worlds[w])
    BY <2>1 DEF ShardsOf
  <2> QED BY <1>2, <1>t, <1>w, <2>2 DEF Configure, CavesMatch
<1>3. ASSUME NEW w \in Worlds, NEW x \in Played, Play(w, x) PROVE CavesMatch'
  <2>1. \A y \in Written(saves[w], x) : y.shard \in ShardsOf(worlds[w])
    BY <1>3, <1>t DEF Play, Written
  <2> QED BY <1>3, <1>t, <1>w, <2>1 DEF Play, CavesMatch
<1>4. ASSUME NEW x \in Played, Outside(x) PROVE CavesMatch'
  <2> DEFINE w == origin.world
  <2>1. w \in Worlds
    BY <1>4 DEF Outside, SavesInv, PackInv, IsOrigin
  <2>2. \A y \in Written(saves[w], x) : y.shard \in ShardsOf(worlds[w])
    <3>1. PICK y \in saves[w] : y.shard = x.shard
      BY <1>4 DEF Outside, At
    <3> QED BY <2>1, <3>1, <1>t DEF Written
  <2>3. PICK new : /\ saves' = [saves EXCEPT ![w] = new]
                   /\ \A y \in new : y.shard \in ShardsOf(worlds[w])
    <3>1. CASE saves' = [saves EXCEPT ![w] = Written(@, x)]
      BY <3>1, <2>2
    <3>2. CASE saves' = [saves EXCEPT ![w] = @ \ At(x, @)]
      BY <3>2, <2>1, <1>t
    <3> QED BY <3>1, <3>2, <1>4 DEF Outside
  <2> QED BY <1>4, <1>t, <1>w, <2>1, <2>3 DEF Outside, CavesMatch
<1>5. CASE Install
  <2>1. StageInv /\ pc = "staging" /\ ToStage = {}
    BY <1>5 DEF Install, SavesInv
  <2>2. \A x \in staged : x.shard \in ShardsOf(Merged)
    <3>1. Accepts(upload.members, upload.inherit)
      BY <2>1, UploadKnown
    <3>2. \A m \in Selected(upload.members) : m.shard \in ShardsIn(upload.members)
      BY DEF Selected, ShardsIn
    <3>3. ShardsIn(upload.members) \subseteq ShardsOf(Merged)
      BY <3>1 DEF Accepts, Merged, Imported, ShardsOf, Shards
    <3> QED BY <2>1, <3>2, <3>3, AllStaged, UnpackedType
  <2>3. upload.to \in Worlds
    BY <2>1 DEF StageInv
  <2> QED BY <1>5, <1>t, <1>w, <2>2, <2>3 DEF Install, CavesMatch
<1>6. CASE UNCHANGED vars
  BY <1>6, <1>1 DEF vars
<1> QED BY <1>1, <1>2, <1>3, <1>4, <1>5, <1>6
        DEF SavesNext, Downloads, Imports, BeginDownload, PackFile, FinishDownload, DownloadFails,
            BeginUpload, StageMember, StagingFails, InstallRefused

\* Uploads: what was inspected is what is staged.
LEMMA StageStep == SavesInv /\ [SavesNext]_vars => StageInv'
<1> SUFFICES ASSUME SavesInv, [SavesNext]_vars PROVE StageInv'
  OBVIOUS
<1>t. SavesTypeOK /\ StageInv /\ PackInv
  BY DEF SavesInv
<1>1. CASE UNCHANGED <<pc, upload, staged>>
  BY <1>1, <1>t DEF StageInv, Faithful, Archived, Inspected, IsOrigin
<1>2. ASSUME NEW w \in Worlds, NEW inherit \in BOOLEAN, NEW offer \in Offered, BeginUpload(w, inherit, offer)
      PROVE  StageInv'
  <2>1. Archived(offer) /\ Faithful(offer)
    <3>1. CASE offer = download /\ download # NoDownload
      BY <3>1, <1>t DEF PackInv, SavesTypeOK
    <3>2. CASE \E zip \in Zips : offer = [members |-> zip, origin |-> NoOrigin]
      BY <3>2, SavesAssumption DEF Archived, Faithful
    <3> QED BY <3>1, <3>2 DEF Offered
  <2>2. staged = {}
    BY <1>2, <1>t DEF BeginUpload, StageInv
  <2> QED BY <1>2, <2>1, <2>2 DEF BeginUpload, StageInv, exporting
<1>3. ASSUME pc = "staging", NEW m \in ToStage, StageMember(m) PROVE StageInv'
  <2>1. m \in Selected(upload.members) /\ Unpacked(m).content # Torn
    BY <1>3 DEF ToStage, StageMember
  <2> QED BY <1>3, <1>t, <2>1 DEF StageMember, StageInv, Faithful, Archived, Inspected, IsOrigin
<1>4. CASE UploadEnds
  BY <1>4 DEF UploadEnds, StageInv
<1>5. CASE UNCHANGED vars
  BY <1>5, <1>1 DEF vars, importing
<1>6. CASE pc # "staging" /\ pc' # "staging" /\ staged' = staged
  BY <1>6, <1>t DEF StageInv
<1>7. ASSUME NEW w \in Worlds,
             \/ \E settings \in Choices : Configure(w, settings)
             \/ \E x \in Played : Play(w, x)
      PROVE  StageInv'
  BY <1>7, <1>1 DEF Configure, Play, importing
<1>8. CASE Downloads
  BY <1>8, <1>6 DEF Downloads, BeginDownload, PackFile, FinishDownload, DownloadFails, Outside, importing
<1> QED BY <1>2, <1>3, <1>4, <1>5, <1>7, <1>8 DEF SavesNext, Imports, StagingFails, Install, InstallRefused

\* One more file in the archive.
LEMMA OneMore ==
    ASSUME NEW zip, NEW o, PackedFrom(zip, o), NEW y \in Saves,
           y.shard \in ShardsOf(o.settings), <<y.shard, y.file>> \in o.listed, y \in o.seen
    PROVE  LET m == [kind |-> "save", top |-> o.world, shard |-> y.shard, file |-> y.file,
                     content |-> y.content]
           IN  PackedFrom(zip \cup {m}, o) /\ Has(zip \cup {m}, <<y.shard, y.file>>)
<1> DEFINE m == [kind |-> "save", top |-> o.world, shard |-> y.shard, file |-> y.file,
                 content |-> y.content]
           more == zip \cup {m}
<1>1. y = [shard |-> m.shard, file |-> m.file, content |-> m.content]
  BY DEF Saves
<1>2. \A s : InisOf(more, s) = InisOf(zip, s)
  BY DEF InisOf
<1>3. \A s : {n \in more : n.kind = "mods" /\ n.shard = s} = {n \in zip : n.kind = "mods" /\ n.shard = s}
  OBVIOUS
<1>4. /\ \A n \in more : n.top = o.world /\ n.kind \in {"save", "ini", "mods"}
      /\ \A n \in more : n.kind \in {"ini", "mods"} => n.shard \in ShardsOf(o.settings)
      /\ \A n \in more : n.kind = "save" =>
            /\ n.shard \in ShardsOf(o.settings)
            /\ <<n.shard, n.file>> \in o.listed
            /\ [shard |-> n.shard, file |-> n.file, content |-> n.content] \in o.seen
  BY <1>1 DEF PackedFrom
<1>5. PackedFrom(more, o)
  <2>1. ASSUME NEW s \in ShardsOf(o.settings)
        PROVE  /\ InisOf(more, s) = {[kind |-> "ini", top |-> o.world, shard |-> s,
                                      id |-> o.settings.ids[s], format |-> o.settings.formats[s],
                                      valid |-> TRUE]}
               /\ {n \in more : n.kind = "mods" /\ n.shard = s}
                     = {[kind |-> "mods", top |-> o.world, shard |-> s, text |-> TextOf[o.settings.mods]]}
               /\ \E f \in Files \cup Dirs : <<s, f>> \in o.listed
    <3> HIDE DEF more
    <3> QED BY <1>2, <1>3 DEF PackedFrom
  <2> HIDE DEF more
  <2> QED BY <1>4, <2>1 DEF PackedFrom
<1>6. Has(more, <<y.shard, y.file>>)
  <2>1. m \in more /\ m.kind = "save" /\ m.shard = y.shard /\ m.file = y.file
    OBVIOUS
  <2> HIDE DEF more, m
  <2> QED BY <2>1 DEF Has
<1> QED BY <1>5, <1>6

\* Downloads: the archive is of one state of the settings, and of files as
\* they were at some time while it was packed.
LEMMA PackStep == SavesInv /\ [SavesNext]_vars => PackInv'
<1> SUFFICES ASSUME SavesInv, [SavesNext]_vars PROVE PackInv'
  OBVIOUS
<1>t. SavesTypeOK /\ PackInv /\ StageInv
  BY DEF SavesInv
<1>p. ASSUME pc = "packing"
      PROVE  /\ IsOrigin(origin) /\ PackedFrom(packed, origin) /\ origin.world \in Worlds
             /\ origin.settings = worlds[origin.world]
             /\ \A y \in saves[origin.world] : y.shard \in ShardsOf(origin.settings) => y \in origin.seen
             /\ \A x \in listed : /\ x.shard \in ShardsOf(origin.settings)
                                  /\ <<x.shard, x.file>> \in origin.listed
             /\ \A l \in origin.listed : Has(packed, l) \/ \E x \in listed : <<x.shard, x.file>> = l
  BY <1>p, <1>t DEF PackInv, IsOrigin
<1>d. download # NoDownload => Faithful(download)
  BY <1>t DEF PackInv
<1>1. CASE pc' # "packing" /\ download' = download
  BY <1>1, <1>d DEF PackInv
<1>2. CASE /\ pc' = pc /\ download' = download /\ UNCHANGED <<listed, packed, origin, worlds>>
           /\ pc = "packing" => saves'[origin.world] = saves[origin.world]
  <2> QED BY <1>2, <1>p, <1>d DEF PackInv
<1>3. ASSUME NEW w \in Worlds, BeginDownload(w) PROVE PackInv'
  <2> DEFINE files == {x \in saves[w] : x.shard \in ShardsOf(worlds[w])}
             o == origin'
  <2>1. /\ origin' = [world |-> w, settings |-> worlds[w],
                      listed |-> {<<x.shard, x.file>> : x \in files}, seen |-> files]
        /\ packed' = InisFor(w, ShardsOf(worlds[w])) \cup ModsFor(w, ShardsOf(worlds[w]))
        /\ listed' = files /\ pc' = "packing"
        /\ UNCHANGED <<worlds, saves, download>>
    BY <1>3 DEF BeginDownload
  <2>2. /\ o.world = w /\ o.settings = worlds[w]
        /\ o.listed = {<<x.shard, x.file>> : x \in files} /\ o.seen = files
    BY <2>1
  <2>3. IsOrigin(o)
    <3>1. files \subseteq Saves /\ worlds[w] \in WorldSettings /\ Valid(worlds[w])
      BY <1>t DEF SavesTypeOK
    <3>2. \A x \in files : <<x.shard, x.file>> \in Shards \X (Files \cup Dirs)
      BY <3>1 DEF Saves
    <3> QED BY <2>2, <3>1, <3>2 DEF IsOrigin
  <2>4. PackedFrom(packed', o)
    <3>1. \A m \in packed' : m.top = w /\ m.kind \in {"ini", "mods"} /\ m.shard \in ShardsOf(worlds[w])
      BY <2>1 DEF InisFor, ModsFor
    <3>2. ASSUME NEW s \in ShardsOf(worlds[w])
          PROVE  InisOf(packed', s) = {[kind |-> "ini", top |-> w, shard |-> s, id |-> worlds[w].ids[s],
                                        format |-> worlds[w].formats[s], valid |-> TRUE]}
      BY <2>1 DEF InisFor, ModsFor, InisOf
    <3>3. ASSUME NEW s \in ShardsOf(worlds[w])
          PROVE  {m \in packed' : m.kind = "mods" /\ m.shard = s}
                   = {[kind |-> "mods", top |-> w, shard |-> s, text |-> TextOf[worlds[w].mods]]}
      BY <2>1 DEF InisFor, ModsFor
    <3>4. ASSUME NEW s \in ShardsOf(worlds[w]) PROVE \E f \in Files \cup Dirs : <<s, f>> \in o.listed
      <4>1. PICK x \in files : x.shard = s
        BY <1>3 DEF BeginDownload
      <4>2. x.file \in Files \cup Dirs
        BY <1>t DEF SavesTypeOK, Saves
      <4> QED BY <2>2, <4>1, <4>2
    <3> QED BY <2>2, <3>1, <3>2, <3>3, <3>4 DEF PackedFrom
  <2>5. /\ \A y \in saves'[o.world] : y.shard \in ShardsOf(o.settings) => y \in o.seen
        /\ \A x \in listed' : x.shard \in ShardsOf(o.settings) /\ <<x.shard, x.file>> \in o.listed
        /\ \A l \in o.listed : \E x \in listed' : <<x.shard, x.file>> = l
    BY <2>1, <2>2
  <2> QED BY <1>d, <2>1, <2>2, <2>3, <2>4, <2>5 DEF PackInv
<1>4. ASSUME NEW x \in listed, PackFile(x) PROVE PackInv'
  <2>1. pc = "packing" /\ pc' = "packing" /\ listed' = listed \ {x}
        /\ UNCHANGED <<worlds, saves, origin, download>>
    BY <1>4 DEF PackFile
  <2>2. PICK y \in At(x, saves[origin.world]) :
           packed' = packed \cup {[kind |-> "save", top |-> origin.world, shard |-> y.shard,
                                   file |-> y.file, content |-> y.content]}
    BY <1>4 DEF PackFile, Packs
  <2>3. /\ y \in Saves /\ y \in saves[origin.world] /\ y.shard = x.shard /\ y.file = x.file
        /\ x.shard \in ShardsOf(origin.settings) /\ <<x.shard, x.file>> \in origin.listed
    BY <2>1, <1>p, <1>t DEF At, SavesTypeOK
  <2>4. PackedFrom(packed', origin) /\ Has(packed', <<y.shard, y.file>>)
    BY <2>1, <2>2, <2>3, <1>p, OneMore
  <2>5. \A l \in origin.listed : Has(packed', l) \/ \E z \in listed' : <<z.shard, z.file>> = l
    <3> SUFFICES ASSUME NEW l \in origin.listed, ~ \E z \in listed' : <<z.shard, z.file>> = l
                 PROVE  Has(packed', l)
      OBVIOUS
    <3>1. CASE Has(packed, l)
      BY <3>1, <2>2 DEF Has
    <3>2. CASE ~Has(packed, l)
      <4>1. PICK z \in listed : <<z.shard, z.file>> = l
        BY <3>2, <2>1, <1>p
      <4>2. z = x
        BY <4>1, <2>1
      <4> QED BY <4>1, <4>2, <2>3, <2>4
    <3> QED BY <3>1, <3>2
  <2> QED BY <2>1, <2>4, <2>5, <1>p, <1>d DEF PackInv
<1>5. CASE FinishDownload
  <2>1. pc = "packing" /\ listed = {} /\ pc' = "idle" /\ download' = [members |-> packed, origin |-> origin]
    BY <1>5 DEF FinishDownload
  <2>2. Faithful(download')
    BY <2>1, <1>p DEF Faithful
  <2> QED BY <2>1, <2>2 DEF PackInv
<1>6. ASSUME NEW x \in Played, Outside(x) PROVE PackInv'
  <2> DEFINE w == origin.world
  <2>1. pc = "packing" /\ pc' = "packing" /\ UNCHANGED <<worlds, listed, packed, download>>
    BY <1>6 DEF Outside
  <2>2. saves \in [Worlds -> SUBSET Saves] /\ w \in Worlds /\ IsOrigin(origin)
    BY <2>1, <1>p, <1>t DEF SavesTypeOK
  <2>3. /\ origin'.world = w /\ origin'.settings = origin.settings /\ origin'.listed = origin.listed
        /\ origin.seen \subseteq origin'.seen /\ IsOrigin(origin')
        /\ \A y \in saves'[w] : y \in saves[w] \/ y \in origin'.seen
    <3>1. CASE /\ saves' = [saves EXCEPT ![w] = Written(@, x)]
               /\ origin' = [origin EXCEPT !.seen = @ \cup {x}]
      <4>1. origin'.seen = origin.seen \cup {x} /\ x \in Saves /\ IsOrigin(origin')
        <5>1. x \in Saves
          BY SavesAssumption
        <5> QED BY <5>1, <3>1, <2>2 DEF IsOrigin
      <4> QED BY <3>1, <4>1, <2>2 DEF Written
    <3>2. CASE saves' = [saves EXCEPT ![w] = @ \ At(x, @)] /\ origin' = origin
      BY <3>2, <2>2
    <3> QED BY <3>1, <3>2, <1>6 DEF Outside
  <2>4. PackedFrom(packed, origin')
    BY <2>1, <2>3, <1>p DEF PackedFrom
  <2> QED BY <2>1, <2>3, <2>4, <1>p, <1>d DEF PackInv
<1>7. ASSUME NEW w \in Worlds,
             \/ \E settings \in Choices : Configure(w, settings)
             \/ \E x \in Played : Play(w, x)
      PROVE  PackInv'
  <2>1. CASE \E settings \in Choices : Configure(w, settings)
    BY <2>1, <1>1 DEF Configure
  <2>2. CASE \E x \in Played : Play(w, x)
    <3>1. PICK x \in Played : Play(w, x)
      BY <2>2
    <3>2. pc = "packing" => saves'[origin.world] = saves[origin.world]
      BY <3>1, <1>p, <1>t DEF Play, SavesTypeOK
    <3> QED BY <3>1, <3>2, <1>2 DEF Play, exporting
  <2> QED BY <1>7, <2>1, <2>2
<1>8. CASE DownloadFails
  BY <1>8, <1>1 DEF DownloadFails
<1>9. CASE Imports
  BY <1>9, <1>1 DEF Imports, BeginUpload, StageMember, StagingFails, Install, InstallRefused, UploadEnds
<1>10. CASE UNCHANGED vars
  BY <1>10, <1>2 DEF vars, exporting
<1> QED BY <1>3, <1>4, <1>5, <1>6, <1>7, <1>8, <1>9, <1>10 DEF SavesNext, Downloads

\* No save is imported or played yet.
LEMMA SavesInitInv == SavesInit => SavesInv
<1> SUFFICES ASSUME SavesInit PROVE SavesInv
  OBVIOUS
<1>1. /\ worlds \in [Worlds -> WorldSettings] /\ \A w \in Worlds : Valid(worlds[w]) /\ saves[w] = {}
      /\ saves = [w \in Worlds |-> {}] /\ 0 \in 0 .. MaxEvents
  BY SavesAssumption DEF SavesInit
<1>2. SavesTypeOK
  BY <1>1 DEF SavesInit, SavesTypeOK
<1>3. CavesMatch /\ PackInv /\ StageInv
  BY <1>1 DEF SavesInit, CavesMatch, PackInv, StageInv
<1> QED BY <1>2, <1>3 DEF SavesInv

LEMMA SavesInvHolds == SavesSpec => []SavesInv
<1>1. SavesInv /\ [SavesNext]_vars => SavesInv'
  BY TypeStep, CavesStep, PackStep, StageStep DEF SavesInv
<1> QED BY <1>1, SavesInitInv, PTL DEF SavesSpec

-----------------------------------------------------------------------------
(* Theorems.                                                               *)

\* The settings of a world stay valid, and a save folder holds one content for
\* each file, whatever archives are imported.
THEOREM SavesTyped == SavesSpec => []SavesTypeOK
<1>1. SavesInv => SavesTypeOK
  BY DEF SavesInv
<1> QED BY <1>1, SavesInvHolds, PTL

\* No world keeps files of caves it is not configured with.
THEOREM CavesTrue == SavesSpec => []CavesMatch
<1>1. SavesInv => CavesMatch
  BY DEF SavesInv
<1> QED BY <1>1, SavesInvHolds, PTL

\* An import brings one whole world of the archive, or nothing.
THEOREM ImportsWhole == SavesSpec => ImportedWhole
<1> DEFINE Whole ==
      LET w == upload.to
          zip == upload.offer.members
          InShards(t) == {m \in zip : m.kind = "save" /\ m.top = t /\ m.shard \in Shards /\ m.file \in Files}
      IN /\ \E t \in Tops \ {Resources} :
               /\ {x \in saves'[w] : x.file \in Files}
                     = {[shard |-> m.shard, file |-> m.file, content |-> m.content] : m \in InShards(t)}
               /\ \A u \in Tops \ {t, Resources} :
                     ~ \E m \in InShards(u) : m.shard = "Master" /\ Progress(m)
         /\ \A s \in ShardsOf(worlds'[w]) : \E x \in saves'[w] : x.shard = s /\ Progress(x)
<1>1. ASSUME SavesInv, Install PROVE Whole
  <2> DEFINE zip == upload.offer.members
             InShards(t) == {m \in zip : m.kind = "save" /\ m.top = t /\ m.shard \in Shards /\ m.file \in Files}
  <2>1. StageInv /\ pc = "staging" /\ ToStage = {} /\ SavesTypeOK
    BY <1>1 DEF Install, SavesInv
  <2>2. upload.to \in Worlds
    BY <2>1 DEF StageInv
  <2>3. /\ saves'[upload.to] = staged /\ worlds'[upload.to] = Merged
        /\ staged = {Unpacked(m) : m \in Selected(upload.members)}
    BY <1>1, <2>1, <2>2, AllStaged DEF Install, SavesTypeOK
  <2>4. PICK t \in Tops \ {Resources} :
             /\ Candidates(zip) = {t} /\ upload.members = Under(zip, t)
             /\ Accepts(upload.members, upload.inherit)
             /\ \A m \in Selected(upload.members) :
                   m.shard \in Shards /\ m.kind \in {"save", "folder"} /\ m.file \in Files \cup Dirs
             /\ upload.members \in SUBSET Members
    BY <2>1, UploadKnown
  <2>5. {x \in staged : x.file \in Files}
           = {[shard |-> m.shard, file |-> m.file, content |-> m.content] : m \in InShards(t)}
    <3>1. ASSUME NEW m \in Selected(upload.members), m.file \in Files
          PROVE  m \in InShards(t)
                 /\ Unpacked(m) = [shard |-> m.shard, file |-> m.file, content |-> m.content]
      <4>1. m \in zip /\ m.top = t /\ m \in Members
        BY <2>4 DEF Selected, InSave, Under
      <4>2. m.kind = "save"
        <5>1. m.kind = "folder" => m.file \in Dirs
          BY <4>1, MemberTypes
        <5> QED BY <5>1, <3>1, <2>4, SavesAssumption
      <4> QED BY <4>1, <4>2, <2>4, <3>1 DEF Unpacked
    <3>2. ASSUME NEW m \in InShards(t) PROVE m \in Selected(upload.members)
      BY <2>4 DEF Under, Selected, InSave, IsFile
    <3>3. \A m \in Selected(upload.members) : Unpacked(m).file = m.file
      BY DEF Unpacked
    <3> QED BY <2>3, <3>1, <3>2, <3>3
  <2>6. ASSUME NEW u \in Tops \ {t, Resources}, NEW m \in InShards(u)
        PROVE  ~ (m.shard = "Master" /\ Progress(m))
    BY <2>4 DEF Candidates, Progress
  <2>7. ASSUME NEW s \in ShardsOf(Merged) PROVE \E x \in staged : x.shard = s /\ Progress(x)
    <3>1. s \in ShardsIn(upload.members)
      <4>1. "Master" \in ShardsIn(upload.members)
        BY <2>4 DEF Accepts
      <4> QED BY <4>1 DEF ShardsOf, Shards, Merged, Imported
    <3>2. PICK m \in Selected(upload.members) : m.kind = "save" /\ m.shard = s /\ Progress(m)
      BY <3>1, <2>4 DEF Accepts
    <3>3. Unpacked(m) \in staged /\ Unpacked(m).shard = s /\ Progress(Unpacked(m))
      BY <3>2, <2>3 DEF Unpacked, Progress
    <3> QED BY <3>3
  <2> QED BY <2>3, <2>4, <2>5, <2>6, <2>7
<1>2. SavesInv /\ [SavesNext]_vars => [Install => Whole]_vars
  BY <1>1
<1> QED BY <1>2, SavesInvHolds, PTL DEF SavesSpec, ImportedWhole

\* What a download tells of its world.
LEMMA DownloadTells ==
    ASSUME NEW zip \in SUBSET Members, NEW o, IsOrigin(o), PackedFrom(zip, o),
           \A l \in o.listed : Has(zip, l)
    PROVE  /\ ShardsIn(zip) = ShardsOf(o.settings)
           /\ {<<m.shard, m.file>> : m \in Selected(zip)} = o.listed
           /\ \A m \in Selected(zip) : m.kind = "save" /\ Unpacked(m) \in o.seen
           /\ \A s \in ShardsOf(o.settings) :
                 /\ IdIn(zip, s) = o.settings.ids[s]
                 /\ o.settings.formats[s] # "unset" => FormatIn(zip, s) = o.settings.formats[s]
           /\ ModsIn(zip) = Plain[o.settings.mods]
<1>1. \A m \in InSave(zip) : m.kind = "save" /\ m.shard \in ShardsOf(o.settings)
  BY DEF InSave, PackedFrom
<1>2. ShardsIn(zip) = ShardsOf(o.settings)
  <2>1. ShardsIn(zip) \subseteq ShardsOf(o.settings)
    BY <1>1 DEF ShardsIn
  <2>2. ASSUME NEW s \in ShardsOf(o.settings) PROVE s \in ShardsIn(zip)
    <3>1. PICK f \in Files \cup Dirs : <<s, f>> \in o.listed
      BY DEF PackedFrom
    <3>2. PICK m \in zip : m.kind = "save" /\ <<m.shard, m.file>> = <<s, f>>
      BY <3>1 DEF Has
    <3> QED BY <3>2 DEF ShardsIn, InSave
  <2> QED BY <2>1, <2>2
<1>3. {<<m.shard, m.file>> : m \in Selected(zip)} = o.listed
  <2>1. ASSUME NEW l \in o.listed PROVE \E m \in Selected(zip) : l = <<m.shard, m.file>>
    <3>1. PICK m \in zip : m.kind = "save" /\ <<m.shard, m.file>> = l
      BY DEF Has
    <3> QED BY <3>1 DEF Selected, InSave, IsFile
  <2>2. \A m \in Selected(zip) : <<m.shard, m.file>> \in o.listed
    BY <1>1 DEF Selected, InSave, PackedFrom
  <2> QED BY <2>1, <2>2
<1>4. ASSUME NEW m \in Selected(zip) PROVE m.kind = "save" /\ Unpacked(m) \in o.seen
  BY <1>1 DEF Selected, InSave, PackedFrom, Unpacked
<1>5. o.settings \in WorldSettings /\ Plain[o.settings.mods] \in Settings
  BY SavesAssumption DEF IsOrigin, WorldSettings
<1>6. ASSUME NEW s \in ShardsOf(o.settings)
      PROVE  /\ IdIn(zip, s) = o.settings.ids[s]
             /\ o.settings.formats[s] # "unset" => FormatIn(zip, s) = o.settings.formats[s]
  <2> DEFINE ini == [kind |-> "ini", top |-> o.world, shard |-> s, id |-> o.settings.ids[s],
                     format |-> o.settings.formats[s], valid |-> TRUE]
  <2>1. InisOf(zip, s) = {ini}
    BY DEF PackedFrom
  <2>2. ini.id = o.settings.ids[s] /\ ini.format = o.settings.formats[s]
    OBVIOUS
  <2>3. o.settings.ids[s] # NoId
    BY <1>5, ShardsTyped, SavesAssumption DEF WorldSettings
  <2> HIDE DEF ini
  <2> QED BY <2>1, <2>2, <2>3 DEF IdIn, FormatIn
<1>7. ModsIn(zip) = Plain[o.settings.mods]
  <2>1. ASSUME NEW s \in ShardsOf(o.settings) PROVE ModsOf(zip, s) = {Plain[o.settings.mods]}
    <3> DEFINE mod == [kind |-> "mods", top |-> o.world, shard |-> s, text |-> TextOf[o.settings.mods]]
    <3>1. {m \in zip : m.kind = "mods" /\ m.shard = s} = {mod}
      BY DEF PackedFrom
    <3>2. ModsOf(zip, s) = {ReadOf[mod.text]}
      BY <3>1 DEF ModsOf
    <3>3. ReadOf[mod.text] = Plain[o.settings.mods]
      BY <1>5, SavesAssumption DEF WorldSettings
    <3> QED BY <3>2, <3>3
  <2>2. UNION {ModsOf(zip, s) : s \in ShardsIn(zip)} = {Plain[o.settings.mods]}
    BY <1>2, <2>1, ShardsTyped
  <2> QED BY <1>5, <2>2 DEF ModsIn
<1> QED BY <1>2, <1>3, <1>4, <1>6, <1>7

\* A world gets from another's download what that world had.
THEOREM DownloadsTrue == SavesSpec => RoundTrip
<1> DEFINE Same ==
      LET w == upload.to
          from == upload.offer.origin
          then == from.settings
      IN /\ {<<x.shard, x.file>> : x \in saves'[w]} = from.listed
         /\ saves'[w] \subseteq from.seen
         /\ worlds'[w].caves = then.caves
         /\ worlds'[w].mods = IF upload.inherit THEN Plain[then.mods] ELSE worlds[w].mods
         /\ \A s \in ShardsOf(then) :
               /\ worlds'[w].ids[s] = then.ids[s]
               /\ then.formats[s] # "unset" => worlds'[w].formats[s] = then.formats[s]
<1>1. ASSUME SavesInv, Install, upload.offer.origin # NoOrigin PROVE Same
  <2> DEFINE zip == upload.offer.members
             o == upload.offer.origin
  <2>1. StageInv /\ pc = "staging" /\ ToStage = {} /\ SavesTypeOK
    BY <1>1 DEF Install, SavesInv
  <2>2. /\ upload.to \in Worlds /\ zip \in SUBSET Members
        /\ IsOrigin(o) /\ PackedFrom(zip, o) /\ \A l \in o.listed : Has(zip, l)
    BY <1>1, <2>1 DEF StageInv, Archived, Faithful
  <2>3. upload.members = zip
    <3>1. PICK t : Candidates(zip) = {t} /\ upload.members = Under(zip, t)
      BY <2>1, UploadKnown
    <3>2. PICK m \in zip : m.top = t
      BY <3>1 DEF Candidates
    <3>3. t = o.world
      BY <2>2, <3>2 DEF PackedFrom
    <3> QED BY <2>2, <3>1, <3>3 DEF Under, PackedFrom
  <2>4. /\ saves'[upload.to] = staged /\ worlds'[upload.to] = Merged
        /\ staged = {Unpacked(m) : m \in Selected(zip)}
        /\ \A m \in Selected(zip) : Unpacked(m).shard = m.shard /\ Unpacked(m).file = m.file
    BY <1>1, <2>1, <2>2, <2>3, AllStaged, UnpackedType DEF Install, SavesTypeOK
  <2>5. {<<x.shard, x.file>> : x \in staged} = o.listed /\ staged \subseteq o.seen
    BY <2>2, <2>4, DownloadTells
  <2>6. /\ Merged.caves = o.settings.caves
        /\ Merged.mods = IF upload.inherit THEN Plain[o.settings.mods] ELSE worlds[upload.to].mods
        /\ \A s \in ShardsOf(o.settings) :
              /\ Merged.ids[s] = o.settings.ids[s]
              /\ o.settings.formats[s] # "unset" => Merged.formats[s] = o.settings.formats[s]
    <3>1. /\ ShardsIn(zip) = ShardsOf(o.settings) /\ ModsIn(zip) = Plain[o.settings.mods]
          /\ \A s \in ShardsOf(o.settings) :
                /\ s \in Shards /\ IdIn(zip, s) = o.settings.ids[s]
                /\ o.settings.formats[s] # "unset" => FormatIn(zip, s) = o.settings.formats[s]
      <4>1. ShardsOf(o.settings) \subseteq Shards
        BY ShardsTyped
      <4> HIDE DEF zip, o
      <4> QED BY <2>2, <4>1, DownloadTells
    <3>2. o.settings.caves \in BOOLEAN
      BY <2>2 DEF IsOrigin, WorldSettings
    <3>3. ("Caves" \in ShardsIn(zip)) = o.settings.caves
      BY <3>1, <3>2, ShardsTyped
    <3> QED BY <2>3, <3>1, <3>3 DEF Merged, Imported
  <2> QED BY <2>4, <2>5, <2>6
<1>2. SavesInv /\ [SavesNext]_vars => [Install /\ upload.offer.origin # NoOrigin => Same]_vars
  BY <1>1
<1> QED BY <1>2, SavesInvHolds, PTL DEF SavesSpec, RoundTrip

\* A download is accepted as an upload for any world, but for the one collision
\* of its master's id with the default id of the caves it does not have.
THEOREM DownloadsAccepted == SavesSpec => DownloadsReturn
<1> DEFINE Accepted == \A inherit \in BOOLEAN :
                          /\ Inspected(packed, inherit)
                          /\ LET members == WorldIn(packed) IN
                             \A w \in Worlds : Valid(Imported(worlds[w], members, inherit))
<1>1. ASSUME SavesInv, FinishDownload, ~Collides(origin.settings) PROVE Accepted
  <2>1. /\ IsOrigin(origin) /\ PackedFrom(packed, origin) /\ packed \in SUBSET Members
        /\ \A l \in origin.listed : Has(packed, l)
        /\ Inspected(packed, TRUE)
    BY <1>1 DEF FinishDownload, SavesInv, PackInv, SavesTypeOK
  <2>2. \A inherit \in BOOLEAN : Inspected(packed, inherit)
    BY <2>1 DEF Inspected, Accepts
  <2>3. WorldIn(packed) = packed
    <3>1. PICK t \in Tops : Candidates(packed) = {t} /\ WorldIn(packed) = Under(packed, t)
      BY <2>1, OneWorld
    <3>2. PICK m \in packed : m.top = t
      BY <3>1 DEF Candidates
    <3>3. t = origin.world
      BY <2>1, <3>2 DEF PackedFrom
    <3> QED BY <2>1, <3>1, <3>3 DEF Under, PackedFrom
  <2>t. \A s \in ShardsOf(origin.settings) : IdIn(packed, s) = origin.settings.ids[s]
    <3> HIDE DEF Accepted
    <3> QED BY <2>1, DownloadTells
  <2>4. IdIn(packed, "Master") = origin.settings.ids["Master"]
    BY <2>t, ShardsTyped
  <2>5. IdIn(packed, "Caves") # origin.settings.ids["Master"]
    <3>1. CASE origin.settings.caves
      <4>1. IdIn(packed, "Caves") = origin.settings.ids["Caves"]
        BY <3>1, <2>t, ShardsTyped
      <4> QED BY <4>1, <2>1 DEF IsOrigin, Valid
    <3>2. CASE ~origin.settings.caves
      <4>1. InisOf(packed, "Caves") = {}
        BY <3>2, <2>1, ShardsTyped DEF InisOf, PackedFrom
      <4>2. IdIn(packed, "Caves") = DefaultIds["Caves"]
        BY <4>1 DEF IdIn
      <4> QED BY <4>2, <3>2, <1>1 DEF Collides
    <3> QED BY <3>1, <3>2
  <2>6. ASSUME NEW w \in Worlds, NEW inherit \in BOOLEAN
        PROVE  Valid(Imported(worlds[w], WorldIn(packed), inherit))
    BY <2>3, <2>4, <2>5 DEF Imported, Valid, Shards
  <2> QED BY <2>2, <2>6
<1>2. ASSUME [SavesNext]_vars, download' # download PROVE FinishDownload
  <2> USE <1>2 DEF importing, exporting
  <2>1. SavesNext
    BY DEF vars
  <2>2. CASE Downloads
    BY <2>2 DEF Downloads, BeginDownload, PackFile, DownloadFails, Outside
  <2>3. CASE Imports
    BY <2>3 DEF Imports, BeginUpload, StageMember, StagingFails, Install, InstallRefused
  <2> QED BY <2>1, <2>2, <2>3 DEF SavesNext, Configure, Play
<1>3. SavesInv /\ [SavesNext]_vars =>
          [download' # download /\ ~Collides(origin.settings) => Accepted]_vars
  BY <1>1, <1>2
<1> QED BY <1>3, SavesInvHolds, PTL DEF SavesSpec, DownloadsReturn
=============================================================================
