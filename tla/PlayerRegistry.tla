--------------------------- MODULE PlayerRegistry ---------------------------
(***************************************************************************)
(* What the panel knows of the players of one world (pera_panel/           *)
(* players.py).  A reader thread per game process feeds the lines of its   *)
(* shard to PlayerRegistry.log_line; "Refresh saved characters" and an     *)
(* import run discover(), which combines the shards' logs, the cached      *)
(* owners, the permission lists and the character folders on disk.         *)
(*                                                                         *)
(* A folder that holds a character is named after its account, perhaps     *)
(* with one "_" appended, or has an encoded name that tells nothing.       *)
(*                                                                         *)
(* PlayerRegistry.lock is held in every action that changes the registry;  *)
(* discover() gathers its rows before it takes the lock, and holds it in   *)
(* the three steps after.                                                  *)
(***************************************************************************)
EXTENDS Naturals, FiniteSets

CONSTANTS Users, NoUser,
          Suffixed,    \* the ids that end in "_"
          Trimmed,     \* such an id without its final "_", if it is an id too
          Encoded,     \* folder names that no id spells
          Places,      \* bound: the shards' folders where characters may be
          Stamps, NoStamp,  \* clock readings of log lines, and none
          Printed,     \* bound: the lines each shard's processes print
          Uploads,     \* bound: the directories imports and restores bring
          MaxPlayers,
          MaxPaths,    \* the paths kept of a player
          MaxFile,     \* a registry with more paths than these exceeds 1 MiB
          MaxRuns,     \* bound: runs of the game
          MaxEvents,   \* bound: log lines read, and changes of files and settings
          CanFail,     \* may writing the registry fail?
          CanLag       \* may a log reader outlive the stop of its game?

Shards == {"Master", "Caves"}
Names == Users \cup Encoded
Sources == {"join", "save", "cached_owner", "imported_log"}

\* The lines that matter.
Resumes == [kind : {"resuming"}, folder : Names, stamp : Stamps \cup {NoStamp}]
Lines == [kind : {"authenticated"}, user : Users]
         \cup Resumes
         \cup [kind : {"owner"}, user : Users, stamp : Stamps \cup {NoStamp}]
         \cup [kind : {"other"}]
NoLine == [kind |-> "none"]
Other == [kind |-> "other"]

Parsers == [pending : Resumes \cup {NoLine}, previous_resume : BOOLEAN,
            authenticated : SUBSET Users]
Links == [user : Users, folder : Names]
Rows == [user : Users, source : Sources, paths : SUBSET (Shards \X Names)]
Registries == [sources : [Users -> SUBSET Sources],
               paths : [Users -> SUBSET (Shards \X Names)]]

ASSUME PlayersAssumption ==
    /\ NoUser \notin Users /\ NoStamp \notin Stamps
    /\ Trimmed \in [Users -> Users \cup {NoUser}]
    /\ Suffixed \subseteq Users /\ \A u \in Users \ Suffixed : Trimmed[u] = NoUser
    /\ Users \cap Encoded = {} /\ IsFiniteSet(Encoded)
    /\ Places \subseteq Shards \X Names
    /\ Printed \in [Shards -> SUBSET Lines]
    /\ Uploads \subseteq [saves : SUBSET Places, owner : [Shards -> Users \cup {NoUser}],
                          names : SUBSET Users, links : [Shards -> SUBSET Links]]
    /\ MaxPlayers \in Nat /\ MaxPaths \in Nat /\ MaxFile \in Nat /\ MaxRuns \in Nat /\ MaxEvents \in Nat
    /\ IsFiniteSet(Users)
    /\ Cardinality({u \in Users : Trimmed[u] # NoUser}) <= MaxPlayers
    /\ CanFail \in BOOLEAN /\ CanLag \in BOOLEAN

VARIABLES
    registry,   \* pera-players.json
    parsers,    \* log_parsers: one for each shard of the world
    running,    \* is the game up?
    runs,       \* its runs so far
    own,        \* what a parser that reads all of server_log.txt, which the
                \* latest process of a shard writes, ends with ...
    logged,     \* ... and the links it finds
    filed,      \* are the files in the world's directory?
    tail,       \* history: the last two lines of the latest process
    greeted,    \* history: the users each shard has authenticated
    witnessed,  \* history: the links that one process's output contains
    broken,     \* history: have lines been mixed or lost for the parser?
    saves,      \* the places that hold a character
    owner,      \* the cached_userid files
    permitted,  \* admins, banned and whitelisted users
    pc,         \* where discover() is
    importing,  \* is it part of an import?
    upload,     \* the names and links the import has yet to record
    rows, data, scanned,  \* locals of discover()
    events

game == <<running, runs, own, logged, filed>>
history == <<tail, greeted, witnessed, broken>>
disk == <<saves, owner, permitted>>
locals == <<importing, upload, rows, data, scanned>>
vars == <<registry, parsers, game, history, disk, pc, locals, events>>

Fresh == [pending |-> NoLine, previous_resume |-> FALSE, authenticated |-> {}]
Nobody == [sources |-> [u \in Users |-> {}], paths |-> [u \in Users |-> {}]]
Latest == "latest"   \* the reader of the latest process of a shard ...
Earlier == "earlier" \* ... and one of the process before, which lags
Readers == {Latest, Earlier}

\* What versions that took folder names literally have left in a registry.
Legacy == [sources |-> [u \in Users |-> IF Trimmed[u] = NoUser THEN {} ELSE {"save"}],
           paths |-> [u \in Users |-> {}]]

PlayersInit ==
    /\ \/ registry = Nobody /\ saves = {}
       \/ registry = Legacy /\ saves = Places
    /\ parsers = [s \in Shards |-> Fresh]
    /\ running = FALSE
    /\ runs = 0
    /\ own = [s \in Shards |-> Fresh]
    /\ logged = [s \in Shards |-> {}]
    /\ filed = FALSE
    /\ tail = [s \in Shards |-> <<Other, Other>>]
    /\ greeted = [s \in Shards |-> {}]
    /\ witnessed = [s \in Shards |-> {}]
    /\ broken = [s \in Shards |-> FALSE]
    /\ owner = [s \in Shards |-> NoUser]
    /\ permitted = {}
    /\ pc = "idle"
    /\ importing = FALSE /\ upload = {} /\ rows = {} /\ data = Nobody /\ scanned = {}
    /\ events = 0

-----------------------------------------------------------------------------
(* ResumeLinks.feed: a link is an ownership line of an authenticated user  *)
(* directly after one resuming line with the same clock reading.           *)

Greets(line) == {u \in Users : line.kind = "authenticated" /\ line.user = u}

Fed(parser, line) ==
    [pending |-> IF line.kind = "resuming" /\ ~parser.previous_resume THEN line ELSE NoLine,
     previous_resume |-> line.kind = "resuming",
     authenticated |-> parser.authenticated \cup Greets(line)]

Linked(parser, line) ==
    {l \in Links :
        /\ line.kind = "owner" /\ line.user = l.user
        /\ l.user \in parser.authenticated
        /\ parser.pending # NoLine /\ parser.pending.folder = l.folder
        /\ parser.pending.stamp = line.stamp /\ line.stamp # NoStamp}

\* What two lines of a process and the one after them really tell.
Witness(last, line) ==
    {l \in Links :
        \E t \in Stamps :
           /\ line = [kind |-> "owner", user |-> l.user, stamp |-> t]
           /\ last[1] = [kind |-> "resuming", folder |-> l.folder, stamp |-> t]
           /\ last[2].kind # "resuming"}

LinkRows(s, links, source) ==
    {[user |-> l.user, source |-> source, paths |-> {<<s, l.folder>>}] : l \in links}
NameRows(users, source) == {[user |-> u, source |-> source, paths |-> {}] : u \in users}

-----------------------------------------------------------------------------
(* record_many.                                                            *)

Known(reg) == {u \in Users : reg.sources[u] # {}}

\* _read: a file that is too large tells nothing.  (It is the paths that make it
\* grow.)
Outgrown(reg) == Cardinality(UNION {{u} \X reg.paths[u] : u \in Users}) > MaxFile
Read(reg) == IF Outgrown(reg) THEN Nobody ELSE reg

\* What gets into a collection that takes `limit' entries: which of those
\* asking come first depends on the order of the rows.
Fitting(members, asking, limit) ==
    {a \in SUBSET asking :
        \/ a = asking /\ Cardinality(members \cup a) <= limit
        \/ a # asking /\ Cardinality(members \cup a) = limit}

\* The records there may be afterwards: once there are MaxPlayers, rows of
\* users without a record are dropped.
Admitted_All(reg, new) == {{r.user : r \in new} \ Known(reg)}
Admitted(reg, new) == Fitting(Known(reg), {r.user : r \in new} \ Known(reg), MaxPlayers)

\* The paths added to the records: once a player has MaxPaths, others are dropped.
Offered(reg, new, admitted) ==
    {l \in UNION {{r.user} \X r.paths : r \in new} :
        l[1] \in Known(reg) \cup admitted /\ l[2] \notin reg.paths[l[1]]}
PathsOf(u, links) == {l[2] : l \in {k \in links : k[1] = u}}
Kept(reg, new, admitted) ==
    LET offered == Offered(reg, new, admitted) IN
    {k \in SUBSET offered :
        \A u \in Users : PathsOf(u, k) \in Fitting(reg.paths[u], PathsOf(u, offered), MaxPaths)}

Recorded(reg, new, admitted, kept) ==
    LET Of(u) == {r \in new : r.user = u /\ u \in Known(reg) \cup admitted} IN
    [sources |-> [u \in Users |-> reg.sources[u] \cup {r.source : r \in Of(u)}],
     paths |-> [u \in Users |-> reg.paths[u] \cup PathsOf(u, kept)]]

\* The file is written when what was read of it has changed.
Written(new) == registry' = IF new = Read(registry) THEN registry ELSE new

Records(new) ==
    LET reg == Read(registry) IN
    \E a \in Admitted(reg, new) : \E k \in Kept(reg, new, a) : Written(Recorded(reg, new, a, k))

-----------------------------------------------------------------------------
(* The log readers.  Only discover() holds the lock across actions.        *)

Unlocked_Always == TRUE
Unlocked == pc \in {"idle", "gathering", "gathered", "imported"}
Happens == events < MaxEvents /\ events' = events + 1

\* The parser a line is fed to.
ParserOf_World(s) == "Master"
ParserOf(s) == s

\* One line through log_line: an authenticated user is recorded, and then the
\* line is fed to the shard's parser, which may find a link.  When the
\* registry cannot be written, a line that authenticates is not fed at all.
Reads(s, k, line) ==
    LET joined == NameRows(Greets(line), "join")
        found == LinkRows(s, Linked(parsers[ParserOf(s)], line), "join")
    IN
    /\ Unlocked
    /\ \/ k = Latest /\ runs > 0 /\ (running \/ CanLag)
       \/ k = Earlier /\ runs > 1 /\ CanLag
    /\ Happens
    /\ \/ /\ Records(joined \cup found)
          /\ parsers' = [parsers EXCEPT ![ParserOf(s)] = Fed(@, line)]
          /\ broken' = [broken EXCEPT ![s] = @ \/ k = Earlier]
       \/ /\ CanFail /\ joined \cup found # {}
          /\ registry' = registry
          /\ parsers' = IF joined # {} THEN parsers
                        ELSE [parsers EXCEPT ![ParserOf(s)] = Fed(@, line)]
          /\ broken' = [broken EXCEPT ![s] = @ \/ joined # {} \/ k = Earlier]
    /\ greeted' = [greeted EXCEPT ![s] = @ \cup Greets(line)]
    /\ \/ /\ k = Latest
          /\ own' = [own EXCEPT ![s] = Fed(@, line)]
          /\ logged' = [logged EXCEPT ![s] = @ \cup Linked(own[s], line)]
          /\ tail' = [tail EXCEPT ![s] = <<line, @[1]>>]
          /\ witnessed' = [witnessed EXCEPT ![s] = @ \cup Witness(tail[s], line)]
       \/ /\ k = Earlier
          /\ UNCHANGED <<own, logged, tail, witnessed>>
    /\ UNCHANGED <<running, runs, filed, disk, pc, locals>>

\* The first lines of a process tell of the game, not of a player; they are
\* taken to be read as it starts.
Start ==
    /\ ~running
    /\ pc = "idle"
    /\ runs < MaxRuns
    /\ running' = TRUE /\ runs' = runs + 1
    /\ own' = [s \in Shards |-> Fresh]
    /\ tail' = [s \in Shards |-> <<Other, Other>>]
    /\ parsers' = [s \in Shards |-> Fed(parsers[ParserOf(s)], Other)]
    /\ logged' = [s \in Shards |-> {}]
    /\ filed' = TRUE
    /\ UNCHANGED <<registry, greeted, witnessed, broken, disk, pc, locals, events>>

Stop ==
    /\ running /\ pc = "idle"
    /\ running' = FALSE
    /\ UNCHANGED <<registry, parsers, runs, own, logged, filed, history, disk, pc, locals, events>>

-----------------------------------------------------------------------------
(* discover().  Service.lock keeps operations, other than the import that  *)
(* calls it, away until it returns.                                        *)

\* The logs of the two shards and the cached owners, without the lock.
Gather ==
    /\ pc \in {"idle", "gathering"}
    /\ pc' = "gathered"
    /\ rows' = UNION {NameRows({owner[s]} \ {NoUser}, "cached_owner")
                        \cup {r \in NameRows(own[s].authenticated, "imported_log")
                                     \cup LinkRows(s, logged[s], "imported_log") : filed}
                     : s \in Shards}
    /\ UNCHANGED <<registry, parsers, game, history, disk, importing, upload, data, scanned, events>>

RecordRows ==
    /\ pc = "gathered"
    /\ pc' = "locked"
    /\ Records(rows)
    /\ data' = Read(registry')
    /\ UNCHANGED <<parsers, game, history, disk, importing, upload, rows, scanned, events>>

\* folder_userid.
Candidates(name) == IF name \in Users THEN {name} \cup ({Trimmed[name]} \ {NoUser}) ELSE {}
FolderUser(name, known) ==
    LET matched == Candidates(name) \cap known IN
    CASE Cardinality(matched) = 1 -> CHOOSE u \in Users : u \in matched
      [] matched = {} /\ name \in Users \ Suffixed -> name
      [] OTHER -> NoUser

\* Users there is evidence of beside the folders.
KnownUsers_OfSavesToo(reg) == Known(reg) \cup {r.user : r \in rows} \cup permitted
KnownUsers(reg) ==
    {u \in Users : reg.sources[u] \ {"save"} # {}} \cup {r.user : r \in rows} \cup permitted

Pruned_SaveOnly(reg, valid) ==
    LET kept == [u \in Users |-> IF u \notin valid /\ reg.sources[u] = {"save"} THEN {}
                                 ELSE reg.sources[u]]
    IN [sources |-> kept,
        paths |-> [u \in Users |-> IF kept[u] = {} THEN {} ELSE reg.paths[u]]]
Pruned(reg, valid) ==
    LET kept == [u \in Users |-> IF u \in valid THEN reg.sources[u] ELSE reg.sources[u] \ {"save"}]
    IN [sources |-> kept,
        paths |-> [u \in Users |-> IF kept[u] = {} THEN {} ELSE reg.paths[u]]]

\* The folders are inspected, and the candidates they no longer support drop out.
Prune ==
    /\ pc = "locked"
    /\ pc' = "pruned"
    /\ scanned' = {<<p, FolderUser(p[2], KnownUsers(data))>> : p \in saves}
    /\ data' = Pruned(data, {c[2] : c \in scanned'})
    /\ Written(data')
    /\ UNCHANGED <<parsers, game, history, disk, importing, upload, rows, events>>

\* The account shown beside a character: its folder's, or the only one that
\* was seen to take it over.
Shown(c) ==
    LET matches == {u \in Users : c[1] \in data.paths[u]} IN
    IF c[2] # NoUser THEN c[2]
    ELSE IF Cardinality(matches) = 1 THEN CHOOSE u \in Users : u \in matches ELSE NoUser

SaveRows == NameRows({c[2] : c \in scanned} \ {NoUser}, "save")

Finish ==
    /\ pc = "pruned"
    /\ pc' = IF importing THEN "imported" ELSE "idle"
    /\ Records(rows \cup SaveRows)
    /\ rows' = {} /\ data' = Nobody /\ scanned' = {}
    /\ UNCHANGED <<parsers, game, history, disk, importing, upload, events>>

\* A file cannot be read or written; what is recorded stays.  (A failed import
\* puts the previous directory back: see WorldFiles.)
RefreshFails ==
    /\ CanFail /\ ~importing
    /\ pc \in {"gathered", "locked", "pruned"}
    /\ pc' = "idle"
    /\ rows' = {} /\ data' = Nobody /\ scanned' = {}
    /\ UNCHANGED <<registry, parsers, game, history, disk, importing, upload, events>>

-----------------------------------------------------------------------------
(* The rest of the panel, and the game's files.                            *)

\* Service.import_save: the directory is replaced while the game is down, and
\* what the uploaded logs tell is recorded after discover().
Import(new) ==
    /\ ~running /\ pc = "idle"
    /\ Happens
    /\ registry' = Nobody
    /\ saves' = new.saves /\ owner' = new.owner
    /\ filed' = FALSE
    /\ witnessed' = [s \in Shards |-> witnessed[s] \cup new.links[s]]
    /\ upload' = NameRows(new.names, "imported_log")
                   \cup UNION {LinkRows(s, new.links[s], "imported_log") : s \in Shards}
    /\ importing' = TRUE
    /\ pc' = "gathering"
    /\ UNCHANGED <<parsers, running, runs, own, logged, tail, greeted, broken, permitted,
                   rows, data, scanned>>

RecordUpload ==
    /\ pc = "imported"
    /\ pc' = "idle"
    /\ Records(upload)
    /\ importing' = FALSE /\ upload' = {}
    /\ UNCHANGED <<parsers, game, history, disk, rows, data, scanned, events>>

\* Service.configure: the permission lists are edited while the world is down.
Edit(users) ==
    /\ ~running /\ pc = "idle"
    /\ Happens
    /\ permitted' = users
    /\ UNCHANGED <<registry, parsers, game, history, saves, owner, pc, locals>>

\* The game keeps a character, or forgets one.
GameSaves(p) ==
    /\ running
    /\ Happens
    /\ \/ saves' = saves \cup {p}
       \/ saves' = saves \ {p}
    /\ UNCHANGED <<registry, parsers, game, history, owner, permitted, pc, locals>>

-----------------------------------------------------------------------------
Discovers == Gather \/ RecordRows \/ Prune \/ Finish \/ RefreshFails \/ RecordUpload
PlayersNext ==
    \/ \E s \in Shards, k \in Readers : \E line \in Printed[s] : Reads(s, k, line)
    \/ Start \/ Stop
    \/ Discovers
    \/ \E new \in Uploads : Import(new)
    \/ \E u \in Users : Edit({u})
    \/ \E p \in Places : GameSaves(p)

PlayersSpec == PlayersInit /\ [][PlayersNext]_vars

-----------------------------------------------------------------------------
(* Properties.                                                             *)

PlayersTypeOK ==
    /\ registry \in Registries
    /\ Cardinality(Known(registry)) <= MaxPlayers
    /\ parsers \in [Shards -> Parsers]
    /\ running \in BOOLEAN
    /\ runs \in 0 .. MaxRuns
    /\ own \in [Shards -> Parsers]
    /\ logged \in [Shards -> SUBSET Links]
    /\ filed \in BOOLEAN
    /\ tail \in [Shards -> Lines \X Lines]
    /\ greeted \in [Shards -> SUBSET Users]
    /\ witnessed \in [Shards -> SUBSET Links]
    /\ broken \in [Shards -> BOOLEAN]
    /\ saves \subseteq Places
    /\ owner \in [Shards -> Users \cup {NoUser}]
    /\ permitted \subseteq Users
    /\ pc \in {"idle", "gathering", "gathered", "locked", "pruned", "imported"}
    /\ importing \in BOOLEAN
    /\ upload \subseteq Rows /\ rows \subseteq Rows
    /\ data \in Registries
    /\ scanned \subseteq Places \X (Users \cup {NoUser})
    /\ events \in 0 .. MaxEvents

\* A character path is attributed to a user only on the word of the shard the
\* path is in: one process of it, or the uploaded log, has an ownership line
\* of the authenticated user directly after the line that resumes the path,
\* at the same time.  (All processes of a shard share one parser: once a line was
\* lost for it, or the reader of an earlier process was late, the two lines need
\* not be adjacent.)
LinksWitnessed ==
    \A s \in Shards, u \in Users, f \in Names :
        <<s, f>> \in registry.paths[u] =>
            \/ [user |-> u, folder |-> f] \in witnessed[s]
            \/ broken[s] /\ u \in greeted[s]

\* A character is shown with an account only if its folder is named after the
\* account, with a suffix only if something beside the folders tells of that
\* account and nothing of the one the literal name spells (or the reverse),
\* or else if exactly one account was seen to take the folder over.  In
\* particular a candidate made of a folder's name never confirms itself.
NeverGuessed ==
    pc = "pruned" =>
    \A c \in scanned : Shown(c) # NoUser =>
        LET u == Shown(c)
            name == c[1][2]
            reg == Read(registry)
            told == {v \in Users : reg.sources[v] \ {"save"} # {}}
                      \cup permitted \cup {r.user : r \in rows}
        IN \/ name = u /\ u \notin Suffixed
           \/ u \in Candidates(name) /\ Candidates(name) \cap told = {u}
           \/ {v \in Users : c[1] \in reg.paths[v]} = {u}

\* After a refresh no candidate is left of a folder that is gone, or of a
\* literal name that has turned out to be another account's.
StaleCandidatesGo ==
    [][Finish => \A u \in Users : "save" \in Read(registry').sources[u] =>
                    \E c \in scanned : c[2] = u]_vars

\* Whatever refresh, import and log readers do at a time, no step removes what
\* is known of a player but by the folders: what is known is what _read returns,
\* and so long as it accepts the file, all of it stays, until an import
\* replaces the directory.
Remembers(old, new) ==
    \A u \in Users : /\ old.sources[u] \ {"save"} \subseteq new.sources[u]
                     /\ old.paths[u] \subseteq new.paths[u]
EvidenceStays ==
    [][\/ Remembers(Read(registry), registry')
       \/ \E new \in Uploads : Import(new)]_vars

\* What README.md says of it: joins that the game has authenticated are
\* persisted.  (A registry over 1 MiB is read as an empty one, and the next
\* record replaces the file.)
JoinsPersist ==
    [][\/ \A u \in Users : "join" \in registry.sources[u] => "join" \in registry'.sources[u]
       \/ \E new \in Uploads : Import(new)]_vars
=============================================================================
