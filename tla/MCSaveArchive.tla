--------------------------- MODULE MCSaveArchive ---------------------------
(* Two worlds that exchange their saves, and archives made by others.  Mod *)
(* lists are texts of LuaSettings.                                         *)
EXTENDS SaveArchive, TLC

Lua == INSTANCE LuaSettings WITH MaxDepth <- 4

CONSTANTS w1, w2, flat, part, mac, snap, meta, cached, raw, coded, conf

MCWorlds == {w1, w2}
MCTops == {w1, w2, flat, part, mac}
Either == Permutations(MCWorlds)
MCFiles == {snap, meta, cached, raw, coded}
MCBelow == [d \in {conf} |-> {}]
MCSize == [c \in {"old", "new", "long", "empty"} |->
             CASE c = "empty" -> 0 [] c = "long" -> 2 [] OTHER -> 1]

\* Mod lists: options with a list, an empty list, as deep as they may be, and
\* what a text by another hand says.
Word(x) == Lua!Word(Lua!Named(x))
Mod(id, enabled, options) == [id |-> id, enabled |-> enabled, options |-> options]
None == Lua!Table(<<>>)
Both == Lua!Table(<< <<"a", Lua!List(<<Word("x"), Lua!Flag(TRUE)>>)>>, <<"b", Lua!List(<<>>)>> >>)
BothRead == Lua!Table(<< <<"a", Lua!List(<<Word("x"), Lua!Flag(TRUE)>>)>>, <<"b", None>> >>)
Deep == Lua!Table(<< <<"a", Lua!Table(<< <<"b", Word("x")>> >>)>> >>)

ModLists ==
    [none |-> <<>>,
     unsorted |-> <<Mod("8", TRUE, Both), Mod("7", FALSE, None)>>,
     sorted |-> <<Mod("7", FALSE, None), Mod("8", TRUE, BothRead)>>,
     one |-> <<Mod("7", TRUE, Deep)>>,
     theirs |-> <<Mod("7", TRUE, Lua!Table(<< <<"a", Lua!List(<<Word("x"), Word("y")>>)>> >>))>>]
MCSettings == DOMAIN ModLists
MCNoMods == "none"
MCPlain == [l \in MCSettings |-> IF l = "unsorted" THEN "sorted" ELSE l]

\* return {["7"] = {enabled = true; configuration_options = {gone = nil,
\*         a = {"x", [2] = "y"}}}}, and one that is no literal.
TheirText ==
    <<Lua!Name("return"), Lua!Mark("{"), Lua!Mark("["), Lua!Literal(Lua!Named("7")), Lua!Mark("]"),
      Lua!Mark("="), Lua!Mark("{"), Lua!Name("enabled"), Lua!Mark("="), Lua!Name("true"), Lua!Mark(";"),
      Lua!Name("configuration_options"), Lua!Mark("="), Lua!Mark("{"), Lua!Name("gone"), Lua!Mark("="),
      Lua!Name("nil"), Lua!Mark(","), Lua!Name("a"), Lua!Mark("="), Lua!Mark("{"), Lua!Literal(Lua!Named("x")),
      Lua!Mark(","), Lua!Mark("["), Lua!Literal(Lua!Index(2)), Lua!Mark("]"), Lua!Mark("="),
      Lua!Literal(Lua!Named("y")), Lua!Mark("}"), Lua!Mark("}"), Lua!Mark("}"), Lua!Mark("}")>>
BadText == <<Lua!Name("return"), Lua!Name("os")>>
\* The documents are named by the lists they are written from; two are not.
MCTextOf == [l \in MCSettings |-> l]
MCDocuments == MCSettings \cup {"by hand", "no literal"}
Text(d) == CASE d = "by hand" -> TheirText [] d = "no literal" -> BadText
             [] OTHER -> Lua!ModText(ModLists[d])
MCReadOf ==
    [d \in MCDocuments |->
       LET mods == Lua!ReadMods(Text(d), <<"7", "8">>, Unsupported) IN
       IF mods = Unsupported THEN Unsupported ELSE CHOOSE l \in MCSettings : ModLists[l] = mods]

PerShard(master, caves) == [s \in {"Master", "Caves"} |-> IF s = "Master" THEN master ELSE caves]
MCDefaultIds == PerShard("1", "2")
MCChoices ==
    {[caves |-> TRUE, mods |-> "unsorted", ids |-> PerShard("1", "3"), formats |-> PerShard("unset", "encoded")],
     [caves |-> FALSE, mods |-> "one", ids |-> PerShard("1", "2"), formats |-> PerShard("raw", "unset")]}

Save(s, f, c) == [shard |-> s, file |-> f, content |-> c]
MCPlayed == {Save("Master", snap, "old"), Save("Master", snap, "new"), Save("Master", raw, "long"),
             Save("Caves", coded, "old"), Save("Master", raw, "old")}

File(t, s, f, c) == [kind |-> "save", top |-> t, shard |-> s, file |-> f, content |-> c]
Ini(t, s, id) == [kind |-> "ini", top |-> t, shard |-> s, id |-> id, format |-> "unset", valid |-> TRUE]
ModFile(t, s, text) == [kind |-> "mods", top |-> t, shard |-> s, text |-> text]
Game(t) == File(t, "Master", snap, "old")
MCZips ==
    {\* a surface world with mods by another hand
     {Game(flat), File(flat, "Master", meta, "old"), Ini(flat, "Master", "7"), ModFile(flat, "Master", "by hand")},
     \* one that had caves
     {Game(flat), Ini(flat, "Master", "2"), Ini(flat, "Caves", "1")},
     \* one whose mods cannot be read
     {Game(flat), ModFile(flat, "Master", "no literal")},
     \* two worlds
     {Game(w1), Game(w2)},
     \* caves without a saved game
     {Game(flat), File(flat, "Caves", cached, "old")},
     \* resource forks, and part of another world
     {Game(flat), Game(mac), File(part, "Master", cached, "old"), File(part, "Caves", snap, "old")},
     \* a damaged file
     {Game(flat), File(flat, "Master", raw, "torn")},
     \* a directory in two notations
     {Game(flat), [kind |-> "folder", top |-> flat, shard |-> "Master", file |-> conf, slash |-> "/"]},
     {Game(flat), [kind |-> "folder", top |-> flat, shard |-> "Master", file |-> conf, slash |-> "\\"]},
     \* shards of different mods, and in different layouts
     {Game(flat), File(flat, "Caves", snap, "old"), File(flat, "Master", raw, "old"), File(flat, "Caves", coded, "old"),
      ModFile(flat, "Master", "by hand"), ModFile(flat, "Caves", "one")},
     \* another shard, a zipped shard, a refused path
     {Game(flat), File(flat, "other", snap, "old")},
     {Game(flat), [kind |-> "shard_zip", top |-> flat]},
     {Game(flat), [kind |-> "unsafe"]}}
=============================================================================
