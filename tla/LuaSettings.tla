----------------------------- MODULE LuaSettings -----------------------------
(***************************************************************************)
(* Mod settings as a literal Lua table: storage.lua, which writes          *)
(* modoverrides.lua, and lua_settings.py, which reads an uploaded one      *)
(* without ever running it.                                                *)
(*                                                                         *)
(* A value is a word (a string or an integer), a flag (true or false), a   *)
(* list, a table with string keys, or null.  A text is its sequence of     *)
(* tokens.                                                                 *)
(***************************************************************************)
EXTENDS Naturals, Sequences, FiniteSets, SequencesExt

CONSTANT MaxDepth   \* 12

\* A string or an integer, as a word and as a key.
Named(s) == [name |-> s]
Index(n) == [index |-> n]
IsName(key) == "name" \in DOMAIN key

Word(w) == [kind |-> "word", of |-> w]
Flag(b) == [kind |-> "flag", of |-> b]
Null == [kind |-> "null"]
List(items) == [kind |-> "list", items |-> items]
Table(fields) == [kind |-> "table", fields |-> fields]   \* a sequence of <<key, value>>

Mark(m) == [token |-> m]
Literal(w) == [token |-> "value", of |-> w]
Name(n) == [token |-> "name", of |-> n]

Joined(texts) == FoldLeft(LAMBDA all, text : IF all = <<>> THEN text ELSE all \o <<Mark(",")>> \o text,
                          <<>>, texts)

-----------------------------------------------------------------------------
(* lua.                                                                    *)

RECURSIVE Fits(_, _)
Fits(value, depth) ==
    /\ depth <= MaxDepth
    /\ value.kind # "null"
    /\ value.kind = "list" => \A i \in DOMAIN value.items : Fits(value.items[i], depth + 1)
    /\ value.kind = "table" => \A i \in DOMAIN value.fields : Fits(value.fields[i][2], depth + 1)

RECURSIVE Lua(_)
Lua(value) ==
    CASE value.kind = "word" -> <<Literal(value.of)>>
      [] value.kind = "flag" -> <<Name(IF value.of THEN "true" ELSE "false")>>
      [] value.kind = "list" ->
           <<Mark("{")>> \o Joined([i \in DOMAIN value.items |-> Lua(value.items[i])]) \o <<Mark("}")>>
      [] value.kind = "table" ->
           <<Mark("{")>>
           \o Joined([i \in DOMAIN value.fields |->
                <<Mark("["), Literal(Named(value.fields[i][1])), Mark("]"), Mark("=")>>
                \o Lua(value.fields[i][2])])
           \o <<Mark("}")>>

-----------------------------------------------------------------------------
(* LiteralTable.  A step of the parser has read up to a position of the    *)
(* text and holds a value, or has failed.                                  *)

End == [token |-> "end"]
Peek(text, at) == IF at \in DOMAIN text THEN text[at] ELSE End
Failed == [ok |-> FALSE, at |-> 0, value |-> Null]
Read(value, at) == [ok |-> TRUE, at |-> at, value |-> value]

\* What the fields of a table make, <<key, value>> each: keys 1 .. n a list,
\* strings a table, others nothing.  A nil is no field.
Closed(fields) ==
    LET kept == SelectSeq(fields, LAMBDA f : f[2] # Null) IN
    CASE \A i \in DOMAIN kept : IsName(kept[i][1]) ->
           Table([i \in DOMAIN kept |-> <<kept[i][1].name, kept[i][2]>>])
      [] kept # <<>> /\ {kept[i][1] : i \in DOMAIN kept} = {Index(n) : n \in DOMAIN kept} ->
           List([n \in DOMAIN kept |-> kept[CHOOSE i \in DOMAIN kept : kept[i][1] = Index(n)][2]])
      [] OTHER -> Null

RECURSIVE Value(_, _, _), Fields(_, _, _, _, _)
Value(text, at, depth) ==
    LET here == Peek(text, at) IN
    CASE depth > MaxDepth -> Failed
      [] here.token = "value" -> Read(Word(here.of), at + 1)
      [] here = Name("nil") -> Read(Null, at + 1)
      [] here \in {Name("true"), Name("false")} -> Read(Flag(here.of = "true"), at + 1)
      [] here = Mark("{") -> Fields(text, at + 1, depth, <<>>, 1)
      [] OTHER -> Failed

\* A field whose value has been read; the fields after it.
Field(text, name, value, depth, fields, index) ==
    LET next == Peek(text, value.at) IN
    IF \/ ~value.ok
       \/ \E i \in DOMAIN fields : fields[i][1] = name
       \/ next \notin {Mark(","), Mark(";"), Mark("}")}
    THEN Failed
    ELSE Fields(text, IF next = Mark("}") THEN value.at ELSE value.at + 1, depth,
                Append(fields, <<name, value.value>>), index)

\* A field of which the key between brackets has been read.
Keyed(text, key, depth, fields, index) ==
    IF /\ key.ok /\ key.value.kind = "word"
       /\ Peek(text, key.at) = Mark("]") /\ Peek(text, key.at + 1) = Mark("=")
    THEN Field(text, key.value.of, Value(text, key.at + 2, depth + 1), depth, fields, index)
    ELSE Failed

\* The rest of a table of which some fields have been read.
Fields(text, at, depth, fields, index) ==
    LET here == Peek(text, at) IN
    CASE here = Mark("}") -> IF Closed(fields) = Null THEN Failed ELSE Read(Closed(fields), at + 1)
      [] here = Mark("[") -> Keyed(text, Value(text, at + 1, depth + 1), depth, fields, index)
      [] here.token = "name" /\ Peek(text, at + 1) = Mark("=") ->
           Field(text, Named(here.of), Value(text, at + 2, depth + 1), depth, fields, index)
      [] OTHER -> Field(text, Index(index), Value(text, at, depth + 1), depth, fields, index + 1)

\* LiteralTable.read: the value of a whole text, Null unless it is a table.
Ended(text, value) ==
    LET rest == IF Peek(text, value.at) = Mark(";") THEN value.at + 1 ELSE value.at IN
    IF value.ok /\ value.value.kind = "table" /\ Peek(text, rest) = End THEN value.value ELSE Null
Document(text) ==
    IF Peek(text, 1) = Name("return") THEN Ended(text, Value(text, 2, 0)) ELSE Null

-----------------------------------------------------------------------------
(* Mod lists: sequences of [id, enabled, options].                         *)

\* What store.write_world and the export put into modoverrides.lua.
ModTable(mods) ==
    Table([i \in DOMAIN mods |->
             <<mods[i].id, Table(<< <<"enabled", Flag(mods[i].enabled)>>,
                                    <<"configuration_options", mods[i].options>> >>)>>])
ModText(mods) == <<Name("return")>> \o Lua(ModTable(mods))

FieldOf(table, name, default) ==
    IF \E i \in DOMAIN table.fields : table.fields[i][1] = name
    THEN table.fields[CHOOSE i \in DOMAIN table.fields : table.fields[i][1] = name][2]
    ELSE default

\* read_mods; ModIds are the keys that are Workshop ids, in their order.
Enabled(entry) == FieldOf(entry[2], "enabled", Flag(FALSE))
Options(entry) == FieldOf(entry[2], "configuration_options", Table(<<>>))
SoundMod(entry, ModIds) ==
    /\ \E i \in DOMAIN ModIds : ModIds[i] = entry[1]
    /\ entry[2].kind = "table"
    /\ Enabled(entry).kind = "flag"
    /\ Options(entry).kind = "table" /\ Fits(Options(entry), 0)

ModsOfDocument(document, ModIds, unsupported) ==
    IF document = Null \/ \E i \in DOMAIN document.fields : ~SoundMod(document.fields[i], ModIds)
    THEN unsupported
    ELSE LET entries == {document.fields[i] : i \in DOMAIN document.fields}
             ids == SelectSeq(ModIds, LAMBDA id : \E entry \in entries : entry[1] = id)
             Mod(entry) == [id |-> entry[1], enabled |-> Enabled(entry).of, options |-> Options(entry)]
         IN [i \in DOMAIN ids |-> Mod(CHOOSE entry \in entries : entry[1] = ids[i])]
ReadMods(text, ModIds, unsupported) == ModsOfDocument(Document(text), ModIds, unsupported)
=============================================================================
