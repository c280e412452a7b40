------------------------ MODULE PlayerRegistryProofs ------------------------
(* What the panel tells of players is witnessed, for any players, folders, *)
(* logs and uploads.                                                       *)
EXTENDS PlayerRegistry, FiniteSetTheorems, TLAPS

-----------------------------------------------------------------------------
(* The operators.                                                          *)

LEMMA KindsDiffer ==
    ASSUME NEW line \in Lines
    PROVE  /\ line.kind \in {"authenticated", "resuming", "owner", "other"}
           /\ line.kind = "resuming" => line \in Resumes
           /\ line.kind = "owner" => /\ line.user \in Users
                                     /\ line.stamp \in Stamps \cup {NoStamp}
                                     /\ line = [kind |-> "owner", user |-> line.user,
                                                stamp |-> line.stamp]
  BY DEF Lines, Resumes

LEMMA FedType ==
    ASSUME NEW parser \in Parsers, NEW line \in Lines
    PROVE  Fed(parser, line) \in Parsers
  BY KindsDiffer DEF Fed, Parsers, Greets

LEMMA OtherIsLine ==
    /\ Other \in Lines /\ Other.kind = "other" /\ Greets(Other) = {}
    /\ Fresh \in Parsers
  BY DEF Other, Lines, Fresh, Parsers, Greets

LEMMA RowsType ==
    ASSUME NEW s \in Shards, NEW source \in Sources
    PROVE  /\ \A links \in SUBSET Links : LinkRows(s, links, source) \subseteq Rows
           /\ \A users \in SUBSET Users : NameRows(users, source) \subseteq Rows
<1>1. ASSUME NEW l \in Links
      PROVE  [user |-> l.user, source |-> source, paths |-> {<<s, l.folder>>}] \in Rows
  <2>1. l.user \in Users /\ <<s, l.folder>> \in Shards \X Names
    BY DEF Links
  <2> QED BY <2>1 DEF Rows
<1>2. ASSUME NEW u \in Users
      PROVE  [user |-> u, source |-> source, paths |-> {}] \in Rows
  BY DEF Rows
<1> QED BY <1>1, <1>2 DEF LinkRows, NameRows

\* What record_many leaves.
LEMMA RecordedType ==
    ASSUME NEW reg \in Registries, NEW new \in SUBSET Rows, NEW a \in Admitted(reg, new),
           NEW k \in Kept(reg, new, a)
    PROVE  LET r == Recorded(reg, new, a, k) IN
           /\ r \in Registries
           /\ Cardinality(Known(r)) <= MaxPlayers
           /\ \A u \in Users :
                 /\ reg.sources[u] \subseteq r.sources[u]
                 /\ reg.paths[u] \subseteq r.paths[u]
                 /\ \A x \in r.sources[u] : x \in reg.sources[u] \/
                       \E row \in new : row.user = u /\ row.source = x
                 /\ \A p \in r.paths[u] : p \in reg.paths[u] \/
                       \E row \in new : row.user = u /\ p \in row.paths /\ row.source \in r.sources[u]
<1> DEFINE Of(u) == {r \in new : r.user = u /\ u \in Known(reg) \cup a}
           r == Recorded(reg, new, a, k)
<1>1. r = [sources |-> [u \in Users |-> reg.sources[u] \cup {x.source : x \in Of(u)}],
           paths |-> [u \in Users |-> reg.paths[u] \cup PathsOf(u, k)]]
  BY DEF Recorded
<1>2. \A x \in new : x.source \in Sources /\ x.paths \in SUBSET (Shards \X Names) /\ x.user \in Users
  BY DEF Rows
<1>3. \A u \in Users : /\ reg.sources[u] \in SUBSET Sources
                       /\ reg.paths[u] \in SUBSET (Shards \X Names)
  BY DEF Registries
<1>p. ASSUME NEW u \in Users, NEW p \in PathsOf(u, k)
      PROVE  /\ p \in Shards \X Names
             /\ \E x \in Of(u) : p \in x.paths
  <2>1. PICK l \in k : l[1] = u /\ l[2] = p
    BY DEF PathsOf
  <2>2. l \in Offered(reg, new, a)
    BY DEF Kept
  <2>3. PICK x \in new : l \in {x.user} \X x.paths
    BY <2>2 DEF Offered
  <2>4. u \in Known(reg) \cup a
    BY <2>1, <2>2 DEF Offered
  <2>5. x.user = u /\ p \in x.paths
    BY <2>1, <2>3
  <2> QED BY <1>2, <2>4, <2>5
<1>4. r \in Registries
  <2>1. \A u \in Users : reg.sources[u] \cup {x.source : x \in Of(u)} \in SUBSET Sources
    BY <1>2, <1>3
  <2>2. \A u \in Users : reg.paths[u] \cup PathsOf(u, k) \in SUBSET (Shards \X Names)
    BY <1>p, <1>3
  <2> QED BY <1>1, <2>1, <2>2 DEF Registries
<1>5. \A u \in Users :
         /\ r.sources[u] = reg.sources[u] \cup {x.source : x \in Of(u)}
         /\ r.paths[u] = reg.paths[u] \cup PathsOf(u, k)
  BY <1>1
<1>6. a \subseteq {x.user : x \in new} \ Known(reg)
  BY DEF Admitted, Fitting
<1>7. Known(r) = Known(reg) \cup a
  <2>1. ASSUME NEW u \in Users, u \in Known(r) PROVE u \in Known(reg) \cup a
    BY <2>1, <1>5 DEF Known
  <2>2. Known(reg) \subseteq Known(r)
    BY <1>5 DEF Known
  <2>3. ASSUME NEW u \in a PROVE u \in Known(r)
    <3>1. PICK x \in new : x.user = u
      BY <1>6
    <3>2. x \in Of(u) /\ u \in Users
      BY <3>1, <1>2
    <3> QED BY <3>2, <1>5 DEF Known
  <2> QED BY <2>1, <2>2, <2>3 DEF Known
<1>8. Cardinality(Known(r)) <= MaxPlayers
  BY <1>7, PlayersAssumption DEF Admitted, Fitting
<1> HIDE DEF r
<1>9. ASSUME NEW u \in Users
      PROVE  /\ \A x \in r.sources[u] : x \in reg.sources[u] \/
                   \E row \in new : row.user = u /\ row.source = x
             /\ \A p \in r.paths[u] : p \in reg.paths[u] \/
                   \E row \in new : row.user = u /\ p \in row.paths /\ row.source \in r.sources[u]
  BY <1>5, <1>p
<1> QED BY <1>4, <1>5, <1>8, <1>9 DEF r

LEMMA PrunedType ==
    ASSUME NEW reg \in Registries, Cardinality(Known(reg)) <= MaxPlayers, NEW valid
    PROVE  LET r == Pruned(reg, valid) IN
           /\ r \in Registries
           /\ Cardinality(Known(r)) <= MaxPlayers
           /\ \A u \in Users :
                 /\ r.sources[u] \subseteq reg.sources[u] /\ r.paths[u] \subseteq reg.paths[u]
                 /\ r.sources[u] \ {"save"} = reg.sources[u] \ {"save"}
                 /\ "save" \in r.sources[u] => u \in valid
                 /\ r.sources[u] # {} => r.paths[u] = reg.paths[u]
<1> DEFINE r == Pruned(reg, valid)
           kept == [u \in Users |-> IF u \in valid THEN reg.sources[u] ELSE reg.sources[u] \ {"save"}]
<1>1. r = [sources |-> kept, paths |-> [u \in Users |-> IF kept[u] = {} THEN {} ELSE reg.paths[u]]]
  BY DEF Pruned
<1>2. \A u \in Users : /\ reg.sources[u] \in SUBSET Sources
                       /\ reg.paths[u] \in SUBSET (Shards \X Names)
  BY DEF Registries
<1>3. kept \in [Users -> SUBSET Sources]
  BY <1>2
<1>4. r \in Registries
  BY <1>1, <1>2, <1>3 DEF Registries
<1>5. \A u \in Users :
         /\ r.sources[u] = IF u \in valid THEN reg.sources[u] ELSE reg.sources[u] \ {"save"}
         /\ r.paths[u] = IF r.sources[u] = {} THEN {} ELSE reg.paths[u]
  BY <1>1
<1>6. Cardinality(Known(r)) <= MaxPlayers
  <2>1. Known(r) \subseteq Known(reg) /\ Known(reg) \subseteq Users
    BY <1>5 DEF Known
  <2>2. IsFiniteSet(Known(reg)) /\ IsFiniteSet(Known(r))
    BY <2>1, FS_Subset, PlayersAssumption
  <2>3. Cardinality(Known(r)) <= Cardinality(Known(reg))
    BY <2>1, <2>2, FS_Subset
  <2> QED BY <2>2, <2>3, FS_CardinalityType, PlayersAssumption
<1> QED BY <1>4, <1>5, <1>6

LEMMA NobodyType ==
    /\ Nobody \in Registries /\ Known(Nobody) = {} /\ Cardinality(Known(Nobody)) <= MaxPlayers
    /\ Legacy \in Registries /\ Cardinality(Known(Legacy)) <= MaxPlayers
    /\ \A u \in Users : /\ Nobody.sources[u] = {} /\ Nobody.paths[u] = {}
                        /\ Legacy.sources[u] \subseteq {"save"} /\ Legacy.paths[u] = {}
<1>1. Nobody \in Registries /\ Known(Nobody) = {}
  BY DEF Nobody, Registries, Known
<1>2. Legacy = [sources |-> [u \in Users |-> IF Trimmed[u] = NoUser THEN {} ELSE {"save"}],
                paths |-> [u \in Users |-> {}]]
  BY DEF Legacy
<1>3. Legacy \in Registries
  BY <1>2 DEF Registries, Sources
<1>4. Known(Legacy) = {u \in Users : Trimmed[u] # NoUser}
  BY <1>2 DEF Known
<1>5. Cardinality({}) = 0
  BY FS_EmptySet
<1>6. /\ Cardinality(Known(Nobody)) <= MaxPlayers
      /\ Cardinality(Known(Legacy)) <= MaxPlayers
  BY <1>1, <1>4, <1>5, PlayersAssumption
<1>7. \A u \in Users : /\ Nobody.sources[u] = {} /\ Nobody.paths[u] = {}
                       /\ Legacy.sources[u] \subseteq {"save"} /\ Legacy.paths[u] = {}
  BY <1>2 DEF Nobody
<1> QED BY <1>1, <1>3, <1>6, <1>7

\* _read returns what the file holds, or nothing.
LEMMA ReadType ==
    ASSUME NEW reg \in Registries, Cardinality(Known(reg)) <= MaxPlayers
    PROVE  /\ Read(reg) \in Registries /\ Cardinality(Known(Read(reg))) <= MaxPlayers
           /\ Read(reg) = Nobody \/ (Read(reg) = reg /\ ~Outgrown(reg))
           /\ \A u \in Users : /\ Read(reg).sources[u] \subseteq reg.sources[u]
                               /\ Read(reg).paths[u] \subseteq reg.paths[u]
<1>1. Read(reg) = Nobody \/ (Read(reg) = reg /\ ~Outgrown(reg))
  BY DEF Read
<1>2. CASE Read(reg) = Nobody
  BY <1>2, NobodyType
<1>3. CASE Read(reg) = reg /\ ~Outgrown(reg)
  BY <1>3
<1> QED BY <1>1, <1>2, <1>3

\* What a record of rows leaves: the file is as it was when it told all of
\* this already.
LEMMA RecordsAre ==
    ASSUME registry \in Registries, Cardinality(Known(registry)) <= MaxPlayers,
           NEW new \in SUBSET Rows, Records(new)
    PROVE  \E rec \in Registries :
             /\ registry' = rec \/ (registry' = registry /\ rec = Read(registry))
             /\ Cardinality(Known(rec)) <= MaxPlayers
             /\ \A u \in Users :
                   /\ Read(registry).sources[u] \subseteq rec.sources[u]
                   /\ Read(registry).paths[u] \subseteq rec.paths[u]
                   /\ \A x \in rec.sources[u] : x \in Read(registry).sources[u] \/
                         \E row \in new : row.user = u /\ row.source = x
                   /\ \A p \in rec.paths[u] : p \in Read(registry).paths[u] \/
                         \E row \in new : row.user = u /\ p \in row.paths
                                          /\ row.source \in rec.sources[u]
<1>a. PICK a \in Admitted(Read(registry), new) :
         \E k \in Kept(Read(registry), new, a) : Written(Recorded(Read(registry), new, a, k))
  BY DEF Records
<1>1. PICK k \in Kept(Read(registry), new, a) : Written(Recorded(Read(registry), new, a, k))
  BY <1>a
<1> DEFINE rec == Recorded(Read(registry), new, a, k)
<1>2. registry' = rec \/ (registry' = registry /\ rec = Read(registry))
  <2>1. Written(rec)
    BY <1>1
  <2> HIDE DEF rec
  <2> QED BY <2>1 DEF Written
<1>3. Read(registry) \in Registries
  BY ReadType
<1>4. /\ rec \in Registries /\ Cardinality(Known(rec)) <= MaxPlayers
      /\ \A u \in Users :
            /\ Read(registry).sources[u] \subseteq rec.sources[u]
            /\ Read(registry).paths[u] \subseteq rec.paths[u]
            /\ \A x \in rec.sources[u] : x \in Read(registry).sources[u] \/
                  \E row \in new : row.user = u /\ row.source = x
            /\ \A p \in rec.paths[u] : p \in Read(registry).paths[u] \/
                  \E row \in new : row.user = u /\ p \in row.paths /\ row.source \in rec.sources[u]
  BY <1>3, RecordedType
<1> HIDE DEF rec
<1> QED BY <1>2, <1>4

\* Pruning leaves a file that can be read.
LEMMA PrunedReadable ==
    ASSUME NEW reg \in Registries, Cardinality(Known(reg)) <= MaxPlayers, NEW valid
    PROVE  /\ Pruned(Nobody, valid) = Nobody
           /\ ~Outgrown(Nobody)
           /\ ~Outgrown(reg) => ~Outgrown(Pruned(reg, valid))
<1>1. Pruned(Nobody, valid) = Nobody
  <2>1. \A u \in Users : Nobody.sources[u] = {} /\ Nobody.paths[u] = {}
    BY NobodyType
  <2>2. [u \in Users |-> IF u \in valid THEN Nobody.sources[u] ELSE Nobody.sources[u] \ {"save"}]
           = [u \in Users |-> {}]
    BY <2>1
  <2>3. [u \in Users |-> IF [v \in Users |-> {}][u] = {} THEN {} ELSE Nobody.paths[u]]
           = [u \in Users |-> {}]
    BY <2>1
  <2> QED BY <2>2, <2>3 DEF Pruned, Nobody
<1> DEFINE PathsIn(x) == UNION {{u} \X x.paths[u] : u \in Users}
<1>2. ~Outgrown(Nobody)
  <2>1. PathsIn(Nobody) = {}
    BY NobodyType
  <2>2. Outgrown(Nobody) <=> (Cardinality(PathsIn(Nobody)) > MaxFile)
    BY DEF Outgrown
  <2> HIDE DEF PathsIn
  <2> QED BY <2>1, <2>2, FS_EmptySet, PlayersAssumption
<1>3. ASSUME ~Outgrown(reg) PROVE ~Outgrown(Pruned(reg, valid))
  <2> DEFINE new == Pruned(reg, valid)
  <2>1. \A u \in Users : new.paths[u] \subseteq reg.paths[u] /\ reg.paths[u] \subseteq Shards \X Names
    BY PrunedType DEF Registries
  <2>2. PathsIn(new) \subseteq PathsIn(reg) /\ PathsIn(reg) \subseteq Users \X (Shards \X Names)
    BY <2>1
  <2>3. IsFiniteSet(Users \X (Shards \X Names))
    <3>1. IsFiniteSet(Names)
      BY FS_Union, PlayersAssumption DEF Names
    <3>2. IsFiniteSet(Shards)
      <4>1. IsFiniteSet({"Master"}) /\ Shards = {"Master"} \cup {"Caves"}
        BY FS_Singleton DEF Shards
      <4> QED BY <4>1, FS_AddElement
    <3> QED BY <3>1, <3>2, FS_Product, PlayersAssumption
  <2>4. IsFiniteSet(PathsIn(reg)) /\ IsFiniteSet(PathsIn(new))
    BY <2>2, <2>3, FS_Subset
  <2>5. Cardinality(PathsIn(new)) <= Cardinality(PathsIn(reg))
    BY <2>2, <2>4, FS_Subset
  <2>6. Cardinality(PathsIn(reg)) \in Nat /\ Cardinality(PathsIn(new)) \in Nat
    BY <2>4, FS_CardinalityType
  <2>7. ~(Cardinality(PathsIn(reg)) > MaxFile)
    BY <1>3 DEF Outgrown
  <2>8. ~(Cardinality(PathsIn(new)) > MaxFile)
    <3> HIDE DEF PathsIn, new
    <3> QED BY <2>5, <2>6, <2>7, PlayersAssumption
  <2> QED BY <2>8 DEF Outgrown
<1> QED BY <1>1, <1>2, <1>3

-----------------------------------------------------------------------------
(* The inductive invariant.                                                *)

Witnessing(s, u, f) ==
    \/ [user |-> u, folder |-> f] \in witnessed[s]
    \/ broken[s] /\ u \in greeted[s]

\* Until lines are mixed or lost, the shared parser is where the parser of the
\* latest process is, and that one's pending line is the process's last.
ParserInv ==
    \A s \in Shards :
        /\ parsers[s].authenticated \subseteq greeted[s]
        /\ ~broken[s] => /\ parsers[s].pending = own[s].pending
                         /\ parsers[s].previous_resume = own[s].previous_resume
        /\ own[s].previous_resume = (tail[s][1].kind = "resuming")
        /\ own[s].pending # NoLine => /\ tail[s][1] = own[s].pending
                                      /\ tail[s][2].kind # "resuming"
        /\ logged[s] \subseteq witnessed[s]

\* What is recorded, or about to be, is witnessed.
RowsWitnessed ==
    \A row \in rows \cup upload :
        /\ row.source # "save"
        /\ \A s \in Shards, f \in Names : <<s, f>> \in row.paths => Witnessing(s, row.user, f)

\* Only evidence beside the folders brings paths.
PathsByEvidence ==
    \A u \in Users : registry.sources[u] \subseteq {"save"} => registry.paths[u] = {}

Told ==
    {v \in Users : Read(registry).sources[v] \ {"save"} # {}}
      \cup permitted \cup {r.user : r \in rows}

\* What discover() holds while it has the lock.
DiscoverInv ==
    /\ pc \in {"locked", "pruned"} => data = Read(registry)
    /\ pc = "pruned" =>
          /\ \A u \in Users : "save" \in data.sources[u] => \E c \in scanned : c[2] = u
          /\ \A c \in scanned : c[2] # NoUser =>
                \/ c[1][2] = c[2] /\ c[2] \notin Suffixed
                \/ c[2] \in Candidates(c[1][2]) /\ Candidates(c[1][2]) \cap Told = {c[2]}

PlayersInv ==
    /\ PlayersTypeOK /\ ParserInv /\ LinksWitnessed
    /\ RowsWitnessed /\ PathsByEvidence /\ DiscoverInv

-----------------------------------------------------------------------------
(* Types.                                                                  *)

LEMMA InitType == PlayersInit => PlayersTypeOK
<1> SUFFICES ASSUME PlayersInit PROVE PlayersTypeOK
  OBVIOUS
<1>1. registry \in Registries /\ Cardinality(Known(registry)) <= MaxPlayers /\ data \in Registries
  BY NobodyType DEF PlayersInit
<1>2. /\ parsers \in [Shards -> Parsers] /\ own \in [Shards -> Parsers]
      /\ tail \in [Shards -> Lines \X Lines]
  BY OtherIsLine DEF PlayersInit
<1>3. saves \subseteq Places /\ rows \subseteq Rows /\ upload \subseteq Rows
  BY DEF PlayersInit
<1>4. /\ logged \in [Shards -> SUBSET Links] /\ witnessed \in [Shards -> SUBSET Links]
      /\ greeted \in [Shards -> SUBSET Users] /\ broken \in [Shards -> BOOLEAN]
      /\ owner \in [Shards -> Users \cup {NoUser}]
  BY DEF PlayersInit
<1>5. /\ running \in BOOLEAN /\ runs \in 0 .. MaxRuns /\ filed \in BOOLEAN
      /\ permitted \subseteq Users /\ importing \in BOOLEAN
      /\ pc \in {"idle", "gathering", "gathered", "locked", "pruned", "imported"}
      /\ scanned \subseteq Places \X (Users \cup {NoUser}) /\ events \in 0 .. MaxEvents
  <2>1. 0 \in 0 .. MaxRuns /\ 0 \in 0 .. MaxEvents
    BY PlayersAssumption
  <2> QED BY <2>1 DEF PlayersInit
<1> QED BY <1>1, <1>2, <1>3, <1>4, <1>5 DEF PlayersTypeOK

LEMMA RecordsType ==
    ASSUME registry \in Registries, Cardinality(Known(registry)) <= MaxPlayers,
           NEW new \in SUBSET Rows, Records(new)
    PROVE  registry' \in Registries /\ Cardinality(Known(registry')) <= MaxPlayers
<1>1. \E rec \in Registries : /\ registry' = rec \/ registry' = registry
                             /\ Cardinality(Known(rec)) <= MaxPlayers
  BY RecordsAre
<1> QED BY <1>1

LEMMA FolderUserType ==
    ASSUME NEW name, NEW known
    PROVE  FolderUser(name, known) \in Users \cup {NoUser}
<1> DEFINE matched == Candidates(name) \cap known
<1>1. CASE Cardinality(matched) = 1
  <2>1. matched \subseteq Users
    BY PlayersAssumption DEF Candidates
  <2>2. matched # {}
    BY <1>1, FS_EmptySet
  <2>3. (CHOOSE u \in Users : u \in matched) \in Users
    BY <2>1, <2>2
  <2> QED BY <1>1, <2>3 DEF FolderUser
<1>2. CASE Cardinality(matched) # 1
  BY <1>2 DEF FolderUser
<1> QED BY <1>1, <1>2

LEMMA ReadsType ==
    ASSUME PlayersTypeOK, NEW s \in Shards, NEW k \in Readers, NEW line \in Printed[s],
           Reads(s, k, line)
    PROVE  PlayersTypeOK'
<1> USE DEF PlayersTypeOK
<1>1. line \in Lines
  BY PlayersAssumption
<1> DEFINE joined == NameRows(Greets(line), "join")
           found == LinkRows(s, Linked(parsers[ParserOf(s)], line), "join")
<1>2. joined \cup found \in SUBSET Rows
  <2>1. Greets(line) \in SUBSET Users /\ Linked(parsers[ParserOf(s)], line) \in SUBSET Links
    BY DEF Greets, Linked
  <2> QED BY <2>1, RowsType DEF Sources
<1>3. /\ \/ Records(joined \cup found) \/ registry' = registry
      /\ \/ parsers' = [parsers EXCEPT ![ParserOf(s)] = Fed(@, line)]
         \/ parsers' = parsers
  BY DEF Reads
<1>4. registry' \in Registries /\ Cardinality(Known(registry')) <= MaxPlayers
  BY <1>2, <1>3, RecordsType
<1>5. parsers' \in [Shards -> Parsers]
  <2>1. ParserOf(s) = s /\ Fed(parsers[s], line) \in Parsers
    BY <1>1, FedType DEF ParserOf
  <2> QED BY <1>3, <2>1
<1>6. own' \in [Shards -> Parsers]
  <2>1. Fed(own[s], line) \in Parsers
    BY <1>1, FedType
  <2>2. own' = [own EXCEPT ![s] = Fed(own[s], line)] \/ own' = own
    BY DEF Reads
  <2> QED BY <2>1, <2>2
<1>7. tail' \in [Shards -> Lines \X Lines]
  <2>1. <<line, tail[s][1]>> \in Lines \X Lines
    BY <1>1
  <2>2. tail' = [tail EXCEPT ![s] = <<line, @[1]>>] \/ tail' = tail
    BY DEF Reads
  <2> QED BY <2>1, <2>2
<1>8. logged' \in [Shards -> SUBSET Links] /\ witnessed' \in [Shards -> SUBSET Links]
  <2>1. Linked(own[s], line) \in SUBSET Links /\ Witness(tail[s], line) \in SUBSET Links
    BY DEF Linked, Witness
  <2>2. \/ /\ logged' = [logged EXCEPT ![s] = @ \cup Linked(own[s], line)]
           /\ witnessed' = [witnessed EXCEPT ![s] = @ \cup Witness(tail[s], line)]
        \/ logged' = logged /\ witnessed' = witnessed
    BY DEF Reads
  <2>3. /\ logged[s] \cup Linked(own[s], line) \in SUBSET Links
        /\ witnessed[s] \cup Witness(tail[s], line) \in SUBSET Links
    BY <2>1
  <2> HIDE DEF joined, found
  <2>4. CASE /\ logged' = [logged EXCEPT ![s] = logged[s] \cup Linked(own[s], line)]
             /\ witnessed' = [witnessed EXCEPT ![s] = witnessed[s] \cup Witness(tail[s], line)]
    BY <2>3, <2>4
  <2> QED BY <2>2, <2>4
<1>9. greeted' \in [Shards -> SUBSET Users]
  BY DEF Reads, Greets
<1>10. broken' \in [Shards -> BOOLEAN]
  BY DEF Reads
<1>11. events' \in 0 .. MaxEvents
  BY PlayersAssumption DEF Reads, Happens
<1>12. UNCHANGED <<running, runs, filed, disk, pc, locals>>
  BY DEF Reads
<1> QED BY <1>4, <1>5, <1>6, <1>7, <1>8, <1>9, <1>10, <1>11, <1>12 DEF disk, locals

LEMMA GameType ==
    ASSUME PlayersTypeOK,
           \/ Start \/ Stop
           \/ \E u \in Users : Edit({u})
           \/ \E p \in Places : GameSaves(p)
    PROVE  PlayersTypeOK'
<1> USE DEF PlayersTypeOK
<1>1. CASE Start
  <2>1. parsers' \in [Shards -> Parsers]
    BY <1>1, FedType, OtherIsLine DEF Start, ParserOf
  <2>2. own' \in [Shards -> Parsers] /\ tail' \in [Shards -> Lines \X Lines]
    BY <1>1, OtherIsLine DEF Start
  <2>3. logged' \in [Shards -> SUBSET Links]
    BY <1>1 DEF Start
  <2>4. running' \in BOOLEAN /\ runs' \in 0 .. MaxRuns /\ filed' \in BOOLEAN
    BY <1>1, PlayersAssumption DEF Start
  <2> QED BY <1>1, <2>1, <2>2, <2>3, <2>4 DEF Start, disk, locals
<1>2. CASE Stop
  BY <1>2 DEF Stop, history, disk, locals
<1>3. ASSUME NEW u \in Users, Edit({u}) PROVE PlayersTypeOK'
  <2>1. events' \in 0 .. MaxEvents
    BY <1>3, PlayersAssumption DEF Edit, Happens
  <2> QED BY <1>3, <2>1 DEF Edit, game, history, locals
<1>4. ASSUME NEW p \in Places, GameSaves(p) PROVE PlayersTypeOK'
  <2>1. events' \in 0 .. MaxEvents
    BY <1>4, PlayersAssumption DEF GameSaves, Happens
  <2> QED BY <1>4, <2>1 DEF GameSaves, game, history, locals
<1> QED BY <1>1, <1>2, <1>3, <1>4

LEMMA GatheredRows ==
    ASSUME PlayersTypeOK, Gather
    PROVE  /\ rows' \subseteq Rows
           /\ \A row \in rows' :
                 /\ row.source # "save"
                 /\ \/ row.paths = {}
                    \/ \E s \in Shards : \E l \in logged[s] :
                          row.user = l.user /\ row.paths = {<<s, l.folder>>}
<1> DEFINE RowsOf(s) == NameRows({owner[s]} \ {NoUser}, "cached_owner")
                          \cup {r \in NameRows(own[s].authenticated, "imported_log")
                                       \cup LinkRows(s, logged[s], "imported_log") : filed}
<1>1. rows' = UNION {RowsOf(s) : s \in Shards}
  BY DEF Gather
<1>2. ASSUME NEW s \in Shards, NEW row \in RowsOf(s)
      PROVE  /\ row \in Rows /\ row.source # "save"
             /\ row.paths = {} \/ \E l \in logged[s] : row.user = l.user /\ row.paths = {<<s, l.folder>>}
  <2>1. /\ {owner[s]} \ {NoUser} \in SUBSET Users
        /\ own[s].authenticated \in SUBSET Users /\ logged[s] \in SUBSET Links
    BY DEF PlayersTypeOK, Parsers
  <2>2. row \in NameRows({owner[s]} \ {NoUser}, "cached_owner")
          \/ row \in NameRows(own[s].authenticated, "imported_log")
          \/ row \in LinkRows(s, logged[s], "imported_log")
    OBVIOUS
  <2>3. row \in Rows
    BY <2>1, <2>2, RowsType DEF Sources
  <2> QED BY <2>2, <2>3 DEF NameRows, LinkRows
<1> HIDE DEF RowsOf
<1>3. ASSUME NEW row \in rows'
      PROVE  /\ row \in Rows /\ row.source # "save"
             /\ \/ row.paths = {}
                \/ \E s \in Shards : \E l \in logged[s] :
                      row.user = l.user /\ row.paths = {<<s, l.folder>>}
  <2>1. PICK s \in Shards : row \in RowsOf(s)
    BY <1>1
  <2> QED BY <2>1, <1>2
<1> QED BY <1>3

LEMMA SaveRowsAre ==
    ASSUME PlayersTypeOK
    PROVE  /\ SaveRows \subseteq Rows
           /\ \A row \in SaveRows : /\ row.source = "save" /\ row.paths = {}
                                    /\ \E c \in scanned : c[2] = row.user
<1>1. {c[2] : c \in scanned} \ {NoUser} \in SUBSET Users
  BY DEF PlayersTypeOK
<1>2. SaveRows \subseteq Rows
  BY <1>1, RowsType DEF SaveRows, Sources, Shards
<1> QED BY <1>2 DEF SaveRows, NameRows

LEMMA DiscoversType ==
    ASSUME PlayersTypeOK, DiscoverInv, Discovers
    PROVE  PlayersTypeOK'
<1> USE DEF PlayersTypeOK
<1>1. CASE Gather
  BY <1>1, GatheredRows DEF Gather, game, history, disk
<1>2. CASE RecordRows
  <2>1. registry' \in Registries /\ Cardinality(Known(registry')) <= MaxPlayers
    BY <1>2, RecordsType DEF RecordRows
  <2>2. data' \in Registries
    BY <1>2, <2>1, ReadType DEF RecordRows
  <2> QED BY <1>2, <2>1, <2>2 DEF RecordRows, game, history, disk
<1>3. CASE Prune
  <2>1. data \in Registries /\ Cardinality(Known(data)) <= MaxPlayers
    BY <1>3, ReadType DEF Prune, DiscoverInv
  <2>2. data' \in Registries /\ Cardinality(Known(data')) <= MaxPlayers
    BY <1>3, <2>1, PrunedType DEF Prune
  <2>7. registry' = registry \/ registry' = data'
    BY <1>3 DEF Prune, Written
  <2>3. \A p \in saves : <<p, FolderUser(p[2], KnownUsers(data))>> \in Places \X (Users \cup {NoUser})
    BY FolderUserType
  <2>4. scanned' \subseteq Places \X (Users \cup {NoUser})
    BY <1>3, <2>3 DEF Prune
  <2>5. pc' \in {"idle", "gathering", "gathered", "locked", "pruned", "imported"}
    BY <1>3 DEF Prune
  <2>6. UNCHANGED <<parsers, game, history, disk, importing, upload, rows, events>>
    BY <1>3 DEF Prune
  <2> QED BY <2>2, <2>4, <2>5, <2>6, <2>7 DEF game, history, disk
<1>4. CASE Finish
  <2>1. rows \cup SaveRows \in SUBSET Rows
    BY SaveRowsAre
  <2>2. registry' \in Registries /\ Cardinality(Known(registry')) <= MaxPlayers
    BY <1>4, <2>1, RecordsType DEF Finish
  <2>3. rows' = {} /\ scanned' = {} /\ data' \in Registries
    BY <1>4, NobodyType DEF Finish
  <2>4. pc' \in {"idle", "imported"}
    BY <1>4 DEF Finish
  <2>5. UNCHANGED <<parsers, game, history, disk, importing, upload, events>>
    BY <1>4 DEF Finish
  <2> QED BY <2>2, <2>3, <2>4, <2>5 DEF game, history, disk
<1>5. CASE RefreshFails
  BY <1>5, NobodyType DEF RefreshFails, game, history, disk
<1>6. CASE RecordUpload
  <2>1. registry' \in Registries /\ Cardinality(Known(registry')) <= MaxPlayers
    BY <1>6, RecordsType DEF RecordUpload
  <2> QED BY <1>6, <2>1 DEF RecordUpload, game, history, disk
<1> QED BY <1>1, <1>2, <1>3, <1>4, <1>5, <1>6 DEF Discovers

\* What an import has yet to record.
LEMMA UploadedRows ==
    ASSUME NEW new \in Uploads, Import(new)
    PROVE  /\ upload' \subseteq Rows
           /\ \A row \in upload' :
                 /\ row.source # "save"
                 /\ \/ row.paths = {}
                    \/ \E s \in Shards : \E l \in new.links[s] :
                          row.user = l.user /\ row.paths = {<<s, l.folder>>}
<1>1. /\ new.names \in SUBSET Users
      /\ \A s \in Shards : new.links[s] \in SUBSET Links
  BY PlayersAssumption
<1>2. \A s \in Shards : LinkRows(s, new.links[s], "imported_log") \subseteq Rows
  BY <1>1, RowsType DEF Sources
<1>3. NameRows(new.names, "imported_log") \subseteq Rows
  BY <1>1, RowsType DEF Sources, Shards
<1>4. upload' = NameRows(new.names, "imported_log")
                   \cup UNION {LinkRows(s, new.links[s], "imported_log") : s \in Shards}
  BY DEF Import
<1> QED BY <1>2, <1>3, <1>4 DEF NameRows, LinkRows

LEMMA ImportType ==
    ASSUME PlayersTypeOK, NEW new \in Uploads, Import(new)
    PROVE  PlayersTypeOK'
<1> USE DEF PlayersTypeOK
<1>1. /\ new.saves \in SUBSET Places /\ new.owner \in [Shards -> Users \cup {NoUser}]
      /\ new.links \in [Shards -> SUBSET Links]
  BY PlayersAssumption
<1>2. registry' \in Registries /\ Cardinality(Known(registry')) <= MaxPlayers
  BY NobodyType DEF Import
<1>3. witnessed' \in [Shards -> SUBSET Links]
  BY <1>1 DEF Import
<1>4. upload' \subseteq Rows
  BY UploadedRows
<1>5. events' \in 0 .. MaxEvents
  BY PlayersAssumption DEF Import, Happens
<1> QED BY <1>1, <1>2, <1>3, <1>4, <1>5 DEF Import

LEMMA TypeStep == PlayersTypeOK /\ DiscoverInv /\ [PlayersNext]_vars => PlayersTypeOK'
<1> SUFFICES ASSUME PlayersTypeOK, DiscoverInv, [PlayersNext]_vars PROVE PlayersTypeOK'
  OBVIOUS
<1>1. ASSUME UNCHANGED vars PROVE PlayersTypeOK'
  BY <1>1 DEF vars, game, history, disk, locals, PlayersTypeOK
<1> QED BY <1>1, ReadsType, GameType, DiscoversType, ImportType DEF PlayersNext

-----------------------------------------------------------------------------
(* Links.                                                                  *)

LEMMA HistoryGrows ==
    ASSUME PlayersTypeOK, [PlayersNext]_vars
    PROVE  \A s \in Shards : /\ witnessed[s] \subseteq witnessed'[s]
                             /\ greeted[s] \subseteq greeted'[s]
                             /\ broken[s] => broken'[s]
<1> USE DEF PlayersTypeOK
<1>1. ASSUME NEW s \in Shards, NEW k \in Readers, NEW line \in Printed[s], Reads(s, k, line)
      PROVE  \A t \in Shards : /\ witnessed[t] \subseteq witnessed'[t]
                               /\ greeted[t] \subseteq greeted'[t]
                               /\ broken[t] => broken'[t]
  BY <1>1 DEF Reads
<1>2. ASSUME NEW new \in Uploads, Import(new)
      PROVE  \A t \in Shards : /\ witnessed[t] \subseteq witnessed'[t]
                               /\ greeted[t] \subseteq greeted'[t]
                               /\ broken[t] => broken'[t]
  BY <1>2 DEF Import
<1>3. CASE UNCHANGED <<witnessed, greeted, broken>>
  BY <1>3
<1>4. Start \/ Stop \/ Discovers => UNCHANGED <<witnessed, greeted, broken>>
  BY DEF Start, Stop, Discovers, Gather, RecordRows, Prune, Finish, RefreshFails, RecordUpload, history
<1>5. (\E u \in Users : Edit({u})) \/ (\E p \in Places : GameSaves(p)) \/ UNCHANGED vars
         => UNCHANGED <<witnessed, greeted, broken>>
  BY DEF Edit, GameSaves, history, vars
<1> QED BY <1>1, <1>2, <1>3, <1>4, <1>5 DEF PlayersNext

LEMMA StaysWitnessed ==
    ASSUME PlayersTypeOK, [PlayersNext]_vars, NEW s \in Shards, NEW u, NEW f, Witnessing(s, u, f)
    PROVE  Witnessing(s, u, f)'
  BY HistoryGrows DEF Witnessing

\* The link a parser finds is one of adjacent lines.
LEMMA LinkedWitness ==
    ASSUME NEW parser \in Parsers, NEW last \in Lines \X Lines, NEW line \in Lines,
           parser.pending # NoLine => last[1] = parser.pending /\ last[2].kind # "resuming"
    PROVE  Linked(parser, line) \subseteq Witness(last, line)
<1> SUFFICES ASSUME NEW l \in Linked(parser, line) PROVE l \in Witness(last, line)
  OBVIOUS
<1>1. /\ l \in Links /\ line.kind = "owner" /\ line.user = l.user
      /\ parser.pending # NoLine /\ parser.pending.folder = l.folder
      /\ parser.pending.stamp = line.stamp /\ line.stamp # NoStamp
  BY DEF Linked
<1>2. /\ line = [kind |-> "owner", user |-> l.user, stamp |-> line.stamp]
      /\ line.stamp \in Stamps
  BY <1>1, KindsDiffer
<1>3. parser.pending = [kind |-> "resuming", folder |-> l.folder, stamp |-> line.stamp]
  BY <1>1 DEF Parsers, Resumes
<1> QED BY <1>1, <1>2, <1>3 DEF Witness

\* How a parser goes on with the lines of a process.
LEMMA FedPending ==
    ASSUME NEW parser \in Parsers, NEW last \in Lines \X Lines, NEW line \in Lines,
           parser.previous_resume = (last[1].kind = "resuming")
    PROVE  /\ Fed(parser, line).previous_resume = (line.kind = "resuming")
           /\ Fed(parser, line).pending # NoLine =>
                 line = Fed(parser, line).pending /\ last[1].kind # "resuming"
  BY DEF Fed

LEMMA ParserReads ==
    ASSUME PlayersTypeOK, ParserInv, NEW s \in Shards, NEW k \in Readers, NEW line \in Printed[s],
           Reads(s, k, line)
    PROVE  ParserInv'
<1> USE DEF PlayersTypeOK
<1>1. line \in Lines /\ ParserOf(s) = s
  BY PlayersAssumption DEF ParserOf
<1>2. /\ greeted' = [greeted EXCEPT ![s] = greeted[s] \cup Greets(line)]
      /\ \/ parsers' = [parsers EXCEPT ![s] = Fed(parsers[s], line)]
         \/ parsers' = parsers /\ broken' = [broken EXCEPT ![s] = TRUE]
      /\ \/ broken' = broken /\ k = Latest
         \/ broken' = [broken EXCEPT ![s] = TRUE]
  <2>1. broken[s] \in BOOLEAN
    OBVIOUS
  <2>2. broken' = [broken EXCEPT ![s] = broken[s]] => broken' = broken
    OBVIOUS
  <2> QED BY <1>1, <2>1, <2>2 DEF Reads, Readers
<1>3. \/ /\ k = Latest
         /\ own' = [own EXCEPT ![s] = Fed(own[s], line)]
         /\ logged' = [logged EXCEPT ![s] = logged[s] \cup Linked(own[s], line)]
         /\ tail' = [tail EXCEPT ![s] = <<line, tail[s][1]>>]
         /\ witnessed' = [witnessed EXCEPT ![s] = witnessed[s] \cup Witness(tail[s], line)]
      \/ /\ k = Earlier
         /\ UNCHANGED <<own, logged, tail, witnessed>>
  BY DEF Reads
<1>4. \A q \in Parsers : Fed(q, line).authenticated = q.authenticated \cup Greets(line)
  BY DEF Fed
<1>5. parsers'[s].authenticated \subseteq greeted'[s]
  BY <1>2, <1>4 DEF ParserInv
<1>6. ASSUME ~broken'[s]
      PROVE  /\ parsers'[s].pending = own'[s].pending
             /\ parsers'[s].previous_resume = own'[s].previous_resume
  <2>1. /\ broken' = broken /\ k = Latest /\ ~broken[s]
        /\ parsers' = [parsers EXCEPT ![s] = Fed(parsers[s], line)]
    BY <1>2, <1>6
  <2>2. own'[s] = Fed(own[s], line) /\ parsers'[s] = Fed(parsers[s], line)
    BY <1>3, <2>1 DEF Latest, Earlier
  <2> QED BY <2>1, <2>2 DEF Fed, ParserInv
<1>7. /\ own'[s].previous_resume = (tail'[s][1].kind = "resuming")
      /\ own'[s].pending # NoLine => /\ tail'[s][1] = own'[s].pending
                                     /\ tail'[s][2].kind # "resuming"
      /\ logged'[s] \subseteq witnessed'[s]
  <2>1. CASE k = Earlier
    BY <1>3, <2>1 DEF Latest, Earlier, ParserInv
  <2>2. CASE k = Latest
    <3>1. /\ own'[s] = Fed(own[s], line) /\ tail'[s] = <<line, tail[s][1]>>
          /\ logged'[s] = logged[s] \cup Linked(own[s], line)
          /\ witnessed'[s] = witnessed[s] \cup Witness(tail[s], line)
      BY <1>3, <2>2 DEF Latest, Earlier
    <3>2. Linked(own[s], line) \subseteq Witness(tail[s], line)
      BY <1>1, LinkedWitness DEF ParserInv
    <3>3. /\ Fed(own[s], line).previous_resume = (line.kind = "resuming")
          /\ Fed(own[s], line).pending # NoLine =>
                line = Fed(own[s], line).pending /\ tail[s][1].kind # "resuming"
      BY <1>1, FedPending DEF ParserInv
    <3> QED BY <3>1, <3>2, <3>3 DEF ParserInv
  <2> QED BY <2>1, <2>2 DEF Readers
<1>8. ASSUME NEW t \in Shards, t # s
      PROVE  /\ parsers'[t] = parsers[t] /\ greeted'[t] = greeted[t] /\ broken'[t] = broken[t]
             /\ own'[t] = own[t] /\ tail'[t] = tail[t]
             /\ logged'[t] = logged[t] /\ witnessed'[t] = witnessed[t]
  BY <1>2, <1>3, <1>8
<1> QED BY <1>5, <1>6, <1>7, <1>8 DEF ParserInv

LEMMA ParserStep == PlayersTypeOK /\ ParserInv /\ [PlayersNext]_vars => ParserInv'
<1> SUFFICES ASSUME PlayersTypeOK, ParserInv, [PlayersNext]_vars PROVE ParserInv'
  OBVIOUS
<1> USE DEF PlayersTypeOK
<1>1. ASSUME UNCHANGED <<parsers, own, logged, tail, greeted, witnessed, broken>> PROVE ParserInv'
  BY <1>1 DEF ParserInv
<1>2. CASE Start
  <2>1. \A s \in Shards : /\ parsers'[s] = Fed(parsers[s], Other)
                          /\ own'[s] = Fresh /\ tail'[s] = <<Other, Other>> /\ logged'[s] = {}
                          /\ greeted'[s] = greeted[s] /\ broken'[s] = broken[s]
                          /\ witnessed'[s] = witnessed[s]
    BY <1>2 DEF Start, ParserOf
  <2>2. \A s \in Shards : /\ Fed(parsers[s], Other).pending = NoLine
                          /\ Fed(parsers[s], Other).previous_resume = FALSE
                          /\ Fed(parsers[s], Other).authenticated = parsers[s].authenticated
    BY OtherIsLine DEF Fed
  <2>3. /\ Fresh.pending = NoLine /\ Fresh.previous_resume = FALSE
        /\ <<Other, Other>>[1].kind # "resuming"
    BY OtherIsLine DEF Fresh
  <2>4. ASSUME NEW s \in Shards
        PROVE  /\ parsers'[s].authenticated \subseteq greeted'[s]
               /\ parsers'[s].pending = own'[s].pending
               /\ parsers'[s].previous_resume = own'[s].previous_resume
               /\ own'[s].previous_resume = (tail'[s][1].kind = "resuming")
               /\ own'[s].pending = NoLine
               /\ logged'[s] \subseteq witnessed'[s]
    <3>1. parsers[s].authenticated \subseteq greeted[s]
      BY DEF ParserInv
    <3> HIDE DEF PlayersTypeOK
    <3> QED BY <2>1, <2>2, <2>3, <3>1
  <2> QED BY <2>4 DEF ParserInv
<1>3. ASSUME NEW new \in Uploads, Import(new) PROVE ParserInv'
  <2>1. UNCHANGED <<parsers, own, logged, tail, greeted, broken>>
    BY <1>3 DEF Import
  <2>2. \A s \in Shards : witnessed[s] \subseteq witnessed'[s]
    BY HistoryGrows
  <2> QED BY <2>1, <2>2 DEF ParserInv
<1>4. Stop \/ Discovers => UNCHANGED <<parsers, own, logged, tail, greeted, witnessed, broken>>
  BY DEF Stop, Discovers, Gather, RecordRows, Prune, Finish, RefreshFails, RecordUpload, history, game
<1>5. (\E u \in Users : Edit({u})) \/ (\E p \in Places : GameSaves(p)) \/ UNCHANGED vars
         => UNCHANGED <<parsers, own, logged, tail, greeted, witnessed, broken>>
  BY DEF Edit, GameSaves, history, game, vars
<1> QED BY <1>1, <1>2, <1>3, <1>4, <1>5, ParserReads DEF PlayersNext

\* Witnessed rows leave a witnessed registry.
LEMMA RecordsWitnessed ==
    ASSUME registry \in Registries, Cardinality(Known(registry)) <= MaxPlayers,
           NEW new \in SUBSET Rows, Records(new), PathsByEvidence,
           \A s \in Shards, u \in Users, f \in Names :
              <<s, f>> \in registry.paths[u] => Witnessing(s, u, f)',
           \A row \in new : row.paths # {} => row.source # "save",
           \A row \in new, s \in Shards, f \in Names :
              <<s, f>> \in row.paths => Witnessing(s, row.user, f)'
    PROVE  LinksWitnessed' /\ PathsByEvidence'
<1>1. CASE registry' = registry
  BY <1>1 DEF LinksWitnessed, PathsByEvidence, Witnessing
<1>2. ASSUME registry' # registry PROVE LinksWitnessed' /\ PathsByEvidence'
  <2>1. \A u \in Users :
           /\ Read(registry).sources[u] \subseteq registry'.sources[u]
           /\ \A p \in registry'.paths[u] : p \in Read(registry).paths[u] \/
                 \E row \in new : row.user = u /\ p \in row.paths /\ row.source \in registry'.sources[u]
    BY <1>2, RecordsAre
  <2>2. \A u \in Users : /\ Read(registry).paths[u] \subseteq registry.paths[u]
                         /\ Read(registry).sources[u] \subseteq {"save"} => Read(registry).paths[u] = {}
    BY ReadType, NobodyType DEF PathsByEvidence
  <2>3. LinksWitnessed'
    BY <2>1, <2>2 DEF LinksWitnessed, Witnessing
  <2>4. PathsByEvidence'
    <3> SUFFICES ASSUME NEW u \in Users, registry'.sources[u] \subseteq {"save"},
                        NEW p \in registry'.paths[u]
                 PROVE  FALSE
      BY DEF PathsByEvidence
    <3>1. Read(registry).paths[u] = {}
      BY <2>1, <2>2
    <3> QED BY <2>1, <3>1
  <2> QED BY <2>3, <2>4
<1> QED BY <1>1, <1>2

LEMMA ReadsWitnessed ==
    ASSUME PlayersInv, NEW s \in Shards, NEW k \in Readers, NEW line \in Printed[s],
           Reads(s, k, line), [PlayersNext]_vars
    PROVE  LinksWitnessed' /\ PathsByEvidence'
<1> USE DEF PlayersInv
<1> DEFINE joined == NameRows(Greets(line), "join")
           found == LinkRows(s, Linked(parsers[s], line), "join")
<1>1. line \in Lines /\ ParserOf(s) = s
  BY PlayersAssumption DEF ParserOf
<1>2. joined \cup found \in SUBSET Rows
  <2>1. Greets(line) \in SUBSET Users /\ Linked(parsers[s], line) \in SUBSET Links
    BY DEF Greets, Linked
  <2> QED BY <2>1, RowsType DEF Sources
<1>3. ASSUME NEW l \in Linked(parsers[s], line) PROVE Witnessing(s, l.user, l.folder)'
  <2>1. l \in Links /\ l = [user |-> l.user, folder |-> l.folder] /\ l.user \in parsers[s].authenticated
    BY DEF Linked, Links
  <2>2. /\ broken[s] => broken'[s]
        /\ greeted[s] \subseteq greeted'[s]
        /\ l.user \in greeted'[s]
    BY <2>1, HistoryGrows DEF ParserInv
  <2>3. CASE ~broken[s] /\ k = Latest
    <3>1. /\ parsers[s].pending = own[s].pending
          /\ own[s].pending # NoLine => tail[s][1] = own[s].pending /\ tail[s][2].kind # "resuming"
          /\ parsers[s] \in Parsers /\ tail[s] \in Lines \X Lines
      BY <2>3 DEF ParserInv, PlayersTypeOK
    <3>2. l \in Witness(tail[s], line)
      BY <1>1, <3>1, LinkedWitness
    <3>3. witnessed' = [witnessed EXCEPT ![s] = witnessed[s] \cup Witness(tail[s], line)]
      BY <2>3 DEF Reads, Latest, Earlier
    <3>4. l \in witnessed'[s]
      BY <3>2, <3>3 DEF PlayersTypeOK
    <3> QED BY <2>1, <3>4 DEF Witnessing
  <2>4. CASE broken[s]
    BY <2>2, <2>4 DEF Witnessing
  <2>5. CASE k = Earlier
    <3>1. broken'[s]
      BY <2>5 DEF Reads, PlayersTypeOK
    <3> QED BY <2>2, <3>1 DEF Witnessing
  <2> QED BY <2>3, <2>4, <2>5 DEF Readers
<1>4. /\ \A row \in joined \cup found : row.source # "save"
      /\ \A row \in joined \cup found, t \in Shards, f \in Names :
            <<t, f>> \in row.paths => Witnessing(t, row.user, f)'
  <2>1. ASSUME NEW row \in joined PROVE row.source # "save" /\ row.paths = {}
    BY DEF NameRows
  <2>2. ASSUME NEW row \in found, NEW t \in Shards, NEW f \in Names, <<t, f>> \in row.paths
        PROVE  Witnessing(t, row.user, f)'
    <3>1. PICK l \in Linked(parsers[s], line) :
             row = [user |-> l.user, source |-> "join", paths |-> {<<s, l.folder>>}]
      BY DEF LinkRows
    <3>2. t = s /\ f = l.folder /\ row.user = l.user
      BY <2>2, <3>1
    <3>3. Witnessing(s, l.user, l.folder)'
      BY <1>3
    <3> QED BY <3>2, <3>3
  <2>3. ASSUME NEW row \in found PROVE row.source # "save"
    BY DEF LinkRows
  <2> QED BY <2>1, <2>2, <2>3
<1>5. \A t \in Shards, u \in Users, f \in Names :
         <<t, f>> \in registry.paths[u] => Witnessing(t, u, f)'
  <2>1. \A t \in Shards, u \in Users, f \in Names :
           <<t, f>> \in registry.paths[u] => Witnessing(t, u, f)
    BY DEF LinksWitnessed, Witnessing
  <2> QED BY <2>1, StaysWitnessed
<1>6. CASE Records(joined \cup found)
  <2> HIDE DEF joined, found
  <2>1. registry \in Registries /\ Cardinality(Known(registry)) <= MaxPlayers
    BY DEF PlayersTypeOK
  <2> QED BY <1>2, <1>4, <1>5, <1>6, <2>1, RecordsWitnessed
<1>7. CASE registry' = registry
  BY <1>5, <1>7 DEF LinksWitnessed, PathsByEvidence, Witnessing
<1>8. Records(joined \cup found) \/ registry' = registry
  BY <1>1 DEF Reads
<1> QED BY <1>6, <1>7, <1>8

LEMMA RowsStep == PlayersInv /\ [PlayersNext]_vars => RowsWitnessed'
<1> SUFFICES ASSUME PlayersInv, [PlayersNext]_vars PROVE RowsWitnessed'
  OBVIOUS
<1> USE DEF PlayersInv
\* Rows that stay are still witnessed.
<1>1. ASSUME NEW row \in rows \cup upload
      PROVE  /\ row.source # "save"
             /\ \A s \in Shards, f \in Names : <<s, f>> \in row.paths => Witnessing(s, row.user, f)'
  BY StaysWitnessed DEF RowsWitnessed
<1>2. ASSUME rows' \cup upload' \subseteq rows \cup upload PROVE RowsWitnessed'
  BY <1>1, <1>2 DEF RowsWitnessed
<1>3. CASE Gather
  <2>1. upload' = upload
    BY <1>3 DEF Gather
  <2>2. ASSUME NEW row \in rows'
        PROVE  /\ row.source # "save"
               /\ \A s \in Shards, f \in Names : <<s, f>> \in row.paths => Witnessing(s, row.user, f)'
    <3>1. /\ row.source # "save"
          /\ \/ row.paths = {}
             \/ \E s \in Shards : \E l \in logged[s] :
                   row.user = l.user /\ row.paths = {<<s, l.folder>>}
      BY <1>3, GatheredRows
    <3>2. ASSUME NEW t \in Shards, NEW l \in logged[t],
                 row.user = l.user, row.paths = {<<t, l.folder>>},
                 NEW s \in Shards, NEW f \in Names, <<s, f>> \in row.paths
          PROVE  Witnessing(s, row.user, f)'
      <4>1. s = t /\ f = l.folder /\ row.user = l.user
        BY <3>2
      <4>2. l \in witnessed[t] /\ l = [user |-> l.user, folder |-> l.folder]
        BY DEF ParserInv, PlayersTypeOK, Links
      <4>3. Witnessing(s, row.user, f)
        BY <4>1, <4>2 DEF Witnessing
      <4> QED BY <4>3, StaysWitnessed
    <3> QED BY <3>1, <3>2
  <2> QED BY <1>1, <2>1, <2>2 DEF RowsWitnessed
<1>4. ASSUME NEW new \in Uploads, Import(new) PROVE RowsWitnessed'
  <2>1. rows' = rows /\ witnessed' = [s \in Shards |-> witnessed[s] \cup new.links[s]]
    BY <1>4 DEF Import
  <2>2. ASSUME NEW row \in upload'
        PROVE  /\ row.source # "save"
               /\ \A s \in Shards, f \in Names : <<s, f>> \in row.paths => Witnessing(s, row.user, f)'
    <3>1. /\ row.source # "save"
          /\ \/ row.paths = {}
             \/ \E s \in Shards : \E l \in new.links[s] :
                   row.user = l.user /\ row.paths = {<<s, l.folder>>}
      BY <1>4, UploadedRows
    <3>2. ASSUME NEW t \in Shards, NEW l \in new.links[t],
                 row.user = l.user, row.paths = {<<t, l.folder>>},
                 NEW s \in Shards, NEW f \in Names, <<s, f>> \in row.paths
          PROVE  Witnessing(s, row.user, f)'
      <4>1. s = t /\ f = l.folder /\ row.user = l.user
        BY <3>2
      <4>2. new.links[t] \in SUBSET Links
        BY PlayersAssumption
      <4>3. l \in witnessed'[t] /\ l = [user |-> l.user, folder |-> l.folder]
        BY <2>1, <4>2 DEF Links
      <4> QED BY <4>1, <4>3 DEF Witnessing
    <3> QED BY <3>1, <3>2
  <2> QED BY <1>1, <2>1, <2>2 DEF RowsWitnessed
<1>5. ASSUME NEW s \in Shards, NEW k \in Readers, NEW line \in Printed[s], Reads(s, k, line)
      PROVE  rows' = rows /\ upload' = upload
  BY <1>5 DEF Reads, locals
<1>6. RecordRows \/ Prune \/ Finish \/ RefreshFails \/ RecordUpload
        => rows' \cup upload' \subseteq rows \cup upload
  BY DEF RecordRows, Prune, Finish, RefreshFails, RecordUpload
<1>7. CASE Start \/ Stop \/ UNCHANGED vars
  <2>1. rows' = rows /\ upload' = upload
    BY <1>7 DEF Start, Stop, locals, vars
  <2> QED BY <1>2, <2>1
<1>8. ASSUME NEW u \in Users, Edit({u}) PROVE RowsWitnessed'
  <2>1. rows' = rows /\ upload' = upload
    BY <1>8 DEF Edit, locals
  <2> QED BY <1>2, <2>1
<1>9. ASSUME NEW p \in Places, GameSaves(p) PROVE RowsWitnessed'
  <2>1. rows' = rows /\ upload' = upload
    BY <1>9 DEF GameSaves, locals
  <2> QED BY <1>2, <2>1
<1>10. ASSUME NEW s \in Shards, NEW k \in Readers, NEW line \in Printed[s], Reads(s, k, line)
       PROVE  RowsWitnessed'
  BY <1>2, <1>5, <1>10
<1> QED BY <1>2, <1>3, <1>4, <1>6, <1>7, <1>8, <1>9, <1>10 DEF PlayersNext, Discovers

LEMMA LinksStep == PlayersInv /\ [PlayersNext]_vars => LinksWitnessed' /\ PathsByEvidence'
<1> SUFFICES ASSUME PlayersInv, [PlayersNext]_vars PROVE LinksWitnessed' /\ PathsByEvidence'
  OBVIOUS
<1> USE DEF PlayersInv
<1>1. \A t \in Shards, u \in Users, f \in Names :
         <<t, f>> \in registry.paths[u] => Witnessing(t, u, f)'
  <2>1. \A t \in Shards, u \in Users, f \in Names :
           <<t, f>> \in registry.paths[u] => Witnessing(t, u, f)
    BY DEF LinksWitnessed, Witnessing
  <2> QED BY <2>1, StaysWitnessed
<1>2. ASSUME registry' = registry PROVE LinksWitnessed' /\ PathsByEvidence'
  BY <1>1, <1>2 DEF LinksWitnessed, PathsByEvidence, Witnessing
<1>3. ASSUME NEW row \in rows \cup upload
      PROVE  /\ row.source # "save"
             /\ \A s \in Shards, f \in Names : <<s, f>> \in row.paths => Witnessing(s, row.user, f)'
  BY StaysWitnessed DEF RowsWitnessed
<1>4. /\ registry \in Registries /\ Cardinality(Known(registry)) <= MaxPlayers
      /\ rows \in SUBSET Rows /\ upload \in SUBSET Rows
  BY DEF PlayersTypeOK
<1>5. CASE RecordRows
  <2>1. Records(rows)
    BY <1>5 DEF RecordRows
  <2> QED BY <1>1, <1>3, <1>4, <2>1, RecordsWitnessed
<1>6. CASE Finish
  <2>1. Records(rows \cup SaveRows)
    BY <1>6 DEF Finish
  <2>2. rows \cup SaveRows \in SUBSET Rows
    BY <1>4, SaveRowsAre
  <2>3. \A row \in rows \cup SaveRows : row.paths # {} => row.source # "save"
    BY <1>3, SaveRowsAre
  <2>4. \A row \in rows \cup SaveRows, s \in Shards, f \in Names :
           <<s, f>> \in row.paths => Witnessing(s, row.user, f)'
    BY <1>3, SaveRowsAre
  <2> QED BY <1>1, <1>4, <2>1, <2>2, <2>3, <2>4, RecordsWitnessed
<1>7. CASE RecordUpload
  <2>1. Records(upload)
    BY <1>7 DEF RecordUpload
  <2> QED BY <1>1, <1>3, <1>4, <2>1, RecordsWitnessed
<1>8. CASE Prune
  <2>1. /\ registry' = registry \/ registry' = data'
        /\ data' = Pruned(Read(registry), {c[2] : c \in scanned'})
    BY <1>8 DEF Prune, Written, DiscoverInv
  <2>2. \A u \in Users :
           /\ data'.paths[u] \subseteq Read(registry).paths[u]
           /\ data'.sources[u] \ {"save"} = Read(registry).sources[u] \ {"save"}
    BY <2>1, ReadType, PrunedType DEF PlayersTypeOK
  <2>3. \A u \in Users : /\ Read(registry).paths[u] \subseteq registry.paths[u]
                         /\ Read(registry).sources[u] \subseteq {"save"} => Read(registry).paths[u] = {}
    BY ReadType, NobodyType DEF PathsByEvidence, PlayersTypeOK
  <2>4. CASE registry' = data'
    <3>1. LinksWitnessed'
      BY <1>1, <2>2, <2>3, <2>4 DEF LinksWitnessed, Witnessing
    <3>2. PathsByEvidence'
      BY <2>2, <2>3, <2>4 DEF PathsByEvidence
    <3> QED BY <3>1, <3>2
  <2> QED BY <1>2, <2>1, <2>4
<1>9. ASSUME NEW new \in Uploads, Import(new) PROVE LinksWitnessed' /\ PathsByEvidence'
  <2>1. \A u \in Users : registry'.paths[u] = {}
    BY <1>9, NobodyType DEF Import
  <2> QED BY <2>1 DEF LinksWitnessed, PathsByEvidence
<1>10. CASE Gather \/ RefreshFails \/ Start \/ Stop \/ UNCHANGED vars
  <2>1. registry' = registry
    BY <1>10 DEF Gather, RefreshFails, Start, Stop, vars
  <2> QED BY <1>2, <2>1
<1>11. ASSUME NEW u \in Users, Edit({u}) PROVE LinksWitnessed' /\ PathsByEvidence'
  <2>1. registry' = registry
    BY <1>11 DEF Edit
  <2> QED BY <1>2, <2>1
<1>12. ASSUME NEW p \in Places, GameSaves(p) PROVE LinksWitnessed' /\ PathsByEvidence'
  <2>1. registry' = registry
    BY <1>12 DEF GameSaves
  <2> QED BY <1>2, <2>1
<1> QED BY <1>5, <1>6, <1>7, <1>8, <1>9, <1>10, <1>11, <1>12, ReadsWitnessed DEF PlayersNext, Discovers

-----------------------------------------------------------------------------
(* Refresh.                                                                *)

\* A folder's account is named by it, or is the only one told of.
LEMMA FolderUserIs ==
    ASSUME NEW name \in Names, NEW known \in SUBSET Users,
           FolderUser(name, known) # NoUser
    PROVE  LET u == FolderUser(name, known) IN
           \/ name = u /\ u \notin Suffixed
           \/ u \in Candidates(name) /\ Candidates(name) \cap known = {u}
<1> DEFINE matched == Candidates(name) \cap known
           u == FolderUser(name, known)
<1>1. CASE Cardinality(matched) = 1
  <2>1. matched \subseteq Users
    OBVIOUS
  <2>2. IsFiniteSet(matched)
    BY <2>1, FS_Subset, PlayersAssumption
  <2>3. PICK v : matched = {v}
    BY <1>1, <2>2, FS_Singleton
  <2>4. (CHOOSE w \in Users : w \in matched) = v
    BY <2>1, <2>3
  <2>5. u = v
    BY <1>1, <2>3, <2>4 DEF FolderUser
  <2> QED BY <2>3, <2>5
<1>2. CASE Cardinality(matched) # 1
  <2>1. FolderUser(name, known) = name /\ name \in Users \ Suffixed
    BY <1>2 DEF FolderUser
  <2> QED BY <2>1
<1> QED BY <1>1, <1>2

LEMMA KnownTold ==
    ASSUME PlayersTypeOK
    PROVE  KnownUsers(Read(registry)) = Told /\ Told \in SUBSET Users
<1>1. \A row \in rows : row.user \in Users
  BY DEF PlayersTypeOK, Rows
<1> QED BY <1>1 DEF KnownUsers, Told, PlayersTypeOK

\* The file is as discover() has it afterwards.
LEMMA PruneIs ==
    ASSUME PlayersTypeOK, DiscoverInv, Prune
    PROVE  /\ data = Read(registry) /\ data' = Pruned(data, {c[2] : c \in scanned'})
           /\ registry' = registry \/ registry' = data'
           /\ Read(registry') = data'
<1>1. /\ data = Read(registry) /\ data' = Pruned(data, {c[2] : c \in scanned'})
      /\ registry' = IF data' = Read(registry) THEN registry ELSE data'
  BY DEF Prune, Written, DiscoverInv
<1>2. registry \in Registries /\ Cardinality(Known(registry)) <= MaxPlayers
  BY DEF PlayersTypeOK
<1>3. CASE Read(registry) = Nobody
  <2>1. data' = Read(registry)
    BY <1>1, <1>2, <1>3, PrunedReadable
  <2> QED BY <1>1, <2>1
<1>4. CASE Read(registry) = registry /\ ~Outgrown(registry)
  <2>1. registry' = data' /\ ~Outgrown(data')
    BY <1>1, <1>2, <1>4, PrunedReadable
  <2> QED BY <1>1, <2>1 DEF Read
<1> QED BY <1>2, <1>3, <1>4, ReadType

LEMMA PruneStep ==
    ASSUME PlayersTypeOK, DiscoverInv, Prune
    PROVE  DiscoverInv'
<1>1. /\ data = Read(registry) /\ data' = Pruned(data, {c[2] : c \in scanned'})
      /\ data' = Read(registry')
      /\ scanned' = {<<p, FolderUser(p[2], Told)>> : p \in saves}
      /\ pc' = "pruned" /\ rows' = rows /\ permitted' = permitted
  BY KnownTold, PruneIs DEF Prune, disk
<1>2. \A u \in Users : /\ data'.sources[u] \ {"save"} = data.sources[u] \ {"save"}
                       /\ "save" \in data'.sources[u] => u \in {c[2] : c \in scanned'}
  <2>1. data \in Registries /\ Cardinality(Known(data)) <= MaxPlayers
    BY <1>1, ReadType DEF PlayersTypeOK
  <2> DEFINE valid == {c[2] : c \in scanned'}
  <2>2. \A u \in Users :
           /\ Pruned(data, valid).sources[u] \ {"save"} = data.sources[u] \ {"save"}
           /\ "save" \in Pruned(data, valid).sources[u] => u \in valid
    <3> HIDE DEF valid
    <3> QED BY <2>1, PrunedType
  <2> QED BY <1>1, <2>2
<1>3. Told' = Told
  BY <1>1, <1>2 DEF Told
<1>4. ASSUME NEW c \in scanned', c[2] # NoUser
      PROVE  \/ c[1][2] = c[2] /\ c[2] \notin Suffixed
             \/ c[2] \in Candidates(c[1][2]) /\ Candidates(c[1][2]) \cap Told = {c[2]}
  <2>1. PICK p \in saves : c = <<p, FolderUser(p[2], Told)>>
    BY <1>1
  <2>2. p[2] \in Names
    BY PlayersAssumption DEF PlayersTypeOK
  <2>3. c[1][2] = p[2] /\ c[2] = FolderUser(p[2], Told)
    BY <2>1
  <2> QED BY <1>4, <2>2, <2>3, KnownTold, FolderUserIs
<1> QED BY <1>1, <1>2, <1>3, <1>4 DEF DiscoverInv

LEMMA DiscoverStep == PlayersTypeOK /\ DiscoverInv /\ [PlayersNext]_vars => DiscoverInv'
<1> SUFFICES ASSUME PlayersTypeOK, DiscoverInv, [PlayersNext]_vars PROVE DiscoverInv'
  OBVIOUS
<1>1. ASSUME pc' \notin {"locked", "pruned"} PROVE DiscoverInv'
  BY <1>1 DEF DiscoverInv
<1>2. ASSUME NEW s \in Shards, NEW k \in Readers, NEW line \in Printed[s], Reads(s, k, line)
      PROVE  DiscoverInv'
  <2>1. pc' \notin {"locked", "pruned"}
    BY <1>2 DEF Reads, Unlocked
  <2> QED BY <1>1, <2>1
<1>3. CASE Start \/ Stop
  <2>1. pc' \notin {"locked", "pruned"}
    BY <1>3 DEF Start, Stop
  <2> QED BY <1>1, <2>1
<1>4. CASE Gather \/ Finish \/ RefreshFails \/ RecordUpload
  <2>1. pc' \notin {"locked", "pruned"}
    BY <1>4 DEF Gather, Finish, RefreshFails, RecordUpload
  <2> QED BY <1>1, <2>1
<1>5. CASE RecordRows
  BY <1>5 DEF RecordRows, DiscoverInv
<1>6. ASSUME NEW new \in Uploads, Import(new) PROVE DiscoverInv'
  <2>1. pc' \notin {"locked", "pruned"}
    BY <1>6 DEF Import
  <2> QED BY <1>1, <2>1
<1>7. ASSUME NEW u \in Users, Edit({u}) PROVE DiscoverInv'
  <2>1. pc' \notin {"locked", "pruned"}
    BY <1>7 DEF Edit
  <2> QED BY <1>1, <2>1
<1>8. ASSUME UNCHANGED <<pc, registry, data, scanned, rows, permitted>> PROVE DiscoverInv'
  BY <1>8 DEF DiscoverInv, Told
<1>9. ASSUME NEW p \in Places, GameSaves(p) PROVE DiscoverInv'
  BY <1>8, <1>9 DEF GameSaves, locals
<1>10. CASE UNCHANGED vars
  BY <1>8, <1>10 DEF vars, locals, disk
<1> QED BY <1>2, <1>3, <1>4, <1>5, <1>6, <1>7, <1>9, <1>10, PruneStep DEF PlayersNext, Discovers

-----------------------------------------------------------------------------
(* The theorems.                                                           *)

LEMMA PlayersInvHolds == PlayersSpec => []PlayersInv
<1>1. PlayersInit => PlayersInv
  <2> SUFFICES ASSUME PlayersInit PROVE PlayersInv
    OBVIOUS
  <2>1. ParserInv
    <3>1. \A s \in Shards : /\ parsers[s] = Fresh /\ own[s] = Fresh /\ tail[s] = <<Other, Other>>
                            /\ logged[s] = {}
      BY DEF PlayersInit
    <3>2. /\ Fresh.pending = NoLine /\ Fresh.previous_resume = FALSE /\ Fresh.authenticated = {}
          /\ <<Other, Other>>[1].kind # "resuming"
      BY OtherIsLine DEF Fresh
    <3> QED BY <3>1, <3>2 DEF ParserInv
  <2>2. \A u \in Users : registry.paths[u] = {}
    BY NobodyType DEF PlayersInit
  <2>3. LinksWitnessed /\ PathsByEvidence
    BY <2>2 DEF LinksWitnessed, PathsByEvidence
  <2>4. RowsWitnessed /\ DiscoverInv
    BY DEF PlayersInit, RowsWitnessed, DiscoverInv
  <2> QED BY <2>1, <2>3, <2>4, InitType DEF PlayersInv
<1>2. PlayersInv /\ [PlayersNext]_vars => PlayersInv'
  BY TypeStep, ParserStep, RowsStep, LinksStep, DiscoverStep DEF PlayersInv
<1> QED BY <1>1, <1>2, PTL DEF PlayersSpec

\* The registry never holds more than its limit, and every local of a refresh
\* has its type.
THEOREM PlayersTyped == PlayersSpec => []PlayersTypeOK
<1>1. PlayersInv => PlayersTypeOK
  BY DEF PlayersInv
<1> QED BY <1>1, PlayersInvHolds, PTL

\* A character path is attributed only to a user a process of its shard, or an
\* uploaded log, names as its owner.
THEOREM LinksTrue == PlayersSpec => []LinksWitnessed
<1>1. PlayersInv => LinksWitnessed
  BY DEF PlayersInv
<1> QED BY <1>1, PlayersInvHolds, PTL

\* No account is shown beside a character on the word of a folder's name alone
\* when the name fits two.
THEOREM LabelsJustified == PlayersSpec => []NeverGuessed
<1>1. PlayersInv => NeverGuessed
  <2> SUFFICES ASSUME PlayersInv, pc = "pruned", NEW c \in scanned, Shown(c) # NoUser
               PROVE  LET u == Shown(c)
                          name == c[1][2]
                      IN \/ name = u /\ u \notin Suffixed
                         \/ u \in Candidates(name) /\ Candidates(name) \cap Told = {u}
                         \/ {v \in Users : c[1] \in Read(registry).paths[v]} = {u}
    BY DEF NeverGuessed, Told
  <2>1. data = Read(registry)
    BY DEF PlayersInv, DiscoverInv
  <2>2. CASE c[2] # NoUser
    BY <2>2 DEF PlayersInv, DiscoverInv, Shown
  <2>3. CASE c[2] = NoUser
    <3> DEFINE matches == {v \in Users : c[1] \in Read(registry).paths[v]}
    <3>1. Cardinality(matches) = 1 /\ Shown(c) = (CHOOSE w \in Users : w \in matches)
      BY <2>1, <2>3 DEF Shown
    <3>2. IsFiniteSet(matches)
      BY FS_Subset, PlayersAssumption
    <3>3. PICK v : matches = {v}
      BY <3>1, <3>2, FS_Singleton
    <3>4. v \in Users
      BY <3>3
    <3>5. (CHOOSE w \in Users : w \in matches) = v
      BY <3>3, <3>4
    <3> QED BY <3>1, <3>3, <3>5
  <2> QED BY <2>2, <2>3
<1> QED BY <1>1, PlayersInvHolds, PTL

\* A refresh leaves no candidate that no folder supports.
THEOREM RefreshPrunes == PlayersSpec => StaleCandidatesGo
<1>1. PlayersInv /\ [PlayersNext]_vars =>
        [Finish => \A u \in Users : "save" \in Read(registry').sources[u] =>
                      \E c \in scanned : c[2] = u]_vars
  <2> SUFFICES ASSUME PlayersInv, Finish, NEW u \in Users, "save" \in Read(registry').sources[u]
               PROVE  \E c \in scanned : c[2] = u
    OBVIOUS
  <2>1. /\ rows \cup SaveRows \in SUBSET Rows /\ Records(rows \cup SaveRows)
        /\ registry \in Registries /\ Cardinality(Known(registry)) <= MaxPlayers
    BY SaveRowsAre DEF PlayersInv, PlayersTypeOK, Finish
  <2>2. PICK rec \in Registries :
           /\ registry' = rec \/ (registry' = registry /\ rec = Read(registry))
           /\ Cardinality(Known(rec)) <= MaxPlayers
           /\ \A x \in rec.sources[u] : x \in Read(registry).sources[u] \/
                 \E row \in rows \cup SaveRows : row.user = u /\ row.source = x
    BY <2>1, RecordsAre
  <2>6. "save" \in rec.sources[u]
    BY <2>2, ReadType
  <2>3. \/ "save" \in Read(registry).sources[u]
        \/ \E row \in rows \cup SaveRows : row.user = u /\ row.source = "save"
    BY <2>2, <2>6
  <2>4. CASE "save" \in Read(registry).sources[u]
    BY <2>4 DEF PlayersInv, DiscoverInv, Finish
  <2>5. ASSUME NEW row \in rows \cup SaveRows, row.user = u, row.source = "save"
        PROVE  \E c \in scanned : c[2] = u
    BY <2>5, SaveRowsAre DEF PlayersInv, RowsWitnessed
  <2> QED BY <2>3, <2>4, <2>5
<1> QED BY <1>1, PlayersInvHolds, PTL DEF PlayersSpec, StaleCandidatesGo

\* Refreshes and log readers, interleaved, lose nothing that is known of a
\* player by other than folders while _read accepts the registry.  (What a file
\* of more than its limit held is lost: see JoinsPersist.)
THEOREM EvidenceKept == PlayersSpec => EvidenceStays
<1> DEFINE Stays == Remembers(Read(registry), registry')
<1>1. ASSUME PlayersInv, NEW new \in SUBSET Rows, Records(new) PROVE Stays
  <2>1. registry \in Registries /\ Cardinality(Known(registry)) <= MaxPlayers
    BY <1>1 DEF PlayersInv, PlayersTypeOK
  <2>2. PICK rec \in Registries :
           /\ registry' = rec \/ registry' = registry
           /\ \A u \in Users : /\ Read(registry).sources[u] \subseteq rec.sources[u]
                               /\ Read(registry).paths[u] \subseteq rec.paths[u]
    BY <1>1, <2>1, RecordsAre
  <2> QED BY <2>1, <2>2, ReadType DEF Remembers
<1>2. ASSUME PlayersInv, registry' = registry PROVE Stays
  BY <1>2, ReadType DEF PlayersInv, PlayersTypeOK, Remembers
<1>3. ASSUME PlayersInv, Prune PROVE Stays
  <2>1. /\ registry' = registry \/ registry' = data'
        /\ data' = Pruned(Read(registry), {c[2] : c \in scanned'})
    BY <1>3, PruneIs DEF PlayersInv
  <2>2. \A u \in Users :
           /\ data'.sources[u] \ {"save"} = Read(registry).sources[u] \ {"save"}
           /\ data'.sources[u] # {} => data'.paths[u] = Read(registry).paths[u]
    BY <1>3, <2>1, ReadType, PrunedType DEF PlayersInv, PlayersTypeOK
  <2>3. \A u \in Users : data'.sources[u] = {} => Read(registry).paths[u] = {}
    <3> SUFFICES ASSUME NEW u \in Users, data'.sources[u] = {} PROVE Read(registry).paths[u] = {}
      OBVIOUS
    <3>1. Read(registry) = Nobody \/ Read(registry) = registry
      BY <1>3, ReadType DEF PlayersInv, PlayersTypeOK
    <3>2. Read(registry).sources[u] \ {"save"} = {}
      BY <2>2
    <3>3. Read(registry).sources[u] \subseteq {"save"}
      BY <3>2
    <3> QED BY <1>3, <3>1, <3>3, NobodyType DEF PlayersInv, PathsByEvidence
  <2>4. CASE registry' = data'
    BY <2>2, <2>3, <2>4 DEF Remembers
  <2> QED BY <1>2, <1>3, <2>1, <2>4
<1>4. ASSUME PlayersInv, NEW s \in Shards, NEW k \in Readers, NEW line \in Printed[s],
             Reads(s, k, line)
      PROVE  Stays
  <2> DEFINE joined == NameRows(Greets(line), "join")
             found == LinkRows(s, Linked(parsers[ParserOf(s)], line), "join")
  <2>1. joined \cup found \in SUBSET Rows
    <3>1. Greets(line) \in SUBSET Users /\ Linked(parsers[ParserOf(s)], line) \in SUBSET Links
      BY DEF Greets, Linked
    <3> QED BY <3>1, RowsType DEF Sources
  <2>2. Records(joined \cup found) \/ registry' = registry
    BY <1>4 DEF Reads
  <2> HIDE DEF joined, found
  <2> QED BY <1>1, <1>2, <1>4, <2>1, <2>2
<1>5. ASSUME PlayersInv, RecordRows \/ Finish \/ RecordUpload PROVE Stays
  <2>1. \E new \in SUBSET Rows : Records(new)
    BY <1>5, SaveRowsAre DEF RecordRows, Finish, RecordUpload, PlayersInv, PlayersTypeOK
  <2> QED BY <1>1, <1>5, <2>1
<1>6. ASSUME PlayersInv, Gather \/ RefreshFails \/ Start \/ Stop PROVE Stays
  <2>1. registry' = registry
    BY <1>6 DEF Gather, RefreshFails, Start, Stop
  <2> QED BY <1>2, <1>6, <2>1
<1>7. ASSUME PlayersInv, NEW u \in Users, Edit({u}) PROVE Stays
  <2>1. registry' = registry
    BY <1>7 DEF Edit
  <2> QED BY <1>2, <1>7, <2>1
<1>8. ASSUME PlayersInv, NEW p \in Places, GameSaves(p) PROVE Stays
  <2>1. registry' = registry
    BY <1>8 DEF GameSaves
  <2> QED BY <1>2, <1>8, <2>1
<1>9. PlayersInv /\ [PlayersNext]_vars => [Stays \/ \E new \in Uploads : Import(new)]_vars
  <2> SUFFICES ASSUME PlayersInv, PlayersNext PROVE Stays \/ \E new \in Uploads : Import(new)
    OBVIOUS
  <2> HIDE DEF Stays
  <2> QED BY <1>3, <1>4, <1>5, <1>6, <1>7, <1>8 DEF PlayersNext, Discovers
<1> QED BY <1>9, PlayersInvHolds, PTL DEF PlayersSpec, EvidenceStays
=============================================================================
