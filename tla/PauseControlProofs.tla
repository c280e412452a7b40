------------------------- MODULE PauseControlProofs -------------------------
(* That pause readings and confirmations can be believed, for any number   *)
(* of worlds, processes and unread lines.                                  *)
EXTENDS PauseControl, SequenceTheorems, TLAPS

\* What is to be read from the processes of the table.
Table ==
    /\ Current # {} => world_id \in Worlds /\ Current = ShardsOf(world_id)
    /\ \A s \in Current : /\ processes[s] \in used
                          /\ serves[processes[s]] = [world |-> world_id, shard |-> s]
    /\ \A p \in Processes : up[p] => IsCurrent(p)
    /\ \A p \in Processes \ used : output[p] = << >> /\ native[p] = "unpaused"

\* The last line of a process is what it is; the setting comes first.
LastWord ==
    \A s \in Alive : LET o == output[processes[s]] IN
        /\ o = << >> => pause_states[s] \in {"unknown", native[processes[s]]}
        /\ o # << >> => o[Len(o)] \in Settings \cup {native[processes[s]]}
        /\ \A i \in 1..Len(o) : o[i] \in Settings =>
              i = 1 /\ o[i] = saved[world_id] /\ pause_states[s] = "unknown"
        /\ loaded[s] \in {"unknown", saved[world_id]}

\* A report that would confirm the request was made since the request, or by a
\* shard whose lines had not all been read then.
Fresh ==
    call = "waiting" =>
        /\ \A s \in Targets : targets[s] = processes[s]
        /\ \A s \in Targets : up[targets[s]] /\ s \notin met \cup behind =>
              /\ pause_states[s] \notin Wanted(paused)
              /\ \A i \in 1..Len(output[targets[s]]) :
                    output[targets[s]][i] \notin Wanted(paused)

PauseInv == PauseTypeOK /\ Table /\ LastWord /\ Fresh

\* Lines at the two ends of a pipe.
LEMMA Written ==
    ASSUME NEW o \in Seq(Lines), NEW n \in Lines
    PROVE  /\ Append(o, n) \in Seq(Lines) /\ Append(o, n) # << >>
           /\ Len(Append(o, n)) = Len(o) + 1 /\ Len(o) \in Nat
           /\ Append(o, n)[Len(o) + 1] = n
           /\ \A i \in 1..Len(o) : Append(o, n)[i] = o[i]
  BY AppendProperties

LEMMA Read ==
    ASSUME NEW o \in Seq(Lines), o # << >>
    PROVE  /\ Tail(o) \in Seq(Lines) /\ Len(o) \in Nat /\ Len(o) >= 1
           /\ Head(o) \in Lines /\ Head(o) = o[1]
           /\ Len(Tail(o)) = Len(o) - 1
           /\ \A i \in 1..Len(Tail(o)) : Tail(o)[i] = o[i + 1]
           /\ Tail(o) = << >> => Len(o) = 1
<1>1. Len(o) \in Nat /\ Len(o) >= 1
  BY EmptySeq
<1>2. Head(o) = o[1]
  OBVIOUS
<1>3. /\ Head(o) \in Lines /\ Tail(o) \in Seq(Lines) /\ Len(Tail(o)) = Len(o) - 1
      /\ \A i \in 1..Len(Tail(o)) : Tail(o)[i] = o[i + 1]
  BY HeadTailProperties
<1>4. Tail(o) = << >> => Len(Tail(o)) = 0
  BY EmptySeq
<1> QED BY <1>1, <1>2, <1>3, <1>4

LEMMA TypeKept == PauseTypeOK /\ [PauseNext]_vars => PauseTypeOK'
<1> SUFFICES ASSUME PauseTypeOK, [PauseNext]_vars PROVE PauseTypeOK'
  OBVIOUS
<1> USE DEF PauseTypeOK, vars, table, games, request
<1>0. NoTable \in [Shards -> Processes \cup {NoProcess}] /\ NoStates \in [Shards -> {"unknown"}]
  BY DEF NoTable, NoStates
<1>1. CASE UNCHANGED vars
  BY <1>1
<1>2. ASSUME NEW w \in Worlds, NEW v \in Settings, Edit(w, v) PROVE PauseTypeOK'
  BY <1>2 DEF Edit
<1>3. ASSUME NEW w \in Worlds, NEW new \in [ShardsOf(w) -> Processes \ used], Start(w, new)
      PROVE  PauseTypeOK'
  <2> DEFINE born == {new[s] : s \in ShardsOf(w)}
  <2>1. ShardsOf(w) \subseteq Shards
    BY DEF ShardsOf, Shards
  <2>2. born \subseteq Processes
    BY <1>3
  <2>3. /\ processes' \in [Shards -> Processes \cup {NoProcess}] /\ world_id' = w
        /\ used' \subseteq Processes /\ up' \in [Processes -> BOOLEAN] /\ open' \in [Processes -> BOOLEAN]
    BY <1>3, <2>2 DEF Start
  <2>4. pause_states' = NoStates /\ loaded' = NoStates
    BY <1>3 DEF Start, Reset
  <2>5. serves' \in [Processes -> [world : Worlds \cup {NoWorld}, shard : Shards]]
    <3>1. \A p \in born : (CHOOSE s \in ShardsOf(w) : new[s] = p) \in Shards
      BY <2>1
    <3>2. serves' = [p \in Processes |->
                       IF p \in born THEN [world |-> w, shard |-> CHOOSE s \in ShardsOf(w) : new[s] = p]
                                     ELSE serves[p]]
      BY <1>3 DEF Start
    <3>3. \A p \in born : [world |-> w, shard |-> CHOOSE s \in ShardsOf(w) : new[s] = p]
                             \in [world : Worlds \cup {NoWorld}, shard : Shards]
      BY <3>1
    <3> HIDE DEF born
    <3> QED BY <3>2, <3>3
  <2>6. output' \in [Processes -> Seq(Lines)]
    <3>1. <<saved[w]>> \in Seq(Lines)
      BY DEF Lines
    <3> QED BY <1>3, <3>1 DEF Start
  <2> QED BY <1>3, <1>0, <2>3, <2>4, <2>5, <2>6 DEF Start
<1>4. ASSUME NEW w \in Worlds, NEW on \in BOOLEAN, SetPause(w, on) PROVE PauseTypeOK'
  <2>1. \A reached : Sent(reached, on) \in [Processes -> Seq(BOOLEAN)]
    <3>1. \A p \in Processes : Append(console[p], on) \in Seq(BOOLEAN)
      BY AppendProperties
    <3> QED BY <3>1 DEF Sent
  <2>2. console' \in [Processes -> Seq(BOOLEAN)]
    <3>1. \E reached : console' = Sent(reached, on)
      BY <1>4 DEF SetPause
    <3> QED BY <2>1, <3>1
  <2>3. ShardsOf(w) \subseteq Shards
    BY DEF ShardsOf, Shards
  <2>4. /\ call' \in {"idle", "waiting", "stop", "force"} /\ paused' \in BOOLEAN /\ asked' \subseteq Shards /\ behind' \subseteq Shards
        /\ targets' \in [Shards -> Processes \cup {NoProcess}] /\ met' \subseteq Shards
    BY <1>4, <2>3 DEF SetPause, Asked
  <2> QED BY <1>4, <2>2, <2>4 DEF SetPause
<1>5. ASSUME NEW how \in {"stop", "force"}, StopBegins(how) PROVE PauseTypeOK'
  BY <1>5 DEF StopBegins
<1>6. CASE StopReturns
  BY <1>6, <1>0 DEF StopReturns
<1>7. CASE StopTimesOut \/ Confirmed \/ NotConfirmed
  BY <1>7, <1>0 DEF StopTimesOut, Confirmed, NotConfirmed, RequestEnds
<1>8. ASSUME NEW gone, Exited(gone), UNCHANGED <<table, saved, request>>,
             call' \in {"idle", "waiting", "stop", "force"}
      PROVE  PauseTypeOK'
  <2>1. << >> \in Seq(BOOLEAN)
    OBVIOUS
  <2> QED BY <1>8, <2>1 DEF Exited, Pauses
<1>9. ASSUME NEW p \in Processes, Drifts(p) \/ Handles(p) PROVE PauseTypeOK'
  <2>1. ASSUME NEW n \in Pauses, Changes(p, n)
        PROVE  native' \in [Processes -> Pauses] /\ output' \in [Processes -> Seq(Lines)] /\ met' \subseteq Shards
    BY <2>1, Written DEF Changes, Lines
  <2>2. GameStates \subseteq Pauses
    BY PauseAssumption DEF Pauses
  <2>3. native' \in [Processes -> Pauses] /\ output' \in [Processes -> Seq(Lines)] /\ met' \subseteq Shards
    BY <1>9, <2>1, <2>2 DEF Drifts, Handles
  <2>4. console' \in [Processes -> Seq(BOOLEAN)]
    <3>1. \A q \in Processes : console[q] # << >> => Tail(console[q]) \in Seq(BOOLEAN)
      BY HeadTailProperties
    <3> QED BY <1>9, <3>1 DEF Drifts, Handles
  <2> QED BY <1>9, <2>3, <2>4 DEF Drifts, Handles
<1>10. ASSUME NEW p \in Processes, Reads(p) PROVE PauseTypeOK'
  <2>1. output' \in [Processes -> Seq(Lines)]
    BY <1>10, Read DEF Reads
  <2>2. pause_states' \in [Shards -> Pauses \cup {"unknown"}] /\ loaded' \in [Shards -> Settings \cup {"unknown"}]
    BY <1>10 DEF Reads, Recorded
  <2> QED BY <1>10, <2>1, <2>2 DEF Reads
<1> QED BY <1>1, <1>2, <1>3, <1>4, <1>5, <1>6, <1>7, <1>8, <1>9, <1>10
        DEF PauseNext, CallEnds, Exits, ForceKill

\* Which processes the table has, and that no others are alive.
LEMMA TableKept == PauseTypeOK /\ Table /\ [PauseNext]_vars => Table'
<1> SUFFICES ASSUME PauseTypeOK, Table, [PauseNext]_vars PROVE Table'
  OBVIOUS
<1> USE DEF vars, table, games, request
<1>1. CASE UNCHANGED <<world_id, processes, used, serves>>
           /\ (\A p \in Processes : up'[p] => up[p])
           /\ \A p \in Processes \ used : output'[p] = << >> /\ native'[p] = "unpaused"
  BY <1>1 DEF Table, Current, IsCurrent
<1>2. ASSUME NEW w \in Worlds, NEW new \in [ShardsOf(w) -> Processes \ used], Start(w, new)
      PROVE  Table'
  <2> DEFINE born == {new[s] : s \in ShardsOf(w)}
  <2>1. ShardsOf(w) \subseteq Shards /\ NoProcess \notin born /\ born \subseteq Processes \ used
    BY <1>2, PauseAssumption DEF ShardsOf, Shards
  <2>2. /\ world_id' = w /\ used' = used \cup born
        /\ processes' = [s \in Shards |-> IF s \in ShardsOf(w) THEN new[s] ELSE NoProcess]
    BY <1>2 DEF Start
  <2>3. Current' = ShardsOf(w) /\ \A s \in ShardsOf(w) : processes'[s] = new[s] /\ new[s] \in born
    BY <2>1, <2>2 DEF Current
  <2>4. \A s \in ShardsOf(w) : serves'[new[s]] = [world |-> w, shard |-> s]
    <3>1. \A s \in ShardsOf(w) : (CHOOSE t \in ShardsOf(w) : new[t] = new[s]) = s
      BY <1>2 DEF Start
    <3> QED BY <1>2, <2>1, <2>3, <3>1 DEF Start
  <2>5. \A p \in Processes : up'[p] => p \in born
    <3>1. \A p \in Processes : up'[p] = (p \in born \/ up[p])
      BY <1>2 DEF Start
    <3>2. \A p \in Processes : ~up[p]
      BY <1>2, PauseAssumption DEF Start, Table, IsCurrent, Alive, Current, PauseTypeOK
    <3> QED BY <3>1, <3>2
  <2>6. \A p \in Processes \ used' : output'[p] = output[p] /\ native'[p] = native[p]
    BY <1>2, <2>2 DEF Start
  <2>7. \A p \in born : IsCurrent(p)'
    <3>1. ASSUME NEW s \in ShardsOf(w) PROVE IsCurrent(new[s])'
      <4>1. serves'[new[s]] = [world |-> w, shard |-> s]
        BY <2>4, Zenon
      <4>2. serves'[new[s]].world = w /\ serves'[new[s]].shard = s
        BY <4>1
      <4> QED BY <2>2, <2>3, <4>2 DEF IsCurrent
    <3> QED BY <3>1
  <2> HIDE DEF born
  <2> QED BY <2>1, <2>2, <2>3, <2>4, <2>5, <2>6, <2>7 DEF Table
<1>3. CASE StopReturns
  <2>1. \A p \in Processes : ~up[p]
    BY <1>3, PauseAssumption DEF StopReturns, Table, IsCurrent, Alive, Current, PauseTypeOK
  <2>2. Current' = {}
    BY <1>3 DEF StopReturns, Current, NoTable
  <2> QED BY <1>3, <2>1, <2>2 DEF StopReturns, Table
<1>4. ASSUME NEW gone, Exited(gone), UNCHANGED <<world_id, processes>> PROVE Table'
  <2>1. /\ \A p \in Processes : up'[p] => up[p]
        /\ \A p \in Processes \ used : native'[p] = "unpaused"
    BY <1>4 DEF Exited, Table
  <2> QED BY <1>1, <1>4, <2>1 DEF Exited, Table
<1>5. ASSUME NEW p \in Processes, Drifts(p) \/ Handles(p) \/ Reads(p) PROVE Table'
  <2>1. UNCHANGED <<world_id, processes, used, serves, up>>
    BY <1>5 DEF Drifts, Handles, Reads
  <2>2. p \in used
    <3>1. up[p] \/ output[p] # << >>
      BY <1>5 DEF Drifts, Handles, Reads, Changes
    <3>2. up[p] => p \in used
      BY PauseAssumption DEF Table, IsCurrent, Current, PauseTypeOK
    <3> QED BY <3>1, <3>2 DEF Table
  <2>3. \A q \in Processes \ {p} : output'[q] = output[q] /\ native'[q] = native[q]
    BY <1>5 DEF Drifts, Handles, Reads, Changes, PauseTypeOK
  <2> QED BY <1>1, <2>1, <2>2, <2>3 DEF Table
<1>6. CASE UNCHANGED <<world_id, processes, used, serves, up, output, native>>
  BY <1>1, <1>6 DEF Table
<1> QED BY <1>2, <1>3, <1>4, <1>5, <1>6
        DEF PauseNext, CallEnds, Exits, ForceKill, Edit, SetPause, StopBegins, StopTimesOut,
            Confirmed, NotConfirmed, RequestEnds

\* A process that changes state says so; its lines are read in order.
LEMMA LastWordKept == PauseTypeOK /\ Table /\ LastWord /\ [PauseNext]_vars => LastWord'
<1> SUFFICES ASSUME PauseTypeOK, Table, LastWord, [PauseNext]_vars PROVE LastWord'
  OBVIOUS
<1> USE DEF vars, table, games, request
<1>1. CASE /\ UNCHANGED <<world_id, processes, output, native, pause_states, loaded>>
           /\ \A p \in Processes : up'[p] => up[p]
           /\ Alive' # {} => saved'[world_id] = saved[world_id]
  <2>1. Alive' \subseteq Alive
    BY <1>1 DEF Alive, Current, PauseTypeOK
  <2> QED BY <1>1, <2>1 DEF LastWord
<1>2. ASSUME NEW w \in Worlds, NEW v \in Settings, Edit(w, v) PROVE LastWord'
  <2>1. Alive' = Alive
    BY <1>2 DEF Edit, Alive, Current
  <2>2. Alive # {} => saved'[world_id] = saved[world_id]
    BY <1>2 DEF Edit, PauseTypeOK
  <2> QED BY <1>1, <1>2, <2>1, <2>2 DEF Edit
<1>3. ASSUME NEW w \in Worlds, NEW new \in [ShardsOf(w) -> Processes \ used], Start(w, new)
      PROVE  LastWord'
  <2>0. ShardsOf(w) \subseteq Shards /\ saved[w] \in Settings
    BY DEF ShardsOf, Shards, PauseTypeOK
  <2>1. world_id' = w /\ saved' = saved /\ native' = native
        /\ pause_states' = NoStates /\ loaded' = NoStates
    BY <1>3 DEF Start, Reset
  <2>2. \A s \in Alive' : s \in ShardsOf(w) /\ processes'[s] = new[s] /\ new[s] \in Processes \ used
    BY <1>3, <2>0 DEF Start, Alive, Current
  <2>3. \A s \in ShardsOf(w) : output'[new[s]] \in {<< >>, <<saved[w]>>}
    BY <1>3 DEF Start, Table
  <2> SUFFICES ASSUME NEW s \in Alive'
               PROVE  LET o == output'[new[s]] IN
                      /\ o # << >> => o[Len(o)] \in Settings
                      /\ \A i \in 1..Len(o) : o[i] \in Settings => i = 1 /\ o[i] = saved[w]
    BY <2>0, <2>1, <2>2 DEF LastWord, NoStates
  <2>4. CASE output'[new[s]] = << >>
    BY <2>4
  <2>5. CASE output'[new[s]] = <<saved[w]>>
    BY <2>5, <2>0
  <2> QED BY <2>2, <2>3, <2>4, <2>5
<1>4. CASE StopReturns
  BY <1>4 DEF StopReturns, LastWord, Alive, Current, NoTable
<1>5. ASSUME NEW gone, Exited(gone), UNCHANGED <<table, saved>> PROVE LastWord'
  <2>1. Alive' \subseteq Alive /\ \A s \in Alive' : native'[processes[s]] = native[processes[s]]
    BY <1>5 DEF Exited, Alive, Current, PauseTypeOK
  <2> QED BY <1>5, <2>1 DEF Exited, LastWord
<1>6. ASSUME NEW p \in Processes, NEW n \in Pauses, Changes(p, n), UNCHANGED <<table, saved, up>>
      PROVE  LastWord'
  <2> SUFFICES ASSUME NEW s \in Alive
               PROVE  LET o == output'[processes[s]] IN
                  /\ o = << >> => pause_states[s] \in {"unknown", native'[processes[s]]}
                  /\ o # << >> => o[Len(o)] \in Settings \cup {native'[processes[s]]}
                  /\ \A i \in 1..Len(o) : o[i] \in Settings =>
                        i = 1 /\ o[i] = saved[world_id] /\ pause_states[s] = "unknown"
                  /\ loaded[s] \in {"unknown", saved[world_id]}
    BY <1>6 DEF LastWord, Alive, Current
  <2>1. CASE processes[s] # p
    BY <1>6, <2>1 DEF Changes, LastWord, PauseTypeOK
  <2>2. CASE processes[s] = p
    <3>1. output'[p] = Append(output[p], n) /\ native'[p] = n /\ output[p] \in Seq(Lines) /\ n \in Lines
      BY <1>6 DEF Changes, PauseTypeOK, Lines
    <3>2. n \notin Settings
      BY DEF Pauses, Settings
    <3> QED BY <2>2, <3>1, <3>2, Written DEF LastWord
  <2> QED BY <2>1, <2>2
<1>7. ASSUME NEW p \in Processes, Drifts(p) \/ Handles(p) PROVE LastWord'
  <2>1. UNCHANGED <<table, saved, up>> /\ GameStates \subseteq Pauses
    BY <1>7, PauseAssumption DEF Drifts, Handles, Pauses
  <2>2. (\E n \in Pauses : Changes(p, n)) \/ UNCHANGED <<native, output>>
    BY <1>7, <2>1 DEF Drifts, Handles
  <2> QED BY <1>1, <1>6, <2>1, <2>2
<1>8. ASSUME NEW p \in Processes, Reads(p) PROVE LastWord'
  <2> SUFFICES ASSUME NEW s \in Alive
               PROVE  LET o == output'[processes[s]] IN
                  /\ o = << >> => pause_states'[s] \in {"unknown", native[processes[s]]}
                  /\ o # << >> => o[Len(o)] \in Settings \cup {native[processes[s]]}
                  /\ \A i \in 1..Len(o) : o[i] \in Settings =>
                        i = 1 /\ o[i] = saved[world_id] /\ pause_states'[s] = "unknown"
                  /\ loaded'[s] \in {"unknown", saved[world_id]}
    BY <1>8 DEF Reads, LastWord, Alive, Current
  <2>0. s \in Current /\ serves[processes[s]].shard = s /\ world_id = serves[processes[s]].world
    <3>1. s \in Current
      BY DEF Alive
    <3>2. serves[processes[s]] = [world |-> world_id, shard |-> s]
      BY <3>1, Zenon DEF Table
    <3> QED BY <3>1, <3>2
  <2>1. CASE processes[s] # p
    <3>1. ~(IsCurrent(p) /\ serves[p].shard = s)
      BY <2>1 DEF IsCurrent
    <3>2. pause_states'[s] = pause_states[s] /\ loaded'[s] = loaded[s]
      BY <1>8, <3>1 DEF Reads, Recorded, PauseTypeOK
    <3>3. output'[processes[s]] = output[processes[s]]
      BY <1>8, <2>1 DEF Reads, PauseTypeOK
    <3> QED BY <3>2, <3>3 DEF LastWord
  <2>2. CASE processes[s] = p
    <3>1. /\ output'[p] = Tail(output[p]) /\ output[p] \in Seq(Lines) /\ output[p] # << >>
      BY <1>8 DEF Reads, PauseTypeOK
    <3>2. /\ pause_states'[s] = IF Head(output[p]) \in Pauses THEN Head(output[p]) ELSE pause_states[s]
          /\ loaded'[s] = IF Head(output[p]) \in Settings THEN Head(output[p]) ELSE loaded[s]
      BY <1>8, <2>0, <2>2 DEF Reads, Recorded, IsCurrent, PauseTypeOK, Current
    <3> DEFINE o == output[p]
    <3>3. /\ Tail(o) \in Seq(Lines) /\ Len(o) \in Nat /\ Len(o) >= 1 /\ Head(o) \in Lines
          /\ Head(o) = o[1] /\ Len(Tail(o)) = Len(o) - 1
          /\ \A i \in 1..Len(Tail(o)) : Tail(o)[i] = o[i + 1]
          /\ Tail(o) = << >> => Len(o) = 1
      BY <3>1, Read
    <3>4. /\ o[Len(o)] \in Settings \cup {native[p]}
          /\ \A i \in 1..Len(o) : o[i] \in Settings =>
                i = 1 /\ o[i] = saved[world_id] /\ pause_states[s] = "unknown"
          /\ loaded[s] \in {"unknown", saved[world_id]}
      BY <2>2, <3>1 DEF LastWord
    <3>5. \A i \in 1..Len(Tail(o)) : Tail(o)[i] \notin Settings
      BY <3>3, <3>4
    <3>6. Tail(o) = << >> => pause_states'[s] \in {"unknown", native[p]}
      BY <3>2, <3>3, <3>4 DEF Lines, Pauses, Settings
    <3>7. Tail(o) # << >> => Tail(o)[Len(Tail(o))] = o[Len(o)]
      <4>1. Tail(o) # << >> => Len(Tail(o)) \in Nat \ {0}
        BY <3>3, EmptySeq
      <4> QED BY <3>3, <4>1
    <3>8. loaded'[s] \in {"unknown", saved[world_id]}
      BY <3>2, <3>3, <3>4
    <3> HIDE DEF o
    <3> QED BY <2>2, <3>1, <3>4, <3>5, <3>6, <3>7, <3>8 DEF o
  <2> QED BY <2>1, <2>2
<1>9. CASE UNCHANGED <<world_id, processes, output, native, pause_states, loaded, up, saved>>
  BY <1>1, <1>9
<1> QED BY <1>2, <1>3, <1>4, <1>5, <1>7, <1>8, <1>9
        DEF PauseNext, CallEnds, Exits, ForceKill, SetPause, StopBegins, StopTimesOut,
            Confirmed, NotConfirmed, RequestEnds
\* While a request waits, the processes it is about stay in the table.
LEMMA FreshKept == PauseInv /\ [PauseNext]_vars => Fresh'
<1> SUFFICES ASSUME PauseInv, [PauseNext]_vars PROVE Fresh'
  OBVIOUS
<1> USE DEF vars, table, games, request
<1>t. PauseTypeOK /\ Table /\ LastWord /\ Fresh
  BY DEF PauseInv
<1>1. CASE call' # "waiting"
  BY <1>1 DEF Fresh
<1>2. CASE /\ UNCHANGED <<processes, pause_states, output, call, request>>
           /\ \A p \in Processes : up'[p] => up[p]
  <2>1. call = "waiting" => Targets' = Targets
    BY <1>2 DEF Targets
  <2>2. \A s \in Targets : targets[s] \in Processes
    BY <1>t DEF Targets, PauseTypeOK
  <2> QED BY <1>2, <1>t, <2>1, <2>2 DEF Fresh
<1>3. ASSUME NEW w \in Worlds, NEW on \in BOOLEAN, SetPause(w, on), call' = "waiting" PROVE Fresh'
  <2>0. ShardsOf(w) \subseteq Shards
    BY DEF ShardsOf, Shards
  <2>1. /\ paused' = on /\ ShardsOf(w) \subseteq Alive
        /\ targets' = [s \in Shards |-> IF s \in ShardsOf(w) THEN processes[s] ELSE NoProcess]
        /\ behind' = {s \in ShardsOf(w) : output[processes[s]] # << >>}
        /\ met' = {s \in ShardsOf(w) : native[processes[s]] \in Wanted(on)}
        /\ UNCHANGED <<processes, pause_states, output, native>>
    BY <1>3 DEF SetPause
  <2>2. Targets' \subseteq ShardsOf(w) /\ \A s \in Targets' : targets'[s] = processes[s]
    BY <2>0, <2>1 DEF Targets
  <2>3. ASSUME NEW s \in ShardsOf(w), s \notin met' \cup behind'
        PROVE  /\ pause_states[s] \notin Wanted(on)
               /\ \A i \in 1..Len(output[processes[s]]) : output[processes[s]][i] \notin Wanted(on)
    <3>1. output[processes[s]] = << >> /\ native[processes[s]] \notin Wanted(on) /\ s \in Alive
      BY <2>1, <2>3
    <3>2. pause_states[s] \in {"unknown", native[processes[s]]}
      BY <1>t, <3>1 DEF LastWord
    <3> QED BY <3>1, <3>2 DEF Wanted
  <2>4. \A s \in Targets' : targets'[s] = processes'[s]
    BY <2>1, <2>2
  <2>5. \A s \in Targets' : s \notin met' \cup behind' =>
              /\ pause_states'[s] \notin Wanted(paused')
              /\ \A i \in 1..Len(output'[targets'[s]]) : output'[targets'[s]][i] \notin Wanted(paused')
    BY <2>1, <2>2, <2>3
  <2> QED BY <2>4, <2>5 DEF Fresh, Wanted
<1>4. ASSUME NEW p \in Processes, NEW n \in Pauses, Changes(p, n), call = "waiting",
             UNCHANGED <<table, up, call, paused, targets, asked, behind>>
      PROVE  Fresh'
  <2>1. Targets' = Targets
    BY <1>4 DEF Targets
  <2> SUFFICES ASSUME NEW s \in Targets, up[targets[s]], s \notin met' \cup behind
               PROVE  /\ pause_states[s] \notin Wanted(paused)
                      /\ \A i \in 1..Len(output'[targets[s]]) : output'[targets[s]][i] \notin Wanted(paused)
    BY <1>4, <1>t, <2>1 DEF Fresh, Wanted
  <2>2. met \subseteq met' /\ s \in Shards
    BY <1>4 DEF Changes, Targets
  <2>3. /\ pause_states[s] \notin Wanted(paused)
        /\ \A i \in 1..Len(output[targets[s]]) : output[targets[s]][i] \notin Wanted(paused)
    BY <1>4, <1>t, <2>2 DEF Fresh
  <2>4. CASE targets[s] # p
    BY <1>4, <1>t, <2>3, <2>4 DEF Changes, PauseTypeOK
  <2>5. CASE targets[s] = p
    <3>1. n \notin Wanted(paused)
      BY <1>4, <2>2, <2>5 DEF Changes
    <3>2. output'[p] = Append(output[p], n) /\ output[p] \in Seq(Lines) /\ n \in Lines
      BY <1>4, <1>t DEF Changes, PauseTypeOK, Lines
    <3> QED BY <2>3, <2>5, <3>1, <3>2, Written
  <2> QED BY <2>4, <2>5
<1>5. ASSUME NEW p \in Processes, Drifts(p) \/ Handles(p), call = "waiting" PROVE Fresh'
  <2>1. UNCHANGED <<table, up, call, paused, targets, asked, behind>> /\ GameStates \subseteq Pauses
    BY <1>5, PauseAssumption DEF Drifts, Handles, Pauses
  <2>2. (\E n \in Pauses : Changes(p, n)) \/ UNCHANGED <<native, output, met>>
    BY <1>5, <2>1 DEF Drifts, Handles
  <2> QED BY <1>2, <1>4, <1>5, <2>1, <2>2
<1>6. ASSUME NEW p \in Processes, Reads(p), call = "waiting" PROVE Fresh'
  <2>1. UNCHANGED <<processes, up, call, request>> /\ Targets' = Targets
    BY <1>6 DEF Reads, Targets
  <2>2. /\ output' = [output EXCEPT ![p] = Tail(@)]
        /\ pause_states' = Recorded(pause_states, p, Pauses)
        /\ output[p] \in Seq(Lines) /\ output[p] # << >>
    BY <1>6, <1>t DEF Reads, PauseTypeOK
  <2> SUFFICES ASSUME NEW s \in Targets, up[targets[s]], s \notin met \cup behind
               PROVE  /\ pause_states'[s] \notin Wanted(paused)
                      /\ \A i \in 1..Len(output'[targets[s]]) : output'[targets[s]][i] \notin Wanted(paused)
    BY <1>6, <1>t, <2>1 DEF Fresh, Wanted
  <2>3. /\ pause_states[s] \notin Wanted(paused) /\ targets[s] = processes[s] /\ s \in Shards
        /\ \A i \in 1..Len(output[targets[s]]) : output[targets[s]][i] \notin Wanted(paused)
    BY <1>6, <1>t DEF Fresh, Targets
  <2>4. CASE targets[s] # p
    <3>1. ~(IsCurrent(p) /\ serves[p].shard = s)
      BY <2>3, <2>4 DEF IsCurrent
    <3>2. pause_states'[s] = pause_states[s]
      BY <1>t, <2>2, <2>3, <3>1 DEF Recorded, PauseTypeOK
    <3>3. output'[targets[s]] = output[targets[s]]
      BY <1>t, <2>2, <2>4 DEF PauseTypeOK
    <3> QED BY <2>3, <3>2, <3>3
  <2>5. CASE targets[s] = p
    <3>1. pause_states'[s] \in {pause_states[s], Head(output[p])}
      BY <1>t, <2>2, <2>3 DEF Recorded, PauseTypeOK
    <3>2. output'[p] = Tail(output[p])
      BY <1>t, <2>2 DEF PauseTypeOK
    <3> DEFINE o == output[p]
    <3>3. /\ Len(o) \in Nat /\ Len(o) >= 1 /\ Head(o) = o[1] /\ Len(Tail(o)) = Len(o) - 1
          /\ \A i \in 1..Len(Tail(o)) : Tail(o)[i] = o[i + 1]
      BY <2>2, Read
    <3>4. \A i \in 1..Len(o) : o[i] \notin Wanted(paused)
      BY <2>3, <2>5
    <3> HIDE DEF o
    <3>5. Head(o) \notin Wanted(paused) /\ \A i \in 1..Len(Tail(o)) : Tail(o)[i] \notin Wanted(paused)
      BY <3>3, <3>4
    <3> QED BY <2>3, <2>5, <3>1, <3>2, <3>5 DEF o
  <2> QED BY <2>4, <2>5
<1>7. call' = "waiting" /\ call # "waiting" => \E w \in Worlds, on \in BOOLEAN : SetPause(w, on)
  BY DEF PauseNext, CallEnds, Edit, Start, StopBegins, StopReturns, StopTimesOut, ForceKill,
         Confirmed, NotConfirmed, RequestEnds, Drifts, Handles, Exits, Reads
<1>8. call' = "waiting" /\ call = "waiting" =>
        \/ UNCHANGED vars
        \/ \E p \in Processes : Drifts(p) \/ Handles(p) \/ Exits(p) \/ Reads(p)
  BY DEF PauseNext, CallEnds, Edit, Start, SetPause, StopBegins, StopReturns, StopTimesOut,
         ForceKill, Confirmed, NotConfirmed, RequestEnds
<1>9. ASSUME NEW p \in Processes, Exits(p) PROVE Fresh'
  <2>1. UNCHANGED <<processes, pause_states, output, call, request>> /\ \A q \in Processes : up'[q] => up[q]
    BY <1>9 DEF Exits, Exited
  <2> QED BY <1>2, <2>1
<1>10. CASE UNCHANGED vars
  BY <1>2, <1>10
<1> QED BY <1>1, <1>3, <1>5, <1>6, <1>7, <1>8, <1>9, <1>10

LEMMA PauseInvHolds == PauseSpec => []PauseInv
<1>1. PauseInit => PauseInv
  <2> SUFFICES ASSUME PauseInit PROVE PauseInv
    OBVIOUS
  <2>1. << >> \in Seq(BOOLEAN) /\ << >> \in Seq(Lines)
    OBVIOUS
  <2>2. PauseTypeOK
    BY <2>1 DEF PauseInit, PauseTypeOK, NoTable, NoStates, Pauses, Shards
  <2>3. Current = {} /\ Alive = {}
    BY DEF PauseInit, Current, Alive, NoTable
  <2> QED BY <2>2, <2>3 DEF PauseInv, Table, LastWord, Fresh, PauseInit
<1>2. PauseInv /\ [PauseNext]_vars => PauseInv'
  BY TypeKept, TableKept, LastWordKept, FreshKept DEF PauseInv
<1> QED BY <1>1, <1>2, PTL DEF PauseSpec

\* The variables keep their types.
THEOREM PauseTyped == PauseSpec => []PauseTypeOK
<1>1. PauseInv => PauseTypeOK
  BY DEF PauseInv
<1> QED BY <1>1, PauseInvHolds, PTL

\* Once its output is read, the badge of a world tells the state of the shards
\* that run now, whatever their predecessors said.
THEOREM BadgeTruth == PauseSpec => []BadgeTellsTruth
<1>1. PauseInv => BadgeTellsTruth
  <2> SUFFICES ASSUME PauseInv, Badge \in Pauses,
                      \A s \in Current : output[processes[s]] = << >>
               PROVE  /\ Alive = ShardsOf(world_id)
                      /\ LET real == {native[processes[s]] : s \in Alive} IN
                         IF Badge = "paused" THEN real \subseteq {"paused", "auto_paused"}
                                             ELSE real = {Badge}
    BY DEF BadgeTellsTruth
  <2>1. Alive # {} /\ Alive = Current
    BY DEF Badge, Pauses
  <2>2. Alive = ShardsOf(world_id)
    BY <2>1 DEF PauseInv, Table
  <2>3. "unknown" \notin {pause_states[s] : s \in Current}
    BY <2>1 DEF Badge, Pauses
  <2>4. \A s \in Alive : pause_states[s] = native[processes[s]]
    BY <2>1, <2>3 DEF PauseInv, LastWord
  <2>5. {native[processes[s]] : s \in Alive} = {pause_states[s] : s \in Current}
    BY <2>1, <2>4
  <2>6. LET observed == {pause_states[s] : s \in Current} IN
        IF Badge = "paused" THEN observed \subseteq {"paused", "auto_paused"} ELSE observed = {Badge}
    BY <2>1, <2>3 DEF Badge, Pauses
  <2> QED BY <2>2, <2>5, <2>6
<1> QED BY <1>1, PauseInvHolds, PTL

\* What a running shard is shown to have loaded is the saved setting.
THEOREM LoadedTruth == PauseSpec => []LoadedAsSaved
<1>1. PauseInv => LoadedAsSaved
  BY DEF PauseInv, LastWord, LoadedAsSaved
<1> QED BY <1>1, PauseInvHolds, PTL

\* A shard is confirmed to be in a state it has not been in since the request
\* only if some of its lines were unread when the request was made.
THEOREM ConfirmationTruth == PauseSpec => ConfirmedTruly
<1>1. PauseInv => (Confirmed => Targets \subseteq met \cup behind)
  BY DEF PauseInv, Fresh, Confirmed, Available, Reported
<1>2. PauseInv /\ [PauseNext]_vars => [Confirmed => Targets \subseteq met \cup behind]_vars
  BY <1>1
<1> QED BY <1>2, PauseInvHolds, PTL DEF PauseSpec, ConfirmedTruly
=============================================================================
