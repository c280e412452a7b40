---------------------------- MODULE PauseControl ----------------------------
(***************************************************************************)
(* Pausing and resuming a running world (pera_panel/runtime.py).  The      *)
(* panel writes a command on the console pipe of each shard and then waits *)
(* for the shards to report the change on their output.  One reader thread *)
(* per process reads that output line by line; what is written and not yet *)
(* read outlives the process, and a reader may outlive the stop() that     *)
(* joins it for three seconds.                                             *)
(*                                                                         *)
(* GameRuntime models how processes are launched and stopped; here that is *)
(* reduced to what the pause readings see of it.  Runtime.lock is held in  *)
(* every action and released between two of them.                          *)
(***************************************************************************)
EXTENDS Naturals, Sequences, FiniteSetsExt

CONSTANTS Worlds, NoWorld,
          WithCaves,   \* worlds configured with a Caves shard
          GameStates,  \* the pause states the game takes
          Processes, NoProcess,  \* bound: the processes there can ever be
          MaxUnread,   \* bound: lines that wait to be read
          MaxUnheard,  \* bound: commands that wait in a console pipe
          CanLag       \* may a log reader outlive the stop of its game?

ASSUME PauseAssumption ==
    /\ NoWorld \notin Worlds
    /\ NoProcess \notin Processes
    /\ WithCaves \subseteq Worlds
    /\ GameStates \subseteq {"paused", "auto_paused", "unpaused"}
    /\ MaxUnread \in Nat /\ MaxUnheard \in Nat
    /\ CanLag \in BOOLEAN

Pauses == {"paused", "auto_paused", "unpaused"}
Shards == {"Master", "Caves"}
ShardsOf(w) == IF w \in WithCaves THEN Shards ELSE {"Master"}

Settings == {"on", "off"}       \* PauseWhenEmpty: true, false
\* The lines that matter; chat and echoed commands match neither pattern.
Lines == Pauses \cup Settings

VARIABLES
    world_id, processes, pause_states, loaded,  \* as in Runtime
    saved,     \* the world's pause_when_empty setting
    used,      \* the processes that have been created
    up,        \* those that are alive
    open,      \* those whose console pipe is open
    serves,    \* the world and the shard each was created for
    native,    \* whether each is really paused
    console,   \* the commands it has not handled
    output,    \* the lines its reader has not read
    call,      \* the call in progress: idle, waiting, stop or force
    paused,    \* the arguments of _set_pause ...
    targets,   \* ... and its processes
    asked,     \* history: the targets that got a command
    behind,    \* history: the targets with unread lines when the request was made
    met        \* history: the targets that have been in the state since then

table == <<world_id, processes, pause_states, loaded>>
games == <<used, up, open, serves, native, console, output>>
request == <<paused, targets, asked, behind, met>>
vars == <<table, saved, games, call, request>>

NoTable == [s \in Shards |-> NoProcess]
NoStates == [s \in Shards |-> "unknown"]

Current == {s \in Shards : processes[s] # NoProcess}
Alive == {s \in Current : up[processes[s]]}
\* A process whose reports count: the table's one for its shard.
IsCurrent(p) == world_id = serves[p].world /\ processes[serves[p].shard] = p

PauseInit ==
    /\ world_id = NoWorld
    /\ processes = NoTable
    /\ pause_states = NoStates /\ loaded = NoStates
    /\ saved \in [Worlds -> Settings]
    /\ used = {}
    /\ up = [p \in Processes |-> FALSE]
    /\ open = [p \in Processes |-> FALSE]
    /\ serves \in [Processes -> [world : {NoWorld}, shard : {"Master"}]]
    /\ native = [p \in Processes |-> "unpaused"]
    /\ console = [p \in Processes |-> << >>]
    /\ output = [p \in Processes |-> << >>]
    /\ call = "idle" /\ paused = TRUE /\ targets = NoTable
    /\ asked = {} /\ behind = {} /\ met = {}

-----------------------------------------------------------------------------
(* Start and stop.                                                         *)

\* World settings are edited while the world is stopped.
Edit(w, v) ==
    /\ call = "idle"
    /\ ~(world_id = w /\ Alive # {})
    /\ saved' = [saved EXCEPT ![w] = v]
    /\ UNCHANGED <<table, games, call, request>>

\* The processes of the last run have exited and are reaped; the shards are
\* created, and the readings reset, before the lock is released.  A process
\* prints the setting it has loaded, or does not.
Reset_Not(readings) == readings
Reset(readings) == NoStates
Start(w, new) ==
    /\ call = "idle"
    /\ Alive = {}
    /\ CanLag \/ \A s \in Current : output[processes[s]] = << >>
    /\ new \in [ShardsOf(w) -> Processes \ used]
    /\ \A s, t \in ShardsOf(w) : new[s] = new[t] => s = t
    /\ LET born == {new[s] : s \in ShardsOf(w)} IN
       /\ processes' = [s \in Shards |-> IF s \in ShardsOf(w) THEN new[s] ELSE NoProcess]
       /\ world_id' = w
       /\ pause_states' = Reset(pause_states)
       /\ loaded' = Reset(loaded)
       /\ used' = used \cup born
       /\ up' = [p \in Processes |-> p \in born \/ up[p]]
       /\ open' = [p \in Processes |-> p \in born \/ open[p]]
       /\ serves' = [p \in Processes |->
                       IF p \in born THEN [world |-> w, shard |-> CHOOSE s \in ShardsOf(w) : new[s] = p]
                                     ELSE serves[p]]
       /\ \E silent \in SUBSET born :
             output' = [p \in Processes |-> IF p \in born \ silent THEN <<saved[w]>>
                                                                   ELSE output[p]]
    /\ UNCHANGED <<saved, native, console, call, request>>

\* c_shutdown and the end of the console, for every process of the table.
StopBegins(how) ==
    /\ call = "idle" /\ Current # {}
    /\ call' = how
    /\ open' = [p \in Processes |-> open[p] /\ ~IsCurrent(p)]
    /\ UNCHANGED <<table, saved, used, up, serves, native, console, output,
                   request>>

StopReturns ==
    /\ call \in {"stop", "force"}
    /\ Alive = {}
    /\ CanLag \/ \A s \in Current : output[processes[s]] = << >>
    /\ world_id' = NoWorld
    /\ processes' = NoTable
    /\ pause_states' = NoStates /\ loaded' = NoStates
    /\ call' = "idle"
    /\ UNCHANGED <<saved, games, request>>

\* The processes stay in the table, without a console.
StopTimesOut ==
    /\ call = "stop" /\ Alive # {}
    /\ call' = "idle"
    /\ UNCHANGED <<table, saved, games, request>>

\* What is on the output pipe of a process stays there.
Exited(gone) ==
    /\ up' = [p \in Processes |-> up[p] /\ p \notin gone]
    /\ native' = [p \in Processes |-> IF p \in gone THEN "unpaused" ELSE native[p]]
    /\ console' = [p \in Processes |-> IF p \in gone THEN << >> ELSE console[p]]
    /\ open' = [p \in Processes |-> open[p] /\ p \notin gone]
    /\ UNCHANGED <<used, serves, output>>

ForceKill ==
    /\ call = "force" /\ Alive # {}
    /\ Exited({processes[s] : s \in Alive})
    /\ UNCHANGED <<table, saved, call, request>>

-----------------------------------------------------------------------------
(* Runtime._set_pause.                                                     *)

\* desired; DST may pause a world by itself that was told to resume.
Wanted(on) == IF on THEN {"paused"} ELSE {"unpaused", "auto_paused"}
Targets == {s \in Shards : targets[s] # NoProcess}

\* available(): every shard the world is configured with runs.
Available == \A s \in Targets : processes[s] = targets[s] /\ up[targets[s]]

\* The commands written when the shards of `reached` get theirs.
Sent(reached, on) ==
    [p \in Processes |->
        IF \E s \in reached : processes[s] = p THEN Append(console[p], on) ELSE console[p]]

\* The shards that get a command: those not known to be in the state.
Asked(w, on) ==
    {s \in ShardsOf(w) : pause_states[s] \notin Wanted(on)}

SetPause(w, on) ==
    /\ call = "idle"
    /\ world_id = w /\ ShardsOf(w) \subseteq Alive
    /\ \A s \in Asked(w, on) : Len(console[processes[s]]) < MaxUnheard
    /\ \/ /\ \A s \in Asked(w, on) : open[processes[s]]
          /\ console' = Sent(Asked(w, on), on)
          /\ call' = "waiting"
          /\ paused' = on
          /\ targets' = [s \in Shards |-> IF s \in ShardsOf(w) THEN processes[s] ELSE NoProcess]
          /\ asked' = Asked(w, on)
          /\ behind' = {s \in ShardsOf(w) : output[processes[s]] # << >>}
          /\ met' = {s \in ShardsOf(w) : native[processes[s]] \in Wanted(on)}
       \/ \* A console is closed or breaks: the shards before it have the command.
          /\ \E s \in Asked(w, on) :
                LET reached == Asked(w, on) \ {s, "Caves"} IN
                /\ \A t \in reached : open[processes[t]]
                /\ console' = Sent(reached, on)
          /\ UNCHANGED <<call, request>>
    /\ UNCHANGED <<table, saved, used, up, open, serves, native, output>>

Reported == \A s \in Targets : pause_states[s] \in Wanted(paused)

RequestEnds ==
    /\ call' = "idle"
    /\ targets' = NoTable /\ paused' = TRUE /\ asked' = {} /\ behind' = {} /\ met' = {}
    /\ UNCHANGED <<table, saved, games>>

Confirmed ==
    /\ call = "waiting"
    /\ Available /\ Reported
    /\ RequestEnds

\* A shard has stopped, or ten seconds have passed.
NotConfirmed ==
    /\ call = "waiting"
    /\ ~(Available /\ Reported)
    /\ RequestEnds

-----------------------------------------------------------------------------
(* The game, which reports the changes it makes, and the log readers.      *)

Unread == MapThenSumSet(LAMBDA p : Len(output[p]), Processes)
Changes(p, n) ==
    /\ up[p] /\ Unread < MaxUnread
    /\ native' = [native EXCEPT ![p] = n]
    /\ output' = [output EXCEPT ![p] = Append(@, n)]
    /\ met' = IF n \in Wanted(paused) THEN met \cup {s \in Shards : targets[s] = p} ELSE met

\* By itself: players come and go.
Drifts(p) ==
    /\ \E n \in GameStates \ {native[p]} : Changes(p, n)
    /\ UNCHANGED <<table, saved, used, up, open, serves, console, call, paused, targets, asked, behind>>

\* A command is obeyed, or ignored.
Handles(p) ==
    /\ up[p] /\ console[p] # << >>
    /\ console' = [console EXCEPT ![p] = Tail(@)]
    /\ \/ \E n \in Wanted(Head(console[p])) \cap GameStates : Changes(p, n)
       \/ UNCHANGED <<native, output, met>>
    /\ UNCHANGED <<table, saved, used, up, open, serves, call, paused, targets, asked, behind>>

Exits(p) ==
    /\ up[p]
    /\ Exited({p})
    /\ UNCHANGED <<table, saved, call, request>>

\* _record_pause_setting, _record_pause_state: only for the process the table
\* has for the reader's shard.
Recorded_OfTheWorld(readings, p, kinds) ==
    IF Head(output[p]) \in kinds /\ world_id = serves[p].world
    THEN [readings EXCEPT ![serves[p].shard] = Head(output[p])] ELSE readings
Recorded(readings, p, kinds) ==
    IF Head(output[p]) \in kinds /\ IsCurrent(p)
    THEN [readings EXCEPT ![serves[p].shard] = Head(output[p])] ELSE readings

Reads(p) ==
    /\ output[p] # << >>
    /\ output' = [output EXCEPT ![p] = Tail(@)]
    /\ pause_states' = Recorded(pause_states, p, Pauses)
    /\ loaded' = Recorded(loaded, p, Settings)
    /\ UNCHANGED <<world_id, processes, saved, used, up, open, serves, native,
                   console, call, request>>

\* Runtime.status: the pause state shown for the running world.
Badge_IgnoresStopped ==
    LET observed == {pause_states[s] : s \in Current} IN
    CASE Alive = {} -> "stopped"
      [] Alive # {} /\ "unknown" \in observed -> "unknown"
      [] OTHER -> IF observed \subseteq {"paused", "auto_paused"} THEN "paused"
                  ELSE IF observed = {"unpaused"} THEN "unpaused" ELSE "mixed"
Badge ==
    LET observed == {pause_states[s] : s \in Current} IN
    CASE Alive = {} -> "stopped"
      [] Alive # {} /\ Alive # Current -> "partial"
      [] Alive # {} /\ Alive = Current /\ "unknown" \in observed -> "unknown"
      [] OTHER -> IF \E v \in Pauses : observed = {v} THEN CHOOSE v \in Pauses : observed = {v}
                  ELSE IF observed \subseteq {"paused", "auto_paused"} THEN "paused"
                  ELSE "mixed"

-----------------------------------------------------------------------------
CallEnds == StopReturns \/ StopTimesOut \/ ForceKill \/ Confirmed \/ NotConfirmed
PauseNext ==
    \/ \E w \in Worlds :
          \/ \E v \in Settings : Edit(w, v)
          \/ \E new \in [ShardsOf(w) -> Processes \ used] : Start(w, new)
          \/ \E on \in BOOLEAN : SetPause(w, on)
    \/ \E how \in {"stop", "force"} : StopBegins(how)
    \/ CallEnds
    \/ \E p \in Processes : Drifts(p) \/ Handles(p) \/ Exits(p) \/ Reads(p)

PauseSpec == PauseInit /\ [][PauseNext]_vars

-----------------------------------------------------------------------------
(* Properties.                                                             *)

PauseTypeOK ==
    /\ world_id \in Worlds \cup {NoWorld}
    /\ processes \in [Shards -> Processes \cup {NoProcess}]
    /\ pause_states \in [Shards -> Pauses \cup {"unknown"}]
    /\ loaded \in [Shards -> Settings \cup {"unknown"}]
    /\ saved \in [Worlds -> Settings]
    /\ used \subseteq Processes
    /\ up \in [Processes -> BOOLEAN] /\ open \in [Processes -> BOOLEAN]
    /\ serves \in [Processes -> [world : Worlds \cup {NoWorld}, shard : Shards]]
    /\ native \in [Processes -> Pauses]
    /\ console \in [Processes -> Seq(BOOLEAN)]
    /\ output \in [Processes -> Seq(Lines)]
    /\ call \in {"idle", "waiting", "stop", "force"}
    /\ paused \in BOOLEAN /\ asked \subseteq Shards /\ behind \subseteq Shards
    /\ targets \in [Shards -> Processes \cup {NoProcess}]
    /\ met \subseteq Shards

\* Once its output is read, the badge tells the truth of the shards that run
\* now, whatever an earlier run of the world left in a pipe.
BadgeTellsTruth ==
    (\A s \in Current : output[processes[s]] = << >>) /\ Badge \in Pauses =>
    /\ Alive = ShardsOf(world_id)
    /\ LET real == {native[processes[s]] : s \in Alive} IN
       IF Badge = "paused" THEN real \subseteq {"paused", "auto_paused"}
                           ELSE real = {Badge}

\* The setting shown as loaded by a running shard is the saved one, which can
\* be edited between two runs: the mismatch warning never comes from a line of
\* an earlier run.
LoadedAsSaved ==
    \A s \in Alive : loaded[s] # "unknown" => loaded[s] = saved[world_id]

\* A request is confirmed only if each shard it is about has been in that state
\* since it was made, or had lines in its pipe then that nobody had read.  A
\* shard of two, or the last words of an earlier process, are never enough.
ConfirmedTruly ==
    [][Confirmed => Targets \subseteq met \cup behind]_vars

\* What README.md says of it: an ignored command is never treated as a confirmed
\* pause.  (A line such as "Server Paused" that a shard wrote before the request
\* and that is read after it confirms a command the game then ignores.)
IgnoredNeverConfirmed ==
    [][Confirmed => \A s \in asked : s \in met \/ console[targets[s]] # << >>]_vars
=============================================================================
