---------------------------- MODULE AtomicStore ----------------------------
(***************************************************************************)
(* What the operations on a world's directory promise together: each one   *)
(* takes place at once, at its end, or not at all, while the games of the  *)
(* other worlds play on.  One failure turns an operation into one that     *)
(* keeps what there was.  Only a second one, or the death of the panel,    *)
(* ends the promise, and only for the world it strikes.                    *)
(***************************************************************************)
CONSTANTS Worlds,
          Saves,    \* what the save folders of a world can hold
          Fresh,    \* those of a world that was never generated
          Boots     \* the boot preferences

VARIABLES store,    \* what the directory of each world holds
          pending,  \* the world of the operation at work with what it will hold
          struck    \* the worlds nothing is promised of any more

svars == <<store, pending, struck>>

Nothing == [save |-> "none", pera |-> "none"]
\* A directory that a late log reader makes: no pera.json.
Stray == [save |-> Fresh, pera |-> "none"]
Whole == [save : Saves, pera : Boots]
OrStray(c) == IF c = Nothing THEN {Nothing, Stray} ELSE {c}

Init ==
    /\ store = [w \in Worlds |-> Nothing]
    /\ pending = {}
    /\ struck = {}

Free(w) == w \notin struck /\ \A p \in pending : p[1] # w

\* An operation begins: it will bring other data, take all away, or write
\* another boot preference to what is there.
Reconfigured(w) ==
    {c \in [save : {store[w].save}, pera : Boots] : store[w] # Nothing}
Begin(w, c) ==
    /\ pending = {} /\ w \notin struck
    /\ c \in Whole \cup {Nothing} \cup Reconfigured(w)
    /\ pending' = {<<w, c>>}
    /\ UNCHANGED <<store, struck>>

\* It fails, and will leave what there was.
Fail ==
    /\ pending' = {<<p[1], store[p[1]]>> : p \in pending}
    /\ UNCHANGED <<store, struck>>

End ==
    /\ \E p \in pending : \E c \in OrStray(p[2]) : store' = [store EXCEPT ![p[1]] = c]
    /\ pending' = {}
    /\ UNCHANGED struck

\* A game saves; a log reader writes to a world that has no directory.
Play(w, s) ==
    /\ Free(w) /\ store[w] # Nothing
    /\ store' = [store EXCEPT ![w].save = s]
    /\ UNCHANGED <<pending, struck>>

Appear(w) ==
    /\ Free(w) /\ store[w] = Nothing
    /\ store' = [store EXCEPT ![w] = Stray]
    /\ UNCHANGED <<pending, struck>>

\* A second failure, the death of the panel, or a backup that was torn.
Strike(w) ==
    /\ struck' = struck \cup {w}
    /\ store' = [store EXCEPT ![w] = Nothing]
    /\ pending' = {p \in pending : p[1] # w}

Next ==
    \/ Fail \/ End
    \/ \E w \in Worlds :
          \/ \E c \in Whole \cup {Nothing} \cup Reconfigured(w) : Begin(w, c)
          \/ \E s \in Saves : Play(w, s)
          \/ Appear(w) \/ Strike(w)

Spec == Init /\ [][Next]_svars
=============================================================================
