-------------------------- MODULE ExclusiveAccess --------------------------
(***************************************************************************)
(* What the service layer promises about the panel's data: users that      *)
(* conflict never hold it together, a user joins only while nobody it      *)
(* conflicts with is there, and a step that lets one in lets nobody out.   *)
(***************************************************************************)
CONSTANTS Users,      \* those who read or change the data
          Conflicts   \* the pairs of users that exclude each other

VARIABLE users        \* those who hold the data now

Init == users = {}

Acquire(u) ==
    /\ u \notin users
    /\ \A v \in users : {u, v} \notin Conflicts
    /\ users' = users \cup {u}

Release == users' \in SUBSET users /\ users' # users

Next == Release \/ \E u \in Users : Acquire(u)

Spec == Init /\ [][Next]_users

\* No two conflicting users hold the data.
Exclusive == \A u, v \in users : u # v => {u, v} \notin Conflicts
=============================================================================
