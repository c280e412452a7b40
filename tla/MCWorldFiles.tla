---------------------------- MODULE MCWorldFiles ----------------------------
(* One world with every operation and one that only has a boot preference. *)
EXTENDS WorldFiles

CONSTANTS w1, w2
MCWorlds == {w1, w2}
MCSaves == {"fresh", "s1"}
MCKinds == [w \in MCWorlds |-> IF w = w1 THEN AllKinds ELSE {"create"}]
=============================================================================
