------------------------------ MODULE MCPanel ------------------------------
(* Two worlds; w1 has caves and mods and starts at boot.  An instance with *)
(* w1 alone keeps the runs with many requests or with fairness small.      *)
EXTENDS Panel

CONSTANTS w1, w2

MCWorlds == {w1, w2}
MCOne == {w1}
MCCaves == {w1}
MCMods == {w1}
MCNone == {}
=============================================================================
