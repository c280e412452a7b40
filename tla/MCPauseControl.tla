--------------------------- MODULE MCPauseControl ---------------------------
(* A world with caves and a surface-only world.                            *)
EXTENDS PauseControl, TLC

CONSTANTS w1, w2, p1, p2, p3
MCWorlds == {w1, w2}
MCWithCaves == {w1}
MCProcesses == {p1, p2, p3}
MCSymmetry == Permutations(MCProcesses)
=============================================================================
