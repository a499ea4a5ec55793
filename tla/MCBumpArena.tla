---------------------------- MODULE MCBumpArena ----------------------------
(* Two threads on an arena that rounds and can be reset, and on one that     *)
(* puts a header before each object and cannot.                              *)
EXTENDS BumpArena, TLC

CONSTANTS t1, t2

MCThreads == {t1, t2}
Symmetry == Permutations(MCThreads)

MCArenas == {"atomic", "universal"}
PerArena(atomic, universal) ==
    [a \in MCArenas |-> IF a = "atomic" THEN atomic ELSE universal]
MCBase == PerArena(0, 16)
MCCap == PerArena(10, 12)
MCRound == PerArena(4, 1)
MCHeader == PerArena(0, 2)
MCIndexMod == PerArena(16, 64)
MCResettable == {"atomic"}
MCRules == {"quiescent"}
MCSizes == {1, 3, 6}
=============================================================================
