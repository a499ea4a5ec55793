-------------------------- MODULE MCScalableArena --------------------------
(* Two threads; two arenas, of 18 and 8 bytes.  Chunks are 4 to 14 bytes;    *)
(* objects take 2, 6 and 14 bytes once rounded: two to a smallest chunk, two *)
(* to a doubled chunk, and filling the largest chunk.                        *)
EXTENDS ScalableArena, TLC

CONSTANTS t1, t2

MCThreads == {t1, t2}
Symmetry == Permutations(MCThreads)

MCArenas == {"a", "b"}
MCBase == [a \in MCArenas |-> IF a = "a" THEN 32 ELSE 64]
MCCap == [a \in MCArenas |-> IF a = "a" THEN 18 ELSE 8]
MCRequests == {[size |-> s, align |-> 2] : s \in {1, 5, 14}}
AllRules == {"one arena", "fits", "quiescent"}

\* For the runs that drop a rule, and the one that mixes alignments.
TwoPoolRules == AllRules \ {"one arena"}
AnySizeRules == AllRules \ {"fits"}
MixedRequests == {[size |-> 1, align |-> 1], [size |-> 2, align |-> 2]}
OversizeRequests == {[size |-> s, align |-> 2] : s \in {1, 24}}
=============================================================================
