-------------------------- MODULE RegionAllocator --------------------------
(***************************************************************************)
(* What an arena promises its callers: every region it hands out lies      *)
(* inside the arena it was asked of and overlaps no region still in use;   *)
(* resetting an arena takes all of its regions back at once.               *)
(***************************************************************************)
EXTENDS Integers

CONSTANTS Arenas,
          Base,       \* [Arenas -> Nat]: where each arena starts
          Cap         \* [Arenas -> Nat]: its size in bytes

VARIABLE live         \* regions in use: records with arena, index and len

First(g) == Base[g.arena] + g.index

Disjoint(g, h) == First(g) + g.len <= First(h) \/ First(h) + h.len <= First(g)

Inside(g) == 0 <= g.index /\ g.index + g.len <= Cap[g.arena]

Init == live = {}

Grant ==
    \E g \in live' \ live :
        /\ live' = live \cup {g}
        /\ Inside(g)
        /\ \A h \in live : Disjoint(g, h)

TakeBack(a) == live' = {g \in live : g.arena # a}

Next == Grant \/ \E a \in Arenas : TakeBack(a)

Spec == Init /\ [][Next]_live
=============================================================================
