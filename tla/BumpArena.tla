----------------------------- MODULE BumpArena -----------------------------
(***************************************************************************)
(* The arenas with one level: every allocation is a fetch_add on one       *)
(* atomic offset and a test of what it returned.                           *)
(*                                                                         *)
(*   arena                                      rounds to  header  answer  *)
(*   ArenaAtomic     core/sys/arena_atomic.hpp      16        0    32 bits *)
(*   PersistentArena core/sys/persistent_arena.hpp  64        0    pointer *)
(*   UniversalArena  src/super_core.hpp              1       16    pointer *)
(*   ScalableArena   bench/research_suite.cpp       16        0    pointer *)
(*                                                                         *)
(* They differ in the constants only; UniversalArena has no reset.         *)
(* Threads interleave between the fetch_add and the test.  reset() does    *)
(* not look for threads inside allocate(): that callers reset an arena     *)
(* only then is the rule "quiescent", and Rules says whether it is kept.   *)
(***************************************************************************)
EXTENDS Integers

CONSTANTS Threads, Arenas,
          Base,        \* [Arenas -> Nat]: address of the memory
          Cap,         \* [Arenas -> Nat]: its size
          Round,       \* [Arenas -> Nat]: sizes are rounded up to this
          Header,      \* [Arenas -> Nat]: bytes put before each object
          IndexMod,    \* [Arenas -> Nat]: width of the answer's offset (2^32: a handle)
          Resettable,  \* the arenas with a reset()
          Rules,
          Sizes,       \* object sizes callers ask for
          MaxOffset    \* bound: an offset grows no further

ASSUME BufferAssumption ==
    /\ Base \in [Arenas -> Nat] /\ Cap \in [Arenas -> Nat]
    /\ IndexMod \in [Arenas -> Nat \ {0}]
    /\ \A a \in Arenas : Cap[a] <= IndexMod[a]
    /\ \A a, b \in Arenas : a # b =>
          Base[a] + Cap[a] <= Base[b] \/ Base[b] + Cap[b] <= Base[a]

ASSUME SizeAssumption ==
    /\ Round \in [Arenas -> Nat \ {0}] /\ Header \in [Arenas -> Nat]
    /\ Sizes \subseteq Nat \ {0}
    /\ MaxOffset \in Nat

ASSUME ResetAssumption == Resettable \subseteq Arenas /\ Rules \subseteq {"quiescent"}

VARIABLES m_offset,    \* [Arenas -> Nat]: bytes taken from each arena
          t_call,      \* [Threads -> call]: an allocate() between its steps
          live         \* history: regions (header and object) in use

vars == <<m_offset, t_call, live>>
-----------------------------------------------------------------------------
Idle == [pc |-> "idle"]

RoundUp(size, align) == ((size + align - 1) \div align) * align
\* Mutant: room for the header is taken twice.
NeedTwoHeaders(a, size) == RoundUp(size + 2 * Header[a], Round[a])
Need(a, size) == RoundUp(size + Header[a], Round[a])

\* twice tells a region handed out while in use already from the one it repeats.
RegionFor(a, off, size) ==
    LET len == size + Header[a]
        index == off % IndexMod[a]
    IN  [arena |-> a, index |-> index, len |-> len,
         twice |-> \E g \in live : g.arena = a /\ g.index = index /\ g.len = len]

Init ==
    /\ m_offset = [a \in Arenas |-> 0]
    /\ t_call = [t \in Threads |-> Idle]
    /\ live = {}

\* m_offset.fetch_add(aligned)
Claim(t, a, size) ==
    /\ t_call[t] = Idle
    /\ m_offset[a] + Need(a, size) <= MaxOffset
    /\ t_call' = [t_call EXCEPT ![t] =
                    [pc |-> "test", arena |-> a, off |-> m_offset[a], size |-> size]]
    /\ m_offset' = [m_offset EXCEPT ![a] = @ + Need(a, size)]
    /\ UNCHANGED live

Fits(c) == c.off + Need(c.arena, c.size) <= Cap[c.arena]

\* Mutant: an allocation that fails gives its bytes back.
FailsReturning(t) ==
    /\ t_call[t] # Idle /\ ~Fits(t_call[t])
    /\ t_call' = [t_call EXCEPT ![t] = Idle]
    /\ m_offset' = [m_offset EXCEPT ![t_call[t].arena] =
                      @ - Need(t_call[t].arena, t_call[t].size)]
    /\ UNCHANGED live

\* if (offset + aligned > m_capacity) return null: the bytes stay taken.
Fails(t) ==
    /\ t_call[t] # Idle /\ ~Fits(t_call[t])
    /\ t_call' = [t_call EXCEPT ![t] = Idle]
    /\ UNCHANGED <<m_offset, live>>

Grants(t) ==
    /\ t_call[t] # Idle /\ Fits(t_call[t])
    /\ live' = live \cup {RegionFor(t_call[t].arena, t_call[t].off, t_call[t].size)}
    /\ t_call' = [t_call EXCEPT ![t] = Idle]
    /\ UNCHANGED m_offset

Quiescent(a) == \A u \in Threads : t_call[u] # Idle => t_call[u].arena # a

Reset(t, a) ==
    /\ a \in Resettable
    /\ t_call[t] = Idle
    /\ "quiescent" \in Rules => Quiescent(a)
    /\ m_offset' = [m_offset EXCEPT ![a] = 0]
    /\ live' = {g \in live : g.arena # a}
    /\ UNCHANGED t_call

Next ==
    \E t \in Threads :
        \/ Fails(t)
        \/ Grants(t)
        \/ \E a \in Arenas : Reset(t, a) \/ \E size \in Sizes : Claim(t, a, size)

Spec == Init /\ [][Next]_vars
-----------------------------------------------------------------------------
\* Types of every variable.
Call == [pc : {"test"}, arena : Arenas, off : Nat, size : Sizes]
Region == [arena : Arenas, index : Nat, len : Nat, twice : BOOLEAN]
TypeOK ==
    /\ m_offset \in [Arenas -> 0 .. MaxOffset]
    /\ t_call \in [Threads -> Call \cup {Idle}]
    /\ live \subseteq Region

\* "Cada thread obtem seu proprio offset unico" (arena_atomic.hpp line 60):
\* whatever the interleaving of the threads, the regions handed out lie in
\* their arena and overlap no region in use, headers included.
Regions == INSTANCE RegionAllocator
ImplementsRegions == Regions!Spec

\* Until an allocation fails, no byte of an arena is lost: below the offset
\* every byte belongs to a region in use or to a call that is about to get it,
\* up to the rounding of one object (fetch_add and test, lines 71-77).
NoByteLost ==
    \A a \in Arenas : \A byte \in 0 .. m_offset[a] - 1 :
        \/ m_offset[a] > Cap[a]
        \/ \E g \in live : /\ g.arena = a /\ g.index <= byte
                           /\ byte < g.index + RoundUp(g.len, Round[a])
        \/ \E t \in Threads : /\ t_call[t] # Idle /\ t_call[t].arena = a
                              /\ t_call[t].off <= byte
                              /\ byte < t_call[t].off + Need(a, t_call[t].size)
=============================================================================
