--------------------------- MODULE ScalableArena ---------------------------
(***************************************************************************)
(* core/sys/arena.hpp: a bump allocator in two levels.  Each thread cuts   *)
(* objects from a chunk of its own and takes the next chunk from the arena *)
(* with an atomic fetch_add.  The chunk is a static thread_local: a thread *)
(* has one, whatever the number of arenas.                                 *)
(*                                                                         *)
(* allocate() is one step when the chunk has room, two when it has not:    *)
(* the fetch_add, which other threads see, and the rest of the call.       *)
(*                                                                         *)
(* The code states no rule for its callers.  Rules names the ones a caller *)
(* keeps, so that a configuration can drop one:                            *)
(*   "one arena"  a thread whose chunk is in an arena allocates only there *)
(*   "fits"       no object is larger than the largest chunk               *)
(*   "quiescent"  an arena is reset only when no other thread has a chunk  *)
(*                in it or is inside allocate()                            *)
(***************************************************************************)
EXTENDS Integers

CONSTANTS Threads, Arenas,
          Base,        \* [Arenas -> Nat]: address of the buffer (m_base)
          Cap,         \* [Arenas -> Nat]: its size (m_capacity)
          ChunkMin,    \* TLS_CHUNK_MIN, 64 KB
          ChunkMax,    \* TLS_CHUNK_MAX, 256 KB
          IndexMod,    \* 2^32: a handle's offset is a uint32_t
          Requests,    \* what callers ask for: size in bytes, alignof(T)
          Rules,
          MaxOffset    \* bound: m_offset grows no further

ASSUME BufferAssumption ==
    /\ Base \in [Arenas -> Nat \ {0}]
    /\ Cap \in [Arenas -> Nat]
    /\ \A a, b \in Arenas : a # b =>
          Base[a] + Cap[a] <= Base[b] \/ Base[b] + Cap[b] <= Base[a]
    /\ IndexMod \in Nat \ {0}
    /\ \A a \in Arenas : Cap[a] <= IndexMod

ASSUME ChunkAssumption ==
    ChunkMin \in Nat \ {0} /\ ChunkMax \in Nat /\ ChunkMin <= ChunkMax

ASSUME RequestAssumption ==
    Requests \subseteq [size : Nat \ {0}, align : Nat \ {0}]

ASSUME BoundAssumption == MaxOffset \in Nat

ASSUME RulesAssumption == Rules \subseteq {"one arena", "fits", "quiescent"}

VARIABLES m_offset,    \* [Arenas -> Nat]: bytes taken from each arena
          t_chunk,     \* [Threads -> chunk]: base 0 is nullptr
          t_call,      \* [Threads -> call]: an allocate() between its steps
          live         \* history: regions handed out and not reset since

vars == <<m_offset, t_chunk, t_call, live>>
-----------------------------------------------------------------------------
NoChunk == [base |-> 0, used |-> 0, size |-> 0]

Idle == [pc |-> "idle"]

\* Mutant: sizes are used as they come.
NotRounded(size, align) == size

RoundUp(size, align) == ((size + align - 1) \div align) * align
Need(req) == RoundUp(req.size, req.align)

\* Mutant: chunks of one size, as in v2.1.
ChunkForFixed(need) == ChunkMin

ChunkFor(need) ==
    IF need <= ChunkMin THEN ChunkMin
    ELSE IF 2 * need < ChunkMax THEN 2 * need ELSE ChunkMax

\* Mutant: the test looks at where the object starts, not at where it ends.
HasSpaceLoose(chunk, need) == chunk.base # 0 /\ chunk.used < chunk.size

HasSpace(chunk, need) == chunk.base # 0 /\ chunk.used + need <= chunk.size

ChunkIn(t, a) == /\ t_chunk[t].base >= Base[a]
                 /\ t_chunk[t].base < Base[a] + Cap[a]

\* Mutant: the handle keeps the address instead of the distance from m_base.
HandleForAddress(a, ptr, req) ==
    [arena |-> a, index |-> ptr, len |-> req.size, align |-> req.align,
     twice |-> \E g \in live : g.arena = a /\ g.index = ptr /\ g.len = req.size]

\* Handle{uint32_t(ptr - m_base), m_base}; twice tells a region handed out
\* while it is in use already from the one it repeats.
HandleFor(a, ptr, req) ==
    LET index == (ptr - Base[a]) % IndexMod
    IN  [arena |-> a, index |-> index, len |-> req.size, align |-> req.align,
         twice |-> \E g \in live : g.arena = a /\ g.index = index
                                               /\ g.len = req.size]

\* What the callers' rules say of an allocation.
Allowed(t, a, req) ==
    /\ "one arena" \in Rules => t_chunk[t].base = 0 \/ ChunkIn(t, a)
    /\ "fits" \in Rules => Need(req) <= ChunkMax

Quiescent(t, a) ==
    \A u \in Threads \ {t} : /\ ~ChunkIn(u, a)
                             /\ t_call[u] # Idle => t_call[u].arena # a
-----------------------------------------------------------------------------
Init ==
    /\ m_offset = [a \in Arenas |-> 0]
    /\ t_chunk = [t \in Threads |-> NoChunk]
    /\ t_call = [t \in Threads |-> Idle]
    /\ live = {}

InitializeThread(t) ==
    /\ t_call[t] = Idle
    /\ t_chunk' = [t_chunk EXCEPT ![t] = NoChunk]
    /\ UNCHANGED <<m_offset, t_call, live>>

\* allocate() from the thread's chunk.
AllocateLocal(t, a, req) ==
    /\ t_call[t] = Idle
    /\ Allowed(t, a, req)
    /\ HasSpace(t_chunk[t], Need(req))
    /\ t_chunk' = [t_chunk EXCEPT ![t].used = @ + Need(req)]
    /\ live' = live \cup {HandleFor(a, t_chunk[t].base + t_chunk[t].used, req)}
    /\ UNCHANGED <<m_offset, t_call>>

\* allocate() without room in the chunk: refill_chunk's fetch_add.
RefillClaim(t, a, req) ==
    /\ t_call[t] = Idle
    /\ Allowed(t, a, req)
    /\ ~HasSpace(t_chunk[t], Need(req))
    /\ m_offset[a] + ChunkFor(Need(req)) <= MaxOffset
    /\ t_call' = [t_call EXCEPT ![t] =
                    [pc |-> "refill", arena |-> a, req |-> req,
                     off |-> m_offset[a], size |-> ChunkFor(Need(req))]]
    /\ m_offset' = [m_offset EXCEPT ![a] = @ + ChunkFor(Need(req))]
    /\ UNCHANGED <<t_chunk, live>>

\* Mutant: a refill that fails gives its bytes back.
RefillFailsReturning(t) ==
    /\ t_call[t] # Idle
    /\ t_call[t].off + t_call[t].size > Cap[t_call[t].arena]
    /\ t_call' = [t_call EXCEPT ![t] = Idle]
    /\ m_offset' = [m_offset EXCEPT ![t_call[t].arena] = @ - t_call[t].size]
    /\ UNCHANGED <<t_chunk, live>>

\* The chunk does not fit the arena: the bytes stay taken, the handle is null.
RefillFails(t) ==
    /\ t_call[t] # Idle
    /\ t_call[t].off + t_call[t].size > Cap[t_call[t].arena]
    /\ t_call' = [t_call EXCEPT ![t] = Idle]
    /\ UNCHANGED <<m_offset, t_chunk, live>>

\* The chunk becomes the thread's and the object is cut from its start.
RefillGrants(t) ==
    /\ t_call[t] # Idle
    /\ LET c == t_call[t]
           base == Base[c.arena] + c.off
       IN  /\ c.off + c.size <= Cap[c.arena]
           /\ t_chunk' = [t_chunk EXCEPT ![t] =
                            [base |-> base, used |-> Need(c.req), size |-> c.size]]
           /\ live' = live \cup {HandleFor(c.arena, base, c.req)}
    /\ t_call' = [t_call EXCEPT ![t] = Idle]
    /\ UNCHANGED m_offset

\* reset() clears the arena and the chunk of the calling thread only.
Reset(t, a) ==
    /\ t_call[t] = Idle
    /\ "quiescent" \in Rules => Quiescent(t, a)
    /\ m_offset' = [m_offset EXCEPT ![a] = 0]
    /\ t_chunk' = [t_chunk EXCEPT ![t] = NoChunk]
    /\ live' = {g \in live : g.arena # a}
    /\ UNCHANGED t_call

Step(t) ==
    \/ InitializeThread(t)
    \/ RefillFails(t)
    \/ RefillGrants(t)
    \/ \E a \in Arenas :
          \/ Reset(t, a)
          \/ \E req \in Requests : AllocateLocal(t, a, req) \/ RefillClaim(t, a, req)

Next == \E t \in Threads : Step(t)

Spec == Init /\ [][Next]_vars
-----------------------------------------------------------------------------
\* Types of every variable.
Chunk == [base : Nat, used : Nat, size : Nat]
Call  == [pc : {"refill"}, arena : Arenas, req : Requests,
          off : Nat, size : Nat]
Region == [arena : Arenas, index : 0 .. IndexMod - 1, len : Nat, align : Nat,
           twice : BOOLEAN]
TypeOK ==
    /\ m_offset \in [Arenas -> 0 .. MaxOffset]
    /\ t_chunk \in [Threads -> Chunk]
    /\ t_call \in [Threads -> Call \cup {Idle}]
    /\ live \subseteq Region

\* Callers that keep the three rules get what an arena promises, whatever the
\* interleaving of allocate() and reset() (lines 85-97, 115-139).
Regions == INSTANCE RegionAllocator
ImplementsRegions == Regions!Spec

\* No two regions in use overlap.
LiveDisjoint == \A g, h \in live : g # h => Regions!Disjoint(g, h)

\* A handle designates memory of the pool it carries: handle.hpp lines 21-24.
HandlesInPool == \A g \in live : Regions!Inside(g)

\* Every object is aligned as its type asks: the size is rounded (lines
\* 118-119) and the pointer is not, so this rests on what was allocated before.
Aligned == \A g \in live : Regions!First(g) % g.align = 0

\* A thread that keeps allocating one size does not go back to the arena right
\* after the object a refill gave it (lines 17-20), unless the size is more
\* than half of the chunk chunk_for gives (lines 50-55).
RefillAmortised ==
    [][\A t \in Threads :
         LET need == Need(t_call'[t].req)
         IN  /\ t_call[t] = Idle /\ t_call'[t] # Idle
             /\ t_chunk[t].base # 0 /\ t_chunk[t].used = need
             /\ t_chunk[t].size = ChunkFor(need)
             => \/ 2 * need > ChunkMax
                \/ need <= ChunkMin /\ 2 * need > ChunkMin]_vars
=============================================================================
