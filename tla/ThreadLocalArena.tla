-------------------------- MODULE ThreadLocalArena --------------------------
(***************************************************************************)
(* core/sys/arena_thread_local.hpp: each thread has a block of its own,    *)
(* which initialize() makes of two allocations of the system, either of    *)
(* which may fail.  What the threads share is the system's heap: a chunk   *)
(* given back may be handed out again, to any thread.                      *)
(***************************************************************************)
EXTENDS Integers

CONSTANTS Owners,        \* threads
          Chunks,        \* what the system's heap can hand out
          BlockSizes,    \* sizes callers pass to initialize()
          AskedSizes,    \* sizes callers pass to allocate()
          Grain          \* 16: sizes are rounded up to this

ASSUME BlockAssumption ==
    /\ BlockSizes \subseteq Nat /\ AskedSizes \subseteq Nat \ {0}
    /\ Grain \in Nat \ {0}

VARIABLES t_block,       \* [Owners -> block]: the thread_local pointer
          a_making,      \* [Owners -> call]: an initialize() between its steps
          heap_used,     \* chunks the system has handed out
          a_live         \* history: regions threads were given and still use

localVars == <<t_block, a_making, heap_used, a_live>>
-----------------------------------------------------------------------------
None == [object |-> "null"]
NotMaking == [object |-> "none"]
RoundedUp(size) == ((size + Grain - 1) \div Grain) * Grain

LocalInit ==
    /\ t_block = [t \in Owners |-> None]
    /\ a_making = [t \in Owners |-> NotMaking]
    /\ heap_used = {} /\ a_live = {}

Outside(t) == a_making[t] = NotMaking

\* aligned_alloc_portable and aligned_free_portable on the system's heap.
AlignedAlloc(chunk) == chunk \notin heap_used /\ heap_used' = heap_used \cup {chunk}
AlignedFree(chunks) == heap_used' = heap_used \ chunks

\* initialize() of a thread that has no block: memory for the block itself.
InitializeObject(t, size) ==
    /\ Outside(t) /\ t_block[t] = None
    /\ \E chunk \in Chunks :
          /\ AlignedAlloc(chunk)
          /\ a_making' = [a_making EXCEPT ![t] = [object |-> chunk, size |-> size]]
    /\ UNCHANGED <<t_block, a_live>>

\* Block(size): its memory.
InitializeMemory(t) ==
    /\ ~Outside(t)
    /\ \E chunk \in Chunks :
          /\ AlignedAlloc(chunk)
          /\ t_block' = [t_block EXCEPT ![t] =
                [object |-> a_making[t].object, memory |-> chunk,
                 capacity |-> a_making[t].size, offset |-> 0]]
    /\ a_making' = [a_making EXCEPT ![t] = NotMaking]
    /\ UNCHANGED a_live

\* Mutant: the pointer is cleared and the block is not given back.
InitializeFailsKeeping(t) ==
    /\ ~Outside(t)
    /\ a_making' = [a_making EXCEPT ![t] = NotMaking]
    /\ UNCHANGED <<t_block, heap_used, a_live>>

\* There is no memory: !valid() destroys the block and gives it back.
InitializeFails(t) ==
    /\ ~Outside(t)
    /\ AlignedFree({a_making[t].object})
    /\ a_making' = [a_making EXCEPT ![t] = NotMaking]
    /\ UNCHANGED <<t_block, a_live>>

Ready(t) == Outside(t) /\ t_block[t] # None

\* Block::allocate; null, and nothing changes, when the block is full.
Allocate(t, size) ==
    /\ Ready(t) /\ t_block[t].offset + RoundedUp(size) <= t_block[t].capacity
    /\ a_live' = a_live \cup {[owner |-> t, memory |-> t_block[t].memory,
                               first |-> t_block[t].offset, len |-> RoundedUp(size)]}
    /\ t_block' = [t_block EXCEPT ![t].offset = @ + RoundedUp(size)]
    /\ UNCHANGED <<a_making, heap_used>>

\* Callers give up the regions of a block when they reset it or shut it down.
Released(t) == {g \in a_live : g.owner # t}

ResetBlock(t) ==
    /\ Ready(t)
    /\ t_block' = [t_block EXCEPT ![t].offset = 0]
    /\ a_live' = Released(t)
    /\ UNCHANGED <<a_making, heap_used>>

Shutdown(t) ==
    /\ Ready(t)
    /\ AlignedFree({t_block[t].object, t_block[t].memory})
    /\ t_block' = [t_block EXCEPT ![t] = None]
    /\ a_live' = Released(t)
    /\ UNCHANGED a_making

LocalNext ==
    \E t \in Owners :
        \/ \E size \in BlockSizes : InitializeObject(t, size)
        \/ InitializeMemory(t)
        \/ InitializeFails(t)
        \/ \E size \in AskedSizes : Allocate(t, size)
        \/ ResetBlock(t)
        \/ Shutdown(t)
-----------------------------------------------------------------------------
\* Types of the arena's variables.
BlockRecord == [object : Chunks, memory : Chunks, capacity : BlockSizes, offset : Nat]
LocalTypeOK ==
    /\ t_block \in [Owners -> BlockRecord \cup {None}]
    /\ a_making \in [Owners -> [object : Chunks, size : BlockSizes] \cup {NotMaking}]
    /\ heap_used \subseteq Chunks
    /\ a_live \subseteq [owner : Owners, memory : Chunks, first : Nat, len : Nat]

ChunksOf(t) ==
    IF ~Outside(t) THEN {a_making[t].object}
    ELSE IF t_block[t] = None THEN {}
    ELSE {t_block[t].object, t_block[t].memory}

ChunksOwned ==
    /\ heap_used = UNION {ChunksOf(t) : t \in Owners}
    /\ \A t, u \in Owners : t # u => ChunksOf(t) \cap ChunksOf(u) = {}
    /\ \A t \in Owners : t_block[t] # None => t_block[t].object # t_block[t].memory

RegionsInBlock ==
    \A g \in a_live :
        /\ t_block[g.owner] # None /\ g.memory = t_block[g.owner].memory
        /\ g.first + g.len <= t_block[g.owner].capacity
        /\ \A k \in a_live : \/ k = g \/ k.memory # g.memory
                             \/ g.first + g.len <= k.first \/ k.first + k.len <= g.first

\* Whichever allocation fails, every chunk taken from the system belongs to
\* exactly one thread: none leaks, none is given back twice (lines 89-127).  So
\* the regions in use lie in memory their thread still holds and overlap no
\* other, although the system hands chunks out again (lines 61-73).
BlocksPrivate == ChunksOwned /\ RegionsInBlock
=============================================================================
