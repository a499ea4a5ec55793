------------------------------ MODULE MaxHeap ------------------------------
(***************************************************************************)
(* priority_wing/heap_binary.hpp: a binary heap of handles in an array of  *)
(* the arena, the greatest element on top.  The loops of push and          *)
(* max_heapify are taken one exchange at a time; h_pc tells which of them  *)
(* runs and h_i the node it has reached.                                   *)
(***************************************************************************)
EXTENDS Integers, FiniteSets

CONSTANTS Tasks,      \* what the handles point to
          Priority,   \* [Tasks -> Nat]: m_priority of each
          HeapRoom    \* m_capacity

ASSUME HeapAssumption ==
    /\ Priority \in [Tasks -> Nat] /\ HeapRoom \in Nat \ {0}
    /\ "unwritten" \notin Tasks

VARIABLES h_data, h_size,   \* m_data and m_size
          h_pc, h_i,
          h_root            \* the element pop() returns

heapVars == <<h_data, h_size, h_pc, h_i, h_root>>

Unwritten == "unwritten"    \* array memory nothing was stored in yet
-----------------------------------------------------------------------------
Less(x, y) == Priority[x] < Priority[y]

Parent(i) == (i - 1) \div 2
LeftOf(i)  == 2 * i + 1
RightOf(i) == 2 * i + 2

Exchanged(i, j) == [h_data EXCEPT ![i] = h_data[j], ![j] = h_data[i]]

\* Mutant: a right child greater than the node wins without a look at the left.
LargestOfRight(i) ==
    IF RightOf(i) < h_size /\ Less(h_data[i], h_data[RightOf(i)]) THEN RightOf(i)
    ELSE IF LeftOf(i) < h_size /\ Less(h_data[i], h_data[LeftOf(i)]) THEN LeftOf(i)
    ELSE i

Larger(i, j) == IF j < h_size /\ Less(h_data[i], h_data[j]) THEN j ELSE i
Largest(i) == Larger(Larger(i, LeftOf(i)), RightOf(i))

HeapInit ==
    /\ h_data = [i \in 0 .. HeapRoom - 1 |-> Unwritten] /\ h_size = 0
    /\ h_pc = "idle" /\ h_i = 0 /\ h_root = Unwritten

\* push(), up to its loop.  A full heap drops the handle without a word.
Push(x) ==
    /\ h_pc = "idle"
    /\ IF h_size >= HeapRoom
         THEN UNCHANGED <<h_data, h_size, h_pc, h_i>>
         ELSE /\ h_data' = [h_data EXCEPT ![h_size] = x]
              /\ h_size' = h_size + 1
              /\ h_i' = h_size
              /\ h_pc' = "rise"
    /\ UNCHANGED h_root

Rise ==
    /\ h_pc = "rise"
    /\ IF h_i > 0 /\ Less(h_data[Parent(h_i)], h_data[h_i])
         THEN h_data' = Exchanged(h_i, Parent(h_i)) /\ h_i' = Parent(h_i) /\ UNCHANGED h_pc
         ELSE h_pc' = "idle" /\ UNCHANGED <<h_data, h_i>>
    /\ UNCHANGED <<h_size, h_root>>

\* Mutant: the last handle is taken from one place past it.
PopPastLast ==
    /\ h_pc = "idle" /\ h_size > 0
    /\ h_root' = h_data[0]
    /\ h_data' = [h_data EXCEPT ![0] = h_data[IF h_size < HeapRoom THEN h_size ELSE 0]]
    /\ h_size' = h_size - 1
    /\ h_i' = 0
    /\ h_pc' = "descend"

\* pop(), up to max_heapify(0).
Pop ==
    /\ h_pc = "idle" /\ h_size > 0
    /\ h_root' = h_data[0]
    /\ h_data' = [h_data EXCEPT ![0] = h_data[h_size - 1]]
    /\ h_size' = h_size - 1
    /\ h_i' = 0
    /\ h_pc' = "descend"

Descend ==
    /\ h_pc = "descend" /\ Largest(h_i) # h_i
    /\ h_data' = Exchanged(h_i, Largest(h_i))
    /\ h_i' = Largest(h_i)
    /\ UNCHANGED <<h_size, h_pc, h_root>>

PopReturns ==
    /\ h_pc = "descend" /\ Largest(h_i) = h_i
    /\ h_pc' = "idle"
    /\ UNCHANGED <<h_data, h_size, h_i, h_root>>
-----------------------------------------------------------------------------
\* Types of the heap's variables; the array is written up to its size.
HeapTypeOK ==
    /\ h_data \in [0 .. HeapRoom - 1 -> Tasks \cup {Unwritten}]
    /\ h_size \in 0 .. HeapRoom
    /\ \A i \in 0 .. h_size - 1 : h_data[i] \in Tasks
    /\ h_pc \in {"idle", "rise", "descend"}
    /\ h_i \in 0 .. HeapRoom - 1
    /\ h_root \in Tasks \cup {Unwritten}

\* The heap is ordered between calls, and in the middle of one everywhere but
\* at the node the loop has reached: above it while it rises, below it while it
\* descends (lines 53-71 and 91-96).
Ordered(i) == ~Less(h_data[Parent(i)], h_data[i])
SpansMoving(i) ==
    Parent(i) = h_i /\ h_i > 0 => ~Less(h_data[Parent(h_i)], h_data[i])
HeapOrder ==
    \A i \in 1 .. h_size - 1 :
        /\ \/ h_pc = "rise" /\ i = h_i
           \/ h_pc = "descend" /\ Parent(i) = h_i
           \/ Ordered(i)
        /\ h_pc # "idle" => SpansMoving(i)

\* Whatever is pushed and popped in between, the heap is a bounded priority
\* queue: nothing is lost or doubled by the exchanges, and pop() returns an
\* element no queued one outranks (lines 84-109).
Greater(x, y) == Less(y, x)
HeapBag == [x \in Tasks |-> Cardinality({i \in 0 .. h_size - 1 : h_data[i] = x})]
Queue == INSTANCE PriorityBag WITH
             Things <- Tasks, Room <- HeapRoom, Before <- Greater,
             bag <- HeapBag, out <- h_root
HeapImplementsBag == Queue!Spec
=============================================================================
