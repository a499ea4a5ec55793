----------------------------- MODULE BinaryHeap -----------------------------
(***************************************************************************)
(* priority_wing/binary_heap.hpp holding points of                         *)
(* geometric_wing/spatial_node.hpp: the least point on top.  A call is one *)
(* step, its loop a recursive function.  m_data[0 .. m_size - 1] is the    *)
(* sequence b_data, so that index i of the code is i + 1 here.             *)
(***************************************************************************)
EXTENDS Integers, Sequences, FiniteSets

CONSTANTS Nodes,     \* what the handles point to
          Point,     \* [Nodes -> [x : Int, y : Int]]: no coordinate is a NaN
          MinRoom    \* m_capacity

NoNode == "none"

ASSUME PointAssumption ==
    Point \in [Nodes -> [x : Int, y : Int]] /\ MinRoom \in Nat /\ NoNode \notin Nodes

VARIABLES b_data, b_out    \* the heap, and what pop() returned last

minVars == <<b_data, b_out>>
-----------------------------------------------------------------------------
\* Mutant: the second coordinates decide although the first ones differ.
PointLessEither(p, q) == p.x < q.x \/ p.y < q.y
PointLess(p, q) == IF p.x # q.x THEN p.x < q.x ELSE p.y < q.y
NodeLess(a, b) == PointLess(Point[a], Point[b])

Swapped(s, i, j) == [s EXCEPT ![i] = s[j], ![j] = s[i]]

\* A heap and a node of it.
Moving == {p \in Seq(Nodes) \X (Nat \ {0}) : p[2] <= Len(p[1])}

\* The loop of push(), from node i upwards.
Risen[p \in Moving] ==
    LET s == p[1]
        i == p[2]
    IN  IF i > 1 /\ NodeLess(s[i], s[i \div 2])
          THEN Risen[<<Swapped(s, i, i \div 2), i \div 2>>]
          ELSE s

Lesser(s, i, j) == IF j <= Len(s) /\ NodeLess(s[j], s[i]) THEN j ELSE i
Smallest(s, i) == Lesser(s, Lesser(s, i, 2 * i), 2 * i + 1)

\* min_heapify(), from node i downwards.
Sunk[p \in Moving] ==
    LET s == p[1]
        i == p[2]
        least == Smallest(s, i)
    IN  IF least = i THEN s ELSE Sunk[<<Swapped(s, i, least), least>>]

MinInit == b_data = <<>> /\ b_out = NoNode

MinPush(n) ==
    /\ Len(b_data) < MinRoom
    /\ b_data' = Risen[<<Append(b_data, n), Len(b_data) + 1>>]
    /\ UNCHANGED b_out

MinPop ==
    /\ b_data # <<>>
    /\ b_out' = b_data[1]
    /\ LET last == Len(b_data)
           kept == SubSeq([b_data EXCEPT ![1] = b_data[last]], 1, last - 1)
       IN  b_data' = IF kept = <<>> THEN kept ELSE Sunk[<<kept, 1>>]

MinNext == MinPop \/ \E n \in Nodes : MinPush(n)
-----------------------------------------------------------------------------
\* Types of the heap's variables.
MinTypeOK ==
    b_data \in Seq(Nodes) /\ Len(b_data) <= MinRoom /\ b_out \in Nodes \cup {NoNode}

\* Points with equal coordinates included, pop() returns a point no queued one
\* is less than, and a push or a pop neither loses nor doubles another handle
\* (lines 59-125, with the lexicographic order of spatial_node.hpp 46-49).
MinBag == [n \in Nodes |-> Cardinality({i \in 1 .. Len(b_data) : b_data[i] = n})]
MinQueue == INSTANCE PriorityBag WITH
                Things <- Nodes, Room <- MinRoom, Before <- NodeLess,
                bag <- MinBag, out <- b_out
MinHeapImplementsBag == MinQueue!Spec
=============================================================================
