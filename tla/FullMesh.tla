------------------------------ MODULE FullMesh ------------------------------
(***************************************************************************)
(* relational/full_mesh_topology.hpp: the bitmask m_adj[i] is the set of   *)
(* the nodes whose bit is set.  Nodes that callers name may not exist.     *)
(***************************************************************************)
EXTENDS Integers

CONSTANTS NODES,    \* 13
          Named     \* numbers callers pass

ASSUME MeshAssumption == NODES \in Nat /\ Named \subseteq Nat

VARIABLE m_adj

meshVars == <<m_adj>>
MeshNodes == 0 .. NODES - 1
-----------------------------------------------------------------------------
MeshInit == m_adj = [i \in MeshNodes |-> {}]

Connect(i, j) ==
    /\ i < NODES /\ j < NODES
    /\ m_adj' = [n \in MeshNodes |-> m_adj[n] \cup (IF n = i THEN {j} ELSE {})
                                              \cup (IF n = j THEN {i} ELSE {})]

\* broadcast(): the mask is overwritten; the other nodes are not told.
Broadcast(i) ==
    /\ i < NODES
    /\ m_adj' = [m_adj EXCEPT ![i] = MeshNodes \ {i}]

MeshNext == \E i \in Named : Broadcast(i) \/ \E j \in Named : Connect(i, j)
-----------------------------------------------------------------------------
\* Types of the mesh's variables.
MeshTypeOK == m_adj \in [MeshNodes -> SUBSET MeshNodes]
=============================================================================
