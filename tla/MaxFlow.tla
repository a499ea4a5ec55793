------------------------------ MODULE MaxFlow ------------------------------
(***************************************************************************)
(* relational/flow_push_relabel.cpp on relational/graph_packed.hpp.  An    *)
(* edge is the pair of its ends; its reverse, m_rev, is the pair swapped;  *)
(* the edges of a node are in the order of their ends.  The sweep over the *)
(* nodes is taken an edge at a time.  Capacities are small integers, which *)
(* a float holds exactly.                                                  *)
(***************************************************************************)
EXTENDS Integers, FiniteSets, FiniteSetsExt

CONSTANTS NodeCount, Source, Sink,
          Capacities    \* the networks: functions from pairs of nodes to Nat

VARIABLES e_cap, e_flow,          \* m_capacity and m_flow of the edges
          n_excess, n_height,     \* m_excess and m_height of the nodes
          x_pc,                   \* "idle", "node", "edges" or "returned"
          x_u, x_v,               \* the node and the edge of it the sweep is at
          x_active, x_pushed

flowVars == <<e_cap, e_flow, n_excess, n_height, x_pc, x_u, x_v, x_active, x_pushed>>
graphVars == <<e_cap, e_flow, n_excess, n_height>>

Vertices == 0 .. NodeCount - 1
Pairs == {p \in Vertices \X Vertices : p[1] # p[2]}

ASSUME FlowAssumption ==
    /\ NodeCount \in Nat /\ Source \in Vertices /\ Sink \in Vertices \ {Source}
    /\ Capacities \subseteq [Pairs -> Nat]
-----------------------------------------------------------------------------
\* A pair is an edge of the graph if it or its reverse can carry anything.
Edge(u, v) == u # v /\ e_cap[<<u, v>>] + e_cap[<<v, u>>] > 0
Residual(u, v) == e_cap[<<u, v>>] - e_flow[<<u, v>>]

FlowInit ==
    /\ e_cap = [p \in Pairs |-> 0] /\ e_flow = [p \in Pairs |-> 0]
    /\ n_excess = [v \in Vertices |-> 0] /\ n_height = [v \in Vertices |-> 0]
    /\ x_pc = "idle" /\ x_u = 0 /\ x_v = 0
    /\ x_active = FALSE /\ x_pushed = FALSE

\* initialize_preflow() on a graph with no flow, excess or height.
CallMaxFlow ==
    /\ x_pc = "idle"
    /\ \E cap \in Capacities :
          /\ e_cap' = cap
          /\ e_flow' = [p \in Pairs |-> IF p[1] = Source THEN cap[p]
                                        ELSE IF p[2] = Source THEN -cap[<<Source, p[1]>>]
                                        ELSE 0]
          /\ n_excess' = [v \in Vertices |-> IF v = Source THEN 0 ELSE cap[<<Source, v>>]]
    /\ n_height' = [n_height EXCEPT ![Source] = NodeCount]
    /\ x_pc' = "node"
    /\ UNCHANGED <<x_u, x_v, x_active, x_pushed>>

Idle(u) == u \in {Source, Sink} \/ n_excess[u] <= 0

SkipNode ==
    /\ x_pc = "node" /\ x_u < NodeCount /\ Idle(x_u)
    /\ x_u' = x_u + 1
    /\ UNCHANGED <<graphVars, x_pc, x_v, x_active, x_pushed>>

TakeNode ==
    /\ x_pc = "node" /\ x_u < NodeCount /\ ~Idle(x_u)
    /\ x_pc' = "edges" /\ x_v' = 0 /\ x_pushed' = FALSE
    /\ UNCHANGED <<graphVars, x_u, x_active>>

AtEdge == x_pc = "edges" /\ x_v < NodeCount
Admissible ==
    /\ Edge(x_u, x_v)
    /\ Residual(x_u, x_v) > 0 /\ n_height[x_u] = n_height[x_v] + 1

PassEdge ==
    /\ AtEdge /\ ~Admissible
    /\ x_v' = x_v + 1
    /\ UNCHANGED <<graphVars, x_pc, x_u, x_active, x_pushed>>

\* Mutant: all of the excess is pushed, more than the edge can carry.
PushedAll(u, v) == n_excess[u]
Pushed(u, v) == Min({n_excess[u], Residual(u, v)})

\* op_push(): the flow of the reverse edge stays as it is.  A node with nothing
\* left to push breaks the loop over its edges.
Push_uv ==
    /\ AtEdge /\ Admissible
    /\ LET delta == Pushed(x_u, x_v)
       IN  /\ e_flow' = [e_flow EXCEPT ![<<x_u, x_v>>] = @ + delta]
           /\ n_excess' = [n_excess EXCEPT ![x_u] = @ - delta, ![x_v] = @ + delta]
           /\ x_v' = IF n_excess[x_u] = delta THEN NodeCount ELSE x_v + 1
    /\ x_active' = TRUE /\ x_pushed' = TRUE
    /\ UNCHANGED <<e_cap, n_height, x_pc, x_u>>

Neighbours(u) == {v \in Vertices : Edge(u, v) /\ Residual(u, v) > 0}

\* Mutant: the new height is counted from the highest neighbour.
RelabelledHigh(u) == Max({n_height[v] : v \in Neighbours(u)}) + 1
Relabelled(u) == Min({n_height[v] : v \in Neighbours(u)}) + 1

\* The end of a node's edges; op_relabel() if nothing was pushed.
LeaveNode ==
    /\ x_pc = "edges" /\ x_v = NodeCount
    /\ IF x_pushed THEN UNCHANGED <<n_height, x_active>>
       ELSE /\ x_active' = TRUE
            /\ n_height' = IF Neighbours(x_u) = {} THEN n_height
                           ELSE [n_height EXCEPT ![x_u] = Relabelled(x_u)]
    /\ x_u' = x_u + 1 /\ x_pc' = "node"
    /\ UNCHANGED <<e_cap, e_flow, n_excess, x_v, x_pushed>>

SweepAgain ==
    /\ x_pc = "node" /\ x_u = NodeCount /\ x_active
    /\ x_u' = 0 /\ x_active' = FALSE
    /\ UNCHANGED <<graphVars, x_pc, x_v, x_pushed>>

FlowReturns ==
    /\ x_pc = "node" /\ x_u = NodeCount /\ ~x_active
    /\ x_pc' = "returned"
    /\ UNCHANGED <<graphVars, x_u, x_v, x_active, x_pushed>>

Sweep == \/ SkipNode \/ TakeNode \/ PassEdge \/ Push_uv \/ LeaveNode
         \/ SweepAgain \/ FlowReturns
FlowNext == CallMaxFlow \/ Sweep

FlowSpec == FlowInit /\ [][FlowNext]_flowVars /\ WF_flowVars(Sweep)
-----------------------------------------------------------------------------
\* Types of the network's variables.
FlowTypeOK ==
    /\ e_cap \in [Pairs -> Nat] /\ e_flow \in [Pairs -> Int]
    /\ n_excess \in [Vertices -> Int] /\ n_height \in [Vertices -> Nat]
    /\ x_pc \in {"idle", "node", "edges", "returned"}
    /\ x_u \in 0 .. NodeCount /\ x_v \in 0 .. NodeCount
    /\ x_active \in BOOLEAN /\ x_pushed \in BOOLEAN

\* A preflow at every step of the sweep: no edge carries more than its
\* capacity, no node owes any excess, what left the source is at the nodes or
\* came back to it, and the sink never holds more than the least cut lets
\* through, so an answer can only be too small (lines 41-54 and 91-108).
Crossing(S) == {p \in Pairs : p[1] \in S /\ p[2] \notin S}
Cut(S) == SumFunctionOnSet(e_cap, Crossing(S))
LeastCut == Min({Cut(S \cup {Source}) : S \in SUBSET (Vertices \ {Source, Sink})})
FromSource == [v \in Vertices |-> IF v = Source THEN 0 ELSE e_cap[<<Source, v>>]]
Preflow ==
    /\ \A p \in Pairs : e_flow[p] <= e_cap[p]
    /\ \A v \in Vertices : n_excess[v] >= 0
    /\ x_pc # "idle" => SumFunctionOnSet(n_excess, Vertices)
                          = SumFunctionOnSet(FromSource, Vertices)
    /\ n_excess[Sink] <= LeastCut

\* Heights fall by at most one along an edge that can carry more, so an excess
\* never skips a level on its way down (lines 62-83 and 141-151).
HeightsFallByOne ==
    \A u, v \in Vertices :
        Edge(u, v) /\ Residual(u, v) > 0 /\ x_pc # "idle" =>
            n_height[u] <= n_height[v] + 1

\* "Calcula fluxo maximo entre source e sink" (line 111): a call ends, and its
\* answer is the capacity of the least cut.
FlowIsMaximal ==
    x_pc = "node" ~> x_pc = "returned" /\ n_excess[Sink] = LeastCut
=============================================================================
