------------------------------ MODULE MCParts ------------------------------
(* Each part on an instance of its own, sized so that heaps are two levels   *)
(* deep, tables fill and wrap, trees get compressible paths, and networks    *)
(* have cycles.                                                              *)
EXTENDS Parts

MCTasks == {"low", "mid", "void", "top"}
MCPriority == [x \in MCTasks |-> CASE x = "low" -> 1 [] x = "top" -> 3 [] OTHER -> 2]
MCHasEntry == MCTasks \ {"void"}

MCNodes == {"p", "q", "r", "s"}
MCPoint == [n \in MCNodes |-> CASE n = "p" -> [x |-> 1, y |-> 2]
                                [] n = "q" -> [x |-> 2, y |-> 1]
                                [] OTHER -> [x |-> 2, y |-> 2]]

MCTableKeys == {0, 5, 6, 7, 13}
MCTableHandles == {"h", "k"}

MCSoaKeys == {"a", "b", "c"}
MCHome == [k \in MCSoaKeys |-> IF k = "c" THEN 3 ELSE 2]
MCSoaValues == {"u", "v"}

\* Every network of two inner nodes, capacities up to two.
MCInner == {p \in Pairs : p[2] # Source /\ p[1] # Sink /\ p # <<Source, Sink>>}
MCCapacities ==
    {[p \in Pairs |-> IF p \in MCInner THEN cap[p] ELSE 0] : cap \in [MCInner -> 0 .. 2]}

MCNamed == 0 .. 3
MCKernels == {"v128", "v256", "v512"}
=============================================================================
