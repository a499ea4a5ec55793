----------------------------- MODULE Partition -----------------------------
(***************************************************************************)
(* What a union-find structure promises: a partition of the elements whose *)
(* blocks are only ever merged, by the end of a union of members of both,  *)
(* and which answers whether two elements are in one block.                *)
(***************************************************************************)
CONSTANT Elements

VARIABLES blocks,    \* [Elements -> SUBSET Elements]: the block of each
          call,      \* the call in progress: op, a and b; op "none" outside
          answer     \* what the last "same" answered

vars == <<blocks, call, answer>>
NoCall == [op |-> "none"]

Init ==
    /\ blocks = [x \in Elements |-> {x}]
    /\ call = NoCall
    /\ answer = FALSE

Begin(op, a, b) ==
    /\ call = NoCall
    /\ call' = [op |-> op, a |-> a, b |-> b]
    /\ UNCHANGED <<blocks, answer>>

EndUnion ==
    /\ call.op = "union"
    /\ LET both == blocks[call.a] \cup blocks[call.b]
       IN  blocks' = [x \in Elements |-> IF x \in both THEN both ELSE blocks[x]]
    /\ call' = NoCall
    /\ UNCHANGED answer

EndSame ==
    /\ call.op = "same"
    /\ answer' = (call.a \in blocks[call.b])
    /\ call' = NoCall
    /\ UNCHANGED blocks

Next ==
    \/ EndUnion
    \/ EndSame
    \/ \E op \in {"union", "same"}, a \in Elements, b \in Elements : Begin(op, a, b)

Spec == Init /\ [][Next]_vars
=============================================================================
