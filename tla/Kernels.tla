------------------------------ MODULE Kernels ------------------------------
(***************************************************************************)
(* core/platform/vcore_sse4.cpp, vcore_avx2.cpp and vcore_avx512.cpp:      *)
(* output[i] = input[i] * scale + bias in blocks of a vector, and the rest *)
(* one by one or under a mask.  An element of the output is the number of  *)
(* times it was computed and stored; what is computed is left out.         *)
(***************************************************************************)
EXTENDS Integers

CONSTANTS Kernels,     \* subset of {"v128", "v256", "v512"}
          MaxCount     \* bound: floats in the buffers

ASSUME KernelAssumption == "none" \notin Kernels /\ MaxCount \in Nat

VARIABLES k_pc,                 \* "idle", "run" or "returned"
          k_kernel, k_count,    \* which kernel runs, and its count
          k_i,                  \* its loop counter
          k_output,             \* the output buffer, longer than count
          k_read                \* history: the elements of input that were loaded

kernelVars == <<k_pc, k_kernel, k_count, k_i, k_output, k_read>>
-----------------------------------------------------------------------------
Buffer == 0 .. MaxCount + 15

Width(kernel) == CASE kernel = "v128" -> 4 [] kernel = "v256" -> 8 [] OTHER -> 16

KernelInit ==
    /\ k_pc = "idle" /\ k_kernel = "none" /\ k_count = 0 /\ k_i = 0
    /\ k_output = [i \in Buffer |-> 0] /\ k_read = {}

CallKernel(kernel, count) ==
    /\ k_pc = "idle" /\ k_pc' = "run"
    /\ k_kernel' = kernel /\ k_count' = count
    /\ UNCHANGED <<k_i, k_output, k_read>>

\* The elements of these indices are loaded, transformed and stored.
Processes(indices) ==
    /\ k_output' = [i \in Buffer |->
                      IF i \in indices THEN k_output[i] + 1 ELSE k_output[i]]
    /\ k_read' = k_read \cup indices
    /\ UNCHANGED <<k_kernel, k_count>>

BlockFits == k_i + Width(k_kernel) <= k_count

\* A round of the vector loop, and one of the scalar loop for the rest.
VectorRound(kernel) ==
    /\ k_pc = "run" /\ k_kernel = kernel /\ BlockFits
    /\ Processes(k_i .. k_i + Width(kernel) - 1)
    /\ k_i' = k_i + Width(kernel)
    /\ UNCHANGED k_pc

ScalarRound(kernel) ==
    /\ k_pc = "run" /\ k_kernel = kernel /\ ~BlockFits /\ k_i < k_count
    /\ Processes({k_i})
    /\ k_i' = k_i + 1
    /\ UNCHANGED k_pc

Block128 == VectorRound("v128")
Tail128  == ScalarRound("v128")
Block256 == VectorRound("v256")
Tail256  == ScalarRound("v256")
Block512 == VectorRound("v512")

\* The rest under a mask of (1 << (count - i)) - 1, cut to 16 bits, and return.
Tail512 ==
    LET mask == (2 ^ (k_count - k_i) - 1) % 2 ^ 16
    IN  /\ k_pc = "run" /\ k_kernel = "v512" /\ ~BlockFits /\ k_i < k_count
        /\ Processes({k_i + l : l \in {l \in 0 .. 15 : (mask \div 2 ^ l) % 2 = 1}})
        /\ k_pc' = "returned"
        /\ UNCHANGED k_i

\* Mutant: the elements after the last whole block are forgotten.
ReturnsAfterBlocks ==
    /\ k_pc = "run" /\ ~BlockFits
    /\ k_pc' = "returned"
    /\ UNCHANGED <<k_kernel, k_count, k_i, k_output, k_read>>

\* Neither loop has a round left.
KernelReturns ==
    /\ k_pc = "run" /\ ~BlockFits /\ ~(k_i < k_count)
    /\ k_pc' = "returned"
    /\ UNCHANGED <<k_kernel, k_count, k_i, k_output, k_read>>

KernelNext ==
    \/ \E kernel \in Kernels, count \in 0 .. MaxCount : CallKernel(kernel, count)
    \/ Block128 \/ Block256 \/ Block512
    \/ Tail128 \/ Tail256 \/ Tail512
    \/ KernelReturns
-----------------------------------------------------------------------------
\* Types of the kernels' variables.
KernelTypeOK ==
    /\ k_pc \in {"idle", "run", "returned"}
    /\ k_kernel \in Kernels \cup {"none"} /\ k_count \in 0 .. MaxCount
    /\ k_i \in Nat /\ k_output \in [Buffer -> Nat] /\ k_read \subseteq Buffer

\* Whatever the count, a kernel loads and stores nothing past it and stores no
\* element twice on the way, and when it returns it has loaded and stored every
\* one: the vector loop and the tail meet without a gap, an overlap or an
\* overrun, and no rest is left out (sse4 58-75, avx2 62-80, avx512 58-78).
KernelsCoverExactly ==
    /\ k_read \subseteq 0 .. k_count - 1
    /\ \A i \in Buffer : k_output[i] <= (IF i < k_count THEN 1 ELSE 0)
    /\ k_pc = "returned" =>
          /\ k_read = 0 .. k_count - 1
          /\ \A i \in 0 .. k_count - 1 : k_output[i] = 1
=============================================================================
