------------------------------- MODULE Parts -------------------------------
(***************************************************************************)
(* The parts of the system that share no state with another: the queue of  *)
(* the network programs and the pipeline over it, the priority wing, the   *)
(* relational wing, the vector kernels, the thread-local arena and the two *)
(* ingest programs of tests/.  Nothing one of them does can be seen by     *)
(* another, so a behaviour is one of one part, chosen at the start and     *)
(* named by `part`.                                                        *)
(***************************************************************************)
EXTENDS NetworkQueue, IngestPipeline, TaskScheduler, BinaryHeap, HashTable,
        HashMapSoA, DisjointSet, MaxFlow, FullMesh, Kernels, ThreadLocalArena,
        PersistentIngest, AuditLog

VARIABLE part

testVars == <<persistentVars, auditVars>>
partsVars == <<part, queueVars, pipeVars, schedVars, minVars, tableVars,
               soaVars, setVars, flowVars, meshVars, kernelVars, localVars, testVars>>
-----------------------------------------------------------------------------
PartsInit ==
    /\ part \in {"queue", "pipeline", "scheduler", "min heap", "table", "map",
                 "sets", "flow", "mesh", "kernels", "local arena",
                 "persistent", "audit"}
    /\ QueueInit /\ PipeInit /\ SchedInit /\ MinInit /\ TableInit /\ SoaInit /\
       SetInit /\ FlowInit /\ MeshInit /\ KernelInit /\ LocalInit /\
       PersistentInit /\ AuditInit

PartsNext ==
    \/ /\ part = "queue" /\ QueueNext
       /\ UNCHANGED <<part, pipeVars, schedVars, minVars, tableVars, soaVars,
                      setVars, flowVars, meshVars, kernelVars, localVars, testVars>>
    \/ /\ part = "pipeline" /\ PipeNext
       /\ UNCHANGED <<part, queueVars, schedVars, minVars, tableVars, soaVars,
                      setVars, flowVars, meshVars, kernelVars, localVars, testVars>>
    \/ /\ part = "scheduler" /\ SchedNext
       /\ UNCHANGED <<part, queueVars, pipeVars, minVars, tableVars, soaVars,
                      setVars, flowVars, meshVars, kernelVars, localVars, testVars>>
    \/ /\ part = "min heap" /\ MinNext
       /\ UNCHANGED <<part, queueVars, pipeVars, schedVars, tableVars, soaVars,
                      setVars, flowVars, meshVars, kernelVars, localVars, testVars>>
    \/ /\ part = "table" /\ TableNext
       /\ UNCHANGED <<part, queueVars, pipeVars, schedVars, minVars, soaVars,
                      setVars, flowVars, meshVars, kernelVars, localVars, testVars>>
    \/ /\ part = "map" /\ SoaNext
       /\ UNCHANGED <<part, queueVars, pipeVars, schedVars, minVars, tableVars,
                      setVars, flowVars, meshVars, kernelVars, localVars, testVars>>
    \/ /\ part = "sets" /\ SetNext
       /\ UNCHANGED <<part, queueVars, pipeVars, schedVars, minVars, tableVars,
                      soaVars, flowVars, meshVars, kernelVars, localVars, testVars>>
    \/ /\ part = "flow" /\ FlowNext
       /\ UNCHANGED <<part, queueVars, pipeVars, schedVars, minVars, tableVars,
                      soaVars, setVars, meshVars, kernelVars, localVars, testVars>>
    \/ /\ part = "mesh" /\ MeshNext
       /\ UNCHANGED <<part, queueVars, pipeVars, schedVars, minVars, tableVars,
                      soaVars, setVars, flowVars, kernelVars, localVars, testVars>>
    \/ /\ part = "kernels" /\ KernelNext
       /\ UNCHANGED <<part, queueVars, pipeVars, schedVars, minVars, tableVars,
                      soaVars, setVars, flowVars, meshVars, localVars, testVars>>
    \/ /\ part = "local arena" /\ LocalNext
       /\ UNCHANGED <<part, queueVars, pipeVars, schedVars, minVars, tableVars,
                      soaVars, setVars, flowVars, meshVars, kernelVars, testVars>>
    \/ /\ part = "persistent" /\ PersistentNext
       /\ UNCHANGED <<part, queueVars, pipeVars, schedVars, minVars, tableVars,
                      soaVars, setVars, flowVars, meshVars, kernelVars, localVars, auditVars>>
    \/ /\ part = "audit" /\ AuditNext
       /\ UNCHANGED <<part, queueVars, pipeVars, schedVars, minVars, tableVars,
                      soaVars, setVars, flowVars, meshVars, kernelVars, localVars, persistentVars>>

\* A thread that polls could take a step in every behaviour, so the fairness of
\* the queue is asked of its own behaviours only; the actions of SchedFairness
\* are disabled in the states in which another part leaves the scheduler.
PartsSpec ==
    /\ PartsInit /\ [][PartsNext]_partsVars
    /\ part = "queue" => QueueFairness
    /\ SchedFairness
-----------------------------------------------------------------------------
\* Types of the variables of every part.
PartsTypeOK ==
    /\ QueueTypeOK /\ PipeTypeOK /\ HeapTypeOK /\ MinTypeOK /\ TableTypeOK /\
       SoaTypeOK /\ SetTypeOK /\ FlowTypeOK /\ MeshTypeOK /\ KernelTypeOK /\
       LocalTypeOK /\ PersistentTypeOK /\ AuditTypeOK
=============================================================================
